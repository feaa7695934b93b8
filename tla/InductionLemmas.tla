--------------------------- MODULE InductionLemmas ---------------------------
(***************************************************************************)
(* Induction over the natural numbers, stated for sets of numbers: what    *)
(* the other proof modules use to unfold the recursive functions of the    *)
(* model and to reason about sequences of any length.                      *)
(***************************************************************************)
EXTENDS Naturals, SequencesExt, WellFoundedInduction, SequenceTheorems, TLAPS

\* A set of natural numbers that is not empty has a least element.
LEMMA LeastNumber ==
  ASSUME NEW S \in SUBSET Nat, S # {}
  PROVE  \E n \in S : \A m \in S : n <= m
<1>1. PICK n \in S : \A m \in S : ~(<<m, n>> \in OpToRel(<, Nat))
  BY WFMin, NatLessThanWellFounded
<1>2. \A m \in S : ~(m < n)
  BY <1>1 DEF OpToRel
<1> QED BY <1>2

\* What holds at 0 and passes from each number to the next, up to N, holds up to N.
LEMMA UpTo ==
  ASSUME NEW N \in Nat, NEW S, 0 \in S, \A n \in 0 .. N : n < N /\ n \in S => n + 1 \in S
  PROVE  0 .. N \subseteq S
<1> SUFFICES ASSUME 0 .. N \ S # {} PROVE FALSE
  OBVIOUS
<1>1. PICK n \in 0 .. N \ S : \A m \in 0 .. N \ S : n <= m
  <2>1. 0 .. N \ S \in SUBSET Nat
    OBVIOUS
  <2> QED BY <2>1, LeastNumber
<1>2. n # 0 /\ n \in 0 .. N /\ n - 1 \in 0 .. N /\ n - 1 < N /\ ~(n <= n - 1)
  BY <1>1
<1>3. n - 1 \in S
  BY <1>1, <1>2
<1>4. (n - 1) + 1 \in S
  <2> DEFINE m == n - 1
  <2>1. m \in 0 .. N /\ m < N /\ m \in S
    BY <1>2, <1>3
  <2> HIDE DEF m
  <2>2. m + 1 \in S
    BY <2>1
  <2> QED BY <2>2 DEF m
<1>5. (n - 1) + 1 = n
  BY <1>2
<1> QED BY <1>1, <1>4, <1>5

\* The recursive function behind FlattenSeq.
Unrolls(f, seqs) == f = [i \in 1..Len(seqs) |-> IF i = 1 THEN seqs[i] ELSE f[i - 1] \o seqs[i]]

\* It exists, and there is one.
LEMMA UnrollsOnce ==
  ASSUME NEW S, NEW seqs \in Seq(Seq(S))
  PROVE  /\ \E f : Unrolls(f, seqs) /\ \A i \in 1..Len(seqs) : f[i] \in Seq(S)
         /\ \A f, g : Unrolls(f, seqs) /\ Unrolls(g, seqs) => f = g
<1> DEFINE N == Len(seqs)
           Upto(k, f) == /\ f = [i \in 1..k |-> IF i = 1 THEN seqs[i] ELSE f[i - 1] \o seqs[i]]
                         /\ \A i \in 1..k : f[i] \in Seq(S)
           Have == {k \in 0..N : \E f : Upto(k, f)}
<1>1. N \in Nat /\ \A i \in 1..N : seqs[i] \in Seq(S)
  BY LenProperties, ElementOfSeq
<1>2. 0 \in Have
  <2>1. Upto(0, [i \in 1..0 |-> seqs[i]])
    OBVIOUS
  <2>2. 0 \in 0..N
    BY <1>1
  <2> HIDE DEF Upto
  <2> QED BY <2>1, <2>2
<1>3. ASSUME NEW k \in 0..N, k < N, k \in Have PROVE k + 1 \in Have
  <2>1. PICK f : Upto(k, f)
    BY <1>3
  <2> DEFINE v == IF k = 0 THEN seqs[1] ELSE f[k] \o seqs[k + 1]
             h == [i \in 1..(k + 1) |-> IF i <= k THEN f[i] ELSE v]
  <2>2. k \in Nat /\ k + 1 \in 1..N /\ 1 \in 1..N
    BY <1>1, <1>3
  <2>3. v \in Seq(S)
    <3>1. CASE k = 0
      BY <1>1, <2>2, <3>1
    <3>2. CASE k # 0
      <4>1. k \in 1..k /\ f[k] \in Seq(S) /\ seqs[k + 1] \in Seq(S)
        BY <1>1, <2>1, <2>2, <3>2
      <4> QED BY <3>2, <4>1, ConcatProperties
    <3> QED BY <3>1, <3>2
  <2>4. \A i \in 1..(k + 1) : h[i] = IF i = 1 THEN seqs[i] ELSE h[i - 1] \o seqs[i]
    <3> SUFFICES ASSUME NEW i \in 1..(k + 1)
                 PROVE  h[i] = IF i = 1 THEN seqs[i] ELSE h[i - 1] \o seqs[i]
      OBVIOUS
    <3>1. CASE i <= k
      <4>1. i \in 1..k /\ h[i] = f[i] /\ (i # 1 => i - 1 \in 1..(k + 1) /\ i - 1 <= k)
        BY <2>2, <3>1
      <4>2. f[i] = IF i = 1 THEN seqs[i] ELSE f[i - 1] \o seqs[i]
        BY <2>1, <4>1
      <4> QED BY <4>1, <4>2
    <3>2. CASE ~(i <= k)
      <4>1. i = k + 1 /\ (k # 0 => k \in 1..(k + 1) /\ i # 1 /\ i - 1 = k) /\ (k = 0 => i = 1)
        BY <2>2, <3>2
      <4> QED BY <2>2, <3>2, <4>1
    <3> QED BY <3>1, <3>2
  <2>5. \A i \in 1..(k + 1) : h[i] \in Seq(S)
    BY <2>1, <2>2, <2>3
  <2>6. h = [i \in 1..(k + 1) |-> IF i = 1 THEN seqs[i] ELSE h[i - 1] \o seqs[i]]
    <3> DEFINE g == [i \in 1..(k + 1) |-> IF i = 1 THEN seqs[i] ELSE h[i - 1] \o seqs[i]]
    <3>1. DOMAIN h = 1..(k + 1) /\ DOMAIN g = 1..(k + 1) /\ \A i \in 1..(k + 1) : g[i] = h[i]
      BY <2>4
    <3>2. h = [i \in 1..(k + 1) |-> h[i]] /\ g = [i \in 1..(k + 1) |-> g[i]]
      OBVIOUS
    <3> QED BY <3>1, <3>2
  <2> HIDE DEF h
  <2>7. k + 1 \in 0..N
    BY <1>1, <2>2
  <2> QED BY <2>5, <2>6, <2>7
<1>4. N \in Have
  <2> HIDE DEF Have
  <2>1. 0..N \subseteq Have
    BY <1>1, <1>2, <1>3, UpTo
  <2> QED BY <1>1, <2>1
<1>5. ASSUME NEW f, NEW g, Unrolls(f, seqs), Unrolls(g, seqs) PROVE f = g
  <2> DEFINE Same == {k \in 0..N : k = 0 \/ f[k] = g[k]}
  <2>0. f = [i \in 1..N |-> IF i = 1 THEN seqs[i] ELSE f[i - 1] \o seqs[i]]
    BY <1>5 DEF Unrolls
  <2>9. g = [i \in 1..N |-> IF i = 1 THEN seqs[i] ELSE g[i - 1] \o seqs[i]]
    BY <1>5 DEF Unrolls
  <2>1. \A i \in 1..N : /\ f[i] = IF i = 1 THEN seqs[i] ELSE f[i - 1] \o seqs[i]
                        /\ g[i] = IF i = 1 THEN seqs[i] ELSE g[i - 1] \o seqs[i]
    BY <2>0, <2>9
  <2>2. 0 \in Same
    BY <1>1
  <2>3. ASSUME NEW k \in 0..N, k < N, k \in Same PROVE k + 1 \in Same
    <3>1. k + 1 \in 1..N /\ k + 1 \in 0..N /\ (k + 1) - 1 = k /\ (k = 0 <=> k + 1 = 1)
      BY <1>1, <2>3
    <3> QED BY <2>1, <2>3, <3>1
  <2> HIDE DEF Same
  <2>4. 0..N \subseteq Same
    BY <1>1, <2>2, <2>3, UpTo
  <2>5. \A i \in 1..N : f[i] = g[i]
    <3>1. \A i \in 1..N : i \in 0..N /\ i # 0
      OBVIOUS
    <3> QED BY <2>4, <3>1 DEF Same
  <2> DEFINE F(h) == [i \in 1..N |-> h[i]]
  <2>6. F(f) = F(g)
    BY <2>5
  <2>7. f = F(f) /\ g = F(g)
    BY <2>0, <2>9
  <2> HIDE DEF F
  <2> QED BY <2>6, <2>7
<1>6. \E f : Unrolls(f, seqs) /\ \A i \in 1..Len(seqs) : f[i] \in Seq(S)
  BY <1>4 DEF Unrolls
<1> QED BY <1>5, <1>6

LEMMA FlattenUnrolled ==
  ASSUME NEW S, NEW seqs \in Seq(Seq(S)), NEW f, Unrolls(f, seqs)
  PROVE  /\ FlattenSeq(seqs) = IF Len(seqs) = 0 THEN <<>> ELSE f[Len(seqs)]
         /\ FlattenSeq(seqs) \in Seq(S)
<1>1. PICK g : Unrolls(g, seqs) /\ \A i \in 1..Len(seqs) : g[i] \in Seq(S)
  BY UnrollsOnce
<1>2. f = g
  BY <1>1, UnrollsOnce
<1> DEFINE Choice == CHOOSE h : Unrolls(h, seqs)
<1>3. Choice = f
  <2>1. Unrolls(Choice, seqs)
    OBVIOUS
  <2> HIDE DEF Choice
  <2> QED BY <2>1, UnrollsOnce
<1>4. FlattenSeq(seqs) = IF Len(seqs) = 0 THEN seqs ELSE Choice[Len(seqs)]
  BY DEF FlattenSeq, Unrolls
<1>5. Len(seqs) = 0 => seqs = <<>>
  BY EmptySeq, LenProperties
<1> HIDE DEF Choice
<1>6. FlattenSeq(seqs) = IF Len(seqs) = 0 THEN <<>> ELSE f[Len(seqs)]
  BY <1>3, <1>4, <1>5
<1>7. <<>> \in Seq(S)
  BY EmptySeq
<1>8. Len(seqs) # 0 => Len(seqs) \in 1..Len(seqs)
  BY LenProperties
<1> QED BY <1>1, <1>2, <1>6, <1>7, <1>8

\* Flattening goes sequence by sequence.
LEMMA FlattenAppend ==
  ASSUME NEW S, NEW seqs \in Seq(Seq(S)), NEW seq \in Seq(S)
  PROVE  /\ FlattenSeq(seqs) \in Seq(S)
         /\ FlattenSeq(Append(seqs, seq)) = FlattenSeq(seqs) \o seq
<1> DEFINE more == Append(seqs, seq)
           N == Len(seqs)
<1>1. /\ more \in Seq(Seq(S)) /\ Len(more) = N + 1 /\ N \in Nat
      /\ \A i \in 1..N : more[i] = seqs[i]
      /\ more[N + 1] = seq
  BY AppendProperties, LenProperties
<1> HIDE DEF more, N
<1>2. PICK f : Unrolls(f, more)
  BY <1>1, UnrollsOnce
<1> DEFINE g == [i \in 1..N |-> f[i]]
<1>3. f = [i \in 1..(N + 1) |-> IF i = 1 THEN more[i] ELSE f[i - 1] \o more[i]]
  BY <1>1, <1>2 DEF Unrolls
<1>4. \A i \in 1..(N + 1) : f[i] = IF i = 1 THEN more[i] ELSE f[i - 1] \o more[i]
  BY <1>3
<1>5. \A i \in 1..N : g[i] = IF i = 1 THEN seqs[i] ELSE g[i - 1] \o seqs[i]
  <2> SUFFICES ASSUME NEW i \in 1..N
               PROVE  g[i] = IF i = 1 THEN seqs[i] ELSE g[i - 1] \o seqs[i]
    OBVIOUS
  <2>1. i \in 1..(N + 1) /\ (i # 1 => i - 1 \in 1..N)
    BY <1>1
  <2> QED BY <1>1, <1>4, <2>1
<1>6. Unrolls(g, seqs)
  <2>1. [i \in 1..N |-> g[i]] = [i \in 1..N |-> IF i = 1 THEN seqs[i] ELSE g[i - 1] \o seqs[i]]
    BY <1>5
  <2>2. g = [i \in 1..N |-> g[i]]
    OBVIOUS
  <2> HIDE DEF g
  <2> QED BY <2>1, <2>2 DEF Unrolls, N
<1>7. /\ FlattenSeq(seqs) = IF N = 0 THEN <<>> ELSE g[N]
      /\ FlattenSeq(seqs) \in Seq(S)
      /\ FlattenSeq(more) = f[N + 1]
  <2> HIDE DEF g
  <2>1. N + 1 # 0
    BY <1>1
  <2> QED BY <1>1, <1>2, <1>6, <2>1, FlattenUnrolled DEF N
<1>8. f[N + 1] = FlattenSeq(seqs) \o seq
  <2>1. CASE N = 0
    <3>1. f[N + 1] = seq
      BY <1>1, <1>4, <2>1
    <3> QED BY <1>7, <2>1, <3>1, ConcatEmptySeq
  <2>2. CASE N # 0
    <3>1. N \in 1..N /\ N + 1 \in 1..(N + 1) /\ N + 1 # 1 /\ (N + 1) - 1 = N
      BY <1>1, <2>2
    <3> QED BY <1>1, <1>4, <1>7, <2>2, <3>1
  <2> QED BY <2>1, <2>2
<1> QED BY <1>7, <1>8 DEF more

LEMMA FlattenType ==
  ASSUME NEW S, NEW seqs \in Seq(Seq(S))
  PROVE  FlattenSeq(seqs) \in Seq(S)
BY UnrollsOnce, FlattenUnrolled

LEMMA FlattenNothing == FlattenSeq(<<>>) = <<>>
BY DEF FlattenSeq

LEMMA Quotient ==
  ASSUME NEW l \in Nat, NEW b \in Nat \ {0}
  PROVE  l \div b \in Nat /\ (l \div b) * b \in Nat /\ (l \div b) * b <= l
<1>1. l \div b \in Nat
  OBVIOUS
<1>2. (l \div b) * b <= l
  OBVIOUS
<1> QED BY <1>1, <1>2

\* A stretch of a sequence.
LEMMA StretchType ==
  ASSUME NEW S, NEW seq \in Seq(S), NEW m \in Nat, NEW n \in Nat, n <= Len(seq)
  PROVE  /\ SubSeq(seq, m + 1, n) \in Seq(S)
         /\ Len(SubSeq(seq, m + 1, n)) = IF m <= n THEN n - m ELSE 0
         /\ \A i \in 1..(n - m) : SubSeq(seq, m + 1, n)[i] = seq[m + i]
<1>1. \A i \in (m + 1)..n : seq[i] \in S
  <2>1. \A i \in (m + 1)..n : i \in 1..Len(seq)
    BY LenProperties
  <2> QED BY <2>1, ElementOfSeq
<1>2. m + 1 \in Int /\ n \in Int
  OBVIOUS
<1>3. /\ SubSeq(seq, m + 1, n) \in Seq(S)
      /\ Len(SubSeq(seq, m + 1, n)) = IF m + 1 <= n THEN n - (m + 1) + 1 ELSE 0
      /\ \A i \in 1 .. n - (m + 1) + 1 : SubSeq(seq, m + 1, n)[i] = seq[(m + 1) + i - 1]
  BY <1>1, <1>2, SubSeqProperties
<1> QED BY <1>3

LEMMA AppendToConcat ==
  ASSUME NEW S, NEW a \in Seq(S), NEW b \in Seq(S), NEW e \in S
  PROVE  a \o b \in Seq(S) /\ a \o Append(b, e) = Append(a \o b, e)
<1>1. <<e>> \in Seq(S) /\ a \o b \in Seq(S)
  BY ConcatProperties
<1>2. Append(b, e) = b \o <<e>> /\ Append(a \o b, e) = (a \o b) \o <<e>>
  BY <1>1, AppendIsConcat
<1> QED BY <1>1, <1>2, ConcatAssociative

\* Stretches of a sequence that follow each other, flattened, are one stretch.
Ascends(at, n, top) ==
  /\ at[0] = 0
  /\ \A k \in 0..n : at[k] \in Nat /\ at[k] <= top /\ (k < n => at[k] <= at[k + 1])

Stretches(seq, at, n) == [i \in 1..n |-> SubSeq(seq, at[i - 1] + 1, at[i])]

Joins(out, seq, at, n) ==
  FlattenSeq(out \o Stretches(seq, at, n)) = FlattenSeq(out) \o SubSeq(seq, 1, at[n])

LEMMA FlattenStretches ==
  ASSUME NEW S, NEW out \in Seq(Seq(S)), NEW seq \in Seq(S), NEW n \in Nat,
         NEW at, Ascends(at, n, Len(seq))
  PROVE  /\ out \o Stretches(seq, at, n) \in Seq(Seq(S))
         /\ Joins(out, seq, at, n)
<1> DEFINE Cuts(k) == [i \in 1..k |-> SubSeq(seq, at[i - 1] + 1, at[i])]
           Good(k) == /\ Cuts(k) \in Seq(Seq(S))
                      /\ FlattenSeq(out \o Cuts(k)) = FlattenSeq(out) \o SubSeq(seq, 1, at[k])
           Upto == {k \in 0..n : Good(k)}
<1>1. at[0] = 0 /\ \A k \in 0..n : at[k] \in Nat /\ at[k] <= Len(seq) /\ (k < n => at[k] <= at[k + 1])
  BY DEF Ascends
<1>2. \A a, b, c \in Seq(S) : (a \o b) \o c = a \o (b \o c)
  BY ConcatAssociative, SMTT(30)
<1>3. FlattenSeq(out) \in Seq(S)
  BY FlattenType
<1>4. 0 \in Upto
  <2>1. Cuts(0) = <<>>
    OBVIOUS
  <2>2. SubSeq(seq, 1, 0) = <<>>
    BY SubSeqEmpty
  <2>3. <<>> \in Seq(Seq(S)) /\ <<>> \in Seq(S)
    BY EmptySeq
  <2>4. out \o <<>> = out /\ FlattenSeq(out) \o <<>> = FlattenSeq(out)
    BY <1>3, <2>3, ConcatEmptySeq
  <2>5. Good(0)
    BY <1>1, <2>1, <2>2, <2>3, <2>4
  <2> HIDE DEF Good
  <2> QED BY <2>5
<1>5. ASSUME NEW k \in 0..n, k < n, k \in Upto PROVE k + 1 \in Upto
  <2> DEFINE piece == SubSeq(seq, at[k] + 1, at[k + 1])
             c == Cuts(k)
             d == Cuts(k + 1)
             before == SubSeq(seq, 1, at[k])
  <2>1. /\ at[k] \in Nat /\ at[k + 1] \in Nat /\ at[k] <= at[k + 1]
        /\ at[k] <= Len(seq) /\ at[k + 1] <= Len(seq) /\ k + 1 \in 0..n
    <3>1. k + 1 \in 0..n
      BY <1>5
    <3> QED BY <1>1, <1>5, <3>1
  <2>2. c \in Seq(Seq(S)) /\ FlattenSeq(out \o c) = FlattenSeq(out) \o before
    BY <1>5
  <2>3. piece \in Seq(S)
    BY <2>1, StretchType
  <2>4. d[k + 1] = piece /\ \A i \in 1..k : d[i] = c[i]
    <3>1. (k + 1) - 1 = k /\ k + 1 \in 1..(k + 1) /\ \A i \in 1..k : i \in 1..(k + 1)
      OBVIOUS
    <3>2. \A i \in 1..(k + 1) : d[i] = SubSeq(seq, at[i - 1] + 1, at[i])
      BY DEF d
    <3>3. \A i \in 1..k : c[i] = SubSeq(seq, at[i - 1] + 1, at[i])
      BY DEF c
    <3> HIDE DEF c, d
    <3> QED BY <3>1, <3>2, <3>3
  <2>5. d = [i \in 1..(k + 1) |-> d[i]] /\ Len(c) = k
    <3>1. Len(c) = k
      BY DEF c
    <3>2. d = [i \in 1..(k + 1) |-> d[i]]
      BY DEF d
    <3> QED BY <3>1, <3>2
  <2>6. before \in Seq(S) /\ before \o piece = SubSeq(seq, 1, at[k + 1])
    <3>1. Len(seq) \in Nat
      BY LenProperties
    <3>2. 1 \in 1..Len(seq) + 1 /\ at[k] \in (1 - 1)..Len(seq) /\ at[k + 1] \in at[k]..Len(seq)
      BY <2>1, <3>1
    <3>3. 0 \in Nat /\ 0 + 1 = 1
      OBVIOUS
    <3>4. before \in Seq(S)
      BY <2>1, <3>3, StretchType
    <3> QED BY <3>2, <3>4, ConcatAdjacentSubSeq
  <2> HIDE DEF piece, c, d, before
  <2>8. d = Append(c, piece)
    <3> DEFINE longer == Append(c, piece)
    <3>1. /\ longer \in Seq(Seq(S)) /\ Len(longer) = k + 1 /\ longer[k + 1] = piece
          /\ \A i \in 1..k : longer[i] = c[i]
      BY <2>2, <2>3, <2>5, AppendProperties
    <3> HIDE DEF longer
    <3>2. \A i \in 1..(k + 1) : i \in 1..k \/ i = k + 1
      OBVIOUS
    <3>3. \A i \in 1..(k + 1) : longer[i] = d[i]
      BY <2>4, <3>1, <3>2
    <3>4. \A i \in 1..(k + 1) : longer[i] \in Seq(S)
      BY <3>1, ElementOfSeq
    <3>5. d \in [1..(k + 1) -> Seq(S)]
      BY <2>5, <3>3, <3>4
    <3>6. d \in Seq(Seq(S)) /\ Len(d) = k + 1
      BY <3>5
    <3> QED BY <3>1, <3>3, <3>6, SeqEqual DEF longer
  <2>9. d \in Seq(Seq(S))
    BY <2>2, <2>3, <2>8, AppendProperties
  <2>10. out \o c \in Seq(Seq(S)) /\ out \o d = Append(out \o c, piece)
    <3> DEFINE Q == Seq(S)
    <3>1. out \in Seq(Q) /\ c \in Seq(Q) /\ piece \in Q
      BY <2>2, <2>3
    <3> HIDE DEF Q
    <3>2. out \o c \in Seq(Q) /\ out \o Append(c, piece) = Append(out \o c, piece)
      BY <3>1, AppendToConcat
    <3> QED BY <2>8, <3>2 DEF Q
  <2>11. FlattenSeq(out \o d) = (FlattenSeq(out) \o before) \o piece
    BY <2>2, <2>3, <2>10, FlattenAppend
  <2>12. FlattenSeq(out \o d) = FlattenSeq(out) \o SubSeq(seq, 1, at[k + 1])
    <3> DEFINE F == FlattenSeq(out)
    <3>1. (F \o before) \o piece = F \o (before \o piece)
      <4>1. F \in Seq(S)
        BY <1>3
      <4> HIDE DEF F
      <4> QED BY <1>2, <2>3, <2>6, <4>1
    <3> QED BY <2>6, <2>11, <3>1
  <2>13. Good(k + 1)
    BY <2>9, <2>12 DEF d
  <2> HIDE DEF Good
  <2> QED BY <2>1, <2>13
<1>6. n \in Upto
  <2> HIDE DEF Upto
  <2>1. 0..n \subseteq Upto
    BY <1>4, <1>5, UpTo
  <2> QED BY <2>1
<1>7. Good(n) /\ Stretches(seq, at, n) = Cuts(n)
  BY <1>6 DEF Stretches
<1> HIDE DEF Cuts
<1> QED BY <1>7, ConcatProperties DEF Joins

\* Where the elements of flattened sequences come from: the pairs of a sequence's number
\* and an element's number in it.
PlacesIn(seqs) == FlattenSeq([r \in 1..Len(seqs) |-> [n \in 1..Len(seqs[r]) |-> <<r, n>>]])

Precedes(p, q) == p[1] < q[1] \/ (p[1] = q[1] /\ p[2] < q[2])

\* places are the pairs for the first k sequences, in their order, and flat has their elements.
Laid(seqs, k, places, flat) ==
  /\ Len(flat) = Len(places)
  /\ \A i \in 1..Len(places) :
       /\ places[i] \in Nat \X Nat
       /\ places[i][1] \in 1..k /\ places[i][2] \in 1..Len(seqs[places[i][1]])
       /\ flat[i] = seqs[places[i][1]][places[i][2]]
  /\ \A i, j \in 1..Len(places) : i < j => Precedes(places[i], places[j])
  /\ \A r \in 1..k : \A n \in 1..Len(seqs[r]) : \E i \in 1..Len(places) : places[i] = <<r, n>>

LEMMA LaidOneMore ==
  ASSUME NEW S, NEW seqs \in Seq(Seq(S)), NEW k \in Nat, k + 1 <= Len(seqs),
         NEW places \in Seq(Nat \X Nat), NEW flat \in Seq(S), Laid(seqs, k, places, flat)
  PROVE  LET row == [n \in 1..Len(seqs[k + 1]) |-> <<k + 1, n>>]
         IN  /\ row \in Seq(Nat \X Nat)
             /\ Laid(seqs, k + 1, places \o row, flat \o seqs[k + 1])
<1> DEFINE new == seqs[k + 1]
           row == [n \in 1..Len(seqs[k + 1]) |-> <<k + 1, n>>]
           P == places \o row
           F == flat \o new
           A == Len(places)
           B == Len(new)
<1>1. new \in Seq(S) /\ B \in Nat /\ A \in Nat /\ Len(flat) = A /\ k + 1 \in Nat
  <2>1. k + 1 \in 1..Len(seqs)
    BY LenProperties
  <2>2. new \in Seq(S)
    BY <2>1, ElementOfSeq
  <2> HIDE DEF new
  <2> QED BY <2>2, LenProperties DEF Laid
<1> HIDE DEF new
<1>2. row \in Seq(Nat \X Nat) /\ Len(row) = B /\ \A n \in 1..B : row[n] = <<k + 1, n>>
  <2>1. \A n \in 1..B : <<k + 1, n>> \in Nat \X Nat
    BY <1>1
  <2>2. row = [n \in 1..B |-> <<k + 1, n>>]
    BY DEF new
  <2>3. row \in [1..B -> Nat \X Nat]
    BY <2>1, <2>2
  <2> QED BY <1>1, <2>2, <2>3, SeqDef, LenProperties, SMTT(30)
<1> HIDE DEF row
<1>3. /\ Len(P) = A + B
      /\ \A i \in 1..(A + B) : P[i] = IF i <= A THEN places[i] ELSE row[i - A]
  <2>1. /\ Len(places \o row) = Len(places) + Len(row)
        /\ \A i \in 1 .. Len(places) + Len(row) : (places \o row)[i] =
              IF i <= Len(places) THEN places[i] ELSE row[i - Len(places)]
    <3> DEFINE Q == Nat \X Nat
    <3>1. places \in Seq(Q) /\ row \in Seq(Q)
      BY <1>2
    <3> HIDE DEF Q
    <3> QED BY <3>1, ConcatProperties
  <2>2. Len(row) = B /\ Len(places) = A
    BY <1>2
  <2> HIDE DEF A, B
  <2> QED BY <2>1, <2>2
<1>4. /\ Len(F) = A + B
      /\ \A i \in 1..(A + B) : F[i] = IF i <= A THEN flat[i] ELSE new[i - A]
  <2>1. /\ Len(flat \o new) = Len(flat) + Len(new)
        /\ \A i \in 1 .. Len(flat) + Len(new) : (flat \o new)[i] =
              IF i <= Len(flat) THEN flat[i] ELSE new[i - Len(flat)]
    <3>1. flat \in Seq(S) /\ new \in Seq(S)
      BY <1>1
    <3> HIDE DEF A, B
    <3> QED BY <3>1, ConcatProperties
  <2>2. Len(new) = B /\ Len(flat) = A
    BY <1>1
  <2> HIDE DEF A, B
  <2> QED BY <2>1, <2>2
<1> HIDE DEF P, F, A, B
<1>5. \A i \in 1..(A + B) : i > A => i - A \in 1..B /\ P[i] = <<k + 1, i - A>> /\ F[i] = new[i - A]
  <2> SUFFICES ASSUME NEW i \in 1..(A + B), i > A
               PROVE  i - A \in 1..B /\ P[i] = <<k + 1, i - A>> /\ F[i] = new[i - A]
    OBVIOUS
  <2>1. i - A \in 1..B /\ ~(i <= A)
    BY <1>1
  <2>2. P[i] = row[i - A] /\ F[i] = new[i - A]
    BY <1>3, <1>4, <2>1
  <2> QED BY <1>2, <2>1, <2>2
<1>6. \A i \in 1..(A + B) : i <= A => i \in 1..A /\ P[i] = places[i] /\ F[i] = flat[i]
  <2> SUFFICES ASSUME NEW i \in 1..(A + B), i <= A
               PROVE  i \in 1..A /\ P[i] = places[i] /\ F[i] = flat[i]
    OBVIOUS
  <2>1. i \in 1..A
    BY <1>1
  <2>2. P[i] = places[i]
    BY <1>3
  <2>3. F[i] = flat[i]
    BY <1>4
  <2> QED BY <2>1, <2>2, <2>3
<1>7. ASSUME NEW i \in 1..Len(P)
      PROVE  /\ P[i] \in Nat \X Nat
             /\ P[i][1] \in 1..(k + 1) /\ P[i][2] \in 1..Len(seqs[P[i][1]])
             /\ F[i] = seqs[P[i][1]][P[i][2]]
  <2>1. CASE i <= A
    <3>1. i \in 1..A /\ P[i] = places[i] /\ F[i] = flat[i]
      BY <1>3, <1>6, <2>1
    <3>2. /\ places[i] \in Nat \X Nat
          /\ places[i][1] \in 1..k /\ places[i][2] \in 1..Len(seqs[places[i][1]])
          /\ flat[i] = seqs[places[i][1]][places[i][2]]
      BY <3>1 DEF Laid, A
    <3>3. places[i][1] \in 1..(k + 1)
      BY <3>2, SMTT(30)
    <3> QED BY <3>1, <3>2, <3>3
  <2>2. CASE i > A
    <3>1. i - A \in 1..B /\ P[i] = <<k + 1, i - A>> /\ F[i] = new[i - A]
      BY <1>3, <1>5, <2>2
    <3>2. P[i][1] = k + 1 /\ P[i][2] = i - A /\ P[i] \in Nat \X Nat
      BY <1>1, <3>1, SMTT(30)
    <3>3. k + 1 \in 1..(k + 1)
      BY <1>1
    <3> QED BY <3>1, <3>2, <3>3 DEF new, B
  <2> QED BY <1>1, <1>3, <2>1, <2>2
<1>8. ASSUME NEW i \in 1..Len(P), NEW j \in 1..Len(P), i < j PROVE Precedes(P[i], P[j])
  <2>1. CASE j <= A
    <3>1. i \in 1..A /\ j \in 1..A /\ P[i] = places[i] /\ P[j] = places[j]
      BY <1>1, <1>3, <1>6, <1>8, <2>1
    <3> QED BY <1>8, <3>1 DEF Laid, A
  <2>2. CASE i <= A /\ j > A
    <3>1. i \in 1..A /\ P[i] = places[i] /\ P[j] = <<k + 1, j - A>>
      BY <1>3, <1>5, <1>6, <2>2
    <3>2. places[i][1] \in 1..k
      BY <3>1 DEF Laid, A
    <3>3. P[i][1] = places[i][1] /\ P[j][1] = k + 1
      BY <3>1
    <3>4. places[i][1] < k + 1
      BY <3>2, SMTT(30)
    <3>5. P[i][1] < P[j][1]
      BY <3>3, <3>4
    <3> QED BY <3>5 DEF Precedes
  <2>3. CASE i > A
    <3>1. P[i] = <<k + 1, i - A>> /\ P[j] = <<k + 1, j - A>>
      BY <1>1, <1>3, <1>5, <1>8, <2>3
    <3>2. i - A < j - A
      BY <1>1, <1>3, <1>8
    <3>3. P[i][1] = P[j][1] /\ P[i][2] < P[j][2]
      BY <3>1, <3>2
    <3> QED BY <3>3 DEF Precedes
  <2> QED BY <1>1, <1>3, <2>1, <2>2, <2>3
<1>9. ASSUME NEW r \in 1..(k + 1), NEW n \in 1..Len(seqs[r]) PROVE \E i \in 1..Len(P) : P[i] = <<r, n>>
  <2>1. CASE r = k + 1
    <3>1. n \in 1..B
      BY <2>1 DEF B, new
    <3>2. A + n \in 1..(A + B) /\ A + n > A /\ (A + n) - A = n
      BY <1>1, <3>1
    <3>3. P[A + n] = <<k + 1, n>>
      BY <1>5, <3>2
    <3> QED BY <1>3, <2>1, <3>2, <3>3
  <2>2. CASE r # k + 1
    <3>1. r \in 1..k
      BY <2>2
    <3>2. PICK i \in 1..A : places[i] = <<r, n>>
      BY <3>1 DEF Laid, A
    <3>3. i \in 1..(A + B) /\ i <= A
      BY <1>1
    <3> QED BY <1>3, <1>6, <3>2, <3>3
  <2> QED BY <2>1, <2>2
<1>10. Len(F) = Len(P)
  BY <1>3, <1>4
<1>11. Laid(seqs, k + 1, P, F)
  BY <1>7, <1>8, <1>9, <1>10 DEF Laid
<1> QED BY <1>2, <1>11 DEF P, F, row, new

LEMMA OneMore ==
  ASSUME NEW S, NEW k \in Nat, NEW s, \A r \in 1..(k + 1) : s[r] \in S
  PROVE  /\ [r \in 1..k |-> s[r]] \in Seq(S)
         /\ [r \in 1..(k + 1) |-> s[r]] = Append([r \in 1..k |-> s[r]], s[k + 1])
<1> DEFINE front == [r \in 1..k |-> s[r]]
           whole == [r \in 1..(k + 1) |-> s[r]]
<1>1. \A r \in 1..k : r \in 1..(k + 1)
  OBVIOUS
<1>2. front \in [1..k -> S] /\ whole \in [1..(k + 1) -> S]
  BY <1>1
<1>3. front \in Seq(S) /\ Len(front) = k /\ whole \in Seq(S) /\ Len(whole) = k + 1 /\ k + 1 \in 1..(k + 1)
  <2>1. k + 1 \in Nat
    OBVIOUS
  <2> HIDE DEF front, whole
  <2>2. front \in Seq(S) /\ Len(front) = k
    BY <1>2, SeqDef, LenProperties
  <2>3. whole \in Seq(S) /\ Len(whole) = k + 1
    BY <1>2, <2>1, SeqDef, LenProperties
  <2> QED BY <2>2, <2>3
<1>4. s[k + 1] \in S
  BY <1>3
<1> DEFINE more == Append(front, s[k + 1])
<1>5. /\ more \in Seq(S) /\ Len(more) = k + 1
      /\ \A r \in 1..k : more[r] = front[r]
      /\ more[k + 1] = s[k + 1]
  <2> HIDE DEF front
  <2> QED BY <1>3, <1>4, AppendProperties
<1>6. \A r \in 1..(k + 1) : more[r] = whole[r]
  <2> SUFFICES ASSUME NEW r \in 1..(k + 1) PROVE more[r] = whole[r]
    OBVIOUS
  <2>1. r \in 1..k \/ r = k + 1
    OBVIOUS
  <2>2. r \in 1..k => front[r] = s[r]
    OBVIOUS
  <2>3. whole[r] = s[r]
    OBVIOUS
  <2> HIDE DEF more, front, whole
  <2> QED BY <1>5, <2>1, <2>2, <2>3
<1>7. more = whole
  <2> HIDE DEF more, whole
  <2> QED BY <1>3, <1>5, <1>6, SeqEqual
<1> QED BY <1>3, <1>7

\* Flattening puts every element of every sequence into one place, in their order.
LEMMA FlattenLays ==
  ASSUME NEW S, NEW seqs \in Seq(Seq(S))
  PROVE  /\ PlacesIn(seqs) \in Seq(Nat \X Nat)
         /\ Laid(seqs, Len(seqs), PlacesIn(seqs), FlattenSeq(seqs))
<1> DEFINE N == Len(seqs)
           Q == Nat \X Nat
           Row(r) == [n \in 1..Len(seqs[r]) |-> <<r, n>>]
           marks(k) == [r \in 1..k |-> Row(r)]
           head(k) == [r \in 1..k |-> seqs[r]]
           U == {k \in Nat : /\ k <= N => /\ marks(k) \in Seq(Seq(Q)) /\ head(k) \in Seq(Seq(S))
                                          /\ FlattenSeq(marks(k)) \in Seq(Q) /\ FlattenSeq(head(k)) \in Seq(S)
                                          /\ Laid(seqs, k, FlattenSeq(marks(k)), FlattenSeq(head(k)))}
<1>1. N \in Nat /\ \A r \in 1..N : seqs[r] \in Seq(S)
  BY LenProperties, ElementOfSeq
<1>2. 0 \in U
  <2>1. marks(0) = <<>> /\ head(0) = <<>>
    OBVIOUS
  <2>2. Laid(seqs, 0, <<>>, <<>>)
    BY DEF Laid
  <2>3. <<>> \in Seq(Seq(Q)) /\ <<>> \in Seq(Seq(S)) /\ <<>> \in Seq(Q) /\ <<>> \in Seq(S)
    OBVIOUS
  <2> HIDE DEF marks, head, Q
  <2> QED BY <2>1, <2>2, <2>3, FlattenNothing
<1>3. ASSUME NEW k \in 0..N, k < N, k \in U PROVE k + 1 \in U
  <2>0. k \in Nat /\ k + 1 \in Nat /\ k <= N /\ k + 1 <= N /\ k + 1 \in 1..(k + 1) /\ \A r \in 1..(k + 1) : r \in 1..N
    BY <1>1, <1>3
  <2>1. /\ marks(k) \in Seq(Seq(Q)) /\ head(k) \in Seq(Seq(S))
        /\ FlattenSeq(marks(k)) \in Seq(Q) /\ FlattenSeq(head(k)) \in Seq(S)
        /\ Laid(seqs, k, FlattenSeq(marks(k)), FlattenSeq(head(k)))
    BY <1>3, <2>0
  <2>2. \A r \in 1..(k + 1) : Row(r) \in Seq(Q)
    <3> SUFFICES ASSUME NEW r \in 1..(k + 1) PROVE Row(r) \in Seq(Q)
      OBVIOUS
    <3>1. Len(seqs[r]) \in Nat /\ r \in Nat
      BY <1>1, <2>0, LenProperties
    <3>2. \A n \in 1..Len(seqs[r]) : <<r, n>> \in Q
      BY <3>1
    <3> HIDE DEF Q
    <3> QED BY <3>1, <3>2, SeqDef
  <2>3. \A r \in 1..(k + 1) : seqs[r] \in Seq(S)
    BY <1>1, <2>0
  <2>4. marks(k + 1) = Append(marks(k), Row(k + 1))
    <3> DEFINE s == [r \in 1..(k + 1) |-> Row(r)]
    <3>1. \A r \in 1..(k + 1) : s[r] = Row(r) /\ s[r] \in Seq(Q)
      BY <2>2
    <3>2. [r \in 1..k |-> s[r]] = marks(k)
      OBVIOUS
    <3>3. [r \in 1..(k + 1) |-> s[r]] = marks(k + 1)
      OBVIOUS
    <3>4. s[k + 1] = Row(k + 1)
      BY <2>0
    <3> HIDE DEF s, marks, Row, Q
    <3>5. [r \in 1..(k + 1) |-> s[r]] = Append([r \in 1..k |-> s[r]], s[k + 1])
      BY <2>0, <3>1, OneMore
    <3> QED BY <3>2, <3>3, <3>4, <3>5
  <2>5. head(k + 1) = Append(head(k), seqs[k + 1])
    BY <2>0, <2>3, OneMore
  <2>6. Row(k + 1) \in Seq(Q) /\ seqs[k + 1] \in Seq(S)
    BY <2>0, <2>2, <2>3
  <2> DEFINE m == FlattenSeq(marks(k))
             h == FlattenSeq(head(k))
  <2>7. /\ FlattenSeq(marks(k + 1)) = m \o Row(k + 1)
        /\ FlattenSeq(head(k + 1)) = h \o seqs[k + 1]
    <3> HIDE DEF marks, head, Row, Q
    <3> QED BY <2>1, <2>4, <2>5, <2>6, FlattenAppend
  <2>8. marks(k + 1) \in Seq(Seq(Q)) /\ head(k + 1) \in Seq(Seq(S))
    <3> DEFINE V == Seq(Q)
               W == Seq(S)
               a == marks(k)
               b == head(k)
               x == Row(k + 1)
               y == seqs[k + 1]
    <3>1. a \in Seq(V) /\ x \in V /\ b \in Seq(W) /\ y \in W
      BY <2>1, <2>6
    <3> HIDE DEF V, W, a, b, x, y
    <3>2. Append(a, x) \in Seq(V) /\ Append(b, y) \in Seq(W)
      BY <3>1, AppendProperties
    <3> QED BY <2>4, <2>5, <3>2 DEF V, W, a, b, x, y
  <2>9. FlattenSeq(marks(k + 1)) \in Seq(Q) /\ FlattenSeq(head(k + 1)) \in Seq(S)
    <3> HIDE DEF marks, head, Row, Q
    <3> QED BY <2>8, FlattenType
  <2>10. Laid(seqs, k + 1, m \o Row(k + 1), h \o seqs[k + 1])
    <3>1. m \in Seq(Nat \X Nat) /\ h \in Seq(S) /\ Laid(seqs, k, m, h)
      BY <2>1
    <3> HIDE DEF m, h
    <3> QED BY <2>0, <3>1, LaidOneMore
  <2> HIDE DEF marks, head, Row, Q, m, h
  <2> QED BY <2>0, <2>7, <2>8, <2>9, <2>10
<1>4. N \in U
  <2>1. \A n \in 0..N : n < N /\ n \in U => n + 1 \in U
    BY <1>3
  <2> HIDE DEF U, N
  <2>2. 0..N \subseteq U
    BY <1>1, <1>2, <2>1, UpTo
  <2> QED BY <1>1, <2>2
<1>5. /\ FlattenSeq(marks(N)) \in Seq(Q)
      /\ Laid(seqs, N, FlattenSeq(marks(N)), FlattenSeq(head(N)))
  <2>1. N <= N
    BY <1>1
  <2> HIDE DEF N, marks, head, Q
  <2> QED BY <1>4, <2>1
<1>6. head(N) = seqs
  <2>1. seqs = [r \in 1..N |-> seqs[r]]
    BY LenProperties
  <2> QED BY <2>1
<1>7. FlattenSeq(marks(N)) = PlacesIn(seqs)
  BY DEF PlacesIn
<1> QED
  <2> HIDE DEF marks, head
  <2> QED BY <1>5, <1>6, <1>7

LEMMA TableIsSeq ==
  ASSUME NEW S, NEW n \in Nat, NEW f \in [1..n -> S]
  PROVE  f \in Seq(S) /\ Len(f) = n
<1>1. f \in Seq(S)
  BY SeqDef
<1> QED BY <1>1, LenProperties
=============================================================================
