--------------------------- MODULE DagWiringProofs ---------------------------
(***************************************************************************)
(* Theorems about DagWiring, for every set of ids and every number of      *)
(* steps: what validate accepts is wired as DagExecutor assumes it.        *)
(***************************************************************************)
EXTENDS DagWiring, InductionLemmas, FiniteSetTheorems, TLAPS

(***************************************************************************)
(* Picking members of a sequence                                           *)
(***************************************************************************)
Part(seq, want, i) == IF i \in want THEN <<seq[i]>> ELSE <<>>
Parts(seq, want, n) == [i \in 1..n |-> Part(seq, want, i)]

\* out holds the members of the first n that are wanted, in their order.
PickedFrom(out, seq, want, n) ==
  /\ Len(out) <= n
  /\ \A k \in 1..Len(out) : \E i \in want : i <= n /\ out[k] = seq[i]
  /\ \A i \in want : i <= n => \E k \in 1..Len(out) : out[k] = seq[i]
  /\ \A k, m \in 1..Len(out) : \A i, j \in want :
       k < m /\ out[k] = seq[i] /\ out[m] = seq[j] => i < j

LEMMA PartType ==
  ASSUME NEW S, NEW seq \in Seq(S), NEW want \in SUBSET (1..Len(seq)), NEW n \in 0..Len(seq)
  PROVE  /\ Parts(seq, want, n) \in Seq(Seq(S))
         /\ n < Len(seq) => /\ Part(seq, want, n + 1) \in Seq(S)
                            /\ Parts(seq, want, n + 1) = Append(Parts(seq, want, n), Part(seq, want, n + 1))
<1>1. Len(seq) \in Nat /\ \A i \in 1..Len(seq) : seq[i] \in S
  BY LenProperties, ElementOfSeq
<1>2. ASSUME NEW i \in 1..Len(seq) PROVE Part(seq, want, i) \in Seq(S)
  BY <1>1 DEF Part
<1>3. Parts(seq, want, n) \in Seq(Seq(S)) /\ Len(Parts(seq, want, n)) = n
  <2>1. n \in Nat /\ \A i \in 1..n : i \in 1..Len(seq)
    BY <1>1
  <2>2. \A i \in 1..n : Part(seq, want, i) \in Seq(S)
    BY <1>2, <2>1
  <2> QED BY <2>1, <2>2, IsASeq DEF Parts
<1>4. ASSUME n < Len(seq)
      PROVE  Parts(seq, want, n + 1) = Append(Parts(seq, want, n), Part(seq, want, n + 1))
  <2> DEFINE P(i) == Part(seq, want, i)
             before == [i \in 1..n |-> P(i)]
             after == [i \in 1..(n + 1) |-> P(i)]
  <2>1. n \in Nat /\ n + 1 \in 1..Len(seq)
    BY <1>1, <1>4
  <2>2. before \in Seq(Seq(S)) /\ Len(before) = n
    BY <1>3 DEF Parts
  <2>3. P(n + 1) \in Seq(S)
    BY <1>2, <2>1
  <2> HIDE DEF P
  <2>4. after = Append(before, P(n + 1))
    BY <2>1, <2>2, <2>3
  <2> QED BY <2>4 DEF P, Parts
<1> QED BY <1>1, <1>2, <1>3, <1>4

LEMMA Picked ==
  ASSUME NEW S, NEW seq \in Seq(S), \A i, j \in DOMAIN seq : seq[i] = seq[j] => i = j,
         NEW want \in SUBSET (1..Len(seq))
  PROVE  /\ FlattenSeq(Parts(seq, want, Len(seq))) \in Seq(S)
         /\ PickedFrom(FlattenSeq(Parts(seq, want, Len(seq))), seq, want, Len(seq))
<1> DEFINE N == Len(seq)
           Out(n) == FlattenSeq(Parts(seq, want, n))
           Good(n) == Out(n) \in Seq(S) /\ PickedFrom(Out(n), seq, want, n)
           Upto == {n \in 0..N : Good(n)}
<1>1. N \in Nat /\ DOMAIN seq = 1..N
  BY LenProperties
<1>2. Good(0)
  <2>1. Parts(seq, want, 0) = <<>>
    BY DEF Parts
  <2>2. Out(0) = <<>>
    BY <2>1, FlattenNothing
  <2>3. PickedFrom(<<>>, seq, want, 0)
    <3>1. Len(<<>>) = 0 /\ 1..0 = {} /\ \A i \in want : ~(i <= 0)
      BY <1>1
    <3> QED BY <3>1 DEF PickedFrom
  <2>4. <<>> \in Seq(S)
    OBVIOUS
  <2> QED BY <2>2, <2>3, <2>4
<1>3. ASSUME NEW n \in 0..N, n < N, Good(n) PROVE Good(n + 1)
  <2> DEFINE old == Out(n)
             new == Out(n + 1)
             part == Part(seq, want, n + 1)
  <2>1. /\ Parts(seq, want, n) \in Seq(Seq(S)) /\ part \in Seq(S)
        /\ Parts(seq, want, n + 1) = Append(Parts(seq, want, n), part)
    BY <1>3, PartType
  <2>2. new = old \o part /\ new \in Seq(S) /\ old \in Seq(S)
    <3>1. /\ FlattenSeq(Parts(seq, want, n)) \in Seq(S)
          /\ FlattenSeq(Append(Parts(seq, want, n), part)) = FlattenSeq(Parts(seq, want, n)) \o part
      BY <2>1, FlattenAppend
    <3>2. new = old \o part
      BY <2>1, <3>1
    <3> HIDE DEF part, old, new
    <3>3. old \in Seq(S) /\ part \in Seq(S)
      BY <2>1, <3>1 DEF old
    <3> QED BY <3>2, <3>3, ConcatProperties
  <2>3. PickedFrom(old, seq, want, n)
    BY <1>3
  <2>4. n \in Nat /\ n + 1 \in 1..N
    BY <1>1, <1>3
  <2>5. CASE n + 1 \notin want
    <3>1. new = old
      BY <2>2, <2>5, ConcatEmptySeq DEF Part
    <3>2. \A i \in want : i <= n + 1 => i <= n
      BY <1>1, <2>4, <2>5
    <3> HIDE DEF old, new
    <3>3. \A i \in want : i \in Nat
      BY <1>1
    <3>4. Len(old) \in Nat /\ (Len(old) <= n => Len(old) <= n + 1)
          /\ \A i \in want : i <= n => i <= n + 1
      BY <2>2, <2>4, <3>3, LenProperties
    <3>5. PickedFrom(old, seq, want, n + 1)
      <4>1. Len(old) <= n + 1
        BY <2>3, <3>4 DEF PickedFrom
      <4>2. \A k \in 1..Len(old) : \E i \in want : i <= n + 1 /\ old[k] = seq[i]
        BY <2>3, <3>4 DEF PickedFrom
      <4>3. \A i \in want : i <= n + 1 => \E k \in 1..Len(old) : old[k] = seq[i]
        BY <2>3, <3>2 DEF PickedFrom
      <4>4. \A k, m \in 1..Len(old) : \A i, j \in want :
              k < m /\ old[k] = seq[i] /\ old[m] = seq[j] => i < j
        BY <2>3 DEF PickedFrom
      <4> QED BY <4>1, <4>2, <4>3, <4>4 DEF PickedFrom
    <3> QED BY <2>2, <3>1, <3>5 DEF new
  <2>6. CASE n + 1 \in want
    <3>1. new = Append(old, seq[n + 1])
      BY <1>1, <2>2, <2>4, <2>6, ElementOfSeq DEF Part
    <3> HIDE DEF old, new
    <3>2. /\ Len(old) \in Nat /\ Len(new) = Len(old) + 1
          /\ new[Len(old) + 1] = seq[n + 1]
          /\ \A k \in 1..Len(old) : new[k] = old[k]
      BY <1>1, <2>2, <2>4, <3>1, ElementOfSeq, LenProperties, AppendProperties
    <3>3. \A i \in want : i \in 1..N
      OBVIOUS
    <3>4. Len(new) <= n + 1
      BY <2>3, <2>4, <3>2 DEF PickedFrom
    <3>5. \A k \in 1..Len(new) : k \in 1..Len(old) \/ k = Len(old) + 1
      BY <3>2
    <3>6. \A k \in 1..Len(new) : \E i \in want : i <= n + 1 /\ new[k] = seq[i]
      <4> TAKE k \in 1..Len(new)
      <4>1. CASE k = Len(old) + 1
        BY <2>4, <2>6, <3>2, <4>1
      <4>2. CASE k \in 1..Len(old)
        <5>1. PICK i \in want : i <= n /\ old[k] = seq[i]
          BY <2>3, <4>2 DEF PickedFrom
        <5> QED BY <1>1, <2>4, <3>2, <3>3, <4>2, <5>1
      <4> QED BY <3>5, <4>1, <4>2
    <3>7. \A i \in want : i <= n + 1 => \E k \in 1..Len(new) : new[k] = seq[i]
      <4> TAKE i \in want
      <4> HAVE i <= n + 1
      <4>1. CASE i = n + 1
        <5>1. Len(old) + 1 \in 1..Len(new)
          BY <3>2
        <5> QED BY <3>2, <4>1, <5>1
      <4>2. CASE i # n + 1
        <5>1. i <= n
          BY <1>1, <2>4, <3>3, <4>2
        <5>2. PICK k \in 1..Len(old) : old[k] = seq[i]
          BY <2>3, <5>1 DEF PickedFrom
        <5>3. k \in 1..Len(new)
          BY <3>2
        <5> QED BY <3>2, <5>2, <5>3
      <4> QED BY <4>1, <4>2
    <3>8. ASSUME NEW k \in 1..Len(new), NEW m \in 1..Len(new), NEW i \in want, NEW j \in want,
                 k < m, new[k] = seq[i], new[m] = seq[j]
          PROVE  i < j
      <4>1. k \in 1..Len(old)
        BY <3>2, <3>5, <3>8
      <4>2. PICK h \in want : h <= n /\ old[k] = seq[h]
        BY <2>3, <4>1 DEF PickedFrom
      <4>3. h = i
        BY <1>1, <3>2, <3>3, <3>8, <4>1, <4>2
      <4>4. CASE m \in 1..Len(old)
        <5>1. old[k] = seq[i] /\ old[m] = seq[j]
          BY <3>2, <3>8, <4>1, <4>4
        <5>2. \A a, b \in 1..Len(old) : \A c, d \in want :
                a < b /\ old[a] = seq[c] /\ old[b] = seq[d] => c < d
          BY <2>3 DEF PickedFrom
        <5> QED BY <3>8, <4>1, <4>4, <5>1, <5>2
      <4>5. CASE m = Len(old) + 1
        <5>1. j = n + 1
          BY <1>1, <2>4, <3>2, <3>3, <3>8, <4>5
        <5> QED BY <1>1, <2>4, <3>3, <4>2, <4>3, <5>1
      <4> QED BY <3>5, <4>4, <4>5
    <3>9. \A k, m \in 1..Len(new) : \A i, j \in want :
            k < m /\ new[k] = seq[i] /\ new[m] = seq[j] => i < j
      BY <3>8
    <3>10. PickedFrom(new, seq, want, n + 1)
      BY <3>4, <3>6, <3>7, <3>9 DEF PickedFrom
    <3>11. new \in Seq(S)
      BY <2>2
    <3> QED BY <3>10, <3>11, Zenon DEF new
  <2> QED BY <2>5, <2>6
<1> HIDE DEF Good
<1>4. 0 \in Upto /\ \A n \in 0..N : n < N /\ n \in Upto => n + 1 \in Upto
  <2>1. ASSUME NEW n \in 0..N, n < N, n \in Upto PROVE n + 1 \in Upto
    <3>1. n + 1 \in 0..N
      BY <1>1, <2>1
    <3> QED BY <1>3, <2>1, <3>1
  <2> QED BY <1>1, <1>2, <2>1
<1> HIDE DEF Upto
<1>5. 0..N \subseteq Upto
  BY <1>1, <1>4, UpTo
<1>6. N \in 0..N
  BY <1>1
<1> QED BY <1>5, <1>6 DEF Upto, Good

(***************************************************************************)
(* Steps and their consumers                                               *)
(***************************************************************************)
Names(c, p) == \E k \in DOMAIN specs[c].ins : specs[c].ins[k] = p

\* A join has two inputs that differ; other steps have one or none.
InsOf(spec) ==
  /\ Len(spec.ins) \in 0..2 /\ DOMAIN spec.ins = 1..Len(spec.ins)
  /\ \A k \in 1..Len(spec.ins) : spec.ins[k] \in Ids
  /\ Len(spec.ins) = 0 => spec.ins = <<>>
  /\ spec.kind = "join" <=> Len(spec.ins) = 2
  /\ Len(spec.ins) = 2 => spec.ins[1] # spec.ins[2]

LEMMA SpecShape ==
  ASSUME Selfish = FALSE, NEW spec \in Specs
  PROVE  InsOf(spec)
<1>1. CASE spec \in [kind : {"source"}, ins : {<<>>}]
  <2>1. spec.kind = "source" /\ spec.ins = <<>>
    BY <1>1
  <2> QED BY <2>1 DEF InsOf
<1>2. CASE spec \in [kind : {"transform", "sink"}, ins : {<<i>> : i \in Ids}]
  <2>1. PICK i \in Ids : spec.ins = <<i>>
    BY <1>2
  <2>2. spec.kind # "join"
    BY <1>2
  <2>3. Len(spec.ins) = 1 /\ DOMAIN spec.ins = 1..1 /\ spec.ins[1] = i
    BY <2>1
  <2> QED BY <2>2, <2>3 DEF InsOf
<1>3. CASE spec \in {s \in [kind : {"join"}, ins : Ids \X Ids] : Selfish \/ s.ins[1] # s.ins[2]}
  <2>1. spec.kind = "join" /\ spec.ins \in Ids \X Ids /\ spec.ins[1] # spec.ins[2]
    BY <1>3
  <2>2. PICK i \in Ids, j \in Ids : spec.ins = <<i, j>>
    BY <2>1
  <2>3. Len(spec.ins) = 2 /\ DOMAIN spec.ins = 1..2 /\ spec.ins[1] = i /\ spec.ins[2] = j
    BY <2>2
  <2>4. \A k \in 1..2 : k = 1 \/ k = 2
    OBVIOUS
  <2> QED BY <2>1, <2>3, <2>4 DEF InsOf
<1> QED BY <1>1, <1>2, <1>3 DEF Specs

LEMMA Repeating ==
  ASSUME NEW e
  PROVE  [k \in 1..0 |-> e] = <<>> /\ [k \in 1..1 |-> e] = <<e>>
OBVIOUS

\* The places in the order of the steps that name p.
Wanting(p) == {i \in 1..Len(order) : Names(order[i], p)}

LEMMA ConsumersPicked ==
  ASSUME Selfish = FALSE, TypeOK, UniqueIds, NEW p
  PROVE  Consumers(p) \in Seq(Ids) /\ PickedFrom(Consumers(p), order, Wanting(p), Len(order))
<1> DEFINE Count(i) == Cardinality({j \in DOMAIN specs[order[i]].ins : specs[order[i]].ins[j] = p})
           Repeated(i) == [k \in 1..Count(i) |-> order[i]]
<1>1. order \in Seq(Ids) /\ DOMAIN order = 1..Len(order) /\ Len(order) \in Nat
  BY LenProperties DEF TypeOK
<1>2. ASSUME NEW i \in 1..Len(order) PROVE Repeated(i) = Part(order, Wanting(p), i)
  <2> DEFINE spec == specs[order[i]]
             Hits == {j \in DOMAIN spec.ins : spec.ins[j] = p}
  <2>1. spec \in Specs
    BY <1>1 DEF TypeOK
  <2>2. InsOf(spec)
    BY <2>1, SpecShape
  <2> HIDE DEF spec
  <2>3. CASE Hits = {}
    <3>1. i \notin Wanting(p)
      BY <2>3 DEF Wanting, Names, spec
    <3>2. Count(i) = 0
      BY <2>3, FS_EmptySet DEF spec
    <3> HIDE DEF Count
    <3>3. Repeated(i) = <<>>
      BY <3>2, Repeating
    <3> QED BY <3>1, <3>3 DEF Part
  <2>4. CASE Hits # {}
    <3>1. PICK j \in Hits : TRUE
      BY <2>4
    <3>2. Hits = {j}
      <4> SUFFICES ASSUME NEW h \in Hits PROVE h = j
        BY <3>1
      <4>1. /\ j \in 1..Len(spec.ins) /\ h \in 1..Len(spec.ins)
            /\ spec.ins[j] = spec.ins[h] /\ Len(spec.ins) \in 0..2
        BY <2>2, <3>1 DEF InsOf
      <4>2. j \in {1, 2} /\ h \in {1, 2} /\ (j # h => Len(spec.ins) = 2)
        BY <4>1
      <4> QED BY <2>2, <4>1, <4>2 DEF InsOf
    <3>3. i \in Wanting(p)
      BY <3>1 DEF Wanting, Names, spec
    <3>4. Count(i) = 1
      BY <3>2, FS_Singleton DEF spec
    <3> HIDE DEF Count
    <3>5. Repeated(i) = <<order[i]>>
      BY <3>4, Repeating
    <3> QED BY <3>3, <3>5 DEF Part
  <2> QED BY <2>3, <2>4
<1>3. Consumers(p) = FlattenSeq([i \in DOMAIN order |-> Repeated(i)])
  BY DEF Consumers
<1> HIDE DEF Repeated
<1>4. [i \in DOMAIN order |-> Repeated(i)] = Parts(order, Wanting(p), Len(order))
  BY <1>1, <1>2 DEF Parts
<1>5. \A i, j \in DOMAIN order : order[i] = order[j] => i = j
  BY DEF UniqueIds
<1>6. Wanting(p) \in SUBSET (1..Len(order))
  BY DEF Wanting
<1> QED BY <1>1, <1>3, <1>4, <1>5, <1>6, Picked

\* The consumers of p are the steps that name it, in the order of the steps, each once.
Lists(p) ==
  /\ Consumers(p) \in Seq(Ids) /\ Len(Consumers(p)) \in 0..Len(order)
  /\ DOMAIN Consumers(p) = 1..Len(Consumers(p))
  /\ \A k \in DOMAIN Consumers(p) : Consumers(p)[k] \in DOMAIN specs /\ Names(Consumers(p)[k], p)
  /\ \A c \in DOMAIN specs : Names(c, p) => \E k \in DOMAIN Consumers(p) : Consumers(p)[k] = c
  /\ \A k, m \in DOMAIN Consumers(p) : \A i, j \in DOMAIN order :
       k < m /\ Consumers(p)[k] = order[i] /\ Consumers(p)[m] = order[j] => i < j
  /\ \A k, m \in DOMAIN Consumers(p) : Consumers(p)[k] = Consumers(p)[m] => k = m

LEMMA ConsumersListed ==
  ASSUME Selfish = FALSE, TypeOK, UniqueIds, NEW p
  PROVE  Lists(p)
<1> DEFINE cs == Consumers(p)
<1>1. cs \in Seq(Ids) /\ PickedFrom(cs, order, Wanting(p), Len(order))
  BY ConsumersPicked
<1>2. /\ DOMAIN order = 1..Len(order) /\ Len(order) \in Nat
      /\ DOMAIN specs = {order[i] : i \in DOMAIN order}
  BY LenProperties DEF TypeOK
<1> HIDE DEF cs
<1>3. DOMAIN cs = 1..Len(cs) /\ Len(cs) \in Nat
  BY <1>1, LenProperties
<1>4. Len(cs) \in 0..Len(order)
  BY <1>1, <1>2, <1>3 DEF PickedFrom
<1>5. ASSUME NEW k \in DOMAIN cs PROVE \E i \in Wanting(p) : cs[k] = order[i]
  BY <1>1, <1>3, <1>5 DEF PickedFrom
<1>6. \A i \in Wanting(p) : i \in DOMAIN order /\ Names(order[i], p)
  BY <1>2 DEF Wanting
<1>7. \A k \in DOMAIN cs : cs[k] \in DOMAIN specs /\ Names(cs[k], p)
  BY <1>2, <1>5, <1>6
<1>8. ASSUME NEW c \in DOMAIN specs, Names(c, p) PROVE \E k \in DOMAIN cs : cs[k] = c
  <2>1. PICK i \in DOMAIN order : c = order[i]
    BY <1>2
  <2>2. i \in Wanting(p) /\ i <= Len(order)
    BY <1>2, <1>8, <2>1 DEF Wanting
  <2>3. \E k \in 1..Len(cs) : cs[k] = order[i]
    BY <1>1, <2>2 DEF PickedFrom
  <2> QED BY <1>3, <2>1, <2>3
<1>9. ASSUME NEW k \in DOMAIN cs, NEW m \in DOMAIN cs, NEW i \in DOMAIN order, NEW j \in DOMAIN order,
             k < m, cs[k] = order[i], cs[m] = order[j]
      PROVE  i < j
  <2>1. PICK h \in Wanting(p) : cs[k] = order[h]
    BY <1>5
  <2>2. PICK l \in Wanting(p) : cs[m] = order[l]
    BY <1>5
  <2>3. h = i /\ l = j
    BY <1>6, <1>9, <2>1, <2>2 DEF UniqueIds
  <2>4. \A a, b \in 1..Len(cs) : \A d, e \in Wanting(p) :
          a < b /\ cs[a] = order[d] /\ cs[b] = order[e] => d < e
    BY <1>1 DEF PickedFrom
  <2>5. h < l
    BY <1>3, <1>9, <2>1, <2>2, <2>4
  <2> QED BY <2>3, <2>5
<1>10. ASSUME NEW k \in DOMAIN cs, NEW m \in DOMAIN cs, cs[k] = cs[m] PROVE k = m
  <2>1. PICK i \in Wanting(p) : cs[k] = order[i]
    BY <1>5
  <2>2. i \in DOMAIN order /\ i \in Nat /\ ~(i < i)
    BY <1>2, <1>6, <2>1
  <2>3. ~(k < m) /\ ~(m < k)
    BY <1>9, <1>10, <2>1, <2>2
  <2> QED BY <1>3, <2>3
<1>11. \A k, m \in DOMAIN cs : \A i, j \in DOMAIN order :
         k < m /\ cs[k] = order[i] /\ cs[m] = order[j] => i < j
  BY <1>9
<1> QED BY <1>1, <1>3, <1>4, <1>7, <1>8, <1>10, <1>11 DEF Lists, cs

(***************************************************************************)
(* The steps of construction                                               *)
(***************************************************************************)
LEMMA WiringInit ==
  Init => WiringInv
<1> SUFFICES ASSUME Init PROVE WiringInv
  OBVIOUS
<1>1. TypeOK
  <2>1. order = <<>> /\ Len(order) = 0 /\ order \in Seq(Ids) /\ DOMAIN order = {} /\ DOMAIN specs = {}
    BY DEF Init
  <2>2. txs \in [Ids -> Seq(Chans)] /\ primary \in [Ids -> Chans \cup {NoChan}]
        /\ right \in [Ids -> Chans \cup {NoChan}]
    BY DEF Init
  <2>3. at \in 1..(MaxSteps + 1) /\ stage \in Stages
    BY WiringBounds DEF Init, Stages
  <2> QED BY <2>1, <2>2, <2>3 DEF TypeOK
<1>2. InOrder
  BY WiringBounds DEF Init, InOrder
<1>3. ChannelsMade /\ NothingMade
  BY DEF Init, ChannelsMade, NothingMade
<1> QED BY <1>1, <1>2, <1>3 DEF WiringInv

LEMMA AddStep ==
  ASSUME WiringInv, NEW id \in Ids, NEW spec \in Specs, Add(id, spec)
  PROVE  WiringInv'
<1>1. /\ order \in Seq(Ids) /\ Len(order) \in Nat /\ DOMAIN order = 1..Len(order)
      /\ DOMAIN specs = {order[i] : i \in DOMAIN order}
      /\ stage = "adding" /\ at = 1 /\ Len(order) < MaxSteps /\ MaxSteps \in Nat
  BY WiringBounds, LenProperties DEF WiringInv, TypeOK, InOrder, Add
<1>2. /\ order' \in Seq(Ids) /\ Len(order') = Len(order) + 1
      /\ order'[Len(order) + 1] = id
      /\ \A i \in 1..Len(order) : order'[i] = order[i]
      /\ DOMAIN order' = 1..(Len(order) + 1)
  BY <1>1, AppendProperties, LenProperties DEF Add
<1>3. DOMAIN specs' = {order'[i] : i \in DOMAIN order'}
  <2>1. DOMAIN specs' = DOMAIN specs \cup {id}
    BY DEF Add
  <2>2. \A i \in 1..(Len(order) + 1) : i \in 1..Len(order) \/ i = Len(order) + 1
    BY <1>1
  <2>3. 1..Len(order) \subseteq 1..(Len(order) + 1) /\ Len(order) + 1 \in 1..(Len(order) + 1)
    BY <1>1
  <2> QED BY <1>1, <1>2, <2>1, <2>2, <2>3
<1>4. \A i \in DOMAIN specs' : specs'[i] \in Specs
  BY DEF Add, WiringInv, TypeOK
<1>5. TypeOK'
  BY <1>1, <1>2, <1>3, <1>4 DEF Add, WiringInv, TypeOK
<1>6. InOrder'
  BY <1>1, <1>2 DEF Add, InOrder
<1>7. ChannelsMade' /\ NothingMade'
  BY <1>1 DEF Add, ChannelsMade, NothingMade, WiringInv
<1> QED BY <1>5, <1>6, <1>7 DEF WiringInv

LEMMA RefuseStep ==
  ASSUME WiringInv, NEW id \in Ids, RefuseDuplicate(id)
  PROVE  WiringInv'
BY DEF WiringInv, RefuseDuplicate, TypeOK, InOrder, ChannelsMade, NothingMade, Stages

LEMMA ValidateStep ==
  ASSUME WiringInv, Validate
  PROVE  WiringInv'
<1>1. /\ DOMAIN specs' = DOMAIN specs
      /\ \A i \in DOMAIN specs : specs'[i] \in Specs /\ specs'[i].ins = specs[i].ins
  <2>1. PICK dry \in BOOLEAN : specs' = IF dry THEN DrySpecs ELSE specs
    BY DEF Validate
  <2>2. \A i \in DOMAIN specs : specs[i] \in Specs
    BY DEF WiringInv, TypeOK
  <2>3. ASSUME NEW i \in DOMAIN specs, specs[i].kind = "sink"
        PROVE  /\ [specs[i] EXCEPT !.kind = "transform"] \in Specs
               /\ [specs[i] EXCEPT !.kind = "transform"].ins = specs[i].ins
    <3>1. specs[i] \in [kind : {"transform", "sink"}, ins : {<<j>> : j \in Ids}]
      BY <2>2, <2>3 DEF Specs
    <3> QED BY <3>1 DEF Specs
  <2>4. CASE dry
    <3>1. specs' = DrySpecs
      BY <2>1, <2>4
    <3> QED BY <2>2, <2>3, <3>1 DEF DrySpecs
  <2>5. CASE ~dry
    BY <2>1, <2>2, <2>5
  <2> QED BY <2>4, <2>5
<1>2. /\ UNCHANGED <<order, at, txs, primary, right>> /\ stage = "adding" /\ at = 1
      /\ stage' = IF UniqueIds /\ InputsKnown THEN "accepted" ELSE "refused"
  BY DEF Validate, WiringInv, InOrder
<1>3. TypeOK'
  BY <1>1, <1>2 DEF WiringInv, TypeOK, Stages
<1>4. /\ UniqueIds => UniqueIds'
      /\ TypeOK /\ InputsKnown => InputsKnown'
  <2>1. UniqueIds => UniqueIds'
    BY <1>2 DEF UniqueIds
  <2>2. ASSUME TypeOK, InputsKnown PROVE InputsKnown'
    <3>1. \A i \in DOMAIN order : specs'[order[i]].ins = specs[order[i]].ins
      BY <1>1, <2>2 DEF TypeOK
    <3>2. order' = order
      BY <1>2
    <3>3. \A i \in DOMAIN order : \A k \in DOMAIN specs'[order[i]].ins :
            \E j \in DOMAIN order : j < i /\ order[j] = specs'[order[i]].ins[k]
      BY <2>2, <3>1 DEF InputsKnown, Known
    <3> QED BY <3>2, <3>3 DEF InputsKnown, Known
  <2> QED BY <2>1, <2>2
<1>5. InOrder'
  BY <1>2, <1>4 DEF WiringInv, InOrder
<1>6. ChannelsMade'
  <2>1. order \in Seq(Ids) /\ \A j \in DOMAIN order : ~(j < 1)
    BY LenProperties DEF WiringInv, TypeOK
  <2>2. \A p : ~HasChannels(p)'
    BY <1>2, <2>1 DEF HasChannels
  <2>3. \A c \in Ids : primary'[c] = NoChan /\ right'[c] = NoChan
    BY <1>2 DEF WiringInv, NothingMade
  <2> QED BY <2>2, <2>3 DEF ChannelsMade, From
<1>7. NothingMade'
  BY <1>2 DEF NothingMade
<1> QED BY <1>3, <1>5, <1>6, <1>7 DEF WiringInv

\* c has p as its k-th input.
InputIs(c, k, p) == c \in DOMAIN specs /\ k \in DOMAIN specs[c].ins /\ specs[c].ins[k] = p

\* A turn of the loop gives one producer its channels, and each of its consumers one of them.
Turn(p) ==
  /\ p = order[at] /\ at \in DOMAIN order /\ p \in Ids /\ stage = "accepted"
  /\ at' = at + 1 /\ UNCHANGED <<order, specs, stage>>
  /\ txs' = [txs EXCEPT ![p] = [k \in DOMAIN Consumers(p) |-> <<p, k>>]]
  /\ DOMAIN primary' = Ids /\ DOMAIN right' = Ids
  /\ primary' = [c \in Ids |-> primary'[c]] /\ right' = [c \in Ids |-> right'[c]]
  /\ \A c \in Ids :
       /\ primary'[c] \in IF InputIs(c, 1, p) THEN ChannelTo(c, p) ELSE {primary[c]}
       /\ right'[c] \in IF InputIs(c, 2, p) THEN ChannelTo(c, p) ELSE {right[c]}

LEMMA WireForm ==
  ASSUME Selfish = FALSE, WiringInv, Wire
  PROVE  Turn(order[at])
<1> DEFINE p == order[at]
           cs == Consumers(p)
           Mine(c) == {k \in DOMAIN cs : cs[k] = c}
           Latest(c) == CHOOSE k \in Mine(c) : \A m \in Mine(c) : m <= k
<1>1. /\ stage = "accepted" /\ at <= Len(order) /\ at' = at + 1
      /\ UNCHANGED <<order, specs, stage>>
      /\ txs' = [txs EXCEPT ![p] = [k \in DOMAIN cs |-> <<p, k>>]]
      /\ right' = [c \in Ids |-> IF Mine(c) # {} /\ IsRight(c, p) THEN <<p, Latest(c)>> ELSE right[c]]
      /\ primary' = [c \in Ids |-> IF Mine(c) # {} /\ ~IsRight(c, p) THEN <<p, Latest(c)>> ELSE primary[c]]
  BY DEF Wire
<1>2. TypeOK /\ UniqueIds /\ order \in Seq(Ids) /\ at \in Nat \ {0}
  BY <1>1 DEF WiringInv, TypeOK, InOrder
<1>3. at \in DOMAIN order /\ p \in Ids
  BY <1>1, <1>2, LenProperties, ElementOfSeq
<1>4. Lists(p)
  BY <1>2, ConsumersListed
<1> HIDE DEF p
<1>5. ASSUME NEW c \in Ids, Mine(c) # {}
      PROVE  /\ c \in DOMAIN specs /\ Names(c, p)
             /\ <<p, Latest(c)>> \in ChannelTo(c, p)
  <2>1. PICK k \in DOMAIN cs : cs[k] = c
    BY <1>5
  <2>2. \A m \in Mine(c) : m = k
    BY <1>4, <2>1 DEF Lists
  <2>3. k \in Nat
    BY <1>4 DEF Lists
  <2> DEFINE last == Latest(c)
  <2>4. k \in Mine(c) /\ \A m \in Mine(c) : m <= k
    BY <2>1, <2>2, <2>3
  <2>5. last \in Mine(c)
    BY <2>4, Zenon
  <2> HIDE DEF last
  <2>6. <<p, last>> \in ChannelTo(c, p)
    BY <2>5 DEF ChannelTo
  <2>7. c \in DOMAIN specs /\ Names(c, p)
    BY <1>4, <2>1 DEF Lists
  <2> QED BY <2>6, <2>7 DEF last
<1>6. ASSUME NEW c \in DOMAIN specs, Names(c, p) PROVE Mine(c) # {}
  BY <1>4, <1>6 DEF Lists
<1>7. ASSUME NEW c \in DOMAIN specs
      PROVE  /\ IsRight(c, p) <=> InputIs(c, 2, p)
             /\ Names(c, p) <=> InputIs(c, 1, p) \/ InputIs(c, 2, p)
             /\ ~(InputIs(c, 1, p) /\ InputIs(c, 2, p))
  <2> DEFINE spec == specs[c]
  <2>1. spec \in Specs
    BY <1>2 DEF TypeOK
  <2>2. InsOf(spec)
    BY <2>1, SpecShape
  <2>3. Len(spec.ins) \in 0..2 /\ DOMAIN spec.ins = 1..Len(spec.ins)
    BY <2>2 DEF InsOf
  <2>4. /\ \A k \in DOMAIN spec.ins : k = 1 \/ k = 2
        /\ 2 \in DOMAIN spec.ins => 1 \in DOMAIN spec.ins /\ Len(spec.ins) = 2
        /\ Len(spec.ins) = 2 => 2 \in DOMAIN spec.ins
    <3>1. CASE Len(spec.ins) = 0
      BY <2>3, <3>1
    <3>2. CASE Len(spec.ins) = 1
      BY <2>3, <3>2
    <3>3. CASE Len(spec.ins) = 2
      BY <2>3, <3>3
    <3> QED BY <2>3, <3>1, <3>2, <3>3
  <2>5. /\ spec.kind = "join" <=> 2 \in DOMAIN spec.ins
        /\ 2 \in DOMAIN spec.ins => spec.ins[1] # spec.ins[2]
    BY <2>2, <2>4 DEF InsOf
  <2>6. IsRight(c, p) <=> InputIs(c, 2, p)
    BY <2>5 DEF IsRight, InputIs
  <2>7. ~(InputIs(c, 1, p) /\ InputIs(c, 2, p))
    BY <2>5 DEF InputIs
  <2>8. Names(c, p) <=> InputIs(c, 1, p) \/ InputIs(c, 2, p)
    BY <2>4 DEF Names, InputIs
  <2> QED BY <2>6, <2>7, <2>8
<1> HIDE DEF Mine, Latest
<1>8. ASSUME NEW c \in Ids
      PROVE  /\ primary'[c] \in IF InputIs(c, 1, p) THEN ChannelTo(c, p) ELSE {primary[c]}
             /\ right'[c] \in IF InputIs(c, 2, p) THEN ChannelTo(c, p) ELSE {right[c]}
  <2>1. InputIs(c, 1, p) \/ InputIs(c, 2, p) => c \in DOMAIN specs
    BY DEF InputIs
  <2>2. /\ primary'[c] = IF Mine(c) # {} /\ ~IsRight(c, p) THEN <<p, Latest(c)>> ELSE primary[c]
        /\ right'[c] = IF Mine(c) # {} /\ IsRight(c, p) THEN <<p, Latest(c)>> ELSE right[c]
    BY <1>1
  <2>3. Mine(c) # {} <=> InputIs(c, 1, p) \/ InputIs(c, 2, p)
    BY <1>5, <1>6, <1>7, <2>1
  <2>4. Mine(c) # {} => <<p, Latest(c)>> \in ChannelTo(c, p) /\ c \in DOMAIN specs
    BY <1>5
  <2>5. CASE InputIs(c, 1, p)
    BY <1>7, <2>1, <2>2, <2>3, <2>4, <2>5
  <2>6. CASE InputIs(c, 2, p)
    BY <1>7, <2>1, <2>2, <2>3, <2>4, <2>6
  <2>7. CASE ~InputIs(c, 1, p) /\ ~InputIs(c, 2, p)
    BY <2>2, <2>3, <2>7
  <2> QED BY <2>5, <2>6, <2>7
<1>9. /\ DOMAIN primary' = Ids /\ DOMAIN right' = Ids
      /\ primary' = [c \in Ids |-> primary'[c]] /\ right' = [c \in Ids |-> right'[c]]
  BY <1>1
<1> QED BY <1>1, <1>3, <1>8, <1>9 DEF Turn, p

LEMMA ConsumersStay ==
  ASSUME UNCHANGED <<order, specs>>
  PROVE  /\ \A p : Consumers(p)' = Consumers(p)
         /\ \A c, p : ChannelTo(c, p)' = ChannelTo(c, p)
<1>1. ASSUME NEW p PROVE Consumers(p)' = Consumers(p)
  BY DEF Consumers
<1>2. \A c, p : ChannelTo(c, p)' = ChannelTo(c, p)
  BY <1>1 DEF ChannelTo
<1> QED BY <1>1, <1>2

LEMMA WireStep ==
  ASSUME Selfish = FALSE, WiringInv, NEW p, Turn(p)
  PROVE  WiringInv'
<1>1. /\ TypeOK /\ UniqueIds /\ InputsKnown /\ stage = "accepted"
      /\ Len(order) <= MaxSteps /\ MaxSteps \in Nat
      /\ order \in Seq(Ids) /\ Len(order) \in Nat /\ DOMAIN order = 1..Len(order)
      /\ p = order[at] /\ at \in DOMAIN order /\ p \in Ids
  BY WiringBounds, LenProperties DEF WiringInv, TypeOK, InOrder, Turn
<1>2. Lists(p)
  BY <1>1, ConsumersListed
<1>3. /\ order' = order /\ specs' = specs /\ stage' = stage /\ at' = at + 1
      /\ \A q : Consumers(q)' = Consumers(q)
      /\ \A c, q : ChannelTo(c, q)' = ChannelTo(c, q)
  BY ConsumersStay DEF Turn
<1>4. \A k \in DOMAIN Consumers(p) : <<p, k>> \in Chans
  BY <1>1, <1>2 DEF Lists, Chans
<1>5. \A c : ChannelTo(c, p) \subseteq Chans
  BY <1>4 DEF ChannelTo
<1>6. TypeOK'
  <2>1. txs' \in [Ids -> Seq(Chans)]
    <3> DEFINE mine == [k \in DOMAIN Consumers(p) |-> <<p, k>>]
    <3>1. Len(Consumers(p)) \in Nat /\ DOMAIN Consumers(p) = 1..Len(Consumers(p))
      BY <1>1, <1>2 DEF Lists
    <3>2. mine = [k \in 1..Len(Consumers(p)) |-> <<p, k>>]
      BY <3>1
    <3>3. mine \in Seq(Chans)
      BY <1>4, <3>1, <3>2, IsASeq
    <3>4. txs' = [txs EXCEPT ![p] = mine]
      BY DEF Turn
    <3> HIDE DEF mine
    <3> QED BY <1>1, <3>3, <3>4 DEF TypeOK
  <2>2. primary' \in [Ids -> Chans \cup {NoChan}] /\ right' \in [Ids -> Chans \cup {NoChan}]
    <3>1. \A c \in Ids : primary[c] \in Chans \cup {NoChan} /\ right[c] \in Chans \cup {NoChan}
      BY <1>1 DEF TypeOK
    <3>2. \A c \in Ids : primary'[c] \in Chans \cup {NoChan} /\ right'[c] \in Chans \cup {NoChan}
      BY <1>5, <3>1 DEF Turn
    <3> QED BY <3>2 DEF Turn
  <2>3. at' \in 1..(MaxSteps + 1)
    BY <1>1, <1>3
  <2> QED BY <1>1, <1>3, <2>1, <2>2, <2>3 DEF TypeOK
<1>7. InOrder'
  <2>1. UniqueIds'
    BY <1>1, <1>3 DEF UniqueIds
  <2>2. InputsKnown'
    BY <1>1, <1>3 DEF InputsKnown, Known
  <2> QED BY <1>1, <1>3, <2>1, <2>2 DEF InOrder
<1>8. ASSUME NEW q PROVE HasChannels(q)' <=> HasChannels(q) \/ q = p
  <2>1. \A j \in DOMAIN order : j < at + 1 <=> j < at \/ j = at
    BY <1>1
  <2> QED BY <1>1, <1>3, <2>1 DEF HasChannels
<1>9. ~HasChannels(p)
  <2>1. ASSUME NEW j \in DOMAIN order, order[j] = p PROVE ~(j < at)
    <3>1. j = at
      BY <1>1, <2>1 DEF UniqueIds
    <3> QED BY <1>1, <3>1
  <2> QED BY <2>1 DEF HasChannels
<1>10. ASSUME NEW q \in Ids, HasChannels(q)' PROVE txs'[q] = [k \in DOMAIN Consumers(q)' |-> <<q, k>>]
  <2>1. Consumers(q)' = Consumers(q)
    BY <1>3
  <2>2. CASE q = p
    <3>1. txs'[q] = [k \in DOMAIN Consumers(q) |-> <<q, k>>]
      BY <1>1, <2>2 DEF Turn, TypeOK
    <3> QED BY <2>1, <3>1
  <2>3. CASE q # p
    <3>1. HasChannels(q)
      BY <1>8, <1>10, <2>3
    <3>2. txs[q] = [k \in DOMAIN Consumers(q) |-> <<q, k>>]
      BY <1>1, <3>1 DEF WiringInv, ChannelsMade
    <3>3. txs'[q] = txs[q]
      BY <1>1, <2>3 DEF Turn, TypeOK
    <3> QED BY <2>1, <3>2, <3>3
  <2> QED BY <2>2, <2>3
<1>11. ASSUME NEW c \in Ids, NEW k \in {1, 2}, NEW old, NEW new, old \in From(c, k),
              new \in IF InputIs(c, k, p) THEN ChannelTo(c, p) ELSE {old}
       PROVE  new \in From(c, k)'
  <2>0. PICK q : q = specs[c].ins[k]
    OBVIOUS
  <2>1. HasChannels(q)' <=> HasChannels(q) \/ q = p
    BY <1>8
  <2>2. From(c, k)' = IF c \in DOMAIN specs /\ k \in DOMAIN specs[c].ins /\ (HasChannels(q) \/ q = p)
                      THEN ChannelTo(c, q) ELSE {NoChan}
    <3>1. From(c, k)' = IF c \in DOMAIN specs' /\ k \in DOMAIN specs'[c].ins /\ HasChannels(q)'
                        THEN ChannelTo(c, q)' ELSE {NoChan}
      BY <1>3, <2>0 DEF From, HasChannels, ChannelTo
    <3>2. ChannelTo(c, q)' = ChannelTo(c, q)
      BY <1>3
    <3> QED BY <1>3, <2>1, <3>1, <3>2
  <2>3. CASE InputIs(c, k, p)
    BY <1>11, <2>0, <2>2, <2>3 DEF InputIs
  <2>4. CASE ~InputIs(c, k, p)
    <3>1. new = old
      BY <1>11, <2>4
    <3> QED BY <1>11, <2>0, <2>2, <2>4, <3>1 DEF InputIs, From
  <2> QED BY <2>3, <2>4
<1>12. ChannelsMade'
  <2>1. ASSUME NEW c \in Ids PROVE primary'[c] \in From(c, 1)' /\ right'[c] \in From(c, 2)'
    <3>1. primary[c] \in From(c, 1) /\ right[c] \in From(c, 2)
      BY <1>1 DEF WiringInv, ChannelsMade
    <3>2. primary'[c] \in IF InputIs(c, 1, p) THEN ChannelTo(c, p) ELSE {primary[c]}
      BY DEF Turn
    <3>3. right'[c] \in IF InputIs(c, 2, p) THEN ChannelTo(c, p) ELSE {right[c]}
      BY DEF Turn
    <3> QED BY <1>11, <3>1, <3>2, <3>3
  <2> QED BY <1>10, <2>1 DEF ChannelsMade
<1>13. NothingMade'
  BY <1>1, <1>3 DEF NothingMade
<1> QED BY <1>6, <1>7, <1>12, <1>13 DEF WiringInv

\* Nothing changes, or only that the loop is seen to be at its end.
LEMMA DoneStep ==
  ASSUME WiringInv, WiringDone \/ Done \/ UNCHANGED vars
  PROVE  WiringInv'
<1>1. /\ stage' = stage \/ (stage = "accepted" /\ stage' = "wired" /\ at > Len(order))
      /\ order' = order /\ specs' = specs /\ at' = at
      /\ txs' = txs /\ primary' = primary /\ right' = right
  BY DEF WiringDone, Done, vars
<1>2. TypeOK'
  BY <1>1 DEF WiringInv, TypeOK, Stages
<1>3. InOrder'
  <2>1. order \in Seq(Ids) /\ Len(order) \in Nat /\ at \in Nat /\ at <= Len(order) + 1
    BY LenProperties DEF WiringInv, TypeOK, InOrder
  <2>2. /\ UniqueIds => UniqueIds'
        /\ InputsKnown => InputsKnown'
    BY <1>1 DEF UniqueIds, InputsKnown, Known
  <2> QED BY <1>1, <2>1, <2>2 DEF WiringInv, InOrder
<1>4. ChannelsMade'
  <2>1. /\ \A p : Consumers(p)' = Consumers(p)
        /\ \A c, p : ChannelTo(c, p)' = ChannelTo(c, p)
    BY <1>1, ConsumersStay
  <2>2. \A p : HasChannels(p)' <=> HasChannels(p)
    BY <1>1 DEF HasChannels
  <2>3. ASSUME NEW c, NEW k PROVE From(c, k)' = From(c, k)
    <3>1. PICK q : q = specs[c].ins[k]
      OBVIOUS
    <3>2. From(c, k)' = IF c \in DOMAIN specs' /\ k \in DOMAIN specs'[c].ins /\ HasChannels(q)'
                        THEN ChannelTo(c, q)' ELSE {NoChan}
      BY <1>1, <3>1 DEF From, HasChannels, ChannelTo
    <3>3. ChannelTo(c, q)' = ChannelTo(c, q)
      BY <2>1
    <3> QED BY <1>1, <2>2, <3>1, <3>2, <3>3 DEF From
  <2> SUFFICES ASSUME stage' \in {"accepted", "wired"} PROVE ChannelsMade'
    BY DEF ChannelsMade
  <2>4. /\ \A p \in Ids : HasChannels(p) => txs[p] = [k \in DOMAIN Consumers(p) |-> <<p, k>>]
        /\ \A c \in Ids : primary[c] \in From(c, 1) /\ right[c] \in From(c, 2)
    BY <1>1 DEF WiringInv, ChannelsMade
  <2>5. ASSUME NEW p \in Ids, HasChannels(p)' PROVE txs'[p] = [k \in DOMAIN Consumers(p)' |-> <<p, k>>]
    <3>1. Consumers(p)' = Consumers(p)
      BY <2>1
    <3> QED BY <1>1, <2>2, <2>4, <2>5, <3>1
  <2>6. \A c \in Ids : primary'[c] \in From(c, 1)' /\ right'[c] \in From(c, 2)'
    BY <1>1, <2>3, <2>4
  <2> QED BY <2>5, <2>6 DEF ChannelsMade
<1>5. NothingMade'
  <2>1. NothingMade /\ txs' = txs /\ primary' = primary /\ right' = right
    BY <1>1 DEF WiringInv
  <2>2. stage' = "adding" => stage = "adding"
    BY <1>1
  <2> QED BY <2>1, <2>2 DEF NothingMade
<1> QED BY <1>2, <1>3, <1>4, <1>5 DEF WiringInv

\* Where construction stands holds of every pipeline, of any number of steps with any ids:
\* the places, the channels made so far, and that only valid pipelines are wired.
THEOREM WiringInvariance ==
  ASSUME Selfish = FALSE
  PROVE  Spec => []WiringInv
<1>1. Init => WiringInv
  BY WiringInit
<1>2. WiringInv /\ [Next]_vars => WiringInv'
  <2> SUFFICES ASSUME WiringInv, [Next]_vars PROVE WiringInv'
    OBVIOUS
  <2>1. ASSUME NEW id \in Ids, NEW spec \in Specs, Add(id, spec) PROVE WiringInv'
    BY <2>1, AddStep
  <2>2. ASSUME NEW id \in Ids, RefuseDuplicate(id) PROVE WiringInv'
    BY <2>2, RefuseStep
  <2>3. CASE Validate
    BY <2>3, ValidateStep
  <2>4. CASE Wire
    BY <2>4, WireForm, WireStep
  <2>5. CASE WiringDone \/ Done \/ UNCHANGED vars
    BY <2>5, DoneStep
  <2> QED BY <2>1, <2>2, <2>3, <2>4, <2>5 DEF Next
<1> QED BY <1>1, <1>2, PTL DEF Spec

(***************************************************************************)
(* What is wired                                                           *)
(***************************************************************************)
\* A step holds the receiver of the k-th channel of p just when it is the k-th consumer.
Connected ==
  \A p \in DOMAIN specs : \A k \in DOMAIN Consumers(p) : \A c \in DOMAIN specs :
    <<p, k>> \in {primary[c], right[c]} <=> c = Consumers(p)[k]

LEMMA WiredFacts ==
  ASSUME Selfish = FALSE, WiringInv, stage = "wired"
  PROVE  /\ DOMAIN specs \subseteq Ids
         /\ \A p \in DOMAIN specs :
              Lists(p) /\ HasChannels(p) /\ txs[p] = [k \in DOMAIN Consumers(p) |-> <<p, k>>]
         /\ \A c \in DOMAIN specs : \A k \in DOMAIN specs[c].ins : specs[c].ins[k] \in DOMAIN specs
         /\ \A c \in DOMAIN specs : InsOf(specs[c])
         /\ \A c \in DOMAIN specs :
              /\ primary[c] \in IF 1 \in DOMAIN specs[c].ins THEN ChannelTo(c, specs[c].ins[1]) ELSE {NoChan}
              /\ right[c] \in IF 2 \in DOMAIN specs[c].ins THEN ChannelTo(c, specs[c].ins[2]) ELSE {NoChan}
<1>1. /\ TypeOK /\ UniqueIds /\ InputsKnown /\ at = Len(order) + 1
      /\ order \in Seq(Ids) /\ Len(order) \in Nat /\ DOMAIN order = 1..Len(order)
      /\ DOMAIN specs = {order[i] : i \in DOMAIN order}
  BY LenProperties DEF WiringInv, TypeOK, InOrder
<1>2. DOMAIN specs \subseteq Ids
  BY <1>1, ElementOfSeq
<1>3. \A p \in DOMAIN specs : HasChannels(p)
  BY <1>1 DEF HasChannels
<1>4. \A p \in DOMAIN specs : Lists(p)
  BY <1>1, ConsumersListed
<1>5. \A p \in DOMAIN specs : txs[p] = [k \in DOMAIN Consumers(p) |-> <<p, k>>]
  BY <1>2, <1>3 DEF WiringInv, ChannelsMade
<1>6. ASSUME NEW c \in DOMAIN specs, NEW k \in DOMAIN specs[c].ins PROVE specs[c].ins[k] \in DOMAIN specs
  <2>1. PICK i \in DOMAIN order : order[i] = c
    BY <1>1
  <2>2. Known(i, specs[c].ins[k])
    BY <1>1, <2>1 DEF InputsKnown
  <2> QED BY <1>1, <2>2 DEF Known
<1>7. \A c \in DOMAIN specs : InsOf(specs[c])
  BY <1>1, SpecShape DEF TypeOK
<1>8. ASSUME NEW c \in DOMAIN specs
      PROVE  /\ primary[c] \in IF 1 \in DOMAIN specs[c].ins THEN ChannelTo(c, specs[c].ins[1]) ELSE {NoChan}
             /\ right[c] \in IF 2 \in DOMAIN specs[c].ins THEN ChannelTo(c, specs[c].ins[2]) ELSE {NoChan}
  <2>1. primary[c] \in From(c, 1) /\ right[c] \in From(c, 2)
    BY <1>2 DEF WiringInv, ChannelsMade
  <2> QED BY <1>3, <1>6, <2>1 DEF From
<1> QED BY <1>2, <1>3, <1>4, <1>5, <1>6, <1>7, <1>8

LEMMA WiredConnected ==
  ASSUME Selfish = FALSE, WiringInv, stage = "wired"
  PROVE  Connected
<1> SUFFICES ASSUME NEW p \in DOMAIN specs, NEW k \in DOMAIN Consumers(p), NEW c \in DOMAIN specs
             PROVE  <<p, k>> \in {primary[c], right[c]} <=> c = Consumers(p)[k]
  BY DEF Connected
<1>1. ASSUME <<p, k>> \in {primary[c], right[c]} PROVE c = Consumers(p)[k]
  <2>1. PICK h \in {1, 2} : h \in DOMAIN specs[c].ins /\ <<p, k>> \in ChannelTo(c, specs[c].ins[h])
    <3>1. <<p, k>> # NoChan
      BY DEF NoChan
    <3>2. /\ primary[c] \in IF 1 \in DOMAIN specs[c].ins THEN ChannelTo(c, specs[c].ins[1]) ELSE {NoChan}
          /\ right[c] \in IF 2 \in DOMAIN specs[c].ins THEN ChannelTo(c, specs[c].ins[2]) ELSE {NoChan}
      BY WiredFacts
    <3>3. CASE <<p, k>> = primary[c]
      BY <3>1, <3>2, <3>3
    <3>4. CASE <<p, k>> = right[c]
      BY <3>1, <3>2, <3>4
    <3> QED BY <1>1, <3>3, <3>4
  <2>2. PICK m \in DOMAIN Consumers(specs[c].ins[h]) :
          Consumers(specs[c].ins[h])[m] = c /\ <<p, k>> = <<specs[c].ins[h], m>>
    BY <2>1 DEF ChannelTo
  <2> QED BY <2>2
<1>2. ASSUME c = Consumers(p)[k] PROVE <<p, k>> \in {primary[c], right[c]}
  <2>1. Lists(p) /\ InsOf(specs[c])
    BY WiredFacts
  <2>2. PICK h \in DOMAIN specs[c].ins : specs[c].ins[h] = p
    BY <1>2, <2>1 DEF Lists, Names
  <2>3. h \in {1, 2}
    BY <2>1, <2>2 DEF InsOf
  <2>4. ChannelTo(c, p) = {<<p, k>>}
    <3>1. \A m \in DOMAIN Consumers(p) : Consumers(p)[m] = c <=> m = k
      BY <1>2, <2>1 DEF Lists
    <3> QED BY <3>1 DEF ChannelTo
  <2> QED BY <2>2, <2>3, <2>4, WiredFacts
<1> QED BY <1>1, <1>2

LEMMA WiredFits ==
  ASSUME Selfish = FALSE, WiringInv
  PROVE  FitsExecutor
<1>1. SUFFICES ASSUME stage = "wired" PROVE FitsExecutor
  <2>1. ASSUME stage # "wired" PROVE FitsExecutor
    BY <2>1 DEF FitsExecutor, ReceiversFit, NoSenderWithoutReceiver
  <2> QED BY <2>1
<1> DEFINE pos(id) == CHOOSE i \in DOMAIN order : order[i] = id
           Receiver(ch) == CHOOSE c \in DOMAIN specs : ch \in {primary[c], right[c]}
<1>2. /\ TypeOK /\ UniqueIds /\ InputsKnown /\ order \in Seq(Ids)
      /\ DOMAIN specs = {order[i] : i \in DOMAIN order}
      /\ Connected
  BY <1>1, WiredConnected DEF WiringInv, TypeOK, InOrder
<1>3. \A i \in DOMAIN order : pos(order[i]) = i
  BY <1>2 DEF UniqueIds
<1>4. ReceiversFit
  <2> SUFFICES ASSUME NEW id \in DOMAIN specs
               PROVE  LET ins == specs[id].ins IN
                        /\ IF ins = <<>> THEN primary[id] = NoChan
                           ELSE primary[id] # NoChan /\ primary[id][1] = ins[1]
                        /\ IF Len(ins) < 2 THEN right[id] = NoChan
                           ELSE right[id] # NoChan /\ right[id][1] = ins[2]
    BY DEF ReceiversFit
  <2> DEFINE ins == specs[id].ins
  <2>1. /\ Len(ins) \in 0..2 /\ DOMAIN ins = 1..Len(ins) /\ (Len(ins) = 0 => ins = <<>>)
        /\ (ins = <<>> => Len(ins) = 0)
    <3>1. InsOf(specs[id])
      BY <1>1, WiredFacts
    <3>2. ins = <<>> => Len(ins) = 0
      OBVIOUS
    <3> QED BY <3>1, <3>2 DEF InsOf
  <2>2. \A p : \A ch \in ChannelTo(id, p) : ch # NoChan /\ ch[1] = p
    BY DEF ChannelTo, NoChan
  <2>3. /\ primary[id] \in IF 1 \in DOMAIN ins THEN ChannelTo(id, ins[1]) ELSE {NoChan}
        /\ right[id] \in IF 2 \in DOMAIN ins THEN ChannelTo(id, ins[2]) ELSE {NoChan}
    BY <1>1, WiredFacts
  <2> HIDE DEF ins
  <2>4. (1 \in DOMAIN ins <=> ins # <<>>) /\ (2 \in DOMAIN ins <=> ~(Len(ins) < 2))
    BY <2>1
  <2>5. /\ IF ins = <<>> THEN primary[id] = NoChan
           ELSE primary[id] # NoChan /\ primary[id][1] = ins[1]
        /\ IF Len(ins) < 2 THEN right[id] = NoChan
           ELSE right[id] # NoChan /\ right[id][1] = ins[2]
    BY <2>2, <2>3, <2>4
  <2> QED BY <2>5 DEF ins
<1>5. ASSUME NEW id \in DOMAIN specs
      PROVE  /\ DOMAIN txs[id] = DOMAIN Consumers(id)
             /\ \A k \in DOMAIN Consumers(id) :
                  /\ txs[id][k] = <<id, k>> /\ Consumers(id)[k] \in DOMAIN specs
                  /\ Receiver(txs[id][k]) = Consumers(id)[k]
  <2>1. Lists(id) /\ txs[id] = [k \in DOMAIN Consumers(id) |-> <<id, k>>]
    BY <1>1, WiredFacts
  <2>2. ASSUME NEW k \in DOMAIN Consumers(id)
        PROVE  /\ txs[id][k] = <<id, k>> /\ Consumers(id)[k] \in DOMAIN specs
               /\ Receiver(txs[id][k]) = Consumers(id)[k]
    <3>1. txs[id][k] = <<id, k>> /\ Consumers(id)[k] \in DOMAIN specs
      BY <2>1 DEF Lists
    <3>2. \A c \in DOMAIN specs : txs[id][k] \in {primary[c], right[c]} <=> c = Consumers(id)[k]
      BY <1>2, <3>1 DEF Connected
    <3>3. Receiver(txs[id][k]) = Consumers(id)[k]
      BY <3>1, <3>2
    <3> QED BY <3>1, <3>3
  <2> QED BY <2>1, <2>2
<1>6. NoSenderWithoutReceiver
  <2> SUFFICES ASSUME NEW id \in DOMAIN specs, NEW k \in DOMAIN txs[id]
               PROVE  \E c \in DOMAIN specs : txs[id][k] \in {primary[c], right[c]}
    BY DEF NoSenderWithoutReceiver
  <2>1. k \in DOMAIN Consumers(id) /\ txs[id][k] = <<id, k>> /\ Consumers(id)[k] \in DOMAIN specs
    BY <1>5
  <2> DEFINE c == Consumers(id)[k]
  <2>2. <<id, k>> \in {primary[c], right[c]}
    BY <1>2, <2>1 DEF Connected
  <2> QED BY <2>1, <2>2
<1>7. ASSUME NEW id \in DOMAIN specs, NEW k \in DOMAIN specs[id].ins
      PROVE  specs[id].ins[k] \in DOMAIN specs /\ pos(specs[id].ins[k]) < pos(id)
  <2>1. PICK i \in DOMAIN order : order[i] = id
    BY <1>2
  <2>2. PICK j \in DOMAIN order : j < i /\ order[j] = specs[id].ins[k]
    BY <1>2, <2>1 DEF InputsKnown, Known
  <2>3. pos(id) = i /\ pos(specs[id].ins[k]) = j
    BY <1>3, <2>1, <2>2
  <2> QED BY <1>2, <2>2, <2>3
<1> HIDE DEF Receiver, pos
<1>8. ASSUME NEW id \in DOMAIN specs
      PROVE  {Receiver(txs[id][k]) : k \in DOMAIN txs[id]} = {c \in DOMAIN specs : Contains(specs[c].ins, id)}
  <2>1. {Receiver(txs[id][k]) : k \in DOMAIN txs[id]} = {Consumers(id)[k] : k \in DOMAIN Consumers(id)}
    BY <1>5
  <2>2. \A c \in DOMAIN specs : Contains(specs[c].ins, id) <=> Names(c, id)
    BY <1>1, WiredFacts DEF Contains, Names, InsOf
  <2>3. /\ \A k \in DOMAIN Consumers(id) : Consumers(id)[k] \in DOMAIN specs /\ Names(Consumers(id)[k], id)
        /\ \A c \in DOMAIN specs : Names(c, id) => \E k \in DOMAIN Consumers(id) : Consumers(id)[k] = c
    <3>1. Lists(id)
      BY <1>1, WiredFacts
    <3> QED BY <3>1 DEF Lists
  <2>4. {Consumers(id)[k] : k \in DOMAIN Consumers(id)} = {c \in DOMAIN specs : Names(c, id)}
    BY <2>3
  <2> QED BY <2>1, <2>2, <2>4
<1>9. ASSUME NEW id \in DOMAIN specs, NEW k \in DOMAIN txs[id], NEW m \in DOMAIN txs[id], k < m
      PROVE  pos(Receiver(txs[id][k])) < pos(Receiver(txs[id][m]))
  <2>1. /\ k \in DOMAIN Consumers(id) /\ m \in DOMAIN Consumers(id)
        /\ Receiver(txs[id][k]) = Consumers(id)[k] /\ Receiver(txs[id][m]) = Consumers(id)[m]
        /\ Consumers(id)[k] \in DOMAIN specs /\ Consumers(id)[m] \in DOMAIN specs
    BY <1>5
  <2>2. PICK i \in DOMAIN order, j \in DOMAIN order : Consumers(id)[k] = order[i] /\ Consumers(id)[m] = order[j]
    BY <1>2, <2>1
  <2>3. Lists(id)
    BY <1>1, WiredFacts
  <2>4. i < j
    BY <1>9, <2>1, <2>2, <2>3 DEF Lists
  <2> QED BY <1>3, <2>1, <2>2, <2>4
<1> QED BY <1>4, <1>6, <1>7, <1>8, <1>9 DEF FitsExecutor, Receiver, pos

\* Whatever steps are added in whatever order, with whatever inputs, what validate lets
\* through is wired as the executor assumes: no step lacks a receiver or holds another's,
\* no sender is without its receiver, and a step sends to its consumers in pipeline order.
\* Joins of a step with itself, which the code wires wrongly, are left out.
THEOREM PipelinesFit ==
  ASSUME Selfish = FALSE
  PROVE  Spec => []FitsExecutor
<1>1. WiringInv => FitsExecutor
  BY WiredFits
<1> QED BY <1>1, WiringInvariance, PTL
===============================================================================
