----------------------------- MODULE DbSinkLemmas -----------------------------
(***************************************************************************)
(* What the proofs about DbSink rest on: what the inserts make of the rows *)
(* of a table, one by one and in chunks, what a program of statements does *)
(* to them, and the shape and the outcome of the programs that each driver *)
(* sends for a batch.                                                      *)
(***************************************************************************)
EXTENDS DbSink, InductionLemmas, FiniteSetTheorems, SequenceTheorems, TLAPS

-----------------------------------------------------------------------------
(* The rows of a batch. *)

LEMMA BatchDomain ==
  ASSUME NEW b \in Seq(Rows)
  PROVE  /\ Len(b) \in Nat /\ DOMAIN b = 1 .. Len(b)
         /\ \A i \in DOMAIN b : b[i] \in Rows /\ b[i].key \in Keys /\ b[i].val \in Values
<1>1. Len(b) \in Nat /\ DOMAIN b = 1 .. Len(b)
  BY LenProperties
<1>2. \A i \in DOMAIN b : b[i] \in Rows
  BY <1>1, ElementOfSeq
<1> QED BY <1>1, <1>2 DEF Rows

\* How often a row occurs.
LEMMA OccursType ==
  ASSUME NEW b \in Seq(Rows), NEW r
  PROVE  /\ Occurs(b, r) \in Nat
         /\ Occurs(b, r) = 0 <=> r \notin RowsOf(b)
<1> DEFINE At == {i \in DOMAIN b : b[i] = r}
<1>1. IsFiniteSet(At)
  <2>1. IsFiniteSet(1 .. Len(b))
    BY BatchDomain, FS_Interval
  <2> QED BY <2>1, BatchDomain, FS_Subset
<1>2. Cardinality(At) \in Nat /\ (Cardinality(At) = 0 <=> At = {})
  BY <1>1, FS_CardinalityType, FS_EmptySet
<1> QED BY <1>2 DEF Occurs, RowsOf

LEMMA OccursOnce ==
  ASSUME NEW b \in Seq(Rows), Repeated(b) = {}, NEW r \in RowsOf(b)
  PROVE  Occurs(b, r) = 1
<1>1. PICK i \in DOMAIN b : b[i] = r
  BY DEF RowsOf
<1>2. {j \in DOMAIN b : b[j] = r} = {i}
  BY <1>1, BatchDomain DEF Repeated
<1> QED BY <1>2, FS_Singleton DEF Occurs

LEMMA OccursConcat ==
  ASSUME NEW a \in Seq(Rows), NEW b \in Seq(Rows), NEW r
  PROVE  Occurs(a \o b, r) = Occurs(a, r) + Occurs(b, r)
<1> DEFINE n == Len(a)
           A == {i \in DOMAIN a : a[i] = r}
           B == {i \in DOMAIN b : b[i] = r}
           C == {i \in DOMAIN (a \o b) : (a \o b)[i] = r}
           Moved == {i \in (n + 1) .. (n + Len(b)) : b[i - n] = r}
<1>1. /\ n \in Nat /\ DOMAIN a = 1 .. n /\ Len(b) \in Nat /\ DOMAIN b = 1 .. Len(b)
      /\ DOMAIN (a \o b) = 1 .. (n + Len(b))
      /\ \A i \in 1 .. (n + Len(b)) : (a \o b)[i] = IF i <= n THEN a[i] ELSE b[i - n]
  BY BatchDomain, ConcatProperties, LenProperties
<1>2. C = A \cup Moved /\ A \cap Moved = {}
  BY <1>1
<1>3. IsFiniteSet(A) /\ IsFiniteSet(B)
  <2>1. IsFiniteSet(1 .. n) /\ IsFiniteSet(1 .. Len(b))
    BY <1>1, FS_Interval
  <2>2. A \in SUBSET (1 .. n) /\ B \in SUBSET (1 .. Len(b))
    BY <1>1
  <2> QED BY <2>1, <2>2, FS_Subset
<1>4. ExistsBijection(B, Moved)
  <2> DEFINE f == [i \in B |-> i + n]
  <2>1. f \in [B -> Moved]
    BY <1>1
  <2>2. \A i, j \in B : f[i] = f[j] => i = j
    BY <1>1
  <2>3. \A m \in Moved : m - n \in B /\ f[m - n] = m
    BY <1>1
  <2> HIDE DEF f, B, Moved
  <2>4. f \in Bijection(B, Moved)
    <3>1. \A m \in Moved : \E i \in B : f[i] = m
      BY <2>3
    <3> QED BY <2>1, <2>2, <3>1 DEF Bijection, Injection, Surjection, IsInjective
  <2> QED BY <2>4 DEF ExistsBijection
<1>5. IsFiniteSet(Moved) /\ Cardinality(Moved) = Cardinality(B)
  BY <1>3, <1>4, FS_Bijection
<1>6. Cardinality(C) = Cardinality(A) + Cardinality(B)
  <2>1. Cardinality(A \cup Moved) = Cardinality(A) + Cardinality(Moved) - Cardinality(A \cap Moved)
    BY <1>3, <1>5, FS_Union
  <2>2. Cardinality(A \cap Moved) = 0
    BY <1>2, FS_EmptySet
  <2>3. Cardinality(A) \in Nat /\ Cardinality(B) \in Nat
    BY <1>3, FS_CardinalityType
  <2> HIDE DEF A, B, C, Moved
  <2> QED BY <1>2, <1>5, <2>1, <2>2, <2>3
<1> QED BY <1>6 DEF Occurs

\* The rows and keys of two batches in a row.
LEMMA ConcatRows ==
  ASSUME NEW a \in Seq(Rows), NEW b \in Seq(Rows)
  PROVE  /\ a \o b \in Seq(Rows)
         /\ RowsOf(a \o b) = RowsOf(a) \cup RowsOf(b)
         /\ KeysOf(a \o b) = KeysOf(a) \cup KeysOf(b)
         /\ \A k : k \in Repeated(a \o b) <=>
              k \in Repeated(a) \/ k \in Repeated(b) \/ k \in KeysOf(a) \cap KeysOf(b)
<1> DEFINE n == Len(a)
           c == a \o b
<1>1. /\ n \in Nat /\ DOMAIN a = 1 .. n /\ Len(b) \in Nat /\ DOMAIN b = 1 .. Len(b)
      /\ c \in Seq(Rows)
      /\ DOMAIN c = 1 .. (n + Len(b))
      /\ \A i \in 1 .. (n + Len(b)) : c[i] = IF i <= n THEN a[i] ELSE b[i - n]
  BY BatchDomain, ConcatProperties, LenProperties
<1>2. \A i \in DOMAIN a : i \in DOMAIN c /\ c[i] = a[i]
  BY <1>1
<1>3. \A i \in DOMAIN b : n + i \in DOMAIN c /\ c[n + i] = b[i]
  BY <1>1
<1>4. \A i \in DOMAIN c : \/ i \in DOMAIN a /\ c[i] = a[i]
                          \/ i - n \in DOMAIN b /\ c[i] = b[i - n]
  BY <1>1
<1>5. RowsOf(c) = RowsOf(a) \cup RowsOf(b)
  <2> HIDE DEF c
  <2> QED BY <1>2, <1>3, <1>4 DEF RowsOf
<1>6. KeysOf(c) = KeysOf(a) \cup KeysOf(b)
  <2> HIDE DEF c
  <2> QED BY <1>2, <1>3, <1>4 DEF KeysOf
<1>7. ASSUME NEW k, k \in Repeated(c)
      PROVE  k \in Repeated(a) \/ k \in Repeated(b) \/ k \in KeysOf(a) \cap KeysOf(b)
  <2>1. PICK i \in DOMAIN c, j \in DOMAIN c : i # j /\ c[i].key = k /\ c[j].key = k /\ k \in Keys
    BY <1>7 DEF Repeated
  <2>2. CASE i <= n /\ j <= n
    BY <1>1, <2>1, <2>2 DEF Repeated
  <2>3. CASE i > n /\ j > n
    <3>1. /\ i - n \in DOMAIN b /\ j - n \in DOMAIN b /\ i - n # j - n
          /\ b[i - n].key = k /\ b[j - n].key = k
      BY <1>1, <2>1, <2>3
    <3> QED BY <2>1, <3>1 DEF Repeated
  <2>4. CASE (i <= n /\ j > n) \/ (i > n /\ j <= n)
    BY <1>1, <2>1, <2>4 DEF KeysOf
  <2>5. i \in Nat /\ j \in Nat
    BY <1>1, <2>1
  <2> QED BY <1>1, <2>2, <2>3, <2>4, <2>5
<1>8. ASSUME NEW k, k \in Repeated(a) \/ k \in Repeated(b) \/ k \in KeysOf(a) \cap KeysOf(b)
      PROVE  k \in Repeated(c)
  <2>1. CASE k \in Repeated(a)
    BY <1>2, <2>1 DEF Repeated
  <2>2. CASE k \in Repeated(b)
    <3>1. PICK i \in DOMAIN b, j \in DOMAIN b : i # j /\ b[i].key = k /\ b[j].key = k /\ k \in Keys
      BY <2>2 DEF Repeated
    <3>2. n + i # n + j
      BY <1>1, <3>1
    <3> QED BY <1>3, <3>1, <3>2 DEF Repeated
  <2>3. CASE k \in KeysOf(a) \cap KeysOf(b)
    <3>1. PICK i \in DOMAIN a, j \in DOMAIN b : a[i].key = k /\ b[j].key = k
      BY <2>3 DEF KeysOf
    <3>2. i # n + j /\ k \in Keys
      BY <1>1, <3>1, BatchDomain
    <3> QED BY <1>2, <1>3, <3>1, <3>2 DEF Repeated
  <2> QED BY <1>8, <2>1, <2>2, <2>3
<1> QED BY <1>1, <1>5, <1>6, <1>7, <1>8

-----------------------------------------------------------------------------
(* What the statements make of the rows of a table. *)

Contents == [Rows -> Nat]

LEMMA EffectTypes ==
  ASSUME NEW rows \in Contents, NEW b \in Seq(Rows), NEW how
  PROVE  /\ NoRows \in Contents
         /\ Appended(rows, b) \in Contents
         /\ Ignored(rows, b) \in Contents
         /\ Updated(rows, b) \in Contents
         /\ Kept(rows, KeysOf(b)) \in Contents
<1>1. \A r : Occurs(b, r) \in Nat
  BY OccursType
<1> QED BY <1>1 DEF Contents, NoRows, Appended, Ignored, Updated, Kept

\* A MERGE that updates where a row differs takes no key away either.
LEMMA ChangedType ==
  ASSUME NEW rows \in Contents, NEW S
  PROVE  Changed(rows, S) \in Contents
<1> DEFINE new == {r \in S : Differs(rows, r)}
<1>1. Changed(rows, S) = [r \in Rows |-> IF r \in new THEN 1
                                         ELSE IF \E x \in new : x.key = r.key THEN 0 ELSE rows[r]]
  BY DEF Changed
<1> HIDE DEF new
<1> QED BY <1>1 DEF Contents

LEMMA HasAfterChanged ==
  ASSUME NEW rows \in Contents, NEW S \in SUBSET Rows, NEW k \in Keys
  PROVE  Has(Changed(rows, S), k) <=> Has(rows, k) \/ \E r \in S : r.key = k
<1> DEFINE new    == {r \in S : Differs(rows, r)}
           row(v) == [key |-> k, val |-> v]
           after  == Changed(rows, S)
<1>1. \A r \in Rows : after[r] = IF r \in new THEN 1
                                ELSE IF \E x \in new : x.key = r.key THEN 0 ELSE rows[r]
  BY DEF Changed
<1>2. \A v \in Values : row(v) \in Rows /\ row(v).key = k
  BY DEF Rows
<1>3. \A t : Has(t, k) <=> \E v \in Values : t[row(v)] > 0
  BY DEF Has
<1>4. CASE \E x \in new : x.key = k
  <2>1. PICK x \in new : x.key = k
    BY <1>4
  <2>2. x \in Rows /\ x \in S /\ x.val \in Values /\ x = row(x.val)
    BY <2>1 DEF Rows
  <2>3. after[row(x.val)] = 1
    BY <1>1, <2>2
  <2> HIDE DEF after, row
  <2> QED BY <1>3, <2>1, <2>2, <2>3 DEF after
<1>5. CASE ~\E x \in new : x.key = k
  <2>1. \A v \in Values : after[row(v)] = rows[row(v)]
    BY <1>1, <1>2, <1>5
  <2>2. ASSUME NEW r \in S, r.key = k PROVE Has(rows, k)
    <3>1. ~Differs(rows, r)
      BY <1>5, <2>2
    <3> QED BY <2>2, <3>1 DEF Differs, Has
  <2> HIDE DEF after, row
  <2> QED BY <1>3, <2>1, <2>2 DEF after
<1> QED BY <1>4, <1>5

\* A key has a row after an insert if it had one or came, unless an upsert took it away.
LEMMA HasAfter ==
  ASSUME NEW rows \in Contents, NEW b \in Seq(Rows), NEW k \in Keys
  PROVE  /\ Has(Appended(rows, b), k) <=> Has(rows, k) \/ k \in KeysOf(b)
         /\ Has(Ignored(rows, b), k) <=> Has(rows, k) \/ k \in KeysOf(b)
         /\ Has(Updated(rows, b), k) <=> Has(rows, k) \/ k \in KeysOf(b)
<1> DEFINE row(v) == [key |-> k, val |-> v]
<1>1. \A v \in Values : row(v) \in Rows /\ row(v).key = k
  BY DEF Rows
<1>2. \A v \in Values : rows[row(v)] \in Nat /\ Occurs(b, row(v)) \in Nat
  BY <1>1, OccursType DEF Contents
<1>3. k \in KeysOf(b) <=> \E v \in Values : Occurs(b, row(v)) > 0
  <2>1. ASSUME k \in KeysOf(b) PROVE \E v \in Values : Occurs(b, row(v)) > 0
    <3>1. PICK i \in DOMAIN b : b[i].key = k
      BY <2>1 DEF KeysOf
    <3>2. b[i] \in Rows /\ b[i].val \in Values
      BY BatchDomain
    <3>3. b[i] = row(b[i].val)
      BY <3>1, <3>2 DEF Rows
    <3>4. row(b[i].val) \in RowsOf(b)
      BY <3>3 DEF RowsOf
    <3>5. Occurs(b, row(b[i].val)) # 0 /\ Occurs(b, row(b[i].val)) \in Nat
      BY <3>4, OccursType
    <3> QED BY <3>2, <3>5
  <2>2. ASSUME NEW v \in Values, Occurs(b, row(v)) > 0 PROVE k \in KeysOf(b)
    <3>1. row(v) \in RowsOf(b)
      BY <2>2, OccursType
    <3>2. PICK i \in DOMAIN b : b[i] = row(v)
      BY <3>1 DEF RowsOf
    <3>3. b[i].key = k
      BY <3>2
    <3> QED BY <3>3 DEF KeysOf
  <2> QED BY <2>1, <2>2
<1>4. \A v \in Values : Occurs(b, row(v)) > 0 <=> row(v) \in RowsOf(b)
  BY <1>2, OccursType
<1> HIDE DEF row
<1>5. Has(rows, k) <=> \E v \in Values : rows[row(v)] > 0
  BY DEF Has, row
<1>6. Has(Appended(rows, b), k) <=> \E v \in Values : rows[row(v)] + Occurs(b, row(v)) > 0
  BY <1>1 DEF Has, Appended, row
<1>7. Has(Ignored(rows, b), k) <=>
        \E v \in Values : (IF row(v) \in RowsOf(b) /\ ~Has(rows, k) THEN 1 ELSE rows[row(v)]) > 0
  <2>1. \A v \in Values : Ignored(rows, b)[row(v)] =
                            IF row(v) \in RowsOf(b) /\ ~Has(rows, k) THEN 1 ELSE rows[row(v)]
    BY <1>1 DEF Ignored
  <2> DEFINE new == Ignored(rows, b)
  <2> HIDE DEF new
  <2>2. Has(new, k) <=> \E v \in Values : new[row(v)] > 0
    BY DEF Has, row
  <2> QED BY <2>1, <2>2 DEF new
<1>8. Has(Updated(rows, b), k) <=>
        \E v \in Values : (IF k \in KeysOf(b) THEN Occurs(b, row(v)) ELSE rows[row(v)]) > 0
  BY <1>1 DEF Has, Updated, row
<1> QED BY <1>2, <1>3, <1>4, <1>5, <1>6, <1>7, <1>8

\* Two batches in a row: appended, ignored or updated one after the other or at once.
LEMMA AppendConcat ==
  ASSUME NEW rows \in Contents, NEW a \in Seq(Rows), NEW b \in Seq(Rows)
  PROVE  Appended(Appended(rows, a), b) = Appended(rows, a \o b)
<1>1. \A r \in Rows : /\ Occurs(a \o b, r) = Occurs(a, r) + Occurs(b, r)
                      /\ Occurs(a, r) \in Nat /\ Occurs(b, r) \in Nat /\ rows[r] \in Nat
  BY OccursConcat, OccursType DEF Contents
<1> QED BY <1>1 DEF Appended

LEMMA IgnoreConcat ==
  ASSUME NEW rows \in Contents, NEW a \in Seq(Rows), NEW b \in Seq(Rows),
         \A k \in KeysOf(a) \cap KeysOf(b) : Has(rows, k)
  PROVE  Ignored(Ignored(rows, a), b) = Ignored(rows, a \o b)
<1> DEFINE new == Ignored(rows, a)
<1>1. \A r \in Rows : r.key \in Keys
  BY DEF Rows
<1>2. \A k \in Keys : Has(new, k) <=> Has(rows, k) \/ k \in KeysOf(a)
  BY HasAfter
<1>3. \A r : r \in RowsOf(a) => r.key \in KeysOf(a)
  BY DEF RowsOf, KeysOf
<1>4. \A r : r \in RowsOf(b) => r.key \in KeysOf(b)
  BY DEF RowsOf, KeysOf
<1>5. \A r \in Rows : new[r] = IF r \in RowsOf(a) /\ ~Has(rows, r.key) THEN 1 ELSE rows[r]
  BY DEF Ignored
<1>6. RowsOf(a \o b) = RowsOf(a) \cup RowsOf(b)
  BY ConcatRows
<1>7. ASSUME NEW r \in Rows
      PROVE  (IF r \in RowsOf(b) /\ ~Has(new, r.key) THEN 1 ELSE new[r])
               = (IF r \in RowsOf(a \o b) /\ ~Has(rows, r.key) THEN 1 ELSE rows[r])
  <2> HIDE DEF new
  <2>1. CASE Has(rows, r.key)
    BY <1>1, <1>2, <1>5, <2>1
  <2>2. CASE ~Has(rows, r.key) /\ r \in RowsOf(a)
    BY <1>1, <1>2, <1>3, <1>5, <1>6, <2>2
  <2>3. CASE ~Has(rows, r.key) /\ r \notin RowsOf(a) /\ r \in RowsOf(b)
    BY <1>1, <1>2, <1>4, <1>6, <2>3
  <2>4. CASE ~Has(rows, r.key) /\ r \notin RowsOf(a) /\ r \notin RowsOf(b)
    BY <1>5, <1>6, <2>4
  <2> QED BY <2>1, <2>2, <2>3, <2>4
<1>8. Ignored(new, b) = [r \in Rows |-> IF r \in RowsOf(b) /\ ~Has(new, r.key) THEN 1 ELSE new[r]]
  BY DEF Ignored
<1>9. Ignored(rows, a \o b)
        = [r \in Rows |-> IF r \in RowsOf(a \o b) /\ ~Has(rows, r.key) THEN 1 ELSE rows[r]]
  BY DEF Ignored
<1> HIDE DEF new
<1>10. Ignored(new, b) = Ignored(rows, a \o b)
  BY <1>7, <1>8, <1>9
<1> QED BY <1>10 DEF new

LEMMA UpdateConcat ==
  ASSUME NEW rows \in Contents, NEW a \in Seq(Rows), NEW b \in Seq(Rows), Repeated(a \o b) = {}
  PROVE  Updated(Updated(rows, a), b) = Updated(rows, a \o b)
<1>1. KeysOf(a \o b) = KeysOf(a) \cup KeysOf(b) /\ KeysOf(a) \cap KeysOf(b) = {}
  BY ConcatRows
<1>2. \A r \in Rows : /\ Occurs(a \o b, r) = Occurs(a, r) + Occurs(b, r)
                      /\ Occurs(a, r) \in Nat /\ Occurs(b, r) \in Nat
  BY OccursConcat, OccursType
<1>3. ASSUME NEW b2 \in Seq(Rows), NEW r \in Rows, r.key \notin KeysOf(b2) PROVE Occurs(b2, r) = 0
  <2>1. r \notin RowsOf(b2)
    BY <1>3 DEF RowsOf, KeysOf
  <2> QED BY <2>1, OccursType
<1> QED BY <1>1, <1>2, <1>3 DEF Updated

\* Where no key has a row yet and none comes twice, every kind of insert does the same.
LEMMA UniqueIsAny ==
  ASSUME NEW rows \in Contents, NEW b \in Seq(Rows),
         Repeated(b) = {}, \A k \in KeysOf(b) : ~Has(rows, k)
  PROVE  Appended(rows, b) = Ignored(rows, b) /\ Appended(rows, b) = Updated(rows, b)
<1>1. ASSUME NEW r \in Rows
      PROVE  /\ r \in RowsOf(b) => Occurs(b, r) = 1 /\ r.key \in KeysOf(b)
             /\ r \notin RowsOf(b) => Occurs(b, r) = 0
             /\ r.key \in KeysOf(b) => rows[r] = 0 /\ ~Has(rows, r.key)
             /\ rows[r] \in Nat
  <2>1. r \in RowsOf(b) => Occurs(b, r) = 1 /\ r.key \in KeysOf(b)
    BY OccursOnce DEF RowsOf, KeysOf
  <2>2. r \notin RowsOf(b) => Occurs(b, r) = 0
    BY OccursType
  <2>3. rows[r] \in Nat /\ r.val \in Values /\ r = [key |-> r.key, val |-> r.val]
    BY DEF Contents, Rows
  <2>4. ~Has(rows, r.key) => rows[r] = 0
    <3>1. rows[[key |-> r.key, val |-> r.val]] > 0 => Has(rows, r.key)
      BY <2>3 DEF Has
    <3> QED BY <2>3, <3>1
  <2> QED BY <2>1, <2>2, <2>3, <2>4
<1> QED BY <1>1 DEF Appended, Ignored, Updated

-----------------------------------------------------------------------------
(* Inserts of several batches, by one statement or by several. *)

\* The statement is not refused.
Takes(rows, b, how) == ~Refused(Insert("run", b, how), rows)

LEMMA TakesDef ==
  ASSUME NEW rows, NEW b, NEW how, NEW on
  PROVE  /\ Refused(Insert(on, b, how), rows) <=> ~Takes(rows, b, how)
         /\ Takes(rows, b, how) <=>
              /\ how = "unique" => Repeated(b) = {} /\ \A k \in KeysOf(b) : ~Has(rows, k)
              /\ how = "ignore" => \A k \in Repeated(b) : Has(rows, k)
              /\ how \in {"update", "mirror"} => Repeated(b) = {}
              /\ how = "changed" => \A i, j \in DOMAIN b :
                   i # j /\ b[i].key = b[j].key => ~Differs(rows, b[i]) \/ ~Differs(rows, b[j])
  BY DEF Takes, Refused, Insert, Stmt

Inserts == {"append", "unique", "ignore", "update"}

LEMMA TakesInsert ==
  ASSUME NEW rows, NEW b, NEW how \in Inserts
  PROVE  Takes(rows, b, how) <=>
           /\ how = "unique" => Repeated(b) = {} /\ \A k \in KeysOf(b) : ~Has(rows, k)
           /\ how = "ignore" => \A k \in Repeated(b) : Has(rows, k)
           /\ how = "update" => Repeated(b) = {}
<1>1. how # "changed" /\ how # "mirror"
  BY DEF Inserts
<1> QED BY <1>1, TakesDef

\* Those after which no key is gone
Adding == Inserts \cup {"changed"}

LEMMA InsertEffectType ==
  ASSUME NEW rows \in Contents, NEW b \in Seq(Rows), NEW how \in Hows
  PROVE  InsertEffect(rows, b, how) \in Contents
<1>1. InsertEffect(rows, b, how) \in {Appended(rows, b), Ignored(rows, b), Updated(rows, b),
                                      Changed(rows, RowsOf(b)), Kept(Updated(rows, b), KeysOf(b))}
  BY DEF InsertEffect, Hows
<1>2. Updated(rows, b) \in Contents
  BY EffectTypes
<1> QED BY <1>1, <1>2, EffectTypes, ChangedType

LEMMA HasAfterInsert ==
  ASSUME NEW rows \in Contents, NEW b \in Seq(Rows), NEW how \in Adding, NEW k \in Keys
  PROVE  Has(InsertEffect(rows, b, how), k) <=> Has(rows, k) \/ k \in KeysOf(b)
<1>1. CASE how = "changed"
  <2>1. RowsOf(b) \in SUBSET Rows /\ (k \in KeysOf(b) <=> \E r \in RowsOf(b) : r.key = k)
    BY BatchDomain DEF RowsOf, KeysOf
  <2>2. InsertEffect(rows, b, how) = Changed(rows, RowsOf(b))
    BY <1>1 DEF InsertEffect
  <2> QED BY <2>1, <2>2, HasAfterChanged
<1>2. CASE how # "changed"
  <2>1. InsertEffect(rows, b, how) \in {Appended(rows, b), Ignored(rows, b), Updated(rows, b)}
    BY <1>2 DEF InsertEffect, Adding, Inserts
  <2> QED BY <2>1, HasAfter
<1> QED BY <1>1, <1>2

LEMMA KeysAreKeys == ASSUME NEW b \in Seq(Rows) PROVE KeysOf(b) \subseteq Keys /\ Repeated(b) \subseteq KeysOf(b)
  BY BatchDomain DEF KeysOf, Repeated

\* A statement that takes two batches at once does what two statements would do.
LEMMA InsertSplit ==
  ASSUME NEW rows \in Contents, NEW a \in Seq(Rows), NEW b \in Seq(Rows), NEW how \in Inserts,
         Takes(rows, a \o b, how)
  PROVE  /\ Takes(rows, a, how)
         /\ Takes(InsertEffect(rows, a, how), b, how)
         /\ InsertEffect(InsertEffect(rows, a, how), b, how) = InsertEffect(rows, a \o b, how)
<1> DEFINE new == InsertEffect(rows, a, how)
<1>1. /\ KeysOf(a \o b) = KeysOf(a) \cup KeysOf(b)
      /\ \A k : k \in Repeated(a \o b) <=>
           k \in Repeated(a) \/ k \in Repeated(b) \/ k \in KeysOf(a) \cap KeysOf(b)
  BY ConcatRows
<1>2. \A k \in Keys : Has(new, k) <=> Has(rows, k) \/ k \in KeysOf(a)
  BY HasAfterInsert DEF Adding
<1>3. KeysOf(a) \subseteq Keys /\ KeysOf(b) \subseteq Keys /\ Repeated(b) \subseteq KeysOf(b)
  BY KeysAreKeys
<1> HIDE DEF new
<1>4. Takes(rows, a, how)
  BY <1>1, TakesInsert
<1>5. Takes(new, b, how)
  BY <1>1, <1>2, <1>3, TakesInsert
<1>6. InsertEffect(new, b, how) = InsertEffect(rows, a \o b, how)
  <2>1. CASE how \in {"append", "unique"}
    BY <2>1, AppendConcat DEF InsertEffect, new
  <2>2. CASE how = "ignore"
    <3>1. \A k \in KeysOf(a) \cap KeysOf(b) : Has(rows, k)
      BY <1>1, <2>2, TakesInsert
    <3> QED BY <2>2, <3>1, IgnoreConcat DEF InsertEffect, new
  <2>3. CASE how = "update"
    <3>1. Repeated(a \o b) = {}
      BY <2>3, TakesInsert
    <3> QED BY <2>3, <3>1, UpdateConcat DEF InsertEffect, new
  <2> QED BY <2>1, <2>2, <2>3 DEF Inserts
<1> QED BY <1>4, <1>5, <1>6 DEF new

\* And the other way round, where no key comes twice or the primary key forbids it.
LEMMA InsertJoin ==
  ASSUME NEW rows \in Contents, NEW a \in Seq(Rows), NEW b \in Seq(Rows), NEW how \in Inserts,
         Takes(rows, a, how), Takes(InsertEffect(rows, a, how), b, how),
         how \in {"append", "unique"} \/ Repeated(a \o b) = {}
  PROVE  /\ Takes(rows, a \o b, how)
         /\ InsertEffect(InsertEffect(rows, a, how), b, how) = InsertEffect(rows, a \o b, how)
<1> DEFINE new == InsertEffect(rows, a, how)
<1>1. /\ KeysOf(a \o b) = KeysOf(a) \cup KeysOf(b)
      /\ \A k : k \in Repeated(a \o b) <=>
           k \in Repeated(a) \/ k \in Repeated(b) \/ k \in KeysOf(a) \cap KeysOf(b)
  BY ConcatRows
<1>2. \A k \in Keys : Has(new, k) <=> Has(rows, k) \/ k \in KeysOf(a)
  BY HasAfterInsert DEF Adding
<1>3. KeysOf(a) \subseteq Keys /\ KeysOf(b) \subseteq Keys
  BY KeysAreKeys
<1> HIDE DEF new
<1>4. Takes(rows, a \o b, how)
  <2>1. CASE how = "unique"
    <3>1. /\ Repeated(a) = {} /\ \A k \in KeysOf(a) : ~Has(rows, k)
          /\ Repeated(b) = {} /\ \A k \in KeysOf(b) : ~Has(new, k)
      BY <2>1, TakesInsert DEF new
    <3>2. \A k \in KeysOf(b) : ~Has(rows, k) /\ k \notin KeysOf(a)
      BY <1>2, <1>3, <3>1
    <3>3. Repeated(a \o b) = {} /\ \A k \in KeysOf(a \o b) : ~Has(rows, k)
      BY <1>1, <3>1, <3>2
    <3> QED BY <2>1, <3>3, TakesInsert
  <2>2. CASE how = "append"
    BY <2>2, TakesInsert
  <2>3. CASE Repeated(a \o b) = {} /\ how # "unique"
    BY <2>3, TakesInsert
  <2> QED BY <2>1, <2>2, <2>3
<1> QED BY <1>4, InsertSplit

\* An insert of nothing
LEMMA InsertNothing ==
  ASSUME NEW rows \in Contents, NEW how \in Adding
  PROVE  Takes(rows, <<>>, how) /\ InsertEffect(rows, <<>>, how) = rows
<1>1. <<>> \in Seq(Rows) /\ DOMAIN <<>> = {}
  BY EmptySeq
<1>2. KeysOf(<<>>) = {} /\ RowsOf(<<>>) = {} /\ Repeated(<<>>) = {}
  BY <1>1 DEF KeysOf, RowsOf, Repeated
<1>3. \A r : Occurs(<<>>, r) = 0
  BY <1>1, <1>2, OccursType
<1>4. Takes(rows, <<>>, how)
  BY <1>1, <1>2, TakesDef DEF Adding, Inserts
<1>5. rows = [r \in Rows |-> rows[r]] /\ \A r \in Rows : rows[r] \in Nat
  BY DEF Contents
<1>6. Appended(rows, <<>>) = rows /\ Ignored(rows, <<>>) = rows /\ Updated(rows, <<>>) = rows
  BY <1>2, <1>3, <1>5 DEF Appended, Ignored, Updated
<1>7. Changed(rows, RowsOf(<<>>)) = rows
  BY <1>2, <1>5 DEF Changed
<1> QED BY <1>4, <1>6, <1>7 DEF InsertEffect, Adding, Inserts

\* The ways of inserting that do what a strategy asks for
Fits(strategy, how) ==
  CASE strategy \in {"append", "truncate"}     -> how \in {"append", "unique"}
    [] strategy = "insert_ignore"              -> how \in {"ignore", "unique"}
    [] strategy \in {"upsert", "merge_delete"} -> how \in {"update", "unique"}

LEMMA FitsOneBatch ==
  ASSUME NEW c \in Configs, NEW rows \in Contents, NEW b \in Seq(Rows), NEW how,
         Fits(c.strategy, how), Takes(rows, b, how)
  PROVE  how \in Inserts /\ InsertEffect(rows, b, how) = OneBatch(c, rows, b)
<1>1. c.strategy \in Strategies
  BY DEF Configs
<1>2. CASE how = "unique"
  <2>1. Repeated(b) = {} /\ \A k \in KeysOf(b) : ~Has(rows, k)
    BY <1>2, TakesDef
  <2>2. Appended(rows, b) = Ignored(rows, b) /\ Appended(rows, b) = Updated(rows, b)
    BY <2>1, UniqueIsAny
  <2> QED BY <1>1, <1>2, <2>2 DEF Fits, Strategies, InsertEffect, OneBatch, Inserts
<1>3. CASE how # "unique"
  BY <1>1, <1>3 DEF Fits, Strategies, InsertEffect, OneBatch, Inserts
<1> QED BY <1>2, <1>3

-----------------------------------------------------------------------------
(* What a program makes of the rows of a table. *)

\* The recursive function in Outcomes exists, and computes what it says.
StepByStep(f, prog, rows) ==
  /\ Outcomes(prog, rows) = f[Len(prog)]
  /\ f[0] = {rows}
  /\ \A n \in 1 .. Len(prog) : f[n] = AfterEach(prog[n], f[n - 1])

LEMMA OutcomesDef == ASSUME NEW prog \in Seq(Statements), NEW rows PROVE \E f : StepByStep(f, prog, rows)
<1> DEFINE N == Len(prog)
           first == {rows}
           Computes(f, m) == f = [n \in 0 .. m |-> IF n = 0 THEN first ELSE AfterEach(prog[n], f[n - 1])]
           S == {m \in Nat : \E f : Computes(f, m)}
<1> HIDE DEF first
<1>1. N \in Nat
  BY LenProperties
<1>2. 0 \in S
  <2> DEFINE f0 == [n \in 0 .. 0 |-> first]
  <2>1. f0 = [n \in 0 .. 0 |-> IF n = 0 THEN first ELSE AfterEach(prog[n], f0[n - 1])]
    <3>1. \A n \in 0 .. 0 : first = IF n = 0 THEN first ELSE AfterEach(prog[n], f0[n - 1])
      OBVIOUS
    <3> QED BY <3>1
  <2>2. Computes(f0, 0)
    <3> HIDE DEF f0
    <3> QED BY <2>1
  <2> QED BY <2>2
<1>3. ASSUME NEW m \in 0 .. N, m < N, m \in S PROVE m + 1 \in S
  <2>1. PICK f : Computes(f, m)
    BY <1>3
  <2>2. f[0] = first /\ \A n \in 1 .. m : f[n] = AfterEach(prog[n], f[n - 1])
    BY <1>1, <2>1
  <2> DEFINE g == [n \in 0 .. m + 1 |-> IF n <= m THEN f[n] ELSE AfterEach(prog[n], f[m])]
  <2> HIDE DEF Computes
  <2>3. ASSUME NEW n \in 0 .. m + 1
        PROVE  g[n] = IF n = 0 THEN first ELSE AfterEach(prog[n], g[n - 1])
    <3>1. CASE n = 0
      BY <1>1, <2>2, <3>1
    <3>2. CASE n # 0 /\ n <= m
      <4>1. n \in 1 .. m /\ n - 1 \in 0 .. m + 1 /\ n - 1 <= m
        BY <1>1, <3>2
      <4> QED BY <2>2, <3>2, <4>1
    <3>3. CASE n = m + 1
      <4>1. n - 1 = m /\ m \in 0 .. m + 1 /\ n # 0 /\ ~(n <= m) /\ m <= m
        BY <1>1, <3>3
      <4> QED BY <3>3, <4>1
    <3> QED BY <1>1, <3>1, <3>2, <3>3
  <2>4. g = [n \in 0 .. m + 1 |-> IF n = 0 THEN first ELSE AfterEach(prog[n], g[n - 1])]
    <3>1. g = [n \in 0 .. m + 1 |-> g[n]]
      OBVIOUS
    <3> HIDE DEF g
    <3> QED BY <2>3, <3>1
  <2>5. Computes(g, m + 1)
    BY <2>4 DEF Computes
  <2> QED BY <1>1, <2>5
<1>4. N \in S
  <2> HIDE DEF S, N
  <2>1. \A m \in 0 .. N : m < N /\ m \in S => m + 1 \in S
    BY <1>3
  <2>2. 0 .. N \subseteq S
    BY <1>1, <1>2, <2>1, UpTo
  <2> QED BY <1>1, <2>2
<1> DEFINE f[n \in 0 .. N] == IF n = 0 THEN first ELSE AfterEach(prog[n], f[n - 1])
<1>5. f = [n \in 0 .. N |-> IF n = 0 THEN first ELSE AfterEach(prog[n], f[n - 1])]
  BY <1>4
<1>6. Outcomes(prog, rows) = f[N]
  BY DEF Outcomes, first
<1> HIDE DEF f
<1>7. f[0] = first /\ \A n \in 1 .. N : f[n] = AfterEach(prog[n], f[n - 1])
  <2>1. \A n \in 0 .. N : f[n] = IF n = 0 THEN first ELSE AfterEach(prog[n], f[n - 1])
    <3> HIDE DEF N
    <3> DEFINE F(n) == IF n = 0 THEN first ELSE AfterEach(prog[n], f[n - 1])
    <3>1. f = [n \in 0 .. N |-> F(n)]
      BY <1>5
    <3> HIDE DEF F
    <3>2. \A n \in 0 .. N : f[n] = F(n)
      BY <3>1
    <3> QED BY <3>2 DEF F
  <2>2. 0 \in 0 .. N /\ \A n \in 1 .. N : n \in 0 .. N /\ n # 0
    BY <1>1
  <2> QED BY <2>1, <2>2
<1> QED BY <1>6, <1>7 DEF StepByStep, first

\* The rows after each statement of a program, none of which is refused.
Trail(h, prog, n, rows) ==
  /\ h[0] = rows
  /\ \A m \in 1 .. n : ~Refused(prog[m], h[m - 1]) /\ h[m] = RowsAfter(prog[m], h[m - 1])

LEMMA OutcomesTrail ==
  ASSUME NEW prog \in Seq(Statements), NEW rows, NEW x
  PROVE  x \in Outcomes(prog, rows) <=>
           \E h : Trail(h, prog, Len(prog), rows) /\ h[Len(prog)] = x
<1> DEFINE N == Len(prog)
           Reached(n, y) == \E h : Trail(h, prog, n, rows) /\ h[n] = y
<1>1. N \in Nat
  BY LenProperties
<1>a. PICK f : StepByStep(f, prog, rows)
  BY OutcomesDef
<1>2.  /\ Outcomes(prog, rows) = f[N]
       /\ f[0] = {rows}
       /\ \A n \in 1 .. N : f[n] = AfterEach(prog[n], f[n - 1])
  BY <1>a DEF StepByStep
<1> DEFINE S == {n \in 0 .. N : \A y : y \in f[n] <=> Reached(n, y)}
<1> HIDE DEF N
<1>3. 0 \in S
  <2>1. ASSUME NEW y PROVE y \in f[0] <=> Reached(0, y)
    <3>1. ASSUME y = rows PROVE Reached(0, y)
      <4> DEFINE h == [n \in 0 .. 0 |-> rows]
      <4>1. h[0] = rows
        OBVIOUS
      <4> HIDE DEF h
      <4>2. Trail(h, prog, 0, rows)
        BY <4>1 DEF Trail
      <4> QED BY <3>1, <4>1, <4>2
    <3>2. Reached(0, y) => y = rows
      BY DEF Trail
    <3> QED BY <1>2, <3>1, <3>2
  <2> QED BY <1>1, <2>1
<1>4. ASSUME NEW n \in 0 .. N, n < N, n \in S PROVE n + 1 \in S
  <2>1. n + 1 \in 1 .. N /\ (n + 1) - 1 = n /\ n \in Nat /\ n + 1 \in 0 .. N
    BY <1>1, <1>4
  <2>2. f[n + 1] = AfterEach(prog[n + 1], f[n])
    BY <1>2, <2>1
  <2>3. \A y : y \in f[n] <=> Reached(n, y)
    BY <1>4
  <2> DEFINE st == prog[n + 1]
  <2>4. ASSUME NEW y, y \in f[n + 1] PROVE Reached(n + 1, y)
    <3>1. PICK z \in f[n] : ~Refused(st, z) /\ y = RowsAfter(st, z)
      BY <2>2, <2>4 DEF AfterEach
    <3>2. PICK h : Trail(h, prog, n, rows) /\ h[n] = z
      BY <2>3, <3>1
    <3> DEFINE g == [m \in 0 .. n + 1 |-> IF m = n + 1 THEN y ELSE h[m]]
    <3>3. g[n + 1] = y /\ \A m \in 0 .. n : g[m] = h[m]
      BY <2>1
    <3> HIDE DEF g
    <3>4. ASSUME NEW m \in 1 .. n + 1
          PROVE  ~Refused(prog[m], g[m - 1]) /\ g[m] = RowsAfter(prog[m], g[m - 1])
      <4>1. CASE m = n + 1
        <5>1. g[m - 1] = z
          BY <2>1, <3>2, <3>3, <4>1
        <5> QED BY <3>1, <3>3, <4>1, <5>1
      <4>2. CASE m \in 1 .. n
        <5>1. m \in 0 .. n /\ m - 1 \in 0 .. n
          BY <2>1, <4>2
        <5> QED BY <3>2, <3>3, <4>2, <5>1 DEF Trail
      <4> QED BY <2>1, <4>1, <4>2
    <3>5. g[0] = rows
      BY <2>1, <3>2, <3>3 DEF Trail
    <3>6. Trail(g, prog, n + 1, rows)
      BY <3>4, <3>5 DEF Trail
    <3> QED BY <3>3, <3>6
  <2>5. ASSUME NEW y, Reached(n + 1, y) PROVE y \in f[n + 1]
    <3>1. PICK h : Trail(h, prog, n + 1, rows) /\ h[n + 1] = y
      BY <2>5
    <3>2. Trail(h, prog, n, rows)
      BY <2>1, <3>1 DEF Trail
    <3>3. h[n] \in f[n]
      BY <2>3, <3>2
    <3>4. ~Refused(st, h[n]) /\ h[n + 1] = RowsAfter(st, h[n])
      <4>1. n + 1 \in 1 .. n + 1
        BY <2>1
      <4> QED BY <2>1, <3>1, <4>1 DEF Trail
    <3> QED BY <2>2, <3>1, <3>3, <3>4 DEF AfterEach
  <2> QED BY <2>1, <2>4, <2>5
<1>5. 0 .. N \subseteq S
  <2>1. \A n \in 0 .. N : n < N /\ n \in S => n + 1 \in S
    BY <1>4
  <2> HIDE DEF S
  <2> QED BY <1>1, <1>3, <2>1, UpTo
<1>6. N \in S
  BY <1>1, <1>5
<1>7. x \in f[N] <=> Reached(N, x)
  BY <1>6
<1> QED BY <1>2, <1>7 DEF N

LEMMA OutcomesConcat ==
  ASSUME NEW a \in Seq(Statements), NEW b \in Seq(Statements), NEW rows, NEW x
  PROVE  x \in Outcomes(a \o b, rows) <=> \E y \in Outcomes(a, rows) : x \in Outcomes(b, y)
<1> DEFINE n == Len(a)
           p == Len(b)
           c == a \o b
<1>1. /\ n \in Nat /\ p \in Nat /\ c \in Seq(Statements) /\ Len(c) = n + p
      /\ \A m \in 1 .. n + p : c[m] = IF m <= n THEN a[m] ELSE b[m - n]
  BY ConcatProperties, LenProperties
<1>2. ASSUME x \in Outcomes(c, rows)
      PROVE  \E y \in Outcomes(a, rows) : x \in Outcomes(b, y)
  <2> HIDE DEF c, n, p
  <2>1. PICK h : Trail(h, c, n + p, rows) /\ h[n + p] = x
    BY <1>1, <1>2, OutcomesTrail
  <2>2. Trail(h, a, n, rows)
    <3>1. \A m \in 1 .. n : m \in 1 .. n + p /\ c[m] = a[m]
      BY <1>1
    <3> QED BY <2>1, <3>1 DEF Trail
  <2> DEFINE g == [m \in 0 .. p |-> h[n + m]]
  <2>3. \A m \in 0 .. p : g[m] = h[n + m]
    OBVIOUS
  <2> HIDE DEF g
  <2>4. Trail(g, b, p, h[n])
    <3>1. g[0] = h[n]
      BY <1>1, <2>3
    <3>2. ASSUME NEW m \in 1 .. p
          PROVE  ~Refused(b[m], g[m - 1]) /\ g[m] = RowsAfter(b[m], g[m - 1])
      <4>1. /\ n + m \in 1 .. n + p /\ (n + m) - n = m /\ ~(n + m <= n)
            /\ (n + m) - 1 = n + (m - 1) /\ m \in 0 .. p /\ m - 1 \in 0 .. p
        BY <1>1
      <4>2. c[n + m] = b[m]
        BY <1>1, <4>1
      <4>3. g[m] = h[n + m] /\ g[m - 1] = h[(n + m) - 1]
        BY <2>3, <4>1
      <4>4. ~Refused(c[n + m], h[(n + m) - 1]) /\ h[n + m] = RowsAfter(c[n + m], h[(n + m) - 1])
        BY <2>1, <4>1 DEF Trail
      <4> QED BY <4>2, <4>3, <4>4
    <3> QED BY <3>1, <3>2 DEF Trail
  <2>5. h[n] \in Outcomes(a, rows)
    BY <2>2, OutcomesTrail DEF n
  <2>6. g[p] = x
    BY <1>1, <2>1, <2>3
  <2>7. x \in Outcomes(b, h[n])
    BY <2>4, <2>6, OutcomesTrail DEF p
  <2> QED BY <2>5, <2>7
<1>3. ASSUME NEW y \in Outcomes(a, rows), x \in Outcomes(b, y)
      PROVE  x \in Outcomes(c, rows)
  <2> HIDE DEF c, n, p
  <2>1. PICK h : Trail(h, a, n, rows) /\ h[n] = y
    BY OutcomesTrail DEF n
  <2>2. PICK g : Trail(g, b, p, y) /\ g[p] = x
    BY <1>3, OutcomesTrail DEF p
  <2> DEFINE k == [m \in 0 .. n + p |-> IF m <= n THEN h[m] ELSE g[m - n]]
  <2>3. \A m \in 0 .. n + p : k[m] = IF m <= n THEN h[m] ELSE g[m - n]
    OBVIOUS
  <2> HIDE DEF k
  <2>4. ASSUME NEW m \in 1 .. n + p
        PROVE  ~Refused(c[m], k[m - 1]) /\ k[m] = RowsAfter(c[m], k[m - 1])
    <3>1. CASE m <= n
      <4>1. m \in 1 .. n /\ m \in 0 .. n + p /\ m - 1 \in 0 .. n + p /\ m - 1 <= n
        BY <1>1, <3>1
      <4>2. c[m] = a[m] /\ k[m] = h[m] /\ k[m - 1] = h[m - 1]
        BY <1>1, <2>3, <3>1, <4>1
      <4> QED BY <2>1, <4>1, <4>2 DEF Trail
    <3>2. CASE ~(m <= n)
      <4>1. m - n \in 1 .. p /\ m \in 0 .. n + p /\ m - 1 \in 0 .. n + p /\ (m - n) - 1 = (m - 1) - n
        BY <1>1, <3>2
      <4>2. c[m] = b[m - n] /\ k[m] = g[m - n]
        BY <1>1, <2>3, <3>2, <4>1
      <4>3. k[m - 1] = g[(m - n) - 1]
        <5>1. CASE m - 1 <= n
          <6>1. m - 1 = n /\ (m - n) - 1 = 0
            BY <1>1, <3>2, <5>1
          <6>2. k[m - 1] = h[n]
            BY <2>3, <4>1, <5>1, <6>1
          <6> QED BY <2>1, <2>2, <6>1, <6>2 DEF Trail
        <5>2. CASE ~(m - 1 <= n)
          BY <2>3, <4>1, <5>2
        <5> QED BY <5>1, <5>2
      <4> QED BY <2>2, <4>1, <4>2, <4>3 DEF Trail
    <3> QED BY <3>1, <3>2
  <2>5. k[0] = rows
    BY <1>1, <2>1, <2>3 DEF Trail
  <2>6. k[n + p] = x
    <3>1. CASE p = 0
      BY <1>1, <2>1, <2>2, <2>3, <3>1 DEF Trail
    <3>2. CASE p # 0
      BY <1>1, <2>2, <2>3, <3>2
    <3> QED BY <3>1, <3>2
  <2>7. Trail(k, c, n + p, rows)
    BY <2>4, <2>5 DEF Trail
  <2> QED BY <1>1, <2>6, <2>7, OutcomesTrail
<1> QED BY <1>2, <1>3

LEMMA OutcomesEmpty ==
  ASSUME NEW rows PROVE Outcomes(<<>>, rows) = {rows}
<1>1. <<>> \in Seq(Statements) /\ Len(<<>>) = 0
  BY EmptySeq
<1>2. PICK f : StepByStep(f, <<>>, rows)
  BY <1>1, OutcomesDef
<1> QED BY <1>1, <1>2 DEF StepByStep

LEMMA OutcomesOne ==
  ASSUME NEW st \in Statements, NEW rows
  PROVE  Outcomes(<<st>>, rows) = IF Refused(st, rows) THEN {} ELSE {RowsAfter(st, rows)}
<1>1. <<st>> \in Seq(Statements) /\ Len(<<st>>) = 1 /\ <<st>>[1] = st /\ 1 \in 1 .. 1
  OBVIOUS
<1>2. PICK f : Outcomes(<<st>>, rows) = f[1] /\ f[0] = {rows} /\ f[1] = AfterEach(st, f[0])
  <2>a. PICK f : StepByStep(f, <<st>>, rows)
    BY <1>1, OutcomesDef
  <2>1. /\ Outcomes(<<st>>, rows) = f[Len(<<st>>)] /\ f[0] = {rows}
        /\ \A n \in 1 .. Len(<<st>>) : f[n] = AfterEach(<<st>>[n], f[n - 1])
    BY <2>a DEF StepByStep
  <2>2. f[1] = AfterEach(<<st>>[1], f[1 - 1])
    BY <1>1, <2>1
  <2> QED BY <1>1, <2>1, <2>2
<1>3. AfterEach(st, {rows}) = IF Refused(st, rows) THEN {} ELSE {RowsAfter(st, rows)}
  BY DEF AfterEach
<1> QED BY <1>2, <1>3

\* The first statement, then the rest.
LEMMA OutcomesStep ==
  ASSUME NEW st \in Statements, NEW prog \in Seq(Statements), NEW rows
  PROVE  Outcomes(<<st>> \o prog, rows) =
           IF Refused(st, rows) THEN {} ELSE Outcomes(prog, RowsAfter(st, rows))
<1>1. <<st>> \in Seq(Statements)
  OBVIOUS
<1>2. \A x : x \in Outcomes(<<st>> \o prog, rows) <=>
               \E y \in Outcomes(<<st>>, rows) : x \in Outcomes(prog, y)
  <2> DEFINE one == <<st>>
  <2>1. one \in Seq(Statements)
    BY <1>1
  <2> HIDE DEF one
  <2>2. \A x : x \in Outcomes(one \o prog, rows) <=>
                 \E y \in Outcomes(one, rows) : x \in Outcomes(prog, y)
    BY <2>1, OutcomesConcat
  <2> QED BY <2>2 DEF one
<1> QED BY <1>2, OutcomesOne

-----------------------------------------------------------------------------
(* The statements, one by one and for each chunk of a batch. *)

LEMMA StatementTypes ==
  ASSUME NEW on \in Sessions, NEW b \in Seq(Rows), NEW how \in Hows
  PROVE  /\ Begin(on) \in Statements /\ Commit(on) \in Statements
         /\ Drop(on) \in Statements /\ Create(on) \in Statements /\ Truncate(on) \in Statements
         /\ Insert(on, b, how) \in Statements /\ Keep(on, b) \in Statements
         /\ Stage(on, b) \in Statements /\ Clone(on) \in Statements /\ Bulk(on, b) \in Statements
<1>1. <<>> \in Seq(Rows)
  BY EmptySeq
<1> QED BY <1>1 DEF Begin, Commit, Drop, Create, Truncate, Insert, Keep, Stage, Clone, Bulk, Stmt,
                    Statements, Ops, Hows

\* What the rows are after a statement; only an insert can be refused.
LEMMA StatementEffects ==
  ASSUME NEW rows, NEW on, NEW b, NEW how
  PROVE  /\ \A st \in {Begin(on), Commit(on), Create(on), Stage(on, b), Clone(on)} :
              ~Refused(st, rows) /\ RowsAfter(st, rows) = rows
         /\ \A st \in {Drop(on), Truncate(on)} : ~Refused(st, rows) /\ RowsAfter(st, rows) = NoRows
         /\ ~Refused(Keep(on, b), rows) /\ RowsAfter(Keep(on, b), rows) = Kept(rows, KeysOf(b))
         /\ Refused(Insert(on, b, how), rows) <=> ~Takes(rows, b, how)
         /\ RowsAfter(Insert(on, b, how), rows) = InsertEffect(rows, b, how)
<1> DEFINE Free(st) == ~Refused(st, rows)
           Same(st) == RowsAfter(st, rows) = rows
<1>1. /\ Free(Begin(on)) /\ Free(Commit(on)) /\ Free(Create(on)) /\ Free(Stage(on, b)) /\ Free(Clone(on))
      /\ Free(Drop(on)) /\ Free(Truncate(on)) /\ Free(Keep(on, b))
  BY DEF Refused, Begin, Commit, Create, Stage, Clone, Drop, Truncate, Keep, Stmt
<1>2. Same(Begin(on)) /\ Same(Commit(on)) /\ Same(Create(on)) /\ Same(Stage(on, b)) /\ Same(Clone(on))
  BY DEF RowsAfter, Effect, Begin, Commit, Create, Stage, Clone, Stmt
<1>3. RowsAfter(Drop(on), rows) = NoRows /\ RowsAfter(Truncate(on), rows) = NoRows
  BY DEF RowsAfter, Effect, Drop, Truncate, Stmt, Missing
<1>4. RowsAfter(Keep(on, b), rows) = Kept(rows, KeysOf(b))
  BY DEF RowsAfter, Effect, Keep, Stmt
<1>5. RowsAfter(Insert(on, b, how), rows) = InsertEffect(rows, b, how)
  BY DEF RowsAfter, Effect, Insert, Stmt
<1> QED BY <1>1, <1>2, <1>3, <1>4, <1>5, TakesDef

\* The pieces of a batch, cut at increasing positions from 0 to its length.
LEMMA PiecesCut ==
  ASSUME NEW b \in Seq(Rows), NEW n \in Nat \ {0}
  PROVE  \E k \in Nat : \E cut \in [0 .. k -> 0 .. Len(b)] :
           /\ Pieces(b, n) \in Seq(Seq(Rows)) /\ DOMAIN Pieces(b, n) = 1 .. k
           /\ cut[0] = 0 /\ cut[k] = Len(b)
           /\ \A m \in 1 .. k : /\ cut[m - 1] < cut[m]
                                /\ Pieces(b, n)[m] = SubSeq(b, cut[m - 1] + 1, cut[m])
<1> DEFINE L == Len(b)
           k == (L + n - 1) \div n
           at(m) == IF m * n < L THEN m * n ELSE L
           cut == [m \in 0 .. k |-> at(m)]
<1>1. L \in Nat /\ \A i \in 1 .. L : b[i] \in Rows
  BY BatchDomain
<1>2. k \in Nat /\ k * n <= L + n - 1 /\ L + n - 1 < (k + 1) * n
  <2> HIDE DEF L
  <2> QED BY <1>1
<1>3. Pieces(b, n) = [i \in 1 .. k |-> SubSeq(b, (i - 1) * n + 1, at(i))]
  BY DEF Pieces
<1> HIDE DEF L, k
<1>4. L <= k * n
  <2>1. (k + 1) * n = k * n + n
    BY <1>2
  <2> QED BY <1>1, <1>2, <2>1
<1>5. ASSUME NEW m \in Nat, m < k PROVE m * n < L /\ (m + 1) * n = m * n + n /\ m * n \in Nat
  <2>1. m * n <= (k - 1) * n
    BY <1>2, <1>5
  <2>2. (k - 1) * n = k * n - n
    BY <1>2
  <2> QED BY <1>1, <1>2, <2>1, <2>2
<1>6. \A m \in Nat : at(m) \in 0 .. L
  <2>1. \A m \in Nat : m * n \in Nat
    OBVIOUS
  <2> QED BY <1>1, <2>1
<1>7. cut \in [0 .. k -> 0 .. L]
  <2> DEFINE T == 0 .. L
             A == 0 .. k
  <2>1. A \subseteq Nat
    BY <1>2
  <2> HIDE DEF at, T, A
  <2>2. \A m \in A : at(m) \in T
    BY <1>6, <2>1 DEF T
  <2>3. [m \in A |-> at(m)] \in [A -> T]
    BY <2>2
  <2> QED BY <2>3 DEF A, T
<1>8. cut[0] = 0 /\ cut[k] = L
  <2>1. 0 * n = 0 /\ 0 \in 0 .. k /\ k \in 0 .. k
    BY <1>2
  <2> QED BY <1>1, <1>4, <2>1
<1>9. ASSUME NEW m \in 1 .. k
      PROVE  /\ cut[m - 1] < cut[m] /\ cut[m - 1] = (m - 1) * n /\ cut[m] = at(m)
  <2> DEFINE j == m - 1
  <2>1. j \in Nat /\ j < k /\ j + 1 = m /\ m \in 0 .. k /\ j \in 0 .. k
    BY <1>2
  <2> HIDE DEF j
  <2>2. j * n < L /\ (j + 1) * n = j * n + n /\ j * n \in Nat
    BY <1>5, <2>1
  <2>3. cut[j] = j * n /\ cut[m] = at(m)
    BY <2>1, <2>2
  <2>4. j * n < at(m)
    BY <1>1, <2>1, <2>2
  <2> QED BY <2>3, <2>4 DEF j
<1>10. ASSUME NEW m \in 1 .. k
       PROVE  Pieces(b, n)[m] = SubSeq(b, cut[m - 1] + 1, cut[m])
  <2> HIDE DEF at, cut
  <2>1. Pieces(b, n)[m] = SubSeq(b, (m - 1) * n + 1, at(m))
    BY <1>3
  <2> QED BY <1>9, <2>1
<1>11. ASSUME NEW m \in 1 .. k PROVE SubSeq(b, cut[m - 1] + 1, cut[m]) \in Seq(Rows)
  <2> HIDE DEF cut
  <2>1. m \in 0 .. k /\ m - 1 \in 0 .. k
    BY <1>2
  <2>2. cut[m] \in 0 .. L /\ cut[m - 1] \in 0 .. L
    BY <1>7, <2>1
  <2>3. \A i \in cut[m - 1] + 1 .. cut[m] : b[i] \in Rows
    BY <1>1, <2>2
  <2> QED BY <1>1, <2>2, <2>3, SubSeqProperties
<1>12. Pieces(b, n) \in Seq(Seq(Rows)) /\ DOMAIN Pieces(b, n) = 1 .. k
  <2> HIDE DEF at, cut
  <2>1. Pieces(b, n) = [i \in 1 .. k |-> Pieces(b, n)[i]] /\ DOMAIN Pieces(b, n) = 1 .. k
    BY <1>3
  <2>2. \A i \in 1 .. k : Pieces(b, n)[i] \in Seq(Rows)
    BY <1>10, <1>11
  <2>3. Pieces(b, n) \in [1 .. k -> Seq(Rows)]
    BY <2>1, <2>2
  <2>4. k \in Nat
    BY <1>2
  <2> HIDE DEF Pieces
  <2>5. Pieces(b, n) \in Seq(Seq(Rows))
    BY <2>3, <2>4 DEF Seq
  <2> QED BY <2>1, <2>5
<1> HIDE DEF cut
<1> QED BY <1>2, <1>7, <1>8, <1>9, <1>10, <1>12 DEF L

LEMMA EachTypes ==
  ASSUME NEW on \in Sessions, NEW b \in Seq(Rows), NEW n \in Nat \ {0}, NEW how \in Hows
  PROVE  /\ InsertEach(on, b, n, how) \in Seq(Statements)
         /\ KeepEach(on, b, n) \in Seq(Statements)
         /\ \A i \in DOMAIN InsertEach(on, b, n, how) :
              \E p \in Seq(Rows) : InsertEach(on, b, n, how)[i] = Insert(on, p, how)
         /\ \A i \in DOMAIN KeepEach(on, b, n) :
              \E p \in Seq(Rows) : KeepEach(on, b, n)[i] = Keep(on, p)
<1> DEFINE p == Pieces(b, n)
<1>1. PICK k \in Nat : p \in Seq(Seq(Rows)) /\ DOMAIN p = 1 .. k
  BY PiecesCut
<1>2. \A i \in 1 .. k : p[i] \in Seq(Rows)
  <2>1. Len(p) = k
    BY <1>1, LenProperties
  <2> QED BY <1>1, <2>1, ElementOfSeq
<1>3. /\ InsertEach(on, b, n, how) = [i \in 1 .. k |-> Insert(on, p[i], how)]
      /\ KeepEach(on, b, n) = [i \in 1 .. k |-> Keep(on, p[i])]
  BY <1>1 DEF InsertEach, KeepEach
<1>4. \A i \in 1 .. k : Insert(on, p[i], how) \in Statements /\ Keep(on, p[i]) \in Statements
  BY <1>2, StatementTypes
<1> HIDE DEF p
<1>5. InsertEach(on, b, n, how) \in Seq(Statements) /\ KeepEach(on, b, n) \in Seq(Statements)
  BY <1>1, <1>3, <1>4, IsASeq
<1> QED BY <1>2, <1>3, <1>5

\* An insert in chunks does what one insert of the batch does, where no key comes twice or
\* the primary key forbids it.
LEMMA OutcomesEach ==
  ASSUME NEW on \in Sessions, NEW b \in Seq(Rows), NEW n \in Nat \ {0}, NEW how \in Inserts,
         NEW rows \in Contents, NEW x \in Outcomes(InsertEach(on, b, n, how), rows),
         how \in {"append", "unique"} \/ Repeated(b) = {}
  PROVE  Takes(rows, b, how) /\ x = InsertEffect(rows, b, how)
<1> DEFINE p == Pieces(b, n)
           prog == InsertEach(on, b, n, how)
           L == Len(b)
<1>1. how \in Hows /\ L \in Nat /\ SubSeq(b, 1, L) = b /\ SubSeq(b, 1, 0) = <<>> /\ \A i \in 1 .. L : b[i] \in Rows
  BY BatchDomain, SubSeqFull, SubSeqEmpty DEF Inserts, Hows
<1> DEFINE Cuts(k, cut) ==
             /\ p \in Seq(Seq(Rows)) /\ DOMAIN p = 1 .. k
             /\ cut[0] = 0 /\ cut[k] = L
             /\ \A m \in 1 .. k : cut[m - 1] < cut[m] /\ p[m] = SubSeq(b, cut[m - 1] + 1, cut[m])
<1>0. PICK k \in Nat : \E cut \in [0 .. k -> 0 .. L] : Cuts(k, cut)
  BY PiecesCut
<1>2. PICK cut \in [0 .. k -> 0 .. L] : Cuts(k, cut)
  BY <1>0
<1>3. prog = [i \in 1 .. k |-> Insert(on, p[i], how)]
  BY <1>2 DEF InsertEach
<1>4. prog \in Seq(Statements)
  BY <1>1, EachTypes
<1> HIDE DEF p, prog, L
<1>5. Len(prog) = k
  BY <1>2, <1>3, <1>4, LenProperties
<1>6. PICK h : Trail(h, prog, k, rows) /\ h[k] = x
  BY <1>4, <1>5, OutcomesTrail DEF prog
<1> DEFINE first(m) == SubSeq(b, 1, cut[m])
           S == {m \in 0 .. k : Takes(rows, first(m), how) /\ h[m] = InsertEffect(rows, first(m), how)}
<1>7. 0 \in S
  <2>1. first(0) = <<>> /\ 0 \in 0 .. k
    BY <1>1, <1>2
  <2> QED BY <1>6, <2>1, InsertNothing DEF Trail, Adding
<1>8. ASSUME NEW c \in 0 .. L
      PROVE  /\ SubSeq(b, 1, c) \in Seq(Rows)
             /\ Repeated(b) = {} => Repeated(SubSeq(b, 1, c)) = {}
  <2>1. \A i \in 1 .. c : b[i] \in Rows
    BY <1>1
  <2>2. \A i \in c + 1 .. L : b[i] \in Rows
    BY <1>1
  <2>3. SubSeq(b, 1, c) \in Seq(Rows) /\ SubSeq(b, c + 1, L) \in Seq(Rows)
    BY <1>1, <2>1, <2>2, SubSeqProperties
  <2>4. SubSeq(b, 1, c) \o SubSeq(b, c + 1, L) = b
    <3>1. 1 \in 1 .. L + 1 /\ c \in 1 - 1 .. L /\ L \in c .. L
      BY <1>1
    <3> QED BY <1>1, <3>1, ConcatAdjacentSubSeq DEF L
  <2> QED BY <2>3, <2>4, ConcatRows
<1>9. ASSUME NEW m \in 0 .. k, m < k, m \in S PROVE m + 1 \in S
  <2>1. m + 1 \in 1 .. k /\ m + 1 \in 0 .. k /\ (m + 1) - 1 = m
    BY <1>2, <1>9
  <2>2. cut[m] \in 0 .. L /\ cut[m + 1] \in 0 .. L /\ cut[m] < cut[m + 1]
        /\ p[m + 1] = SubSeq(b, cut[m] + 1, cut[m + 1])
    BY <1>2, <2>1
  <2>3. first(m + 1) = first(m) \o p[m + 1]
    <3>1. 1 \in 1 .. L + 1 /\ cut[m] \in 1 - 1 .. L /\ cut[m + 1] \in cut[m] .. L
      BY <1>1, <2>2
    <3> QED BY <2>2, <3>1, ConcatAdjacentSubSeq DEF L
  <2>4. first(m) \in Seq(Rows) /\ first(m + 1) \in Seq(Rows)
        /\ (Repeated(b) = {} => Repeated(first(m + 1)) = {})
    BY <1>8, <2>2
  <2>5. p[m + 1] \in Seq(Rows)
    <3>1. \A i \in cut[m] + 1 .. cut[m + 1] : b[i] \in Rows
      BY <1>1, <2>2, SMTT(30)
    <3> QED BY <2>2, <3>1, SubSeqProperties
  <2> HIDE DEF first
  <2>6. Takes(rows, first(m), how) /\ h[m] = InsertEffect(rows, first(m), how)
    BY <1>9
  <2>7. prog[m + 1] = Insert(on, p[m + 1], how)
    BY <1>3, <2>1
  <2>8. ~Refused(prog[m + 1], h[m]) /\ h[m + 1] = RowsAfter(prog[m + 1], h[m])
    BY <1>6, <2>1 DEF Trail
  <2>9. Takes(h[m], p[m + 1], how) /\ h[m + 1] = InsertEffect(h[m], p[m + 1], how)
    BY <2>7, <2>8, StatementEffects
  <2>10. how \in {"append", "unique"} \/ Repeated(first(m) \o p[m + 1]) = {}
    BY <2>3, <2>4
  <2>11. /\ Takes(rows, first(m) \o p[m + 1], how)
         /\ InsertEffect(InsertEffect(rows, first(m), how), p[m + 1], how)
              = InsertEffect(rows, first(m) \o p[m + 1], how)
    BY <2>4, <2>5, <2>6, <2>9, <2>10, InsertJoin
  <2> QED BY <2>1, <2>3, <2>6, <2>9, <2>11
<1>10. k \in S
  <2>1. \A m \in 0 .. k : m < k /\ m \in S => m + 1 \in S
    BY <1>9
  <2> HIDE DEF S
  <2>2. 0 .. k \subseteq S
    BY <1>2, <1>7, <2>1, UpTo
  <2> QED BY <1>2, <2>2
<1> QED BY <1>1, <1>2, <1>6, <1>10

-----------------------------------------------------------------------------
(* What the options ask for. *)

BatchByBatch(f, c, rows, bs) ==
  /\ InTurn(c, rows, bs) = f[Len(bs)]
  /\ f[0] = Start(c, rows)
  /\ \A n \in 1 .. Len(bs) : f[n] = OneBatch(c, f[n - 1], bs[n])

LEMMA InTurnDef ==
  ASSUME NEW c, NEW rows, NEW bs \in Seq(Batches) PROVE \E f : BatchByBatch(f, c, rows, bs)
<1> DEFINE N == Len(bs)
           start == Start(c, rows)
           Computes(f, m) == f = [n \in 0 .. m |-> IF n = 0 THEN start ELSE OneBatch(c, f[n - 1], bs[n])]
           S == {m \in Nat : \E f : Computes(f, m)}
<1> HIDE DEF start
<1>1. N \in Nat
  BY LenProperties
<1>2. 0 \in S
  <2> DEFINE f0 == [n \in 0 .. 0 |-> start]
  <2>1. f0 = [n \in 0 .. 0 |-> IF n = 0 THEN start ELSE OneBatch(c, f0[n - 1], bs[n])]
    <3>1. \A n \in 0 .. 0 : start = IF n = 0 THEN start ELSE OneBatch(c, f0[n - 1], bs[n])
      OBVIOUS
    <3> QED BY <3>1
  <2>2. Computes(f0, 0)
    <3> HIDE DEF f0
    <3> QED BY <2>1
  <2> QED BY <2>2
<1>3. ASSUME NEW m \in 0 .. N, m < N, m \in S PROVE m + 1 \in S
  <2>1. PICK f : Computes(f, m)
    BY <1>3
  <2>2. f[0] = start /\ \A n \in 1 .. m : f[n] = OneBatch(c, f[n - 1], bs[n])
    BY <1>1, <2>1
  <2> DEFINE g == [n \in 0 .. m + 1 |-> IF n <= m THEN f[n] ELSE OneBatch(c, f[m], bs[n])]
  <2> HIDE DEF Computes
  <2>3. ASSUME NEW n \in 0 .. m + 1
        PROVE  g[n] = IF n = 0 THEN start ELSE OneBatch(c, g[n - 1], bs[n])
    <3>1. CASE n = 0
      BY <1>1, <2>2, <3>1
    <3>2. CASE n # 0 /\ n <= m
      <4>1. n \in 1 .. m /\ n - 1 \in 0 .. m + 1 /\ n - 1 <= m
        BY <1>1, <3>2
      <4> QED BY <2>2, <3>2, <4>1
    <3>3. CASE n = m + 1
      <4>1. n - 1 = m /\ m \in 0 .. m + 1 /\ n # 0 /\ ~(n <= m) /\ m <= m
        BY <1>1, <3>3
      <4> QED BY <3>3, <4>1
    <3> QED BY <1>1, <3>1, <3>2, <3>3
  <2>4. g = [n \in 0 .. m + 1 |-> IF n = 0 THEN start ELSE OneBatch(c, g[n - 1], bs[n])]
    <3>1. g = [n \in 0 .. m + 1 |-> g[n]]
      OBVIOUS
    <3> HIDE DEF g
    <3> QED BY <2>3, <3>1
  <2>5. Computes(g, m + 1)
    BY <2>4 DEF Computes
  <2> QED BY <1>1, <2>5
<1>4. N \in S
  <2> HIDE DEF S, N
  <2>1. \A m \in 0 .. N : m < N /\ m \in S => m + 1 \in S
    BY <1>3
  <2>2. 0 .. N \subseteq S
    BY <1>1, <1>2, <2>1, UpTo
  <2> QED BY <1>1, <2>2
<1> DEFINE f[n \in 0 .. N] == IF n = 0 THEN start ELSE OneBatch(c, f[n - 1], bs[n])
<1>5. f = [n \in 0 .. N |-> IF n = 0 THEN start ELSE OneBatch(c, f[n - 1], bs[n])]
  BY <1>4
<1>6. InTurn(c, rows, bs) = f[N]
  BY DEF InTurn, start
<1> HIDE DEF f
<1>7. f[0] = start /\ \A n \in 1 .. N : f[n] = OneBatch(c, f[n - 1], bs[n])
  <2>1. \A n \in 0 .. N : f[n] = IF n = 0 THEN start ELSE OneBatch(c, f[n - 1], bs[n])
    <3> HIDE DEF N
    <3> DEFINE F(n) == IF n = 0 THEN start ELSE OneBatch(c, f[n - 1], bs[n])
    <3>1. f = [n \in 0 .. N |-> F(n)]
      BY <1>5
    <3> HIDE DEF F
    <3>2. \A n \in 0 .. N : f[n] = F(n)
      BY <3>1
    <3> QED BY <3>2 DEF F
  <2>2. 0 \in 0 .. N /\ \A n \in 1 .. N : n \in 0 .. N /\ n # 0
    BY <1>1
  <2> QED BY <2>1, <2>2
<1> QED BY <1>6, <1>7 DEF BatchByBatch, start

\* Batch after batch
LEMMA InTurnSteps ==
  ASSUME NEW c, NEW rows
  PROVE  /\ InTurn(c, rows, <<>>) = Start(c, rows)
         /\ \A bs \in Seq(Batches), b \in Batches :
              InTurn(c, rows, Append(bs, b)) = OneBatch(c, InTurn(c, rows, bs), b)
<1>1. InTurn(c, rows, <<>>) = Start(c, rows)
  <2>1. <<>> \in Seq(Batches) /\ Len(<<>>) = 0
    BY EmptySeq
  <2>2. PICK f : BatchByBatch(f, c, rows, <<>>)
    BY <2>1, InTurnDef
  <2> QED BY <2>1, <2>2 DEF BatchByBatch
<1>2. ASSUME NEW bs \in Seq(Batches), NEW b \in Batches
      PROVE  InTurn(c, rows, Append(bs, b)) = OneBatch(c, InTurn(c, rows, bs), b)
  <2> DEFINE cs == Append(bs, b)
             N == Len(bs)
  <2>1. N \in Nat /\ cs \in Seq(Batches) /\ Len(cs) = N + 1 /\ cs[N + 1] = b
        /\ \A n \in 1 .. N : cs[n] = bs[n]
    BY AppendProperties, LenProperties
  <2> HIDE DEF cs
  <2>a. PICK f : BatchByBatch(f, c, rows, bs)
    BY InTurnDef
  <2>2. /\ InTurn(c, rows, bs) = f[N] /\ f[0] = Start(c, rows)
        /\ \A n \in 1 .. N : f[n] = OneBatch(c, f[n - 1], bs[n])
    BY <2>a DEF BatchByBatch
  <2> HIDE DEF N
  <2>b. PICK g : BatchByBatch(g, c, rows, cs)
    BY <2>1, InTurnDef
  <2>3. /\ InTurn(c, rows, cs) = g[N + 1] /\ g[0] = Start(c, rows)
        /\ \A n \in 1 .. N + 1 : g[n] = OneBatch(c, g[n - 1], cs[n])
    BY <2>1, <2>b DEF BatchByBatch
  <2> DEFINE S == {n \in 0 .. N : f[n] = g[n]}
  <2>4. 0 \in S
    BY <2>1, <2>2, <2>3
  <2>5. ASSUME NEW n \in 0 .. N, n < N, n \in S PROVE n + 1 \in S
    <3>1. n + 1 \in 1 .. N /\ n + 1 \in 1 .. N + 1 /\ (n + 1) - 1 = n /\ n + 1 \in 0 .. N
      BY <2>1, <2>5
    <3>2. f[n + 1] = OneBatch(c, f[n], bs[n + 1]) /\ g[n + 1] = OneBatch(c, g[n], cs[n + 1])
      BY <2>2, <2>3, <3>1
    <3> QED BY <2>1, <2>5, <3>1, <3>2
  <2>6. N \in S
    <3>1. \A n \in 0 .. N : n < N /\ n \in S => n + 1 \in S
      BY <2>5
    <3> HIDE DEF S
    <3>2. 0 .. N \subseteq S
      BY <2>1, <2>4, <3>1, UpTo
    <3> QED BY <2>1, <3>2
  <2>7. g[N + 1] = OneBatch(c, g[N], b)
    <3>1. N + 1 \in 1 .. N + 1 /\ (N + 1) - 1 = N
      BY <2>1
    <3> QED BY <2>1, <2>3, <3>1
  <2> QED BY <2>2, <2>3, <2>6, <2>7 DEF cs
<1> QED BY <1>1, <1>2

LEMMA BatchIsRows == ASSUME NEW b \in Batches PROVE b \in Seq(Rows) /\ b # <<>>
  BY TargetAssumption DEF Rows

LEMMA OneBatchType ==
  ASSUME NEW c \in Configs, NEW rows \in Contents, NEW b \in Seq(Rows)
  PROVE  OneBatch(c, rows, b) \in Contents
<1>1. c.strategy \in Strategies
  BY DEF Configs
<1>2. OneBatch(c, rows, b) \in {Appended(rows, b), Ignored(rows, b), Updated(rows, b)}
  BY <1>1 DEF OneBatch, Strategies
<1> QED BY <1>2, EffectTypes

LEMMA InTurnType ==
  ASSUME NEW c \in Configs, NEW rows \in Contents, NEW bs \in Seq(Batches)
  PROVE  InTurn(c, rows, bs) \in Contents
<1> DEFINE N == Len(bs)
<1>1. N \in Nat /\ \A n \in 1 .. N : bs[n] \in Batches
  BY LenProperties, ElementOfSeq
<1>a. PICK f : BatchByBatch(f, c, rows, bs)
  BY InTurnDef
<1>2. /\ InTurn(c, rows, bs) = f[N] /\ f[0] = Start(c, rows)
      /\ \A n \in 1 .. N : f[n] = OneBatch(c, f[n - 1], bs[n])
  BY <1>a DEF BatchByBatch
<1> DEFINE S == {n \in 0 .. N : f[n] \in Contents}
<1> HIDE DEF N
<1>3. 0 \in S
  <2>1. Start(c, rows) \in Contents
    BY DEF Start, Contents, NoRows
  <2> QED BY <1>1, <1>2, <2>1
<1>4. ASSUME NEW n \in 0 .. N, n < N, n \in S PROVE n + 1 \in S
  <2>1. n + 1 \in 1 .. N /\ (n + 1) - 1 = n /\ n + 1 \in 0 .. N
    BY <1>1, <1>4
  <2>2. f[n + 1] = OneBatch(c, f[n], bs[n + 1])
    BY <1>2, <2>1
  <2>3. bs[n + 1] \in Seq(Rows)
    BY <1>1, <2>1, BatchIsRows
  <2> QED BY <1>4, <2>1, <2>2, <2>3, OneBatchType
<1>5. 0 .. N \subseteq S
  <2>1. \A n \in 0 .. N : n < N /\ n \in S => n + 1 \in S
    BY <1>4
  <2> HIDE DEF S
  <2> QED BY <1>1, <1>3, <2>1, UpTo
<1> QED BY <1>1, <1>2, <1>5

LEMMA StartType ==
  ASSUME NEW c, NEW rows \in Contents PROVE Start(c, rows) \in Contents
  BY DEF Start, Contents, NoRows

\* So it is unless the rows wait in Oracle's staging table.
LEMMA LoadedSteps ==
  ASSUME NEW c, NEW rows, ~OraStaged(c)
  PROVE  /\ Loaded(c, rows, <<>>) = Start(c, rows)
         /\ \A bs \in Seq(Batches), b \in Batches :
              Loaded(c, rows, Append(bs, b)) = OneBatch(c, Loaded(c, rows, bs), b)
  BY InTurnSteps DEF Loaded

LEMMA LoadedType ==
  ASSUME NEW c \in Configs, NEW rows \in Contents, NEW bs \in Seq(Batches)
  PROVE  Loaded(c, rows, bs) \in Contents
  BY InTurnType, StartType, ChangedType DEF Loaded

\* The rows that came
LEMMA FedRowsSteps ==
  ASSUME NEW bs \in Seq(Batches), NEW b \in Batches
  PROVE  FedRows(<<>>) = {} /\ FedRows(Append(bs, b)) = FedRows(bs) \cup RowsOf(b)
<1>1. FedRows(<<>>) = {}
  <2>1. DOMAIN <<>> = {}
    OBVIOUS
  <2> QED BY <2>1 DEF FedRows
<1>2. FedRows(Append(bs, b)) = FedRows(bs) \cup RowsOf(b)
  <2> DEFINE cs == Append(bs, b)
             N == Len(bs)
  <2>1. /\ N \in Nat /\ DOMAIN bs = 1 .. N /\ DOMAIN cs = 1 .. N + 1 /\ cs[N + 1] = b
        /\ \A n \in 1 .. N : cs[n] = bs[n]
    BY AppendProperties, LenProperties
  <2>2. DOMAIN cs = DOMAIN bs \cup {N + 1}
    BY <2>1
  <2> HIDE DEF cs, N
  <2> QED BY <2>1, <2>2 DEF FedRows, cs
<1> QED BY <1>1, <1>2

\* The keys that came
LEMMA FedKeysSteps ==
  ASSUME NEW bs \in Seq(Batches), NEW b \in Batches
  PROVE  FedKeys(<<>>) = {} /\ FedKeys(Append(bs, b)) = FedKeys(bs) \cup KeysOf(b)
<1>1. FedKeys(<<>>) = {}
  <2>1. DOMAIN <<>> = {}
    OBVIOUS
  <2> QED BY <2>1 DEF FedKeys
<1>2. FedKeys(Append(bs, b)) = FedKeys(bs) \cup KeysOf(b)
  <2> DEFINE cs == Append(bs, b)
             N == Len(bs)
  <2>1. /\ N \in Nat /\ DOMAIN bs = 1 .. N /\ DOMAIN cs = 1 .. N + 1 /\ cs[N + 1] = b
        /\ \A n \in 1 .. N : cs[n] = bs[n]
    BY AppendProperties, LenProperties
  <2>2. DOMAIN cs = DOMAIN bs \cup {N + 1}
    BY <2>1
  <2> HIDE DEF cs, N
  <2> QED BY <2>1, <2>2 DEF FedKeys, cs
<1> QED BY <1>1, <1>2

-----------------------------------------------------------------------------
(* The shape of a program, from the shapes of its parts. *)

LEMMA OfParts ==
  /\ Of(<<>>) = {}
  /\ \A x : Of(<<x>>) = {x}
  /\ \A x, y : Of(<<x, y>>) = {x, y}
  /\ \A x, y, z : Of(<<x, y, z>>) = {x, y, z}
<1>1. Of(<<>>) = {}
  <2>1. DOMAIN <<>> = {}
    OBVIOUS
  <2> QED BY <2>1 DEF Of
<1>2. ASSUME NEW x PROVE Of(<<x>>) = {x}
  <2>1. DOMAIN <<x>> = {1} /\ <<x>>[1] = x
    OBVIOUS
  <2> QED BY <2>1 DEF Of
<1>3. ASSUME NEW x, NEW y PROVE Of(<<x, y>>) = {x, y}
  <2>1. DOMAIN <<x, y>> = {1, 2} /\ <<x, y>>[1] = x /\ <<x, y>>[2] = y
    OBVIOUS
  <2> DEFINE p == <<x, y>>
  <2> HIDE DEF p
  <2>2. {p[i] : i \in {1, 2}} = {p[1], p[2]}
    OBVIOUS
  <2> QED BY <2>1, <2>2 DEF Of, p
<1>4. ASSUME NEW x, NEW y, NEW z PROVE Of(<<x, y, z>>) = {x, y, z}
  <2>1. /\ DOMAIN <<x, y, z>> = {1, 2, 3}
        /\ <<x, y, z>>[1] = x /\ <<x, y, z>>[2] = y /\ <<x, y, z>>[3] = z
    OBVIOUS
  <2> DEFINE p == <<x, y, z>>
  <2> HIDE DEF p
  <2>2. {p[i] : i \in {1, 2, 3}} = {p[1], p[2], p[3]}
    OBVIOUS
  <2> QED BY <2>1, <2>2 DEF Of, p
<1> QED BY <1>1, <1>2, <1>3, <1>4

LEMMA Pairs == ASSUME NEW x, NEW y PROVE <<x, y>> = <<x>> \o <<y>>
<1> DEFINE S == {x, y}
           a == <<x>>
           b == <<y>>
           c == <<x, y>>
<1>1. a \in Seq(S) /\ b \in Seq(S) /\ c \in Seq(S)
  OBVIOUS
<1>2. Len(a) = 1 /\ Len(b) = 1 /\ Len(c) = 2 /\ a[1] = x /\ b[1] = y /\ c[1] = x /\ c[2] = y
  OBVIOUS
<1> HIDE DEF S, a, b, c
<1>3. a \o b \in Seq(S) /\ Len(a \o b) = 2 /\ (a \o b)[1] = x /\ (a \o b)[2] = y
  <2>1. \A i \in 1 .. Len(a) + Len(b) : (a \o b)[i] = IF i <= Len(a) THEN a[i] ELSE b[i - Len(a)]
    BY <1>1, ConcatProperties
  <2>2. a \o b \in Seq(S) /\ Len(a \o b) = Len(a) + Len(b)
    BY <1>1, ConcatProperties
  <2> QED BY <1>2, <2>1, <2>2
<1>4. \A i \in 1 .. Len(c) : c[i] = (a \o b)[i]
  BY <1>2, <1>3
<1>5. c = a \o b
  BY <1>1, <1>2, <1>3, <1>4, SeqEqual
<1> QED BY <1>5 DEF a, b, c

LEMMA Quadruples ==
  ASSUME NEW x, NEW y, NEW z, NEW w
  PROVE  <<x, y, z, w>> = ((<<x>> \o <<y>>) \o <<z>>) \o <<w>>
<1> DEFINE S == {x, y, z, w}
           a == <<x, y>>
           b == <<z>>
           d == <<w>>
           e == <<x, y, z, w>>
<1>1. a \in Seq(S) /\ b \in Seq(S) /\ d \in Seq(S) /\ e \in Seq(S)
  OBVIOUS
<1>2. /\ Len(a) = 2 /\ Len(b) = 1 /\ Len(d) = 1 /\ Len(e) = 4 /\ a[1] = x /\ a[2] = y
      /\ b[1] = z /\ d[1] = w /\ e[1] = x /\ e[2] = y /\ e[3] = z /\ e[4] = w
  OBVIOUS
<1> HIDE DEF S, a, b, d, e
<1>3. /\ a \o b \in Seq(S) /\ Len(a \o b) = 3
      /\ (a \o b)[1] = x /\ (a \o b)[2] = y /\ (a \o b)[3] = z
  <2>1. /\ a \o b \in Seq(S) /\ Len(a \o b) = Len(a) + Len(b)
        /\ \A i \in 1 .. Len(a) + Len(b) : (a \o b)[i] = IF i <= Len(a) THEN a[i] ELSE b[i - Len(a)]
    BY <1>1, ConcatProperties
  <2> DEFINE c == a \o b
  <2> HIDE DEF c
  <2>2. c \in Seq(S) /\ Len(c) = 3 /\ \A i \in 1 .. 3 : c[i] = IF i <= 2 THEN a[i] ELSE b[i - 2]
    BY <1>2, <2>1 DEF c
  <2>3. c[1] = a[1] /\ c[2] = a[2] /\ c[3] = b[1]
    BY <2>2
  <2> QED BY <1>2, <2>2, <2>3 DEF c
<1> DEFINE p == a \o b
<1> HIDE DEF p
<1>4. /\ p \o d \in Seq(S) /\ Len(p \o d) = 4
      /\ (p \o d)[1] = x /\ (p \o d)[2] = y /\ (p \o d)[3] = z /\ (p \o d)[4] = w
  <2>1. p \in Seq(S) /\ Len(p) = 3 /\ p[1] = x /\ p[2] = y /\ p[3] = z
    BY <1>3 DEF p
  <2>2. /\ p \o d \in Seq(S) /\ Len(p \o d) = Len(p) + Len(d)
        /\ \A i \in 1 .. Len(p) + Len(d) : (p \o d)[i] = IF i <= Len(p) THEN p[i] ELSE d[i - Len(p)]
    BY <1>1, <2>1, ConcatProperties
  <2> DEFINE c == p \o d
  <2> HIDE DEF c
  <2>3. c \in Seq(S) /\ Len(c) = 4 /\ \A i \in 1 .. 4 : c[i] = IF i <= 3 THEN p[i] ELSE d[i - 3]
    BY <1>2, <2>1, <2>2 DEF c
  <2>4. c[1] = p[1] /\ c[2] = p[2] /\ c[3] = p[3] /\ c[4] = d[1]
    BY <2>3
  <2> QED BY <1>2, <2>1, <2>3, <2>4 DEF c
<1>5. \A i \in 1 .. Len(e) : e[i] = (p \o d)[i]
  BY <1>2, <1>4
<1>6. e = p \o d
  BY <1>1, <1>2, <1>4, <1>5, SeqEqual, SMTT(30)
<1>7. a = <<x>> \o <<y>>
  BY Pairs DEF a
<1> QED BY <1>6, <1>7 DEF b, d, e, p

LEMMA ConcatIndices ==
  ASSUME NEW a \in Seq(Statements), NEW b \in Seq(Statements)
  PROVE  /\ a \o b \in Seq(Statements)
         /\ Len(a) \in Nat /\ DOMAIN a = 1 .. Len(a) /\ Len(b) \in Nat /\ DOMAIN b = 1 .. Len(b)
         /\ Len(a \o b) = Len(a) + Len(b) /\ DOMAIN (a \o b) = 1 .. Len(a) + Len(b)
         /\ \A i \in DOMAIN a : i \in DOMAIN (a \o b) /\ (a \o b)[i] = a[i]
         /\ \A i \in DOMAIN b : Len(a) + i \in DOMAIN (a \o b) /\ (a \o b)[Len(a) + i] = b[i]
         /\ \A i \in DOMAIN (a \o b) :
              \/ i \in DOMAIN a /\ (a \o b)[i] = a[i]
              \/ i - Len(a) \in DOMAIN b /\ (a \o b)[i] = b[i - Len(a)]
<1> DEFINE n == Len(a)
           p == Len(b)
           c == a \o b
<1>1. n \in Nat /\ p \in Nat /\ DOMAIN a = 1 .. n /\ DOMAIN b = 1 .. p
  BY LenProperties
<1>2. /\ c \in Seq(Statements) /\ Len(c) = n + p
      /\ \A i \in 1 .. n + p : c[i] = IF i <= n THEN a[i] ELSE b[i - n]
  BY ConcatProperties
<1>3. DOMAIN c = 1 .. n + p
  BY <1>2, LenProperties
<1> HIDE DEF n, p, c
<1>4. \A i \in 1 .. n : i \in 1 .. n + p /\ c[i] = a[i]
  BY <1>1, <1>2
<1>5. \A i \in 1 .. p : n + i \in 1 .. n + p /\ c[n + i] = b[i]
  BY <1>1, <1>2
<1>6. \A i \in 1 .. n + p : \/ i \in 1 .. n /\ c[i] = a[i]
                            \/ i - n \in 1 .. p /\ c[i] = b[i - n]
  BY <1>1, <1>2
<1> QED BY <1>1, <1>2, <1>3, <1>4, <1>5, <1>6 DEF n, p, c

LEMMA OfConcat ==
  ASSUME NEW a \in Seq(Statements), NEW b \in Seq(Statements)
  PROVE  /\ a \o b \in Seq(Statements)
         /\ Of(a \o b) = Of(a) \cup Of(b)
         /\ Begun(a \o b) = Begun(a) \cup Begun(b)
<1>1. Of(a \o b) \subseteq Of(a) \cup Of(b)
  BY ConcatIndices DEF Of
<1>2. Of(a) \subseteq Of(a \o b)
  <2>1. \A i \in DOMAIN a : i \in DOMAIN (a \o b) /\ (a \o b)[i] = a[i]
    BY ConcatIndices
  <2> QED BY <2>1 DEF Of
<1>3. Of(b) \subseteq Of(a \o b)
  <2>1. \A i \in DOMAIN b : Len(a) + i \in DOMAIN (a \o b) /\ (a \o b)[Len(a) + i] = b[i]
    BY ConcatIndices
  <2> QED BY <2>1 DEF Of
<1>4. Begun(a \o b) = Begun(a) \cup Begun(b)
  BY <1>1, <1>2, <1>3 DEF Begun
<1> QED BY <1>1, <1>2, <1>3, <1>4, ConcatIndices

LEMMA OfSeq == ASSUME NEW a \in Seq(Statements) PROVE Of(a) \subseteq Statements
  BY LenProperties, ElementOfSeq DEF Of

LEMMA LeadsSession ==
  ASSUME NEW a \in Seq(Statements), NEW on, \A st \in Of(a) : st.on = on
  PROVE  DdlLeads(a)
<1>1. SUFFICES ASSUME NEW i \in DOMAIN a, NEW j \in 1 .. i - 1 PROVE a[j].on = a[i].on
  BY DEF DdlLeads
<1>2. j \in DOMAIN a
  BY LenProperties
<1> QED BY <1>2 DEF Of

LEMMA LeadsAppend ==
  ASSUME NEW a \in Seq(Statements), NEW b \in Seq(Statements),
         DdlLeads(a), \A st \in Of(b) : ~Ddl(st)
  PROVE  DdlLeads(a \o b)
<1> DEFINE c == a \o b
           n == Len(a)
<1>1. SUFFICES ASSUME NEW i \in DOMAIN c, NEW j \in 1 .. i - 1, Ddl(c[i]), Changes(c[j])
               PROVE  c[j].on = c[i].on
  BY DEF DdlLeads
<1>2. i \in 1 .. n + Len(b) /\ n \in Nat /\ Len(b) \in Nat /\ DOMAIN a = 1 .. n
  BY ConcatIndices
<1>3. i \in DOMAIN a /\ c[i] = a[i]
  <2>1. i - n \in DOMAIN b /\ c[i] = b[i - n] => c[i] \in Of(b)
    BY DEF Of
  <2> QED BY <1>1, <2>1, ConcatIndices
<1>4. j \in DOMAIN a /\ c[j] = a[j]
  <2>1. j \in DOMAIN a
    BY <1>2, <1>3
  <2> QED BY <2>1, ConcatIndices
<1> QED BY <1>1, <1>3, <1>4 DEF DdlLeads

LEMMA LeadsPrepend ==
  ASSUME NEW a \in Seq(Statements), NEW b \in Seq(Statements), NEW on, DdlLeads(b),
         \A st \in Of(a) : st.on = on /\ ~Ddl(st), \A st \in Of(b) : Ddl(st) => st.on = on
  PROVE  DdlLeads(a \o b)
<1> DEFINE c == a \o b
           n == Len(a)
<1>1. SUFFICES ASSUME NEW i \in DOMAIN c, NEW j \in 1 .. i - 1, Ddl(c[i]), Changes(c[j])
               PROVE  c[j].on = c[i].on
  BY DEF DdlLeads
<1>2. i \in 1 .. n + Len(b) /\ n \in Nat /\ Len(b) \in Nat /\ DOMAIN a = 1 .. n /\ DOMAIN b = 1 .. Len(b)
      /\ j \in DOMAIN c
  BY ConcatIndices
<1>3. i - n \in DOMAIN b /\ c[i] = b[i - n] /\ c[i].on = on
  <2>1. i \in DOMAIN a => c[i] \in Of(a)
    BY ConcatIndices DEF Of
  <2>2. i - n \in DOMAIN b /\ c[i] = b[i - n]
    BY <1>1, <2>1, ConcatIndices
  <2>3. b[i - n] \in Of(b)
    BY <2>2 DEF Of
  <2> QED BY <1>1, <2>2, <2>3
<1>4. CASE j \in DOMAIN a
  <2>1. c[j] \in Of(a)
    BY <1>4, ConcatIndices DEF Of
  <2> QED BY <1>3, <2>1
<1>5. CASE j \notin DOMAIN a
  <2>1. j - n \in DOMAIN b /\ c[j] = b[j - n]
    BY <1>2, <1>5, ConcatIndices
  <2>2. j - n \in 1 .. (i - n) - 1
    BY <1>2, <2>1
  <2> QED BY <1>1, <1>3, <2>1, <2>2 DEF DdlLeads
<1> QED BY <1>4, <1>5

LEMMA LeadsSimple ==
  ASSUME NEW a, \A st \in Of(a) : ~Ddl(st)
  PROVE  DdlLeads(a)
  BY DEF DdlLeads, Of

LEMMA EndsSimple ==
  ASSUME NEW a, NEW on, on \notin Begun(a)
  PROVE  EndsIn(a, on)
  BY DEF EndsIn, Begun, Of, Is

LEMMA EndsLast ==
  ASSUME NEW a \in Seq(Statements), NEW on \in Sessions
  PROVE  EndsIn(a \o <<Commit(on)>>, on)
<1> DEFINE st == Commit(on)
           b == <<st>>
           c == a \o b
           n == Len(a)
<1>1. st.op = "commit" /\ st.on = on /\ st \in Statements
  <2>1. "append" \in Hows /\ <<>> \in Seq(Rows)
    BY EmptySeq DEF Hows
  <2>2. Commit(on) \in Statements
    BY <2>1, StatementTypes
  <2> QED BY <2>2 DEF Commit, Stmt
<1> HIDE DEF st
<1>2. b \in Seq(Statements) /\ DOMAIN b = {1} /\ b[1] = st
  BY <1>1
<1> HIDE DEF b
<1>3. n \in Nat /\ DOMAIN c = 1 .. n + Len(b) /\ n + 1 \in DOMAIN c /\ c[n + 1] = st
  BY <1>2, ConcatIndices
<1>4. ASSUME NEW i \in DOMAIN c, Is(c[i], "begin", on) PROVE n + 1 > i
  <2>1. i \in DOMAIN a
    <3>1. i - n \in DOMAIN b => i - n = 1
      BY <1>2
    <3>2. c[i] # st
      BY <1>1, <1>4 DEF Is
    <3> QED BY <1>2, <3>1, <3>2, ConcatIndices
  <2> QED BY <1>2, <2>1, ConcatIndices
<1> QED BY <1>1, <1>3, <1>4 DEF EndsIn, Is, b, st

LEMMA EndsConcat ==
  ASSUME NEW a \in Seq(Statements), NEW b \in Seq(Statements), NEW on, EndsIn(a, on), EndsIn(b, on)
  PROVE  EndsIn(a \o b, on)
<1> DEFINE c == a \o b
           n == Len(a)
<1>1. SUFFICES ASSUME NEW i \in DOMAIN c, Is(c[i], "begin", on)
               PROVE  \E j \in DOMAIN c : j > i /\ Is(c[j], "commit", on)
  BY DEF EndsIn
<1>2. CASE i \in DOMAIN a /\ c[i] = a[i]
  <2>1. PICK j \in DOMAIN a : j > i /\ Is(a[j], "commit", on)
    BY <1>1, <1>2 DEF EndsIn
  <2> QED BY <2>1, ConcatIndices
<1>3. CASE i - n \in DOMAIN b /\ c[i] = b[i - n]
  <2>1. PICK j \in DOMAIN b : j > i - n /\ Is(b[j], "commit", on)
    BY <1>1, <1>3 DEF EndsIn
  <2>2. n + j \in DOMAIN c /\ c[n + j] = b[j]
    BY ConcatIndices
  <2>3. n + j > i
    <3>1. n \in Nat /\ i \in Nat /\ j \in Nat
      BY ConcatIndices
    <3> QED BY <2>1, <3>1
  <2> QED BY <2>1, <2>2, <2>3
<1> QED BY <1>2, <1>3, ConcatIndices

LEMMA TxnSimple ==
  ASSUME NEW a, NEW o, \A st \in Of(a) : Changes(st) => st.op = "create" \/ st.on \in o
  PROVE  InTxn(a, o)
  BY DEF InTxn, Of

LEMMA TxnConcat ==
  ASSUME NEW a \in Seq(Statements), NEW b \in Seq(Statements), NEW o,
         InTxn(a, o), InTxn(b, o \cup Begun(a))
  PROVE  InTxn(a \o b, o)
<1> DEFINE c == a \o b
           n == Len(a)
<1>1. SUFFICES ASSUME NEW i \in DOMAIN c, Changes(c[i]), c[i].op # "create", c[i].on \notin o
               PROVE  \E j \in 1 .. i - 1 : Is(c[j], "begin", c[i].on)
  BY DEF InTxn
<1>2. i \in 1 .. n + Len(b) /\ n \in Nat /\ Len(b) \in Nat /\ DOMAIN a = 1 .. n
  BY ConcatIndices
<1>3. CASE i \in DOMAIN a /\ c[i] = a[i]
  <2>1. PICK j \in 1 .. i - 1 : Is(a[j], "begin", a[i].on)
    BY <1>1, <1>3 DEF InTxn
  <2>2. j \in DOMAIN a
    BY <1>2, <1>3
  <2> QED BY <1>3, <2>1, <2>2, ConcatIndices
<1>4. CASE i - n \in DOMAIN b /\ c[i] = b[i - n]
  <2>1. CASE c[i].on \in Begun(a)
    <3>1. PICK j \in DOMAIN a : Is(a[j], "begin", c[i].on)
      BY <2>1 DEF Begun, Of, Is
    <3>2. j \in 1 .. i - 1
      <4>1. i - n \in 1 .. Len(b)
        BY <1>4, ConcatIndices
      <4> QED BY <1>2, <4>1
    <3> QED BY <3>1, <3>2, ConcatIndices
  <2>2. CASE c[i].on \notin Begun(a)
    <3>1. PICK j \in 1 .. (i - n) - 1 : Is(b[j], "begin", b[i - n].on)
      BY <1>1, <1>4, <2>2 DEF InTxn
    <3>2. j \in DOMAIN b /\ n + j \in 1 .. i - 1
      <4>1. i - n \in 1 .. Len(b) /\ DOMAIN b = 1 .. Len(b)
        BY <1>4, ConcatIndices
      <4> QED BY <1>2, <4>1
    <3>3. c[n + j] = b[j]
      BY <3>2, ConcatIndices
    <3> QED BY <1>4, <3>1, <3>2, <3>3
  <2> QED BY <2>1, <2>2
<1> QED BY <1>3, <1>4, ConcatIndices

LEMMA CommitSimple ==
  ASSUME NEW a, \A st \in Of(a) : st.op # "commit"
  PROVE  CommitLast(a)
  BY DEF CommitLast, Of

LEMMA CommitAtEnd ==
  ASSUME NEW a \in Seq(Statements), NEW st \in Statements, \A x \in Of(a) : x.op # "commit"
  PROVE  CommitLast(a \o <<st>>)
<1> DEFINE b == <<st>>
           c == a \o b
           n == Len(a)
<1>1. b \in Seq(Statements) /\ DOMAIN b = {1} /\ Len(b) = 1
  OBVIOUS
<1> HIDE DEF b
<1>2. n \in Nat /\ Len(c) = n + 1
  BY <1>1, ConcatIndices
<1>3. ASSUME NEW i \in DOMAIN c, c[i].op = "commit" PROVE i = n + 1
  <2>1. ~(i \in DOMAIN a /\ c[i] = a[i])
    BY <1>3 DEF Of
  <2>2. i - n \in DOMAIN b /\ i \in 1 .. n + 1
    BY <1>1, <2>1, ConcatIndices
  <2>3. i - n = 1
    BY <1>1, <2>2
  <2> QED BY <1>2, <2>2, <2>3
<1> QED BY <1>2, <1>3 DEF CommitLast, b

-----------------------------------------------------------------------------
(* The outcome of a program, from the outcomes of its parts. *)

LEMMA OutcomesParts ==
  ASSUME NEW a \in Seq(Statements), NEW b \in Seq(Statements), NEW x, NEW y, NEW z,
         Outcomes(a, x) \subseteq {y}, Outcomes(b, y) \subseteq {z}
  PROVE  Outcomes(a \o b, x) \subseteq {z}
  BY OutcomesConcat

\* Statements that leave the rows alone
Quiet == {"begin", "commit", "create", "stage", "clone"}

LEMMA QuietStatement ==
  ASSUME NEW st, st.op \in Quiet, NEW rows
  PROVE  ~Refused(st, rows) /\ RowsAfter(st, rows) = rows
  BY DEF Quiet, Refused, RowsAfter, Effect

LEMMA OutcomesQuiet ==
  ASSUME NEW prog \in Seq(Statements), \A st \in Of(prog) : st.op \in Quiet, NEW rows
  PROVE  Outcomes(prog, rows) \subseteq {rows}
<1> DEFINE N == Len(prog)
<1>1. N \in Nat /\ DOMAIN prog = 1 .. N
  BY LenProperties
<1> SUFFICES ASSUME NEW x \in Outcomes(prog, rows) PROVE x = rows
  OBVIOUS
<1>2. PICK h : Trail(h, prog, N, rows) /\ h[N] = x
  BY OutcomesTrail
<1> HIDE DEF N
<1> DEFINE S == {n \in 0 .. N : h[n] = rows}
<1>3. 0 \in S
  BY <1>1, <1>2 DEF Trail
<1>4. ASSUME NEW n \in 0 .. N, n < N, n \in S PROVE n + 1 \in S
  <2>1. n + 1 \in 1 .. N /\ (n + 1) - 1 = n /\ n + 1 \in 0 .. N
    BY <1>1, <1>4
  <2>2. h[n + 1] = RowsAfter(prog[n + 1], h[n])
    BY <1>2, <2>1 DEF Trail
  <2>3. prog[n + 1].op \in Quiet
    BY <1>1, <2>1 DEF Of
  <2> QED BY <1>4, <2>1, <2>2, <2>3, QuietStatement
<1>5. 0 .. N \subseteq S
  <2>1. \A n \in 0 .. N : n < N /\ n \in S => n + 1 \in S
    BY <1>4
  <2> HIDE DEF S
  <2> QED BY <1>1, <1>3, <2>1, UpTo
<1> QED BY <1>1, <1>2, <1>5

-----------------------------------------------------------------------------
(* The DDL and TRUNCATE of the first batch. *)

\* No statement takes rows away from a strategy that only adds or updates them.
Gentle(c, st) ==
  c.mode # "drop_and_replace" /\ c.strategy \in {"append", "insert_ignore", "upsert"} =>
    /\ st.op \notin {"drop", "truncate", "keep"}
    /\ st.op = "insert" =>
         st.how \in IF c.strategy = "upsert" THEN Adding ELSE {"append", "unique", "ignore"}

\* What a write may send
Allowed(c, st) ==
  /\ st.op = "begin" => st.on \in LongSessions(c) \cup {"batch"}
  /\ st.op = "bulk" => DbxOdbc(c) /\ st.on = "auto"
  /\ Atomic(c) => st.op # "commit"
  /\ Gentle(c, st)

Part(prog, c) == prog \in Seq(Statements) /\ \A st \in Of(prog) : Allowed(c, st)

\* The statements before the first rows
Prepares(prog, c) ==
  /\ Part(prog, c)
  /\ DdlLeads(prog)
  /\ "batch" \notin Begun(prog)
  /\ Atomic(c) => InTxn(prog, {})
  /\ RunTxn(c) => "run" \in Begun(prog)
  /\ \A r \in Contents : Outcomes(prog, r) \subseteq {Met(c, r)}

\* They empty the table where the options say so, bcp before a staging table excepted.
LEMMA MetIsStart ==
  ASSUME NEW c, c.driver # "bcp" \/ c.strategy \in Keyed \/ ~Deviates(c), NEW r
  PROVE  Met(c, r) = Start(c, r)
  BY DEF Met, Deviates, Truncates, Keyed

LEMMA PartConcat ==
  ASSUME NEW c, NEW a, NEW b, Part(a, c), Part(b, c)
  PROVE  Part(a \o b, c)
  BY OfConcat DEF Part

LEMMA PartEmpty == ASSUME NEW c PROVE Part(<<>>, c)
<1>1. <<>> \in Seq(Statements)
  BY EmptySeq
<1> QED BY <1>1, OfParts DEF Part

LEMMA PartOne == ASSUME NEW c, NEW st \in Statements, Allowed(c, st) PROVE Part(<<st>>, c)
<1>1. <<st>> \in Seq(Statements)
  OBVIOUS
<1> QED BY <1>1, OfParts DEF Part

LEMMA ConfigTypes ==
  ASSUME NEW c \in Configs
  PROVE  /\ c.driver \in Drivers /\ c.mode \in Modes /\ c.strategy \in Strategies
         /\ c.staged \in BOOLEAN /\ (c.staged => c.driver \in Staging)
         /\ c.pk \in BOOLEAN /\ (c.strategy \in Keyed => c.pk)
  BY DEF Configs

LEMMA ModeDdlFacts ==
  ASSUME NEW c \in Configs, NEW on \in Sessions
  PROVE  /\ ModeDdl(c.mode, on) \in Seq(Statements)
         /\ \A st \in Of(ModeDdl(c.mode, on)) :
              /\ st.on = on /\ st.op \in {"drop", "create"}
              /\ st.op = "drop" => c.mode = "drop_and_replace"
         /\ \A r : Outcomes(ModeDdl(c.mode, on), r)
                     \subseteq {IF c.mode = "drop_and_replace" THEN NoRows ELSE r}
<1> DEFINE D == Drop(on)
           C == Create(on)
<1>1. D \in Statements /\ C \in Statements /\ D.op = "drop" /\ C.op = "create" /\ D.on = on /\ C.on = on
  <2>1. <<>> \in Seq(Rows)
    BY EmptySeq
  <2> QED BY <2>1 DEF Drop, Create, Stmt, Statements, Ops, Hows
<1>2. \A r : /\ ~Refused(D, r) /\ RowsAfter(D, r) = NoRows
             /\ ~Refused(C, r) /\ RowsAfter(C, r) = r
  BY StatementEffects
<1>3. c.mode \in Modes
  BY ConfigTypes
<1> HIDE DEF D, C
<1>4. <<D>> \in Seq(Statements) /\ <<C>> \in Seq(Statements) /\ <<>> \in Seq(Statements)
      /\ <<D, C>> \in Seq(Statements)
  BY <1>1
<1>8. <<D, C>> = <<D>> \o <<C>>
  BY Pairs
<1>5. CASE c.mode = "use_existing"
  <2>1. ModeDdl(c.mode, on) = <<>>
    BY <1>5 DEF ModeDdl
  <2> QED BY <1>4, <1>5, <2>1, OutcomesEmpty, OfParts
<1>6. CASE c.mode = "create_if_not_exists"
  <2>1. ModeDdl(c.mode, on) = <<C>>
    BY <1>6 DEF ModeDdl, C
  <2>2. \A r : Outcomes(<<C>>, r) = {r}
    BY <1>1, <1>2, OutcomesOne
  <2>3. Of(<<C>>) = {C}
    BY OfParts
  <2> QED BY <1>1, <1>4, <1>6, <2>1, <2>2, <2>3
<1>7. CASE c.mode = "drop_and_replace"
  <2>1. ModeDdl(c.mode, on) = <<D, C>>
    BY <1>7 DEF ModeDdl, C, D
  <2>2. \A r : Outcomes(<<C>>, r) = {r} /\ Outcomes(<<D>>, r) = {NoRows}
    BY <1>1, <1>2, OutcomesOne
  <2>3. \A r : Outcomes(<<D, C>>, r) \subseteq {NoRows}
    BY <1>4, <1>8, <2>2, OutcomesParts
  <2>4. Of(<<D, C>>) = {D, C}
    BY OfParts
  <2> QED BY <1>1, <1>4, <1>7, <2>1, <2>3, <2>4
<1> QED BY <1>3, <1>5, <1>6, <1>7 DEF Modes

LEMMA TruncateFacts ==
  ASSUME NEW on \in Sessions, NEW cond \in BOOLEAN
  PROVE  LET prog == IF cond THEN <<Truncate(on)>> ELSE <<>>
         IN  /\ prog \in Seq(Statements)
             /\ \A st \in Of(prog) : st.on = on /\ st.op = "truncate" /\ cond
             /\ \A r : Outcomes(prog, r) \subseteq {IF cond THEN NoRows ELSE r}
<1> DEFINE T == Truncate(on)
<1>1. T \in Statements /\ T.op = "truncate" /\ T.on = on
  <2>1. <<>> \in Seq(Rows)
    BY EmptySeq
  <2> QED BY <2>1 DEF Truncate, Stmt, Statements, Ops, Hows
<1>2. \A r : ~Refused(T, r) /\ RowsAfter(T, r) = NoRows
  BY StatementEffects
<1> HIDE DEF T
<1>3. <<T>> \in Seq(Statements) /\ <<>> \in Seq(Statements)
  BY <1>1
<1>4. \A r : Outcomes(<<T>>, r) = {NoRows} /\ Outcomes(<<>>, r) = {r}
  BY <1>1, <1>2, OutcomesOne, OutcomesEmpty
<1> QED BY <1>1, <1>3, <1>4, OfParts DEF T

\* The two in one session
LEMMA DdlThenTruncate ==
  ASSUME NEW c \in Configs, NEW on \in Sessions
  PROVE  LET prog == ModeDdl(c.mode, on) \o (IF Truncates(c) THEN <<Truncate(on)>> ELSE <<>>)
         IN  /\ prog \in Seq(Statements)
             /\ \A st \in Of(prog) :
                  /\ st.on = on /\ st.op \in {"drop", "create", "truncate"}
                  /\ st.op = "drop" => c.mode = "drop_and_replace"
                  /\ st.op = "truncate" => Truncates(c)
             /\ \A r : Outcomes(prog, r) \subseteq {Start(c, r)}
<1> DEFINE M == ModeDdl(c.mode, on)
           T == IF Truncates(c) THEN <<Truncate(on)>> ELSE <<>>
           mid(r) == IF c.mode = "drop_and_replace" THEN NoRows ELSE r
<1>1. /\ M \in Seq(Statements)
      /\ \A st \in Of(M) : /\ st.on = on /\ st.op \in {"drop", "create"}
                           /\ st.op = "drop" => c.mode = "drop_and_replace"
      /\ \A r : Outcomes(M, r) \subseteq {mid(r)}
  BY ModeDdlFacts
<1>2. /\ T \in Seq(Statements)
      /\ \A st \in Of(T) : st.on = on /\ st.op = "truncate" /\ Truncates(c)
      /\ \A r : Outcomes(T, r) \subseteq {IF Truncates(c) THEN NoRows ELSE r}
  <2>1. Truncates(c) \in BOOLEAN
    BY DEF Truncates
  <2> QED BY <2>1, TruncateFacts
<1>3. \A r : (IF Truncates(c) THEN NoRows ELSE mid(r)) = Start(c, r)
  BY DEF Start, Truncates
<1> HIDE DEF M, T, mid
<1>4. M \o T \in Seq(Statements) /\ Of(M \o T) = Of(M) \cup Of(T)
  BY <1>1, <1>2, OfConcat
<1>5. \A r : Outcomes(M \o T, r) \subseteq {Start(c, r)}
  <2> TAKE r
  <2>1. Outcomes(T, mid(r)) \subseteq {Start(c, r)}
    BY <1>2, <1>3
  <2> QED BY <1>1, <1>2, <2>1, OutcomesParts
<1>6. \A st \in Of(M \o T) :
                  /\ st.on = on /\ st.op \in {"drop", "create", "truncate"}
                  /\ st.op = "drop" => c.mode = "drop_and_replace"
                  /\ st.op = "truncate" => Truncates(c)
  BY <1>1, <1>2, <1>4
<1> QED BY <1>4, <1>5, <1>6 DEF M, T

\* These statements may be sent, whatever the driver.
LEMMA PrepareAllowed ==
  ASSUME NEW c, NEW st, st.op \in {"drop", "create", "truncate", "stage", "clone"},
         st.op = "drop" => c.mode = "drop_and_replace", st.op = "truncate" => c.strategy = "truncate"
  PROVE  Allowed(c, st)
  BY DEF Allowed, Gentle

LEMMA BeginFacts ==
  ASSUME NEW on \in Sessions
  PROVE  /\ Begin(on) \in Statements /\ Begin(on).op = "begin" /\ Begin(on).on = on
         /\ <<Begin(on)>> \in Seq(Statements) /\ Of(<<Begin(on)>>) = {Begin(on)}
         /\ Begun(<<Begin(on)>>) = {on}
         /\ \A r : Outcomes(<<Begin(on)>>, r) \subseteq {r}
<1> DEFINE B == Begin(on)
<1>1. B \in Statements /\ B.op = "begin" /\ B.on = on
  <2>1. <<>> \in Seq(Rows)
    BY EmptySeq
  <2> QED BY <2>1 DEF Begin, Stmt, Statements, Ops, Hows
<1> HIDE DEF B
<1>2. <<B>> \in Seq(Statements) /\ Of(<<B>>) = {B}
  BY <1>1, OfParts
<1>3. Begun(<<B>>) = {on}
  BY <1>1, <1>2 DEF Begun
<1>4. \A st \in Of(<<B>>) : st.op \in Quiet
  BY <1>1, <1>2 DEF Quiet
<1>5. \A r : Outcomes(<<B>>, r) \subseteq {r}
  BY <1>2, <1>4, OutcomesQuiet
<1> QED BY <1>1, <1>2, <1>3, <1>5 DEF B

\* A session is begun by a "begin" only.
LEMMA NoneBegun ==
  ASSUME NEW prog, \A st \in Of(prog) : st.op # "begin"
  PROVE  Begun(prog) = {}
  BY DEF Begun

\* DDL and TRUNCATE in autocommit mode: mysql, oracle, databricks, and odbc before BEGIN
LEMMA PreparesAuto ==
  ASSUME NEW c \in Configs, ~RunTxn(c), c.driver \notin {"postgres", "bcp"},
         Atomic(c) => c.mode # "drop_and_replace" /\ c.strategy # "truncate"
  PROVE  Prepares(ModeDdl(c.mode, "auto") \o (IF Truncates(c) THEN <<Truncate("auto")>> ELSE <<>>), c)
<1> DEFINE P == ModeDdl(c.mode, "auto") \o (IF Truncates(c) THEN <<Truncate("auto")>> ELSE <<>>)
<1>1. /\ P \in Seq(Statements)
      /\ \A st \in Of(P) : /\ st.on = "auto" /\ st.op \in {"drop", "create", "truncate"}
                           /\ st.op = "drop" => c.mode = "drop_and_replace"
                           /\ st.op = "truncate" => Truncates(c)
      /\ \A r : Outcomes(P, r) \subseteq {Start(c, r)}
  BY DdlThenTruncate DEF Sessions
<1> HIDE DEF P
<1>2. Part(P, c)
  BY <1>1, PrepareAllowed DEF Part, Truncates
<1>3. DdlLeads(P) /\ Begun(P) = {}
  BY <1>1, LeadsSession, NoneBegun
<1>4. Atomic(c) => InTxn(P, {})
  BY <1>1, TxnSimple DEF Truncates
<1> QED BY <1>1, <1>2, <1>3, <1>4, MetIsStart DEF Prepares, P

LEMMA MyPrepares == ASSUME NEW c \in Configs, c.driver = "mysql" PROVE Prepares(MyPrepare(c), c)
<1>1. ~RunTxn(c) /\ ~Atomic(c)
  BY DEF RunTxn, Atomic
<1> QED BY <1>1, PreparesAuto DEF MyPrepare

LEMMA OraPrepares ==
  ASSUME NEW c \in Configs, c.driver \in {"oracle", "oracle_direct"} PROVE Prepares(OraPrepare(c), c)
<1>1. ~RunTxn(c) /\ (Atomic(c) => c.mode # "drop_and_replace" /\ c.strategy # "truncate")
  BY DEF RunTxn, Atomic
<1> QED BY <1>1, PreparesAuto DEF OraPrepare

LEMMA DbxPrepares ==
  ASSUME NEW c \in Configs, c.driver \in {"databricks", "databricks_odbc"} PROVE Prepares(DbxPrepare(c), c)
<1>1. ~RunTxn(c) /\ ~Atomic(c)
  BY DEF RunTxn, Atomic
<1> QED BY <1>1, PreparesAuto DEF DbxPrepare

LEMMA PgPrepares == ASSUME NEW c \in Configs, c.driver = "postgres" PROVE Prepares(PgPrepare(c), c)
<1> DEFINE B == <<Begin("run")>>
           R == B \o ModeDdl(c.mode, "run")
           A == ModeDdl(c.mode, "auto")
           D == IF c.mode = "drop_and_replace" THEN R ELSE A
           T == IF Truncates(c) THEN <<Begin("run"), Truncate("run")>> ELSE <<>>
           mid(r) == IF c.mode = "drop_and_replace" THEN NoRows ELSE r
<1>1. B \in Seq(Statements) /\ Of(B) = {Begin("run")} /\ Begun(B) = {"run"}
      /\ Begin("run").op = "begin" /\ Begin("run").on = "run" /\ \A r : Outcomes(B, r) \subseteq {r}
  BY BeginFacts DEF Sessions
<1>2. \A on \in {"run", "auto"} :
        /\ ModeDdl(c.mode, on) \in Seq(Statements)
        /\ \A st \in Of(ModeDdl(c.mode, on)) :
              /\ st.on = on /\ st.op \in {"drop", "create"}
              /\ st.op = "drop" => c.mode = "drop_and_replace"
        /\ \A r : Outcomes(ModeDdl(c.mode, on), r) \subseteq {mid(r)}
  BY ModeDdlFacts DEF Sessions
<1>3. PgRunTxn(c) => Allowed(c, Begin("run"))
  BY <1>1 DEF Allowed, Gentle, LongSessions
<1> HIDE DEF B, mid
<1>4. /\ R \in Seq(Statements) /\ DdlLeads(R) /\ Begun(R) = {"run"} /\ Of(R) = Of(B) \cup Of(ModeDdl(c.mode, "run"))
      /\ InTxn(R, {}) /\ \A r : Outcomes(R, r) \subseteq {mid(r)}
  <2> DEFINE M == ModeDdl(c.mode, "run")
  <2>1. M \in Seq(Statements) /\ \A st \in Of(M) : st.on = "run" /\ st.op \in {"drop", "create"}
    BY <1>2
  <2>2. \A r : Outcomes(M, r) \subseteq {mid(r)}
    BY <1>2
  <2> HIDE DEF M
  <2>3. R \in Seq(Statements) /\ Of(R) = Of(B) \cup Of(M) /\ Begun(R) = Begun(B) \cup Begun(M)
    BY <1>1, <2>1, OfConcat DEF M
  <2>4. Begun(M) = {}
    BY <2>1, NoneBegun
  <2>5. \A st \in Of(R) : st.on = "run"
    BY <1>1, <2>1, <2>3
  <2>6. InTxn(B, {}) /\ InTxn(M, {} \cup Begun(B))
    <3>1. \A st \in Of(B) : ~Changes(st)
      BY <1>1 DEF Changes
    <3> QED BY <1>1, <2>1, <3>1, TxnSimple
  <2>7. \A r : Outcomes(B \o M, r) \subseteq {mid(r)}
    BY <1>1, <2>1, <2>2, OutcomesParts
  <2>8. InTxn(B \o M, {})
    BY <1>1, <2>1, <2>6, TxnConcat
  <2>9. DdlLeads(R)
    <3> HIDE DEF R
    <3> QED BY <2>3, <2>5, LeadsSession
  <2>10. R = B \o M
    BY DEF M
  <2> HIDE DEF R
  <2> QED BY <1>1, <2>3, <2>4, <2>7, <2>8, <2>9, <2>10 DEF M
<1>5. /\ A \in Seq(Statements) /\ DdlLeads(A) /\ Begun(A) = {}
      /\ (c.mode # "drop_and_replace" => InTxn(A, {})) /\ \A r : Outcomes(A, r) \subseteq {mid(r)}
  <2>1. A \in Seq(Statements) /\ \A st \in Of(A) : /\ st.on = "auto" /\ st.op \in {"drop", "create"}
                                                   /\ st.op = "drop" => c.mode = "drop_and_replace"
    BY <1>2
  <2>2. \A r : Outcomes(A, r) \subseteq {mid(r)}
    BY <1>2
  <2> HIDE DEF A
  <2>3. c.mode # "drop_and_replace" => InTxn(A, {})
    BY <2>1, TxnSimple
  <2> QED BY <2>1, <2>2, <2>3, LeadsSession, NoneBegun
<1>6. \A st \in Of(D) : Allowed(c, st)
  <2>1. \A on \in {"run", "auto"} : \A st \in Of(ModeDdl(c.mode, on)) : Allowed(c, st)
    BY <1>2, PrepareAllowed
  <2>2. c.mode = "drop_and_replace" => Allowed(c, Begin("run"))
    BY <1>3 DEF PgRunTxn
  <2> QED BY <1>1, <1>4, <2>1, <2>2
<1>7. /\ D \in Seq(Statements) /\ DdlLeads(D) /\ InTxn(D, {})
      /\ Begun(D) = (IF c.mode = "drop_and_replace" THEN {"run"} ELSE {})
      /\ \A r : Outcomes(D, r) \subseteq {mid(r)}
  <2> HIDE DEF A, R
  <2> QED BY <1>4, <1>5
<1> HIDE DEF D
<1>8. /\ T \in Seq(Statements)
      /\ \A st \in Of(T) : Allowed(c, st) /\ ~Ddl(st)
      /\ Begun(T) = (IF Truncates(c) THEN {"run"} ELSE {}) /\ InTxn(T, Begun(D))
      /\ \A r : Outcomes(T, r) \subseteq {IF Truncates(c) THEN NoRows ELSE r}
  <2> DEFINE X == Truncate("run")
             Y == IF TRUE THEN <<Truncate("run")>> ELSE <<>>
  <2>1. X \in Statements /\ X.op = "truncate" /\ X.on = "run" /\ Changes(X)
    <3>1. <<>> \in Seq(Rows)
      BY EmptySeq
    <3> QED BY <3>1 DEF Truncate, Stmt, Statements, Ops, Hows, Sessions, Changes
  <2>2. \A r : ~Refused(X, r) /\ RowsAfter(X, r) = NoRows
    BY StatementEffects
  <2>3. Truncates(c) => Allowed(c, X)
    BY <2>1, PrepareAllowed DEF Truncates
  <2> HIDE DEF X, B
  <2>4. <<X>> \in Seq(Statements) /\ Of(<<X>>) = {X} /\ \A r : Outcomes(<<X>>, r) = {NoRows}
    <3>1. <<X>> \in Seq(Statements)
      BY <2>1
    <3>2. Of(<<X>>) = {X}
      BY OfParts
    <3>3. \A r : Outcomes(<<X>>, r) = {NoRows}
      BY <2>1, <2>2, OutcomesOne
    <3> QED BY <3>1, <3>2, <3>3
  <2>5. Begun(<<X>>) = {}
    BY <2>1, <2>4, NoneBegun
  <2>6. B \o <<X>> \in Seq(Statements) /\ Of(B \o <<X>>) = Of(B) \cup {X} /\ Begun(B \o <<X>>) = {"run"}
    <3> DEFINE x == <<X>>
    <3>1. x \in Seq(Statements) /\ Of(x) = {X} /\ Begun(x) = {}
      BY <2>4, <2>5
    <3>2. B \in Seq(Statements) /\ Begun(B) = {"run"}
      BY <1>1
    <3> HIDE DEF x
    <3>3. B \o x \in Seq(Statements) /\ Of(B \o x) = Of(B) \cup {X} /\ Begun(B \o x) = {"run"}
      BY <3>1, <3>2, OfConcat
    <3> QED BY <3>3 DEF x
  <2>7. ASSUME NEW r PROVE Outcomes(B \o <<X>>, r) \subseteq {NoRows}
    <3> DEFINE x == <<X>>
    <3>1. x \in Seq(Statements) /\ Outcomes(x, r) \subseteq {NoRows}
      BY <2>4
    <3>2. B \in Seq(Statements) /\ Outcomes(B, r) \subseteq {r}
      BY <1>1
    <3> HIDE DEF x
    <3>3. Outcomes(B \o x, r) \subseteq {NoRows}
      BY <3>1, <3>2, OutcomesParts
    <3> QED BY <3>3 DEF x
  <2>8. InTxn(B \o <<X>>, Begun(D))
    <3>1. InTxn(B, Begun(D))
      <4>1. \A st \in Of(B) : ~Changes(st)
        BY <1>1 DEF Changes
      <4> QED BY <4>1, TxnSimple
    <3>2. InTxn(<<X>>, Begun(D) \cup Begun(B))
      BY <1>1, <2>1, <2>4, TxnSimple
    <3> QED BY <1>1, <2>4, <3>1, <3>2, TxnConcat
  <2>9. B \o <<X>> = <<Begin("run"), X>>
    BY Pairs DEF B
  <2>10. CASE Truncates(c)
    <3>1. T = B \o <<X>>
      BY <2>9, <2>10 DEF X
    <3>2. ~Ddl(Begin("run")) /\ ~Ddl(X)
      BY <1>1, <2>1 DEF Ddl
    <3>3. Allowed(c, Begin("run"))
      BY <1>3, <2>10 DEF PgRunTxn, Truncates
    <3> HIDE DEF T
    <3> QED BY <1>1, <2>3, <2>6, <2>7, <2>8, <2>10, <3>1, <3>2, <3>3
  <2>11. CASE ~Truncates(c)
    <3>1. T = <<>>
      BY <2>11
    <3> HIDE DEF T
    <3>2. T \in Seq(Statements) /\ Of(T) = {} /\ \A r : Outcomes(T, r) = {r}
      BY <3>1, EmptySeq, OfParts, OutcomesEmpty
    <3>3. Begun(T) = {} /\ InTxn(T, Begun(D))
      BY <3>2, NoneBegun, TxnSimple
    <3> QED BY <2>11, <3>2, <3>3
  <2> QED BY <2>10, <2>11
<1> HIDE DEF T
<1>9. D \o T \in Seq(Statements) /\ Of(D \o T) = Of(D) \cup Of(T) /\ Begun(D \o T) = Begun(D) \cup Begun(T)
  BY <1>7, <1>8, OfConcat
<1>10. Part(D \o T, c)
  BY <1>6, <1>8, <1>9 DEF Part
<1>11. DdlLeads(D \o T)
  BY <1>7, <1>8, LeadsAppend
<1>12. InTxn(D \o T, {})
  <2>1. {} \cup Begun(D) = Begun(D)
    OBVIOUS
  <2> QED BY <1>7, <1>8, <2>1, TxnConcat
<1>13. ASSUME NEW r PROVE Outcomes(D \o T, r) \subseteq {Start(c, r)}
  <2>1. (IF Truncates(c) THEN NoRows ELSE mid(r)) = Start(c, r)
    BY DEF Start, Truncates, mid
  <2>2. Outcomes(T, mid(r)) \subseteq {Start(c, r)}
    BY <1>8, <2>1
  <2> QED BY <1>7, <1>8, <2>2, OutcomesParts
<1>14. RunTxn(c) => "run" \in Begun(D \o T)
  <2>1. RunTxn(c) => c.mode = "drop_and_replace" \/ Truncates(c)
    BY DEF RunTxn, PgRunTxn, Truncates
  <2> QED BY <1>7, <1>8, <1>9, <2>1
<1>15. PgPrepare(c) = D \o T
  BY DEF PgPrepare, D, T, B
<1> QED BY <1>7, <1>8, <1>9, <1>10, <1>11, <1>12, <1>13, <1>14, <1>15, MetIsStart DEF Prepares

LEMMA TibPrepares == ASSUME NEW c \in Configs, c.driver = "tiberius" PROVE Prepares(TibPrepare(c), c)
<1> DEFINE B == <<Begin("run")>>
           M == ModeDdl(c.mode, "run")
           T == IF Truncates(c) THEN <<Truncate("run")>> ELSE <<>>
           P == B \o (M \o T)
<1>1. B \in Seq(Statements) /\ Of(B) = {Begin("run")} /\ Begun(B) = {"run"}
      /\ Begin("run").op = "begin" /\ Begin("run").on = "run" /\ \A r : Outcomes(B, r) \subseteq {r}
  BY BeginFacts DEF Sessions
<1>2. /\ M \o T \in Seq(Statements)
      /\ \A st \in Of(M \o T) : /\ st.on = "run" /\ st.op \in {"drop", "create", "truncate"}
                                /\ st.op = "drop" => c.mode = "drop_and_replace"
                                /\ st.op = "truncate" => Truncates(c)
      /\ \A r : Outcomes(M \o T, r) \subseteq {Start(c, r)}
  BY DdlThenTruncate DEF Sessions
<1>3. M \in Seq(Statements) /\ T \in Seq(Statements)
  <2>1. Truncates(c) \in BOOLEAN /\ "run" \in Sessions
    BY DEF Truncates, Sessions
  <2> QED BY <2>1, ModeDdlFacts, TruncateFacts
<1>4. TibPrepare(c) = (B \o M) \o T
  BY DEF TibPrepare
<1>5. Allowed(c, Begin("run"))
  BY <1>1 DEF Allowed, Gentle, LongSessions
<1> HIDE DEF B, M, T
<1>6. TibPrepare(c) = P
  BY <1>1, <1>3, <1>4, ConcatAssociative
<1> DEFINE X == M \o T
<1>7. X \in Seq(Statements) /\ \A r : Outcomes(X, r) \subseteq {Start(c, r)}
  BY <1>2
<1>8. \A st \in Of(X) : Allowed(c, st) /\ st.on = "run" /\ st.op # "begin"
  BY <1>2, PrepareAllowed DEF Truncates
<1> HIDE DEF X
<1>9. B \o X \in Seq(Statements) /\ Of(B \o X) = Of(B) \cup Of(X) /\ Begun(B \o X) = Begun(B) \cup Begun(X)
  BY <1>1, <1>7, OfConcat
<1>10. Begun(X) = {}
  BY <1>8, NoneBegun
<1>11. Part(B \o X, c)
  BY <1>1, <1>5, <1>8, <1>9 DEF Part
<1>12. DdlLeads(B \o X)
  <2>1. \A st \in Of(B \o X) : st.on = "run"
    BY <1>1, <1>8, <1>9
  <2> QED BY <1>9, <2>1, LeadsSession
<1>13. InTxn(B \o X, {})
  <2>1. InTxn(B, {})
    <3>1. \A st \in Of(B) : ~Changes(st)
      BY <1>1 DEF Changes
    <3> QED BY <3>1, TxnSimple
  <2>2. InTxn(X, {} \cup Begun(B))
    BY <1>1, <1>8, TxnSimple
  <2> QED BY <1>1, <1>7, <2>1, <2>2, TxnConcat
<1>14. \A r : Outcomes(B \o X, r) \subseteq {Start(c, r)}
  <2> SUFFICES ASSUME NEW r PROVE Outcomes(B \o X, r) \subseteq {Start(c, r)}
    OBVIOUS
  <2> DEFINE z == Start(c, r)
  <2>1. B \in Seq(Statements) /\ X \in Seq(Statements)
    BY <1>1, <1>7
  <2>2. Outcomes(B, r) \subseteq {r} /\ Outcomes(X, r) \subseteq {z}
    BY <1>1, <1>7
  <2> HIDE DEF z
  <2>3. Outcomes(B \o X, r) \subseteq {z}
    BY <2>1, <2>2, OutcomesParts
  <2> QED BY <2>3 DEF z
<1>15. TibPrepare(c) = B \o X
  BY <1>6 DEF X
<1> QED BY <1>1, <1>9, <1>10, <1>11, <1>12, <1>13, <1>14, <1>15, MetIsStart DEF Prepares

LEMMA OdbcPrepares == ASSUME NEW c \in Configs, c.driver = "odbc" PROVE Prepares(OdbcPrepare(c), c)
<1> DEFINE B == <<Begin("run")>>
           X == ModeDdl(c.mode, "auto") \o (IF Truncates(c) THEN <<Truncate("auto")>> ELSE <<>>)
<1>1. B \in Seq(Statements) /\ Of(B) = {Begin("run")} /\ Begun(B) = {"run"}
      /\ Begin("run").op = "begin" /\ Begin("run").on = "run" /\ \A r : Outcomes(B, r) \subseteq {r}
  BY BeginFacts DEF Sessions
<1>2. /\ X \in Seq(Statements)
      /\ \A st \in Of(X) : /\ st.on = "auto" /\ st.op \in {"drop", "create", "truncate"}
                           /\ st.op = "drop" => c.mode = "drop_and_replace"
                           /\ st.op = "truncate" => Truncates(c)
      /\ \A r : Outcomes(X, r) \subseteq {Start(c, r)}
  BY DdlThenTruncate DEF Sessions
<1>3. Allowed(c, Begin("run"))
  BY <1>1 DEF Allowed, Gentle, LongSessions
<1>4. OdbcPrepare(c) = X \o B
  BY DEF OdbcPrepare
<1> HIDE DEF B, X
<1>5. \A st \in Of(X) : Allowed(c, st)
  BY <1>2, PrepareAllowed DEF Truncates
<1>6. X \o B \in Seq(Statements) /\ Of(X \o B) = Of(X) \cup Of(B) /\ Begun(X \o B) = Begun(X) \cup Begun(B)
  BY <1>1, <1>2, OfConcat
<1>7. Begun(X) = {}
  BY <1>2, NoneBegun
<1>8. Part(X \o B, c)
  BY <1>1, <1>3, <1>5, <1>6 DEF Part
<1>9. DdlLeads(X \o B)
  <2>1. DdlLeads(X)
    BY <1>2, LeadsSession
  <2>2. \A st \in Of(B) : ~Ddl(st)
    BY <1>1 DEF Ddl
  <2> QED BY <1>1, <1>2, <2>1, <2>2, LeadsAppend
<1>10. Atomic(c) => InTxn(X \o B, {})
  <2>1. Atomic(c) => \A st \in Of(X) : st.op = "create"
    BY <1>2 DEF Atomic, Truncates
  <2>2. Atomic(c) => InTxn(X, {})
    BY <2>1, TxnSimple
  <2>3. InTxn(B, {} \cup Begun(X))
    <3>1. \A st \in Of(B) : ~Changes(st)
      BY <1>1 DEF Changes
    <3> QED BY <3>1, TxnSimple
  <2> QED BY <1>1, <1>2, <2>2, <2>3, TxnConcat
<1>11. \A r : Outcomes(X \o B, r) \subseteq {Start(c, r)}
  BY <1>1, <1>2, OutcomesParts
<1> QED BY <1>1, <1>4, <1>6, <1>7, <1>8, <1>9, <1>10, <1>11, MetIsStart DEF Prepares

LEMMA BcpPrepares == ASSUME NEW c \in Configs, c.driver = "bcp" PROVE Prepares(BcpPrepare(c), c)
<1> DEFINE M == ModeDdl(c.mode, "auto")
           cond == c.strategy = "truncate" /\ ~MsStaged(c)
           T == IF cond THEN <<Truncate("auto")>> ELSE <<>>
           S == IF MsStaged(c) THEN <<Stage("auto", <<>>)>> ELSE <<>>
           mid(r) == IF c.mode = "drop_and_replace" THEN NoRows ELSE r
           after(r) == IF cond THEN NoRows ELSE mid(r)
<1>1. /\ M \in Seq(Statements)
      /\ \A st \in Of(M) : /\ st.on = "auto" /\ st.op \in {"drop", "create"}
                           /\ st.op = "drop" => c.mode = "drop_and_replace"
      /\ \A r : Outcomes(M, r) \subseteq {mid(r)}
  BY ModeDdlFacts DEF Sessions
<1>2. /\ T \in Seq(Statements)
      /\ \A st \in Of(T) : st.on = "auto" /\ st.op = "truncate" /\ cond
      /\ \A r : Outcomes(T, r) \subseteq {IF cond THEN NoRows ELSE r}
  <2>1. cond \in BOOLEAN /\ "auto" \in Sessions
    BY DEF Sessions
  <2> HIDE DEF cond
  <2> QED BY <2>1, TruncateFacts
<1>3. /\ S \in Seq(Statements)
      /\ \A st \in Of(S) : st.op = "stage"
  <2> DEFINE G == Stage("auto", <<>>)
  <2>1. G \in Statements /\ G.op = "stage"
    <3>1. <<>> \in Seq(Rows)
      BY EmptySeq
    <3> QED BY <3>1 DEF Stage, Stmt, Statements, Ops, Hows, Sessions
  <2> HIDE DEF G
  <2>2. <<G>> \in Seq(Statements) /\ Of(<<G>>) = {G} /\ <<>> \in Seq(Statements) /\ Of(<<>>) = {}
    BY <2>1, OfParts
  <2> QED BY <2>1, <2>2 DEF G
<1>4. \A r : Outcomes(S, r) \subseteq {r}
  BY <1>3, OutcomesQuiet DEF Quiet
<1>5. BcpPrepare(c) = (M \o T) \o S
  BY DEF BcpPrepare
<1>6. cond => c.strategy = "truncate"
  OBVIOUS
<1>7. \A r : after(r) = Met(c, r)
  BY DEF Met, Start, Truncates, MsStaged
<1>8. Atomic(c) => ~cond /\ c.mode # "drop_and_replace"
  BY DEF Atomic, MsStaged
<1>9. ~RunTxn(c)
  BY DEF RunTxn
<1> HIDE DEF M, T, S, mid, cond
<1>10. M \o T \in Seq(Statements) /\ Of(M \o T) = Of(M) \cup Of(T)
  BY <1>1, <1>2, OfConcat
<1>11. (M \o T) \o S \in Seq(Statements) /\ Of((M \o T) \o S) = Of(M) \cup Of(T) \cup Of(S)
  BY <1>3, <1>10, OfConcat
<1>12. \A st \in Of((M \o T) \o S) : Allowed(c, st) /\ st.op # "begin"
  <2>1. \A st \in Of(M) \cup Of(T) \cup Of(S) : st.op \in {"drop", "create", "truncate", "stage"}
    BY <1>1, <1>2, <1>3
  <2>2. \A st \in Of(M) \cup Of(T) \cup Of(S) :
          (st.op = "drop" => c.mode = "drop_and_replace") /\ (st.op = "truncate" => c.strategy = "truncate")
    BY <1>1, <1>2, <1>3, <1>6
  <2> QED BY <1>11, <2>1, <2>2, PrepareAllowed
<1>13. Part((M \o T) \o S, c) /\ Begun((M \o T) \o S) = {}
  BY <1>11, <1>12, NoneBegun DEF Part
<1>14. DdlLeads((M \o T) \o S)
  <2>1. DdlLeads(M \o T)
    <3>1. \A st \in Of(M \o T) : st.on = "auto"
      BY <1>1, <1>2, <1>10
    <3> QED BY <1>10, <3>1, LeadsSession
  <2>2. \A st \in Of(S) : ~Ddl(st)
    BY <1>3 DEF Ddl
  <2> QED BY <1>3, <1>10, <2>1, <2>2, LeadsAppend
<1>15. Atomic(c) => InTxn((M \o T) \o S, {})
  <2>1. ASSUME Atomic(c), NEW st \in Of((M \o T) \o S), Changes(st) PROVE st.op = "create"
    <3>1. st \in Of(M) \/ st \in Of(S) \/ st \in Of(T)
      BY <1>11
    <3>2. st \notin Of(T) /\ st \notin Of(S)
      BY <1>2, <1>3, <1>8, <2>1 DEF Changes
    <3> QED BY <1>1, <1>8, <2>1, <3>1, <3>2
  <2> QED BY <2>1, TxnSimple
<1>16. \A r : Outcomes((M \o T) \o S, r) \subseteq {after(r)}
  <2> TAKE r
  <2>1. Outcomes(T, mid(r)) \subseteq {after(r)}
    BY <1>2
  <2>2. Outcomes(M \o T, r) \subseteq {after(r)}
    <3> HIDE DEF after
    <3> QED BY <1>1, <1>2, <2>1, OutcomesParts
  <2> HIDE DEF after
  <2> QED BY <1>3, <1>4, <1>10, <2>2, OutcomesParts
<1>17. \A r : Outcomes((M \o T) \o S, r) \subseteq {Met(c, r)}
  <2> HIDE DEF after
  <2> QED BY <1>7, <1>16
<1> QED BY <1>5, <1>9, <1>13, <1>14, <1>15, <1>17 DEF Prepares

LEMMA MsPrepares ==
  ASSUME NEW c \in Configs, c.driver \in {"tiberius", "odbc", "bcp"} PROVE Prepares(MsPrepare(c), c)
  BY TibPrepares, OdbcPrepares, BcpPrepares DEF MsPrepare

-----------------------------------------------------------------------------
(* The rows of a batch. *)

\* The statements that send rows, after those that prepare the table
RowsPart(prog, c, o) ==
  /\ Part(prog, c)
  /\ \A st \in Of(prog) : ~Ddl(st)
  /\ EndsIn(prog, "batch")
  /\ Atomic(c) => InTxn(prog, o)

\* A program that sends some rows in one way
Sends(prog, b, how) ==
  \A y \in Contents : \A x \in Outcomes(prog, y) : Takes(y, b, how) /\ x = InsertEffect(y, b, how)

LEMMA QuietAround ==
  ASSUME NEW p \in Seq(Statements), NEW q \in Seq(Statements), NEW y,
         \A st \in Of(p) : st.op \in Quiet
  PROVE  /\ Outcomes(p \o q, y) \subseteq Outcomes(q, y)
         /\ Outcomes(q \o p, y) \subseteq Outcomes(q, y)
<1>1. \A z : Outcomes(p, z) \subseteq {z}
  BY OutcomesQuiet
<1> QED BY <1>1, OutcomesConcat

LEMMA SendsQuiet ==
  ASSUME NEW p \in Seq(Statements), NEW q \in Seq(Statements), NEW b, NEW how,
         \A st \in Of(p) : st.op \in Quiet, Sends(q, b, how)
  PROVE  Sends(p \o q, b, how) /\ Sends(q \o p, b, how)
  BY QuietAround DEF Sends

LEMMA FitsInserts == ASSUME NEW c \in Configs, NEW how, Fits(c.strategy, how) PROVE how \in Inserts /\ how \in Hows
<1>1. c.strategy \in Strategies
  BY ConfigTypes
<1> QED BY <1>1 DEF Fits, Strategies, Inserts, Hows

\* One insert, and one for each chunk
LEMMA InsertFacts ==
  ASSUME NEW c \in Configs, NEW on \in Sessions, NEW b \in Seq(Rows), NEW how \in Hows,
         Fits(c.strategy, how) \/ c.strategy = "merge_delete"
  PROVE  LET st == Insert(on, b, how)
         IN  /\ st \in Statements /\ <<st>> \in Seq(Statements) /\ Of(<<st>>) = {st}
             /\ st.op = "insert" /\ st.on = on
             /\ Allowed(c, st) /\ ~Ddl(st) /\ Sends(<<st>>, b, how)
<1> DEFINE st == Insert(on, b, how)
<1>1. st \in Statements /\ st.op = "insert" /\ st.on = on /\ st.how = how
  BY StatementTypes DEF Insert, Stmt
<1>2. Allowed(c, st)
  BY <1>1 DEF Allowed, Gentle, Fits, Adding, Inserts
<1>3. \A y : Outcomes(<<st>>, y) = IF Takes(y, b, how) THEN {InsertEffect(y, b, how)} ELSE {}
  <2>1. \A y : (Refused(st, y) <=> ~Takes(y, b, how)) /\ RowsAfter(st, y) = InsertEffect(y, b, how)
    BY StatementEffects
  <2> HIDE DEF st
  <2> QED BY <1>1, <2>1, OutcomesOne
<1> HIDE DEF st
<1>4. Sends(<<st>>, b, how)
  <2> DEFINE p == <<st>>
  <2>1. \A y : Outcomes(p, y) = IF Takes(y, b, how) THEN {InsertEffect(y, b, how)} ELSE {}
    BY <1>3
  <2> HIDE DEF p
  <2>2. Sends(p, b, how)
    BY <2>1 DEF Sends
  <2> QED BY <2>2 DEF p
<1> QED BY <1>1, <1>2, <1>4, OfParts DEF Ddl, st

LEMMA EachFacts ==
  ASSUME NEW c \in Configs, NEW on \in Sessions, NEW b \in Seq(Rows), NEW n \in Nat \ {0},
         NEW how \in Hows, Fits(c.strategy, how) \/ c.strategy = "merge_delete"
  PROVE  LET prog == InsertEach(on, b, n, how)
         IN  /\ prog \in Seq(Statements)
             /\ \A st \in Of(prog) : st.op = "insert" /\ st.on = on /\ Allowed(c, st) /\ ~Ddl(st)
             /\ how \in {"append", "unique"} \/ (how \in Inserts /\ Repeated(b) = {}) => Sends(prog, b, how)
<1> DEFINE prog == InsertEach(on, b, n, how)
<1>1. /\ prog \in Seq(Statements)
      /\ \A i \in DOMAIN prog : \E p \in Seq(Rows) : prog[i] = Insert(on, p, how)
  BY EachTypes
<1>2. ASSUME NEW p \in Seq(Rows)
      PROVE  LET st == Insert(on, p, how)
             IN  st.op = "insert" /\ st.on = on /\ Allowed(c, st) /\ ~Ddl(st)
  <2> DEFINE st == Insert(on, p, how)
             one == <<st>>
  <2>1. /\ st \in Statements /\ one \in Seq(Statements) /\ Of(one) = {st}
        /\ st.op = "insert" /\ st.on = on
        /\ Allowed(c, st) /\ ~Ddl(st) /\ Sends(one, p, how)
    BY InsertFacts
  <2> HIDE DEF st
  <2> QED BY <2>1 DEF st
<1>3. how \in {"append", "unique"} \/ (how \in Inserts /\ Repeated(b) = {}) => Sends(prog, b, how)
  BY OutcomesEach DEF Sends, Inserts
<1> HIDE DEF prog
<1>4. \A st \in Of(prog) : \E p \in Seq(Rows) : st = Insert(on, p, how)
  BY <1>1 DEF Of
<1>5. \A st \in Of(prog) : st.op = "insert" /\ st.on = on /\ Allowed(c, st) /\ ~Ddl(st)
  BY <1>2, <1>4
<1> QED BY <1>1, <1>3, <1>5 DEF prog

LEMMA KeepFacts ==
  ASSUME NEW c \in Configs, NEW on \in Sessions, NEW b \in Seq(Rows), NEW n \in Nat \ {0},
         c.strategy = "merge_delete"
  PROVE  LET prog == KeepEach(on, b, n)
         IN  /\ prog \in Seq(Statements)
             /\ \A st \in Of(prog) : st.op = "keep" /\ st.on = on /\ Allowed(c, st) /\ ~Ddl(st)
<1> DEFINE prog == KeepEach(on, b, n)
<1>1. /\ prog \in Seq(Statements)
      /\ \A i \in DOMAIN prog : \E p \in Seq(Rows) : prog[i] = Keep(on, p)
  BY EachTypes DEF Hows
<1> HIDE DEF prog
<1>2. \A st \in Of(prog) : \E p \in Seq(Rows) : st = Keep(on, p)
  BY <1>1 DEF Of
<1>3. \A p : Keep(on, p).op = "keep" /\ Keep(on, p).on = on
  BY DEF Keep, Stmt
<1>4. \A st \in Of(prog) : st.op = "keep" /\ st.on = on
  BY <1>2, <1>3
<1> QED BY <1>1, <1>4 DEF Allowed, Gentle, Ddl, prog

\* BEGIN, COMMIT and the staging table
LEMMA QuietFacts ==
  ASSUME NEW on \in Sessions, NEW b \in Seq(Rows)
  PROVE  /\ \A st \in {Begin(on), Commit(on), Stage(on, b), Clone(on)} :
              /\ st \in Statements /\ <<st>> \in Seq(Statements) /\ Of(<<st>>) = {st}
              /\ st.on = on /\ st.op \in Quiet /\ ~Ddl(st) /\ ~Changes(st)
         /\ Begin(on).op = "begin" /\ Commit(on).op = "commit"
         /\ Stage(on, b).op = "stage" /\ Clone(on).op = "clone"
<1>1. /\ Begin(on) \in Statements /\ Commit(on) \in Statements
      /\ Stage(on, b) \in Statements /\ Clone(on) \in Statements
  <2>1. "append" \in Hows
    BY DEF Hows
  <2> QED BY <2>1, StatementTypes
<1> DEFINE Idles(st) == st.on = on /\ st.op \in Quiet /\ ~Ddl(st) /\ ~Changes(st)
<1>2. Idles(Begin(on)) /\ Idles(Commit(on)) /\ Idles(Stage(on, b)) /\ Idles(Clone(on))
  BY DEF Begin, Commit, Stage, Clone, Stmt, Quiet, Ddl, Changes
<1>3. /\ Begin(on).op = "begin" /\ Commit(on).op = "commit"
      /\ Stage(on, b).op = "stage" /\ Clone(on).op = "clone"
  BY DEF Begin, Commit, Stage, Clone, Stmt
<1>4. \A st \in Statements : <<st>> \in Seq(Statements)
  OBVIOUS
<1> QED BY <1>1, <1>2, <1>3, <1>4, OfParts

\* Programs of one such statement
OneOf(prog, op, on) ==
  /\ prog \in Seq(Statements)
  /\ \A st \in Of(prog) : st.op = op /\ st.on = on /\ st.op \in Quiet /\ ~Ddl(st) /\ ~Changes(st)

LEMMA OneStatement ==
  ASSUME NEW on \in Sessions, NEW b \in Seq(Rows)
  PROVE  /\ OneOf(<<Begin(on)>>, "begin", on) /\ OneOf(<<Stage(on, b)>>, "stage", on)
         /\ OneOf(<<Clone(on)>>, "clone", on)
<1> DEFINE B == Begin(on)
           S == Stage(on, b)
           C == Clone(on)
<1>1. /\ B.op = "begin" /\ B.on = on /\ B \in Statements
      /\ S.op = "stage" /\ S.on = on /\ S \in Statements
      /\ C.op = "clone" /\ C.on = on /\ C \in Statements
  BY QuietFacts DEF Begin, Stage, Clone, Stmt
<1> HIDE DEF B, S, C
<1>2. OneOf(<<B>>, "begin", on)
  BY <1>1, OfParts DEF OneOf, Quiet, Ddl, Changes
<1>3. OneOf(<<S>>, "stage", on)
  BY <1>1, OfParts DEF OneOf, Quiet, Ddl, Changes
<1>4. OneOf(<<C>>, "clone", on)
  BY <1>1, OfParts DEF OneOf, Quiet, Ddl, Changes
<1> QED BY <1>2, <1>3, <1>4 DEF B, S, C

\* The rows of one transaction
LEMMA BatchTxn ==
  ASSUME NEW c \in Configs, ~Atomic(c), NEW a, NEW q, NEW o, Part(a, c), Part(q, c),
         \A st \in Of(a) : st.op \in Quiet, \A st \in Of(a) \cup Of(q) : ~Ddl(st)
  PROVE  LET prog == (a \o q) \o <<Commit("batch")>>
         IN  /\ RowsPart(prog, c, o)
             /\ \A b, how : Sends(q, b, how) => Sends(prog, b, how)
<1> DEFINE C == <<Commit("batch")>>
           r == a \o q
<1>1. /\ C \in Seq(Statements) /\ Of(C) = {Commit("batch")} /\ Commit("batch").op = "commit"
      /\ Commit("batch").op \in Quiet /\ ~Ddl(Commit("batch"))
  <2>1. <<>> \in Seq(Rows) /\ "batch" \in Sessions
    BY EmptySeq DEF Sessions
  <2> QED BY <2>1, QuietFacts
<1>2. Allowed(c, Commit("batch"))
  BY <1>1 DEF Allowed, Gentle
<1>3. r \in Seq(Statements) /\ Of(r) = Of(a) \cup Of(q)
  BY OfConcat DEF Part
<1>4. EndsIn(r \o C, "batch")
  BY <1>3, EndsLast DEF Sessions
<1>5. ASSUME NEW b, NEW how, Sends(q, b, how) PROVE Sends(r \o C, b, how)
  <2>1. Sends(r, b, how)
    BY <1>5, SendsQuiet DEF Part
  <2> HIDE DEF C, r
  <2> QED BY <1>1, <1>3, <2>1, SendsQuiet
<1>6. r \o C \in Seq(Statements) /\ Of(r \o C) = Of(a) \cup Of(q) \cup Of(C)
  <2> HIDE DEF C, r
  <2> QED BY <1>1, <1>3, OfConcat
<1>7. Part(r \o C, c) /\ \A st \in Of(r \o C) : ~Ddl(st)
  <2> HIDE DEF C, r
  <2> QED BY <1>1, <1>2, <1>6 DEF Part
<1> QED BY <1>4, <1>5, <1>7 DEF RowsPart

LEMMA EmptyProgram ==
  /\ <<>> \in Seq(Statements) /\ Of(<<>>) = {} /\ Begun(<<>>) = {}
  /\ \A y : Outcomes(<<>>, y) = {y}
<1>1. <<>> \in Seq(Statements) /\ Of(<<>>) = {}
  BY EmptySeq, OfParts
<1> QED BY <1>1, OutcomesEmpty DEF Begun

\* The plain INSERT
LEMMA PlainFits ==
  ASSUME NEW c \in Configs
  PROVE  /\ PlainHow(c) \in {"append", "unique"} /\ PlainHow(c) \in Inserts /\ PlainHow(c) \in Hows
         /\ Fits(c.strategy, PlainHow(c))
<1>1. c.strategy \in Strategies /\ (c.strategy \in Keyed => c.pk)
  BY ConfigTypes
<1> QED BY <1>1 DEF PlainHow, Fits, Strategies, Keyed, Inserts, Hows

LEMMA PgRows ==
  ASSUME NEW c \in Configs, c.driver = "postgres", NEW o, NEW oc \in SUBSET o, NEW b \in Seq(Rows),
         PgRunTxn(c) /\ Atomic(c) => "run" \in o
  PROVE  LET prog == IF c.strategy \notin Keyed THEN PgCopy(c, oc, b)
                     ELSE IF c.staged THEN PgStagedMerge(c, b) ELSE PgInsertPlan(c, b)
         IN  /\ RowsPart(prog, c, o)
             /\ (c.strategy \in Keyed => Repeated(b) = {}) =>
                  \E how : Fits(c.strategy, how) /\ Sends(prog, b, how)
<1>1. c.strategy \in Strategies /\ {"run", "stream", "batch"} \subseteq Sessions
  BY ConfigTypes DEF Sessions
<1>2. CASE c.strategy \notin Keyed
  <2>1. Fits(c.strategy, PlainHow(c)) /\ PlainHow(c) \in Hows
    BY PlainFits
  <2> DEFINE on == IF PgRunTxn(c) THEN "run" ELSE "stream"
             B == IF PgRunTxn(c) \/ "stream" \in oc THEN <<>> ELSE <<Begin("stream")>>
             I == <<Insert(on, b, PlainHow(c))>>
  <2>2. on \in Sessions
    BY <1>1
  <2>3. /\ I \in Seq(Statements) /\ Sends(I, b, PlainHow(c))
        /\ \A st \in Of(I) : st.op = "insert" /\ st.on = on /\ Allowed(c, st) /\ ~Ddl(st)
    <3> HIDE DEF on
    <3> QED BY <2>1, <2>2, InsertFacts
  <2>4. /\ B \in Seq(Statements)
        /\ \A st \in Of(B) : st.op = "begin" /\ st.on = "stream" /\ st.op \in Quiet /\ ~Ddl(st) /\ ~Changes(st)
        /\ Begun(B) = (IF PgRunTxn(c) \/ "stream" \in oc THEN {} ELSE {"stream"})
    <3>1. <<>> \in Seq(Statements) /\ Of(<<>>) = {} /\ Begun(<<>>) = {}
      BY EmptySeq, OfParts DEF Begun
    <3>2. <<>> \in Seq(Rows)
      BY EmptySeq
    <3>3. /\ <<Begin("stream")>> \in Seq(Statements)
          /\ \A st \in Of(<<Begin("stream")>>) :
               st.op = "begin" /\ st.on = "stream" /\ st.op \in Quiet /\ ~Ddl(st) /\ ~Changes(st)
          /\ Begun(<<Begin("stream")>>) = {"stream"}
      <4>1. "stream" \in Sessions
        BY DEF Sessions
      <4>2. OneOf(<<Begin("stream")>>, "begin", "stream")
        BY <3>2, <4>1, OneStatement
      <4>3. Begun(<<Begin("stream")>>) = {"stream"}
        BY <4>1, BeginFacts
      <4> QED BY <4>2, <4>3 DEF OneOf
    <3> QED BY <3>1, <3>3
  <2>5. PgCopy(c, oc, b) = B \o I
    <3>1. <<>> \o I = I
      BY <2>3, ConcatEmptySeq
    <3> QED BY <3>1 DEF PgCopy
  <2>6. \A st \in Of(B) : Allowed(c, st)
    <3>1. CASE PgRunTxn(c)
      <4>1. Of(B) = {}
        BY <3>1, EmptyProgram
      <4> QED BY <4>1
    <3>2. CASE ~PgRunTxn(c)
      BY <2>4, <3>2 DEF Allowed, Gentle, LongSessions
    <3> QED BY <3>1, <3>2
  <2>7. PgRunTxn(c) => on = "run"
    OBVIOUS
  <2>8. ~PgRunTxn(c) => on = "stream"
    OBVIOUS
  <2> HIDE DEF B, I, on
  <2>9. B \o I \in Seq(Statements) /\ Of(B \o I) = Of(B) \cup Of(I) /\ Begun(B \o I) = Begun(B) \cup Begun(I)
    BY <2>3, <2>4, OfConcat
  <2>10. Sends(B \o I, b, PlainHow(c))
    BY <2>3, <2>4, SendsQuiet
  <2>11. Part(B \o I, c) /\ \A st \in Of(B \o I) : ~Ddl(st)
    BY <2>3, <2>4, <2>6, <2>9 DEF Part
  <2>12. EndsIn(B \o I, "batch")
    <3>1. Begun(I) = {}
      BY <2>3, NoneBegun
    <3>2. "batch" \notin Begun(B \o I)
      BY <2>4, <2>9, <3>1
    <3> QED BY <3>2, EndsSimple
  <2>13. Atomic(c) => InTxn(B \o I, o)
    <3>1. InTxn(B, o)
      BY <2>4, TxnSimple
    <3>2. Atomic(c) => InTxn(I, o \cup Begun(B))
      <4>1. Atomic(c) => on \in o \cup Begun(B)
        BY <2>4, <2>7, <2>8
      <4> QED BY <2>3, <4>1, TxnSimple
    <3> QED BY <2>3, <2>4, <3>1, <3>2, TxnConcat
  <2> QED BY <1>2, <2>1, <2>5, <2>10, <2>11, <2>12, <2>13 DEF RowsPart
<1>3. CASE c.strategy \in Keyed
  <2> DEFINE how == PgHow(c)
             B == <<Begin("batch")>>
             S == <<Stage("batch", b)>>
             I == <<Insert("batch", b, how)>>
             E == InsertEach("batch", b, Chunk, how)
             C == <<Commit("batch")>>
  <2>1. Fits(c.strategy, how) /\ how \in Hows /\ how \in Inserts
    BY <1>1, <1>3 DEF Fits, Strategies, Keyed, Hows, Inserts, PgHow
  <2>2. ~Atomic(c)
    BY <1>3 DEF Atomic
  <2>3. Chunk \in Nat \ {0}
    BY TargetAssumption
  <2>4. /\ Part(B, c) /\ Part(S, c) /\ B \in Seq(Statements) /\ S \in Seq(Statements) /\ C \in Seq(Statements)
        /\ \A st \in Of(B) \cup Of(S) : st.op \in Quiet /\ ~Ddl(st)
    <3>1. OneOf(B, "begin", "batch") /\ OneOf(S, "stage", "batch")
      BY <1>1, OneStatement
    <3>2. C \in Seq(Statements)
      <4>1. Commit("batch") \in Statements
        BY <1>1, QuietFacts
      <4> QED BY <4>1
    <3> HIDE DEF B, S, C
    <3>3. \A st \in Of(B) \cup Of(S) : Allowed(c, st)
      BY <3>1 DEF OneOf, Allowed, Gentle
    <3> QED BY <3>1, <3>2, <3>3 DEF OneOf, Part
  <2> HIDE DEF how
  <2>5. Part(I, c) /\ (\A st \in Of(I) : ~Ddl(st)) /\ Sends(I, b, how) /\ I \in Seq(Statements)
    BY <1>1, <2>1, InsertFacts DEF Part
  <2>6. Part(E, c) /\ (\A st \in Of(E) : ~Ddl(st)) /\ (Repeated(b) = {} => Sends(E, b, how))
    BY <1>1, <2>1, <2>3, EachFacts DEF Part
  <2>7. CASE c.staged
    <3>1. PgStagedMerge(c, b) = ((B \o S) \o I) \o C
      <4> DEFINE w == Begin("batch")
                 x == Stage("batch", b)
                 y == Insert("batch", b, how)
                 z == Commit("batch")
      <4>1. PgStagedMerge(c, b) = <<w, x, y, z>>
        BY DEF PgStagedMerge, how
      <4>2. B = <<w>> /\ S = <<x>> /\ I = <<y>> /\ C = <<z>>
        OBVIOUS
      <4> HIDE DEF w, x, y, z, B, S, I, C
      <4>3. <<w, x, y, z>> = ((<<w>> \o <<x>>) \o <<y>>) \o <<z>>
        BY Quadruples
      <4> QED BY <4>1, <4>2, <4>3
    <3> HIDE DEF B, S, I
    <3>2. Part(B \o S, c) /\ Of(B \o S) = Of(B) \cup Of(S)
      BY <2>4, PartConcat, OfConcat
    <3>3. RowsPart(((B \o S) \o I) \o C, c, o) /\ Sends(((B \o S) \o I) \o C, b, how)
      BY <2>2, <2>4, <2>5, <3>2, BatchTxn
    <3> QED BY <1>3, <2>1, <2>7, <3>1, <3>3
  <2>8. CASE ~c.staged
    <3>1. PgInsertPlan(c, b) = (B \o E) \o C
      BY DEF PgInsertPlan, how
    <3> HIDE DEF B, E
    <3>2. RowsPart((B \o E) \o C, c, o) /\ (Repeated(b) = {} => Sends((B \o E) \o C, b, how))
      BY <2>2, <2>4, <2>6, BatchTxn
    <3> QED BY <1>3, <2>1, <2>8, <3>1, <3>2
  <2> QED BY <2>7, <2>8
<1> QED BY <1>2, <1>3

\* A sequence of statements without transactions of its own
LEMMA PlainRows ==
  ASSUME NEW c, NEW o, NEW prog, Part(prog, c),
         \A st \in Of(prog) : st.op # "begin" /\ ~Ddl(st), Atomic(c) => \A st \in Of(prog) : Changes(st) => st.on \in o
  PROVE  RowsPart(prog, c, o)
<1>1. Begun(prog) = {}
  BY NoneBegun
<1> QED BY <1>1, EndsSimple, TxnSimple DEF RowsPart

LEMMA MyRowsFacts ==
  ASSUME NEW c \in Configs, c.driver = "mysql", NEW o, NEW b \in Seq(Rows)
  PROVE  /\ RowsPart(MyRows(c, b), c, o)
         /\ ~Deviates(c) /\ (c.strategy \in Keyed => Repeated(b) = {}) =>
              \E how : Fits(c.strategy, how) /\ Sends(MyRows(c, b), b, how)
<1> DEFINE how == MyHow(c)
           E == InsertEach("auto", b, Chunk, how)
           K == IF c.strategy = "merge_delete" THEN KeepEach("auto", b, Chunk) ELSE <<>>
<1>1. c.strategy \in Strategies /\ "auto" \in Sessions /\ Chunk \in Nat \ {0} /\ ~Atomic(c)
  BY ConfigTypes, TargetAssumption DEF Sessions, Atomic
<1>2. /\ Fits(c.strategy, how) /\ how \in Hows /\ how \in Inserts
      /\ how \in {"append", "unique"} \/ c.strategy \in Keyed
  BY <1>1, PlainFits DEF Fits, Strategies, Keyed, Hows, Inserts, MyHow
<1> HIDE DEF how
<1>3. /\ E \in Seq(Statements)
      /\ \A st \in Of(E) : st.op = "insert" /\ Allowed(c, st) /\ ~Ddl(st)
      /\ (c.strategy \in Keyed => Repeated(b) = {}) => Sends(E, b, how)
  BY <1>1, <1>2, EachFacts
<1>4. /\ K \in Seq(Statements)
      /\ \A st \in Of(K) : st.op = "keep" /\ Allowed(c, st) /\ ~Ddl(st)
      /\ c.strategy # "merge_delete" => K = <<>>
  <2>1. <<>> \in Seq(Statements) /\ Of(<<>>) = {}
    BY EmptySeq, OfParts
  <2> QED BY <1>1, <2>1, KeepFacts
<1>5. ~Deviates(c) => c.strategy # "merge_delete"
  BY DEF Deviates
<1>6. MyRows(c, b) = E \o K
  BY DEF MyRows, how
<1> HIDE DEF E, K
<1>7. E \o K \in Seq(Statements) /\ Of(E \o K) = Of(E) \cup Of(K)
  BY <1>3, <1>4, OfConcat
<1>8. Part(E \o K, c) /\ \A st \in Of(E \o K) : st.op # "begin" /\ ~Ddl(st)
  BY <1>3, <1>4, <1>7 DEF Part
<1>9. RowsPart(E \o K, c, o)
  BY <1>1, <1>8, PlainRows
<1>10. c.strategy # "merge_delete" => E \o K = E
  BY <1>3, <1>4, ConcatEmptySeq
<1> QED BY <1>2, <1>3, <1>5, <1>6, <1>9, <1>10

LEMMA DbxRowsFacts ==
  ASSUME NEW c \in Configs, c.driver \in {"databricks", "databricks_odbc"}, NEW o, NEW b \in Seq(Rows)
  PROVE  LET prog == IF DbxOdbc(c) THEN <<Bulk("auto", b)>> ELSE DbxRows(c, b)
         IN  /\ RowsPart(prog, c, o)
             /\ ~Deviates(c) /\ (c.strategy \in Keyed => Repeated(b) = {}) =>
                  \E how : Fits(c.strategy, how) /\ Sends(prog, b, how)
<1> DEFINE how == DbxHow(c)
           E == InsertEach("auto", b, Chunk, how)
           B == Bulk("auto", b)
<1>1. c.strategy \in Strategies /\ "auto" \in Sessions /\ Chunk \in Nat \ {0} /\ ~Atomic(c)
  BY ConfigTypes, TargetAssumption DEF Sessions, Atomic
<1>2. /\ how \in Hows /\ (Fits(c.strategy, how) \/ c.strategy = "merge_delete")
      /\ ~Deviates(c) => Fits(c.strategy, how) /\ how \in Inserts /\ (how # "append" => c.strategy \in Keyed)
  BY <1>1 DEF Fits, Strategies, Keyed, Hows, Inserts, DbxHow, Deviates
<1> HIDE DEF how
<1>3. /\ E \in Seq(Statements)
      /\ \A st \in Of(E) : st.op = "insert" /\ Allowed(c, st) /\ ~Ddl(st)
      /\ ~Deviates(c) /\ (c.strategy \in Keyed => Repeated(b) = {}) => Sends(E, b, how)
  BY <1>1, <1>2, EachFacts
<1>4. CASE ~DbxOdbc(c)
  <2>1. DbxRows(c, b) = E
    BY DEF DbxRows, how
  <2> HIDE DEF E
  <2>2. RowsPart(E, c, o)
    BY <1>1, <1>3, PlainRows DEF Part
  <2> QED BY <1>2, <1>3, <1>4, <2>1, <2>2
<1>5. CASE DbxOdbc(c)
  <2>1. B \in Statements /\ B.op = "bulk" /\ B.on = "auto"
    BY <1>1 DEF Bulk, Stmt, Statements, Ops, Hows
  <2>2. Allowed(c, B) /\ ~Ddl(B)
    BY <1>5, <2>1 DEF Allowed, Gentle, Ddl
  <2> HIDE DEF B
  <2>3. <<B>> \in Seq(Statements) /\ Of(<<B>>) = {B}
    BY <2>1, OfParts
  <2>4. RowsPart(<<B>>, c, o)
    BY <1>1, <2>1, <2>2, <2>3, PlainRows DEF Part
  <2>5. Deviates(c)
    BY <1>5 DEF Deviates
  <2> QED BY <1>5, <2>4, <2>5 DEF B
<1> QED BY <1>4, <1>5

\* The bulk load again through the other interface
LEMMA FallbackFacts ==
  ASSUME NEW c \in Configs, DbxOdbc(c), NEW b \in Seq(Rows)
  PROVE  Part(DbxFallback(b), c) /\ \A st \in Of(DbxFallback(b)) : st.op = "insert" /\ st.on = "auto" /\ ~Ddl(st)
<1>1. Fits(c.strategy, "append") /\ "append" \in Hows /\ "auto" \in Sessions /\ Chunk \in Nat \ {0}
  BY TargetAssumption DEF Fits, DbxOdbc, Hows, Sessions
<1> QED BY <1>1, EachFacts DEF DbxFallback, Part

LEMMA OraOpenFacts ==
  ASSUME NEW oc
  PROVE  /\ OraOpen(oc) \in Seq(Statements)
         /\ \A st \in Of(OraOpen(oc)) :
              st.op = "begin" /\ st.on = "run" /\ st.op \in Quiet /\ ~Ddl(st) /\ ~Changes(st)
         /\ Begun(OraOpen(oc)) = (IF "run" \in oc THEN {} ELSE {"run"})
<1>1. <<>> \in Seq(Rows) /\ "run" \in Sessions
  BY EmptySeq DEF Sessions
<1>2. CASE "run" \in oc
  BY <1>2, EmptyProgram DEF OraOpen
<1>3. CASE "run" \notin oc
  <2>1. OraOpen(oc) = <<Begin("run")>>
    BY <1>3 DEF OraOpen
  <2>2. <<Begin("run")>> \in Seq(Statements) /\ Of(<<Begin("run")>>) = {Begin("run")}
        /\ Begin("run").op = "begin" /\ Begin("run").on = "run" /\ Begun(<<Begin("run")>>) = {"run"}
    BY <1>1, BeginFacts
  <2>3. Begin("run").op \in Quiet /\ ~Ddl(Begin("run")) /\ ~Changes(Begin("run"))
    BY <2>2 DEF Quiet, Ddl, Changes
  <2> QED BY <1>3, <2>1, <2>2, <2>3
<1> QED BY <1>2, <1>3

\* Rows in the transaction of the run, which begins with them if it must
LEMMA OraInRun ==
  ASSUME NEW c \in Configs, c.driver \in {"oracle", "oracle_direct"}, NEW o, NEW oc \in SUBSET o,
         NEW q, Part(q, c),
         \A st \in Of(q) : ~Ddl(st) /\ st.op # "begin" /\ (Changes(st) => st.on = "run")
  PROVE  /\ RowsPart(OraOpen(oc) \o q, c, o)
         /\ Of(OraOpen(oc) \o q) = Of(OraOpen(oc)) \cup Of(q)
         /\ \A b, how : Sends(q, b, how) => Sends(OraOpen(oc) \o q, b, how)
<1> DEFINE B == OraOpen(oc)
<1>1. /\ B \in Seq(Statements)
      /\ \A st \in Of(B) : st.op = "begin" /\ st.on = "run" /\ st.op \in Quiet /\ ~Ddl(st) /\ ~Changes(st)
      /\ Begun(B) = (IF "run" \in oc THEN {} ELSE {"run"})
  BY OraOpenFacts
<1>2. \A st \in Of(B) : Allowed(c, st)
  BY <1>1 DEF Allowed, Gentle, LongSessions
<1> HIDE DEF B
<1>3. q \in Seq(Statements) /\ Begun(q) = {}
  BY NoneBegun DEF Part
<1>4. B \o q \in Seq(Statements) /\ Of(B \o q) = Of(B) \cup Of(q) /\ Begun(B \o q) \subseteq {"run"}
  BY <1>1, <1>3, OfConcat
<1>5. Part(B \o q, c) /\ \A st \in Of(B \o q) : ~Ddl(st)
  BY <1>1, <1>2, <1>4 DEF Part
<1>6. EndsIn(B \o q, "batch")
  BY <1>4, EndsSimple
<1>7. InTxn(B \o q, o)
  <2>1. InTxn(B, o)
    BY <1>1, TxnSimple
  <2>2. InTxn(q, o \cup Begun(B))
    BY <1>1, TxnSimple
  <2> QED BY <1>1, <1>3, <2>1, <2>2, TxnConcat
<1>8. \A b, how : Sends(q, b, how) => Sends(B \o q, b, how)
  BY <1>1, <1>3, SendsQuiet
<1> QED BY <1>4, <1>5, <1>6, <1>7, <1>8 DEF RowsPart, B

LEMMA OraRowsFacts ==
  ASSUME NEW c \in Configs, c.driver \in {"oracle", "oracle_direct"}, ~OraStaged(c),
         NEW o, NEW oc \in SUBSET o, NEW b \in Seq(Rows)
  PROVE  /\ RowsPart(OraRows(c, oc, b), c, o)
         /\ ~Deviates(c) /\ (c.strategy \in Keyed => Repeated(b) = {}) =>
              \E how : Fits(c.strategy, how) /\ Sends(OraRows(c, oc, b), b, how)
<1> DEFINE how == IF c.strategy \in {"upsert", "merge_delete"} THEN "update"
                  ELSE IF c.strategy = "insert_ignore" THEN "ignore" ELSE PlainHow(c)
           E(on) == InsertEach(on, b, Chunk, how)
           K == KeepEach("run", b, Chunk)
           R == OraOpen(oc)
<1>1. c.strategy \in Strategies /\ {"auto", "run"} \subseteq Sessions /\ Chunk \in Nat \ {0}
  BY ConfigTypes, TargetAssumption DEF Sessions
<1>2. /\ Fits(c.strategy, how) /\ how \in Hows /\ how \in Inserts
      /\ how \in {"append", "unique"} \/ c.strategy \in Keyed
  BY <1>1, PlainFits DEF Fits, Strategies, Keyed, Hows, Inserts
<1>3. OraDirect(c) => how = PlainHow(c) /\ ~Atomic(c)
  BY <1>1 DEF OraDirect, Strategies, Keyed, Atomic
<1>4. OraRows(c, oc, b) = IF OraDirect(c) THEN E("auto")
                          ELSE IF c.strategy = "merge_delete" THEN (R \o E("run")) \o K ELSE R \o E("run")
  <2>1. c.strategy \in {"upsert", "merge_delete"} => how = "update" /\ ~OraDirect(c)
    BY DEF OraDirect, Keyed
  <2>2. c.strategy = "insert_ignore" => how = "ignore" /\ ~OraDirect(c)
    BY DEF OraDirect, Keyed
  <2>3. c.strategy \notin {"upsert", "merge_delete", "insert_ignore"} => how = PlainHow(c)
    OBVIOUS
  <2> HIDE DEF how
  <2> QED BY <2>1, <2>2, <2>3 DEF OraRows
<1> HIDE DEF how
<1>5. \A on \in {"auto", "run"} :
         /\ E(on) \in Seq(Statements)
         /\ \A st \in Of(E(on)) : st.op = "insert" /\ st.on = on /\ Allowed(c, st) /\ ~Ddl(st)
         /\ (c.strategy \in Keyed => Repeated(b) = {}) => Sends(E(on), b, how)
  BY <1>1, <1>2, EachFacts
<1>6. c.strategy = "merge_delete" =>
         K \in Seq(Statements) /\ \A st \in Of(K) : st.op = "keep" /\ st.on = "run" /\ Allowed(c, st) /\ ~Ddl(st)
  BY <1>1, KeepFacts
<1>7. ~Deviates(c) => c.strategy # "merge_delete"
  BY DEF Deviates
<1>8. R \in Seq(Statements)
  BY OraOpenFacts
<1> HIDE DEF E, K
<1>9. CASE OraDirect(c)
  <2>1. RowsPart(E("auto"), c, o)
    BY <1>3, <1>5, <1>9, PlainRows DEF Part
  <2> QED BY <1>2, <1>4, <1>5, <1>9, <2>1
<1>10. CASE ~OraDirect(c) /\ c.strategy # "merge_delete"
  <2>1. Part(E("run"), c)
        /\ \A st \in Of(E("run")) : ~Ddl(st) /\ st.op # "begin" /\ (Changes(st) => st.on = "run")
    BY <1>5 DEF Part
  <2>2. RowsPart(R \o E("run"), c, o)
        /\ ((c.strategy \in Keyed => Repeated(b) = {}) => Sends(R \o E("run"), b, how))
    BY <1>5, <2>1, OraInRun
  <2> QED BY <1>2, <1>4, <1>10, <2>2
<1>11. CASE ~OraDirect(c) /\ c.strategy = "merge_delete"
  <2> DEFINE q == E("run") \o K
  <2>1. q \in Seq(Statements) /\ Of(q) = Of(E("run")) \cup Of(K)
    BY <1>5, <1>6, <1>11, OfConcat
  <2>2. (R \o E("run")) \o K = R \o q
    BY <1>5, <1>6, <1>8, <1>11, ConcatAssociative, SMTT(30)
  <2> HIDE DEF q
  <2>3. Part(q, c) /\ \A st \in Of(q) : ~Ddl(st) /\ st.op # "begin" /\ (Changes(st) => st.on = "run")
    BY <1>5, <1>6, <1>11, <2>1 DEF Part
  <2>4. RowsPart(R \o q, c, o)
    BY <2>3, OraInRun
  <2> QED BY <1>4, <1>7, <1>11, <2>2, <2>4
<1> QED BY <1>9, <1>10, <1>11

LEMMA OraStageFacts ==
  ASSUME NEW c \in Configs, c.driver \in {"oracle", "oracle_direct"},
         NEW s, NEW o, NEW oc \in SUBSET o, NEW b \in Seq(Rows)
  PROVE  /\ RowsPart(OraStage(s, oc, b), c, o)
         /\ \A st \in Of(OraStage(s, oc, b)) : st.op \in Quiet
<1> DEFINE N == IF s.staged = <<>> THEN <<Clone("auto")>> ELSE <<>>
           R == OraOpen(oc)
           S == <<Stage("run", b)>>
<1>1. <<>> \in Seq(Rows) /\ {"auto", "run"} \subseteq Sessions
  BY EmptySeq DEF Sessions
<1>2. N \in Seq(Statements) /\ \A st \in Of(N) : st.op = "clone" /\ st.op \in Quiet /\ ~Ddl(st) /\ ~Changes(st)
  <2>1. OneOf(<<Clone("auto")>>, "clone", "auto")
    BY <1>1, OneStatement
  <2> QED BY <2>1, EmptyProgram DEF OneOf
<1>3. S \in Seq(Statements) /\ \A st \in Of(S) : st.op = "stage" /\ st.op \in Quiet /\ ~Ddl(st) /\ ~Changes(st)
  <2>1. OneOf(S, "stage", "run")
    BY <1>1, OneStatement
  <2> QED BY <2>1 DEF OneOf
<1>4. /\ R \in Seq(Statements)
      /\ \A st \in Of(R) : st.op = "begin" /\ st.on = "run" /\ st.op \in Quiet /\ ~Ddl(st) /\ ~Changes(st)
  BY OraOpenFacts
<1>5. OraStage(s, oc, b) = (N \o R) \o S
  BY DEF OraStage
<1> HIDE DEF N, R, S
<1>6. N \o R \in Seq(Statements) /\ Of(N \o R) = Of(N) \cup Of(R)
  BY <1>2, <1>4, OfConcat
<1> DEFINE p == (N \o R) \o S
<1>7. p \in Seq(Statements) /\ Of(p) = Of(N) \cup Of(R) \cup Of(S)
  BY <1>3, <1>6, OfConcat
<1> HIDE DEF p
<1>8. \A st \in Of(p) : /\ st.op \in {"clone", "begin", "stage"} /\ (st.op = "begin" => st.on = "run")
                        /\ st.op \in Quiet /\ ~Ddl(st) /\ ~Changes(st)
  BY <1>2, <1>3, <1>4, <1>7
<1>9. \A st \in Of(p) : Allowed(c, st)
  BY <1>8 DEF Allowed, Gentle, LongSessions
<1>10. EndsIn(p, "batch")
  <2>1. "batch" \notin Begun(p)
    BY <1>8 DEF Begun
  <2> QED BY <2>1, EndsSimple
<1>11. InTxn(p, o)
  BY <1>8, TxnSimple
<1> QED BY <1>5, <1>7, <1>8, <1>9, <1>10, <1>11 DEF RowsPart, Part, p

LEMMA MsDrainFacts ==
  ASSUME NEW c \in Configs, c.driver \in {"tiberius", "odbc", "bcp"}, NEW o, NEW rows \in Seq(Rows),
         RunTxn(c) /\ Atomic(c) => "run" \in o
  PROVE  /\ RowsPart(MsDrain(c, rows), c, o)
         /\ \A st \in Of(MsDrain(c, rows)) : st.op \in {"stage", "insert"}
         /\ MsStaged(c) => \A st \in Of(MsDrain(c, rows)) : st.op = "stage"
         /\ Fits(c.strategy, MsDirect(c))
         /\ ~MsStaged(c) => Sends(MsDrain(c, rows), rows, MsDirect(c))
<1> DEFINE how == MsDirect(c)
           S(on) == <<Stage(on, rows)>>
           I == <<Insert("run", rows, how)>>
           E(on) == InsertEach(on, rows, Threshold, how)
           D == MsDrain(c, rows)
<1>1. c.strategy \in Strategies /\ {"auto", "run"} \subseteq Sessions /\ Threshold \in Nat \ {0}
  BY ConfigTypes, TargetAssumption DEF Sessions
<1>2. Fits(c.strategy, how) /\ how \in Hows /\ how \in Inserts /\ how \in {"append", "unique"}
  BY PlainFits DEF MsDirect
<1>3. D \in {<<>>} \cup {S(on) : on \in {"auto", "run"}} \/ (~MsStaged(c) /\ D \in {I, E("run"), E("auto")})
  BY DEF MsDrain, TibDrain, OdbcInsert, BcpInvoke
<1>4. MsStaged(c) => D \in {<<>>, S("auto"), S("run")}
  BY <1>3
<1>5. /\ ~MsStaged(c) => D \in {I, E("run"), E("auto")} \/ (D = <<>> /\ rows = <<>>)
      /\ ~MsStaged(c) /\ c.driver # "bcp" => D \in {<<>>, I, E("run")}
  BY DEF MsDrain, TibDrain, OdbcInsert, BcpInvoke
<1>6. c.driver = "bcp" /\ Atomic(c) => MsStaged(c)
  BY DEF Atomic, MsStaged
<1>7. c.driver # "bcp" /\ Atomic(c) => "run" \in o
  BY DEF RunTxn
<1> HIDE DEF how
<1>8. \A on \in {"auto", "run"} : S(on) \in Seq(Statements)
         /\ \A st \in Of(S(on)) : st.op = "stage" /\ ~Ddl(st) /\ ~Changes(st)
  <2>1. OneOf(S("auto"), "stage", "auto") /\ OneOf(S("run"), "stage", "run")
    BY <1>1, OneStatement
  <2> QED BY <2>1 DEF OneOf
<1>9. I \in Seq(Statements) /\ Sends(I, rows, how)
      /\ \A st \in Of(I) : st.op = "insert" /\ st.on = "run" /\ Allowed(c, st) /\ ~Ddl(st)
  BY <1>1, <1>2, InsertFacts
<1>10. \A on \in {"auto", "run"} : E(on) \in Seq(Statements) /\ Sends(E(on), rows, how)
         /\ \A st \in Of(E(on)) : st.op = "insert" /\ st.on = on /\ Allowed(c, st) /\ ~Ddl(st)
  BY <1>1, <1>2, EachFacts
<1>11. Sends(<<>>, <<>>, how)
  BY <1>2, EmptyProgram, InsertNothing DEF Sends, Adding
<1>12. \A st : st.op = "stage" => Allowed(c, st)
  BY DEF Allowed, Gentle
<1> HIDE DEF D, I, E, S
<1>13. CASE MsStaged(c)
  <2>1. D \in Seq(Statements) /\ \A st \in Of(D) : st.op = "stage" /\ ~Ddl(st) /\ ~Changes(st)
    BY <1>4, <1>8, <1>13, EmptyProgram
  <2>2. RowsPart(D, c, o)
    BY <1>12, <2>1, PlainRows DEF Part
  <2> QED BY <1>2, <1>13, <2>1, <2>2 DEF D, how
<1>14. CASE ~MsStaged(c)
  <2>1. D \in Seq(Statements) /\ \A st \in Of(D) : st.op = "insert" /\ Allowed(c, st) /\ ~Ddl(st)
    BY <1>5, <1>9, <1>10, <1>14, EmptyProgram
  <2>2. Atomic(c) => \A st \in Of(D) : st.on \in o
    BY <1>5, <1>6, <1>7, <1>9, <1>10, <1>14, EmptyProgram
  <2>3. RowsPart(D, c, o)
    BY <2>1, <2>2, PlainRows DEF Part
  <2>4. Sends(D, rows, how)
    BY <1>5, <1>9, <1>10, <1>11, <1>14
  <2> QED BY <1>2, <1>14, <2>1, <2>3, <2>4 DEF D, how
<1> QED BY <1>13, <1>14

-----------------------------------------------------------------------------
(* write_batch as a whole. *)

\* The rows a sink holds back
Held(s) == s.staged \o s.buffer

\* A write prepares the table if nobody did, and then sends what was held back and the
\* batch, or holds the batch back as well.
Delivers(c, s, s2, o, b, P, R) ==
  /\ IF s.prepared THEN P = <<>> ELSE Prepares(P, c)
  /\ RowsPart(R, c, o \cup Begun(P))
  /\ ~Deviates(c) /\ (c.strategy \in Keyed => Repeated(b) = {}) =>
       \/ /\ Held(s2) = <<>> /\ ~OraStaged(c)
          /\ \E how : /\ Fits(c.strategy, how) /\ Sends(R, Held(s) \o b, how)
                      /\ Held(s) = <<>> \/ how = GathersBy(c)
       \/ /\ Held(s2) = Held(s) \o b
          /\ \A st \in Of(R) : st.op \in Quiet
          /\ OraStaged(c) \/ Fits(c.strategy, GathersBy(c))

SinkStates ==
  [prepared : BOOLEAN, buffer : Seq(Rows), staged : Seq(Rows), seen : Seq(Rows), home : Conns \cup {0}]

\* What HeldBack and Hidden say of a sink between two calls
Between(c, s, o) ==
  /\ s.buffer # <<>> => Buffers(c)
  /\ s.staged # <<>> =>
       IF c.driver \in {"tiberius", "odbc", "bcp"} THEN MsStaged(c) ELSE OraStaged(c)
  /\ s.prepared /\ Atomic(c) /\ RunTxn(c) => "run" \in o

LEMMA HeldType == ASSUME NEW s \in SinkStates PROVE Held(s) \in Seq(Rows) /\ s.staged \in Seq(Rows) /\ s.buffer \in Seq(Rows)
<1>1. s.staged \in Seq(Rows) /\ s.buffer \in Seq(Rows)
  BY DEF SinkStates
<1> QED BY <1>1, ConcatProperties DEF Held

\* A sink that holds nothing back
LEMMA DeliversNow ==
  ASSUME NEW c, NEW s, NEW s2, NEW o, NEW b \in Seq(Rows), NEW P, NEW R,
         IF s.prepared THEN P = <<>> ELSE Prepares(P, c), RowsPart(R, c, o \cup Begun(P)),
         ~OraStaged(c), Held(s) = <<>>, Held(s2) = <<>>,
         ~Deviates(c) /\ (c.strategy \in Keyed => Repeated(b) = {}) =>
           \E how : Fits(c.strategy, how) /\ Sends(R, b, how)
  PROVE  Delivers(c, s, s2, o, b, P, R)
<1>1. <<>> \o b = b
  BY ConcatEmptySeq
<1> QED BY <1>1 DEF Delivers

LEMMA PgDelivers ==
  ASSUME NEW c \in Configs, c.driver = "postgres", NEW s \in SinkStates, NEW o, NEW b \in Seq(Rows),
         Between(c, s, o)
  PROVE  \E P, R : PgWrite(c, s, o, b) = P \o R /\ Delivers(c, s, PgAfterWrite(c, s, b), o, b, P, R)
<1> DEFINE P == IF s.prepared THEN <<>> ELSE PgPrepare(c)
           R == IF c.strategy \notin Keyed THEN PgCopy(c, o, b)
                ELSE IF c.staged THEN PgStagedMerge(c, b) ELSE PgInsertPlan(c, b)
           s2 == PgAfterWrite(c, s, b)
<1>1. IF s.prepared THEN P = <<>> ELSE Prepares(P, c)
  BY PgPrepares
<1>2. Held(s) = <<>> /\ Held(s2) = <<>>
  <2>1. s.staged = <<>> /\ s.buffer = <<>> /\ s2.staged = s.staged /\ s2.buffer = s.buffer
    BY DEF Between, Buffers, OraStaged, PgAfterWrite, SinkStates
  <2> HIDE DEF s2
  <2> QED BY <2>1, EmptySeq, ConcatEmptySeq DEF Held
<1>3. PgRunTxn(c) /\ Atomic(c) => "run" \in o \cup Begun(P)
  <2>1. PgRunTxn(c) => RunTxn(c)
    BY DEF RunTxn
  <2> QED BY <1>1, <2>1 DEF Between, Prepares
<1>4. /\ RowsPart(R, c, o \cup Begun(P))
      /\ (c.strategy \in Keyed => Repeated(b) = {}) =>
           \E how : Fits(c.strategy, how) /\ Sends(R, b, how)
  <2> DEFINE u == o \cup Begun(P)
  <2>1. o \in SUBSET u
    OBVIOUS
  <2> HIDE DEF u
  <2> QED BY <1>3, <2>1, PgRows DEF u
<1>5. PgWrite(c, s, o, b) = P \o R
  BY DEF PgWrite
<1>0. ~OraStaged(c)
  BY DEF OraStaged
<1> HIDE DEF P, R, s2
<1>6. Delivers(c, s, s2, o, b, P, R)
  BY <1>0, <1>1, <1>2, <1>4, DeliversNow
<1> QED BY <1>5, <1>6 DEF s2

LEMMA MyDelivers ==
  ASSUME NEW c \in Configs, c.driver = "mysql", NEW s \in SinkStates, NEW o, NEW b \in Seq(Rows),
         Between(c, s, o)
  PROVE  \E P, R : MyWrite(c, s, b) = P \o R /\ Delivers(c, s, MyAfterWrite(s), o, b, P, R)
<1> DEFINE P == IF s.prepared THEN <<>> ELSE MyPrepare(c)
           R == MyRows(c, b)
           s2 == MyAfterWrite(s)
<1>1. IF s.prepared THEN P = <<>> ELSE Prepares(P, c)
  BY MyPrepares
<1>2. Held(s) = <<>> /\ Held(s2) = <<>>
  <2>1. s.staged = <<>> /\ s.buffer = <<>> /\ s2.staged = s.staged /\ s2.buffer = s.buffer
    BY DEF Between, Buffers, OraStaged, MyAfterWrite, SinkStates
  <2> HIDE DEF s2
  <2> QED BY <2>1, EmptySeq, ConcatEmptySeq DEF Held
<1>3. /\ RowsPart(R, c, o \cup Begun(P))
      /\ ~Deviates(c) /\ (c.strategy \in Keyed => Repeated(b) = {}) =>
           \E how : Fits(c.strategy, how) /\ Sends(R, b, how)
  BY MyRowsFacts
<1>4. MyWrite(c, s, b) = P \o R
  BY DEF MyWrite
<1>0. ~OraStaged(c)
  BY DEF OraStaged
<1> HIDE DEF P, R, s2
<1>5. Delivers(c, s, s2, o, b, P, R)
  BY <1>0, <1>1, <1>2, <1>3, DeliversNow
<1> QED BY <1>4, <1>5 DEF s2

LEMMA DbxDelivers ==
  ASSUME NEW c \in Configs, c.driver \in {"databricks", "databricks_odbc"}, NEW s \in SinkStates, NEW o,
         NEW b \in Seq(Rows), Between(c, s, o)
  PROVE  \E P, R : DbxWrite(c, s, b) = P \o R /\ Delivers(c, s, DbxAfterWrite(s), o, b, P, R)
<1> DEFINE P == IF s.prepared THEN <<>> ELSE DbxPrepare(c)
           R == IF DbxOdbc(c) THEN <<Bulk("auto", b)>> ELSE DbxRows(c, b)
           s2 == DbxAfterWrite(s)
<1>1. IF s.prepared THEN P = <<>> ELSE Prepares(P, c)
  BY DbxPrepares
<1>2. Held(s) = <<>> /\ Held(s2) = <<>>
  <2>1. s.staged = <<>> /\ s.buffer = <<>> /\ s2.staged = s.staged /\ s2.buffer = s.buffer
    BY DEF Between, Buffers, OraStaged, DbxAfterWrite, SinkStates
  <2> HIDE DEF s2
  <2> QED BY <2>1, EmptySeq, ConcatEmptySeq DEF Held
<1>3. /\ RowsPart(R, c, o \cup Begun(P))
      /\ ~Deviates(c) /\ (c.strategy \in Keyed => Repeated(b) = {}) =>
           \E how : Fits(c.strategy, how) /\ Sends(R, b, how)
  BY DbxRowsFacts
<1>4. DbxWrite(c, s, b) = P \o R
  BY DEF DbxWrite
<1>0. ~OraStaged(c)
  BY DEF OraStaged
<1> HIDE DEF P, R, s2
<1>5. Delivers(c, s, s2, o, b, P, R)
  BY <1>0, <1>1, <1>2, <1>3, DeliversNow
<1> QED BY <1>4, <1>5 DEF s2

LEMMA OraDelivers ==
  ASSUME NEW c \in Configs, c.driver \in {"oracle", "oracle_direct"}, NEW s \in SinkStates, NEW o,
         NEW b \in Seq(Rows), Between(c, s, o)
  PROVE  \E P, R : OraWrite(c, s, o, b) = P \o R /\ Delivers(c, s, OraAfterWrite(c, s, b), o, b, P, R)
<1> DEFINE P == IF s.prepared THEN <<>> ELSE OraPrepare(c)
           R == IF OraStaged(c) THEN OraStage(s, o, b) ELSE OraRows(c, o, b)
           s2 == OraAfterWrite(c, s, b)
           u == o \cup Begun(P)
<1>1. IF s.prepared THEN P = <<>> ELSE Prepares(P, c)
  BY OraPrepares
<1>2. OraWrite(c, s, o, b) = P \o R
  BY DEF OraWrite
<1>3. o \in SUBSET u
  OBVIOUS
<1>4. /\ s.buffer = <<>> /\ s2.buffer = <<>> /\ s.staged \in Seq(Rows)
      /\ s2.staged = (IF OraStaged(c) THEN s.staged \o b ELSE s.staged)
      /\ ~OraStaged(c) => s.staged = <<>>
  BY DEF Between, Buffers, OraAfterWrite, SinkStates
<1> HIDE DEF P, s2, u
<1>5. Held(s) = s.staged /\ Held(s2) = s2.staged
  <2>1. s2.staged \in Seq(Rows)
    BY <1>4, ConcatProperties
  <2> QED BY <1>4, <2>1, ConcatEmptySeq DEF Held
<1>6. CASE OraStaged(c)
  <2>1. R = OraStage(s, o, b)
    BY <1>6
  <2> HIDE DEF R
  <2>2. RowsPart(R, c, u) /\ \A st \in Of(R) : st.op \in Quiet
    BY <1>3, <2>1, OraStageFacts
  <2>3. Held(s2) = Held(s) \o b
    BY <1>4, <1>5, <1>6
  <2>4. Delivers(c, s, s2, o, b, P, R)
    BY <1>1, <1>6, <2>2, <2>3 DEF Delivers, u
  <2> QED BY <1>2, <2>4 DEF s2, R
<1>7. CASE ~OraStaged(c)
  <2>1. R = OraRows(c, o, b)
    BY <1>7
  <2> HIDE DEF R
  <2>2. /\ RowsPart(R, c, u)
        /\ ~Deviates(c) /\ (c.strategy \in Keyed => Repeated(b) = {}) =>
             \E how : Fits(c.strategy, how) /\ Sends(R, b, how)
    BY <1>3, <1>7, <2>1, OraRowsFacts
  <2>3. Held(s) = <<>> /\ Held(s2) = <<>>
    BY <1>4, <1>5, <1>7
  <2>4. Delivers(c, s, s2, o, b, P, R)
    BY <1>1, <1>7, <2>2, <2>3, DeliversNow DEF u
  <2> QED BY <1>2, <2>4 DEF s2, R
<1> QED BY <1>6, <1>7

LEMMA MsDelivers ==
  ASSUME NEW c \in Configs, c.driver \in {"tiberius", "odbc", "bcp"}, NEW s \in SinkStates, NEW o,
         NEW b \in Seq(Rows), Between(c, s, o)
  PROVE  \E P, R : MsWrite(c, s, b) = P \o R /\ Delivers(c, s, MsAfterWrite(c, s, b), o, b, P, R)
<1> DEFINE P == IF s.prepared THEN <<>> ELSE MsPrepare(c)
           all == s.buffer \o b
           hold == Buffers(c) /\ ~Full(c, s, b)
           sent == IF ~Buffers(c) THEN b ELSE IF Full(c, s, b) THEN all ELSE <<>>
           R == IF hold THEN <<>> ELSE MsDrain(c, sent)
           s2 == MsAfterWrite(c, s, b)
           u == o \cup Begun(P)
<1>1. IF s.prepared THEN P = <<>> ELSE Prepares(P, c)
  BY MsPrepares
<1>2. MsWrite(c, s, b) = P \o R
  BY DEF MsWrite
<1>3. RunTxn(c) /\ Atomic(c) => "run" \in u
  BY <1>1 DEF Between, Prepares
<1>4. /\ s.buffer \in Seq(Rows) /\ s.staged \in Seq(Rows)
      /\ ~Buffers(c) => s.buffer = <<>>
      /\ ~MsStaged(c) => s.staged = <<>>
      /\ s2.buffer = (IF hold THEN s.buffer \o b ELSE <<>>)
      /\ s2.staged = (IF MsStaged(c) THEN s.staged \o sent ELSE <<>>)
  BY DEF Between, MsAfterWrite, SinkStates
<1>5. all \in Seq(Rows) /\ (~Buffers(c) => all = b)
  <2>1. s.buffer \o b \in Seq(Rows) /\ <<>> \o b = b
    BY <1>4, ConcatProperties, ConcatEmptySeq
  <2> QED BY <1>4, <2>1
<1>6. sent = IF hold THEN <<>> ELSE all
  BY <1>5
<1>7. Held(s) \o b = s.staged \o all
  <2> DEFINE x == s.staged
             y == s.buffer
  <2>1. x \in Seq(Rows) /\ y \in Seq(Rows)
    BY <1>4
  <2> HIDE DEF x, y
  <2>2. (x \o y) \o b = x \o (y \o b)
    BY <2>1, ConcatAssociative
  <2> QED BY <2>2 DEF x, y, Held
<1>8. Fits(c.strategy, GathersBy(c)) /\ (~MsStaged(c) => GathersBy(c) = MsDirect(c))
  <2>1. c.strategy \in Strategies /\ Fits(c.strategy, PlainHow(c))
    BY ConfigTypes, PlainFits
  <2> QED BY <2>1 DEF GathersBy, MsHow, MsDirect, Fits, Strategies, Keyed
<1>0. ~OraStaged(c)
  BY DEF OraStaged
<1> HIDE DEF P, sent, s2, u, all, hold
<1>9. Held(s2) = IF hold \/ MsStaged(c) THEN Held(s) \o b ELSE <<>>
  <2>1. CASE hold
    <3>1. s2.staged = s.staged /\ s2.buffer = all
      BY <1>4, <1>6, <2>1, ConcatEmptySeq DEF all
    <3> QED BY <1>7, <2>1, <3>1 DEF Held
  <2>2. CASE ~hold /\ MsStaged(c)
    <3>1. s2.staged = s.staged \o all /\ s2.buffer = <<>>
      BY <1>4, <1>6, <2>2
    <3>2. s.staged \o all \in Seq(Rows)
      BY <1>4, <1>5, ConcatProperties
    <3> QED BY <1>7, <2>2, <3>1, <3>2, ConcatEmptySeq DEF Held
  <2>3. CASE ~hold /\ ~MsStaged(c)
    <3>1. s2.staged = <<>> /\ s2.buffer = <<>> /\ <<>> \in Seq(Rows)
      BY <1>4, <2>3, EmptySeq
    <3> QED BY <2>3, <3>1, ConcatEmptySeq DEF Held
  <2> QED BY <2>1, <2>2, <2>3
<1>10. CASE hold
  <2>1. R = <<>>
    BY <1>10
  <2> HIDE DEF R
  <2>2. RowsPart(R, c, u) /\ \A st \in Of(R) : st.op \in Quiet
    BY <2>1, EmptyProgram, PlainRows DEF Part
  <2>3. Delivers(c, s, s2, o, b, P, R)
    BY <1>1, <1>8, <1>9, <1>10, <2>2 DEF Delivers, u
  <2> QED BY <1>2, <2>3 DEF s2, R
<1>11. CASE ~hold
  <2>1. R = MsDrain(c, all)
    BY <1>6, <1>11
  <2> HIDE DEF R
  <2>2. /\ RowsPart(R, c, u)
        /\ MsStaged(c) => \A st \in Of(R) : st.op = "stage"
        /\ Fits(c.strategy, MsDirect(c))
        /\ ~MsStaged(c) => Sends(R, all, MsDirect(c))
    BY <1>3, <1>5, <2>1, MsDrainFacts
  <2>3. CASE MsStaged(c)
    <3>1. \A st \in Of(R) : st.op \in Quiet
      BY <2>2, <2>3 DEF Quiet
    <3>2. Delivers(c, s, s2, o, b, P, R)
      BY <1>1, <1>8, <1>9, <2>2, <2>3, <3>1 DEF Delivers, u
    <3> QED BY <1>2, <3>2 DEF s2, R
  <2>4. CASE ~MsStaged(c)
    <3>1. Held(s) \o b = all
      BY <1>4, <1>5, <1>7, <2>4, ConcatEmptySeq
    <3>2. Delivers(c, s, s2, o, b, P, R)
      BY <1>0, <1>1, <1>8, <1>9, <1>11, <2>2, <2>4, <3>1 DEF Delivers, u
    <3> QED BY <1>2, <3>2 DEF s2, R
  <2> QED BY <2>3, <2>4
<1> QED BY <1>10, <1>11

\* The statement that would add what a sink holds back
Flushed(c, s) == Insert("run", Held(s), GathersBy(c))

LEMMA FlushedFacts ==
  ASSUME NEW c \in Configs, NEW s \in SinkStates
  PROVE  /\ GathersBy(c) \in Adding /\ GathersBy(c) \in Hows
         /\ Flushed(c, s) \in Statements /\ <<Flushed(c, s)>> \in Seq(Statements)
         /\ \A y : Outcomes(<<Flushed(c, s)>>, y) =
                     IF Takes(y, Held(s), GathersBy(c)) THEN {InsertEffect(y, Held(s), GathersBy(c))} ELSE {}
         /\ Held(s) = <<>> => \A y \in Contents : Outcomes(<<Flushed(c, s)>>, y) = {y}
<1>1. GathersBy(c) \in Adding /\ GathersBy(c) \in Hows
  BY PlainFits DEF GathersBy, MsDirect, MsHow, Adding, Inserts, Hows
<1>2. Held(s) \in Seq(Rows) /\ "run" \in Sessions
  BY HeldType DEF Sessions
<1>3. Flushed(c, s) \in Statements
  BY <1>1, <1>2, StatementTypes DEF Flushed
<1>4. \A y : /\ Refused(Flushed(c, s), y) <=> ~Takes(y, Held(s), GathersBy(c))
             /\ RowsAfter(Flushed(c, s), y) = InsertEffect(y, Held(s), GathersBy(c))
  BY StatementEffects DEF Flushed
<1>5. \A y : Outcomes(<<Flushed(c, s)>>, y) =
               IF Takes(y, Held(s), GathersBy(c)) THEN {InsertEffect(y, Held(s), GathersBy(c))} ELSE {}
  BY <1>3, <1>4, OutcomesOne
<1>6. Held(s) = <<>> => \A y \in Contents : Outcomes(<<Flushed(c, s)>>, y) = {y}
  BY <1>1, <1>5, InsertNothing
<1>7. <<Flushed(c, s)>> \in Seq(Statements)
  BY <1>3
<1> QED BY <1>1, <1>3, <1>5, <1>6, <1>7

\* What was held back and one more batch, inserted at once
LEMMA Advance ==
  ASSUME NEW c \in Configs, NEW s \in SinkStates, NEW b \in Seq(Rows), NEW y \in Contents, NEW z,
         Outcomes(<<Flushed(c, s)>>, y) \subseteq {z},
         NEW how, Fits(c.strategy, how), Held(s) = <<>> \/ how = GathersBy(c), Takes(y, Held(s) \o b, how)
  PROVE  InsertEffect(y, Held(s) \o b, how) = OneBatch(c, z, b)
<1> DEFINE g == Held(s)
           mid == InsertEffect(y, g, how)
<1>1. g \in Seq(Rows) /\ how \in Inserts /\ how \in Hows
  BY HeldType, FitsInserts
<1> HIDE DEF g
<1>2. /\ Takes(y, g, how) /\ Takes(mid, b, how)
      /\ InsertEffect(mid, b, how) = InsertEffect(y, g \o b, how)
  BY <1>1, InsertSplit DEF g
<1>3. mid = z
  <2>1. CASE g = <<>>
    <3>1. Outcomes(<<Flushed(c, s)>>, y) = {y}
      BY <2>1, FlushedFacts DEF g
    <3>2. mid = y
      BY <1>1, <2>1, InsertNothing DEF Adding
    <3> QED BY <3>1, <3>2
  <2>2. CASE how = GathersBy(c)
    <3>1. Outcomes(<<Flushed(c, s)>>, y) = {mid}
      BY <1>2, <2>2, FlushedFacts DEF g
    <3> QED BY <3>1
  <2> QED BY <2>1, <2>2 DEF g
<1>4. mid \in Contents
  BY <1>1, InsertEffectType
<1> HIDE DEF mid
<1>5. InsertEffect(mid, b, how) = OneBatch(c, mid, b)
  BY <1>2, <1>4, FitsOneBatch
<1> QED BY <1>2, <1>3, <1>5 DEF g

\* A write moves the rows to what one more batch asks for.
LEMMA DeliversOutcome ==
  ASSUME NEW c \in Configs, NEW s \in SinkStates, NEW s2 \in SinkStates, NEW o, NEW b \in Seq(Rows),
         NEW P, NEW R, Delivers(c, s, s2, o, b, P, R),
         ~Deviates(c), ~OraStaged(c), c.strategy \in Keyed => Repeated(b) = {},
         NEW r \in Contents, NEW z,
         IF s.prepared THEN Outcomes(<<Flushed(c, s)>>, r) \subseteq {z}
         ELSE Start(c, r) = z /\ Held(s) = <<>>
  PROVE  Outcomes((P \o R) \o <<Flushed(c, s2)>>, r) \subseteq {OneBatch(c, z, b)}
<1> SUFFICES ASSUME NEW x \in Outcomes((P \o R) \o <<Flushed(c, s2)>>, r) PROVE x = OneBatch(c, z, b)
  OBVIOUS
<1>1. P \in Seq(Statements) /\ R \in Seq(Statements) /\ P \o R \in Seq(Statements)
  <2>1. P \in Seq(Statements)
    BY EmptyProgram DEF Delivers, Prepares, Part
  <2>2. R \in Seq(Statements)
    BY DEF Delivers, RowsPart, Part
  <2> QED BY <2>1, <2>2, OfConcat
<1>2. PICK y2 \in Outcomes(P \o R, r) : x \in Outcomes(<<Flushed(c, s2)>>, y2)
  <2> DEFINE q == <<Flushed(c, s2)>>
             p == P \o R
  <2>1. q \in Seq(Statements)
    BY FlushedFacts
  <2>2. x \in Outcomes(p \o q, r)
    OBVIOUS
  <2>3. p \in Seq(Statements)
    BY <1>1
  <2> HIDE DEF q, p
  <2>4. \E y2 \in Outcomes(p, r) : x \in Outcomes(q, y2)
    BY <2>1, <2>2, <2>3, OutcomesConcat
  <2> QED BY <2>4 DEF p, q
<1>3. PICK y \in Outcomes(P, r) : y2 \in Outcomes(R, y)
  BY <1>1, <1>2, OutcomesConcat
<1>4. y \in Contents /\ Outcomes(<<Flushed(c, s)>>, y) \subseteq {z}
  <2>1. CASE s.prepared
    <3>1. P = <<>>
      BY <2>1 DEF Delivers
    <3>2. y = r
      BY <1>3, <3>1, EmptyProgram
    <3> QED BY <2>1, <3>2
  <2>2. CASE ~s.prepared
    <3>1. y = Start(c, r)
      BY <1>3, <2>2, MetIsStart DEF Delivers, Prepares
    <3>2. Start(c, r) \in Contents
      BY DEF Start, Contents, NoRows
    <3> QED BY <2>2, <3>1, <3>2, FlushedFacts
  <2> QED BY <2>1, <2>2
<1>5. CASE Held(s2) = <<>> /\ \E how : /\ Fits(c.strategy, how) /\ Sends(R, Held(s) \o b, how)
                                       /\ Held(s) = <<>> \/ how = GathersBy(c)
  <2>1. PICK how : /\ Fits(c.strategy, how) /\ Sends(R, Held(s) \o b, how)
                   /\ Held(s) = <<>> \/ how = GathersBy(c)
    BY <1>5
  <2>2. Takes(y, Held(s) \o b, how) /\ y2 = InsertEffect(y, Held(s) \o b, how)
    BY <1>3, <1>4, <2>1 DEF Sends
  <2>3. y2 = OneBatch(c, z, b)
    BY <1>4, <2>1, <2>2, Advance
  <2>4. y2 \in Contents
    <3>1. Held(s) \o b \in Seq(Rows)
      BY HeldType, ConcatProperties
    <3> QED BY <1>4, <2>1, <2>2, <3>1, FitsInserts, InsertEffectType
  <2>5. x = y2
    BY <1>2, <1>5, <2>4, FlushedFacts
  <2> QED BY <2>3, <2>5
<1>6. CASE /\ Held(s2) = Held(s) \o b
           /\ \A st \in Of(R) : st.op \in Quiet
           /\ Fits(c.strategy, GathersBy(c))
  <2>1. y2 = y
    BY <1>1, <1>3, <1>6, OutcomesQuiet
  <2>2. Takes(y, Held(s2), GathersBy(c)) /\ x = InsertEffect(y, Held(s2), GathersBy(c))
    <3> DEFINE q == <<Flushed(c, s2)>>
    <3>1. \A v : Outcomes(q, v) = IF Takes(v, Held(s2), GathersBy(c))
                                 THEN {InsertEffect(v, Held(s2), GathersBy(c))} ELSE {}
      BY FlushedFacts
    <3>2. x \in Outcomes(q, y)
      BY <1>2, <2>1
    <3> HIDE DEF q
    <3> QED BY <3>1, <3>2
  <2> QED BY <1>4, <1>6, <2>2, Advance
<1> QED BY <1>5, <1>6 DEF Delivers

\* With Oracle's staging table it only prepares the table.
LEMMA StagedOutcome ==
  ASSUME NEW c \in Configs, NEW s \in SinkStates, NEW s2, NEW o, NEW b,
         NEW P, NEW R, Delivers(c, s, s2, o, b, P, R),
         ~Deviates(c), OraStaged(c), c.strategy \in Keyed => Repeated(b) = {}, NEW r \in Contents
  PROVE  Outcomes(P \o R, r) \subseteq {IF s.prepared THEN r ELSE Start(c, r)}
<1>1. P \in Seq(Statements) /\ R \in Seq(Statements)
  <2>1. P \in Seq(Statements)
    BY EmptyProgram DEF Delivers, Prepares, Part
  <2>2. R \in Seq(Statements)
    BY DEF Delivers, RowsPart, Part
  <2> QED BY <2>1, <2>2
<1>2. Outcomes(P, r) \subseteq {IF s.prepared THEN r ELSE Start(c, r)}
  <2>1. CASE s.prepared
    <3>1. P = <<>>
      BY <2>1 DEF Delivers
    <3> QED BY <2>1, <3>1, EmptyProgram
  <2>2. CASE ~s.prepared
    <3>1. Outcomes(P, r) \subseteq {Met(c, r)}
      BY <2>2 DEF Delivers, Prepares
    <3> QED BY <2>2, <3>1, MetIsStart
  <2> QED BY <2>1, <2>2
<1>3. \A y : Outcomes(R, y) \subseteq {y}
  <2>1. \A st \in Of(R) : st.op \in Quiet
    BY DEF Delivers
  <2> QED BY <1>1, <2>1, OutcomesQuiet
<1> QED BY <1>1, <1>2, <1>3, OutcomesConcat

\* The shape of a write
LEMMA DeliversShape ==
  ASSUME NEW c, NEW s, NEW s2, NEW o, NEW b, NEW P, NEW R, Delivers(c, s, s2, o, b, P, R),
         s.prepared \/ o = {}
  PROVE  /\ Part(P \o R, c) /\ DdlLeads(P \o R) /\ EndsIn(P \o R, "batch")
         /\ s.prepared => \A st \in Of(P \o R) : ~Ddl(st)
         /\ Atomic(c) => InTxn(P \o R, o)
         /\ ~s.prepared /\ RunTxn(c) => "run" \in Begun(P \o R)
<1>1. Part(R, c) /\ (\A st \in Of(R) : ~Ddl(st)) /\ EndsIn(R, "batch")
      /\ (Atomic(c) => InTxn(R, o \cup Begun(P)))
  BY DEF Delivers, RowsPart
<1>2. Part(P, c) /\ DdlLeads(P) /\ EndsIn(P, "batch") /\ (Atomic(c) => InTxn(P, o))
      /\ (~s.prepared /\ RunTxn(c) => "run" \in Begun(P)) /\ (s.prepared => Of(P) = {})
  <2>1. CASE s.prepared
    <3>1. P = <<>>
      BY <2>1 DEF Delivers
    <3>2. Of(P) = {} /\ Begun(P) = {} /\ P \in Seq(Statements)
      BY <3>1, EmptyProgram
    <3> QED BY <2>1, <3>2, LeadsSimple, EndsSimple, TxnSimple DEF Part
  <2>2. CASE ~s.prepared
    <3>1. Prepares(P, c) /\ o = {}
      BY <2>2 DEF Delivers
    <3> QED BY <2>2, <3>1, EndsSimple DEF Prepares
  <2> QED BY <2>1, <2>2
<1>3. P \in Seq(Statements) /\ R \in Seq(Statements)
  BY <1>1, <1>2 DEF Part
<1>4. Of(P \o R) = Of(P) \cup Of(R) /\ Begun(P \o R) = Begun(P) \cup Begun(R)
  BY <1>3, OfConcat
<1>5. Part(P \o R, c)
  BY <1>1, <1>2, PartConcat
<1>6. DdlLeads(P \o R) /\ EndsIn(P \o R, "batch")
  BY <1>1, <1>2, <1>3, LeadsAppend, EndsConcat
<1>7. Atomic(c) => InTxn(P \o R, o)
  BY <1>1, <1>2, <1>3, TxnConcat
<1> QED BY <1>1, <1>2, <1>4, <1>5, <1>6, <1>7

-----------------------------------------------------------------------------
(* flush as a whole. *)

\* What the invariant says of a sink between two calls
AtRest(c, s, o) ==
  /\ Between(c, s, o)
  /\ o \subseteq LongSessions(c)
  /\ Atomic(c) /\ c.driver = "oracle" /\ s.staged # <<>> => "run" \in o
  /\ s.seen # <<>> => c.driver = "postgres" /\ c.strategy = "merge_delete"
  /\ s.prepared /\ c.driver = "postgres" /\ c.strategy = "merge_delete" => s.seen # <<>>
  /\ ~s.prepared => o = {} /\ s.staged = <<>> /\ s.buffer = <<>> /\ s.seen = <<>>

\* What a flush may send
Final(c, st) == st \in Statements /\ ~Ddl(st) /\ st.op # "bulk" /\ Gentle(c, st)

\* A flush ends every transaction.
FlushForm(F, c, o) ==
  /\ F \in Seq(Statements) /\ \A st \in Of(F) : Final(c, st)
  /\ \A on \in Sessions : EndsIn(F, on) /\ (on \in o => \E st \in Of(F) : Is(st, "commit", on))
  /\ Atomic(c) => InTxn(F, o) /\ CommitLast(F)

\* It adds what was held back, and a mirror then deletes what did not come.
Mirrored(c, s) == IF c.driver = "postgres" THEN KeysOf(s.seen) ELSE KeysOf(Held(s))

FlushGives(F, c, s) ==
  \A y \in Contents : \A x \in Outcomes(F, y) : \E m \in Outcomes(<<Flushed(c, s)>>, y) :
    x = IF c.strategy = "merge_delete" THEN Kept(m, Mirrored(c, s)) ELSE m

LEMMA CommitFinal ==
  ASSUME NEW c, NEW on \in Sessions
  PROVE  LET C == <<Commit(on)>>
         IN  /\ C \in Seq(Statements) /\ Of(C) = {Commit(on)} /\ Begun(C) = {} /\ Final(c, Commit(on))
             /\ Is(Commit(on), "commit", on) /\ Commit(on).op \in Quiet /\ ~Changes(Commit(on))
             /\ DOMAIN C = {1} /\ Len(C) = 1
<1> DEFINE x == Commit(on)
<1>1. x.op = "commit" /\ x.on = on /\ x \in Statements
  <2>1. <<>> \in Seq(Rows)
    BY EmptySeq
  <2> QED BY <2>1, QuietFacts
<1> HIDE DEF x
<1>2. <<x>> \in Seq(Statements) /\ Of(<<x>>) = {x} /\ DOMAIN <<x>> = {1} /\ Len(<<x>>) = 1
  BY <1>1, OfParts
<1>3. Begun(<<x>>) = {}
  BY <1>1, <1>2, NoneBegun
<1> QED BY <1>1, <1>2, <1>3 DEF Final, Ddl, Gentle, Quiet, Changes, Is, x

\* A program and the commit of its transaction
LEMMA AddCommit ==
  ASSUME NEW c, NEW A \in Seq(Statements), NEW on \in Sessions, NEW o, o \subseteq {on},
         \A st \in Of(A) : Final(c, st) /\ st.op # "commit", Begun(A) \subseteq {on},
         Atomic(c) => InTxn(A, o)
  PROVE  /\ FlushForm(A \o <<Commit(on)>>, c, o)
         /\ \A y : Outcomes(A \o <<Commit(on)>>, y) \subseteq Outcomes(A, y)
<1> DEFINE C == <<Commit(on)>>
           F == A \o C
<1>1. /\ C \in Seq(Statements) /\ Of(C) = {Commit(on)} /\ Begun(C) = {} /\ Final(c, Commit(on))
      /\ Is(Commit(on), "commit", on) /\ Commit(on).op \in Quiet /\ ~Changes(Commit(on))
  BY CommitFinal
<1>2. EndsIn(F, on)
  BY EndsLast
<1>3. CommitLast(F)
  <2>1. Commit(on) \in Statements /\ \A st \in Of(A) : st.op # "commit"
    BY <1>1 DEF Final
  <2> HIDE DEF C, F
  <2>2. CommitLast(A \o <<Commit(on)>>)
    BY <2>1, CommitAtEnd
  <2> QED BY <2>2 DEF F, C
<1> HIDE DEF C
<1>4. F \in Seq(Statements) /\ Of(F) = Of(A) \cup {Commit(on)} /\ Begun(F) = Begun(A)
  <2>1. F \in Seq(Statements) /\ Of(F) = Of(A) \cup Of(C) /\ Begun(F) = Begun(A) \cup Begun(C)
    BY <1>1, OfConcat
  <2> HIDE DEF F
  <2> QED BY <1>1, <2>1
<1>5. Atomic(c) => InTxn(F, o)
  <2>1. \A u : InTxn(C, u)
    BY <1>1, TxnSimple
  <2> QED BY <1>1, <2>1, TxnConcat
<1>6. \A y : Outcomes(F, y) \subseteq Outcomes(A, y)
  BY <1>1, QuietAround
<1> HIDE DEF F
<1>7. ASSUME NEW e \in Sessions
      PROVE  EndsIn(F, e) /\ (e \in o => \E st \in Of(F) : Is(st, "commit", e))
  <2>1. CASE e = on
    BY <1>1, <1>2, <1>4, <2>1
  <2>2. CASE e # on
    BY <1>4, <2>2, EndsSimple
  <2> QED BY <2>1, <2>2
<1>8. \A st \in Of(F) : Final(c, st)
  BY <1>1, <1>4
<1>9. FlushForm(F, c, o)
  BY <1>3, <1>4, <1>5, <1>7, <1>8 DEF FlushForm
<1> QED BY <1>6, <1>9 DEF F, C

\* A program outside of transactions
LEMMA NoTxn ==
  ASSUME NEW c, NEW A \in Seq(Statements), NEW o, o = {}, ~Atomic(c) \/ A = <<>>,
         \A st \in Of(A) : Final(c, st) /\ st.op # "begin"
  PROVE  FlushForm(A, c, o)
<1>1. \A on : EndsIn(A, on)
  BY NoneBegun, EndsSimple
<1>2. A = <<>> => InTxn(A, o) /\ CommitLast(A)
  BY EmptyProgram, TxnSimple, CommitSimple
<1> QED BY <1>1, <1>2 DEF FlushForm

\* Nothing is held back and nothing is sent.
LEMMA NothingHeld ==
  ASSUME NEW c \in Configs, NEW s \in SinkStates, Held(s) = <<>>, c.strategy # "merge_delete",
         NEW F, \A y \in Contents : Outcomes(F, y) \subseteq {y}
  PROVE  FlushGives(F, c, s)
<1>1. \A y \in Contents : Outcomes(<<Flushed(c, s)>>, y) = {y}
  BY FlushedFacts
<1> QED BY <1>1 DEF FlushGives

LEMMA PlainFlushes ==
  ASSUME NEW c \in Configs, c.driver \in {"mysql", "databricks", "databricks_odbc"}, NEW s \in SinkStates,
         NEW o, AtRest(c, s, o)
  PROVE  FlushForm(<<>>, c, o) /\ (~Deviates(c) => FlushGives(<<>>, c, s))
<1>1. o = {}
  BY DEF AtRest, LongSessions
<1>2. FlushForm(<<>>, c, o)
  BY <1>1, EmptyProgram, NoTxn
<1>3. Held(s) = <<>>
  <2>1. s.staged = <<>> /\ s.buffer = <<>>
    BY DEF AtRest, Between, Buffers, OraStaged
  <2> QED BY <2>1, EmptySeq, ConcatEmptySeq DEF Held
<1>4. ~Deviates(c) => c.strategy # "merge_delete"
  BY DEF Deviates
<1> QED BY <1>2, <1>3, <1>4, NothingHeld, EmptyProgram

LEMMA OraFlushes ==
  ASSUME NEW c \in Configs, c.driver \in {"oracle", "oracle_direct"}, NEW s \in SinkStates,
         NEW o, AtRest(c, s, o)
  PROVE  FlushForm(OraFlush(s, o), c, o) /\ (~Deviates(c) => FlushGives(OraFlush(s, o), c, s))
<1> DEFINE I == Insert("run", s.staged, "changed")
           A == IF s.staged # <<>> THEN <<I>> ELSE <<>>
           F == OraFlush(s, o)
<1>1. o \subseteq {"run"} /\ (~Deviates(c) => c.strategy # "merge_delete")
  BY DEF AtRest, LongSessions, Deviates
<1>2. s.buffer = <<>> /\ s.staged \in Seq(Rows) /\ (s.staged # <<>> => OraStaged(c))
  BY DEF AtRest, Between, Buffers, SinkStates
<1>3. Held(s) = s.staged /\ (s.staged # <<>> => I = Flushed(c, s))
  <2>1. Held(s) = s.staged
    BY <1>2, ConcatEmptySeq DEF Held
  <2>2. s.staged # <<>> => GathersBy(c) = "changed"
    BY <1>2 DEF GathersBy
  <2> QED BY <2>1, <2>2 DEF Flushed
<1>4. I.op = "insert" /\ I.on = "run" /\ I.how = "changed" /\ I \in Statements
  <2>1. I.op = "insert" /\ I.on = "run" /\ I.how = "changed"
    BY DEF Insert, Stmt
  <2>2. "changed" \in Hows /\ "run" \in Sessions
    BY DEF Hows, Sessions
  <2> QED BY <1>2, <2>1, <2>2, StatementTypes
<1>5. s.staged # <<>> => Final(c, I)
  BY <1>2, <1>4 DEF Final, Ddl, Gentle, Adding, OraStaged
<1>6. /\ s.staged # <<>> => <<I>> \in Seq(Statements) /\ Of(<<I>>) = {I}
      /\ \A y \in Contents : Outcomes(A, y) \subseteq Outcomes(<<Flushed(c, s)>>, y)
  <2>1. CASE s.staged # <<>>
    BY <1>3, <1>4, <2>1, OfParts
  <2>2. CASE s.staged = <<>>
    <3>1. A = <<>>
      BY <2>2
    <3>2. \A y \in Contents : Outcomes(<<Flushed(c, s)>>, y) = {y}
      BY <1>3, <2>2, FlushedFacts
    <3> HIDE DEF A
    <3> QED BY <2>2, <3>1, <3>2, EmptyProgram
  <2> QED BY <2>1, <2>2
<1>7. A \in Seq(Statements) /\ \A st \in Of(A) : st = I /\ s.staged # <<>>
  BY <1>6, EmptyProgram
<1>8. F = A \o (IF "run" \in o THEN <<Commit("run")>> ELSE <<>>)
  BY DEF OraFlush
<1>9. Atomic(c) => InTxn(A, o) /\ ("run" \notin o => A = <<>>)
  <2>1. Atomic(c) /\ s.staged # <<>> => "run" \in o
    BY <1>2 DEF AtRest, OraStaged
  <2>2. s.staged = <<>> => A = <<>>
    OBVIOUS
  <2> HIDE DEF A, I
  <2>3. Atomic(c) => \A st \in Of(A) : Changes(st) => st.op = "create" \/ st.on \in o
    BY <1>4, <1>7, <2>1
  <2> QED BY <2>1, <2>2, <2>3, TxnSimple
<1> HIDE DEF A, I, F
<1>10. \A st \in Of(A) : Final(c, st) /\ st.op # "commit" /\ st.op # "begin"
  BY <1>4, <1>5, <1>7
<1>11. Begun(A) = {}
  BY <1>10, NoneBegun
<1>12. FlushForm(F, c, o) /\ \A y : Outcomes(F, y) \subseteq Outcomes(A, y)
  <2>1. CASE "run" \in o
    <3>1. "run" \in Sessions
      BY DEF Sessions
    <3> QED BY <1>1, <1>7, <1>8, <1>9, <1>10, <1>11, <2>1, <3>1, AddCommit
  <2>2. CASE "run" \notin o
    <3>1. F = A /\ o = {}
      BY <1>1, <1>7, <1>8, <2>2, ConcatEmptySeq
    <3> QED BY <1>7, <1>9, <1>10, <2>2, <3>1, NoTxn
  <2> QED BY <2>1, <2>2
<1>13. ~Deviates(c) => FlushGives(F, c, s)
  BY <1>1, <1>6, <1>12 DEF FlushGives
<1> QED BY <1>12, <1>13 DEF F

LEMMA PgFlushes ==
  ASSUME NEW c \in Configs, c.driver = "postgres", NEW s \in SinkStates, NEW o, AtRest(c, s, o)
  PROVE  FlushForm(PgFlush(c, s, o), c, o) /\ (s.prepared => FlushGives(PgFlush(c, s, o), c, s))
<1> DEFINE A == IF "stream" \in o THEN <<Commit("stream")>> ELSE <<>>
           K == IF s.seen # <<>> THEN <<Keep("auto", s.seen)>> ELSE <<>>
           C == IF "run" \in o THEN <<Commit("run")>> ELSE <<>>
           D == Keep("auto", s.seen)
           P == A \o K
           F == P \o C
<1>1. /\ s.seen \in Seq(Rows) /\ {"auto", "run", "stream"} \subseteq Sessions
      /\ s.seen # <<>> => c.strategy = "merge_delete" /\ ~Atomic(c)
      /\ o \subseteq {"run"} \/ o \subseteq {"stream"}
  BY DEF SinkStates, Sessions, AtRest, LongSessions, Atomic, Keyed
<1>2. Held(s) = <<>>
  <2>1. s.staged = <<>> /\ s.buffer = <<>>
    BY DEF AtRest, Between, Buffers, OraStaged
  <2> QED BY <2>1, EmptySeq, ConcatEmptySeq DEF Held
<1>3. /\ A \in Seq(Statements) /\ C \in Seq(Statements)
      /\ \A st \in Of(A) \cup Of(C) : Final(c, st) /\ st.op = "commit" /\ st.op \in Quiet /\ ~Changes(st)
      /\ "stream" \in o => \E st \in Of(A) : Is(st, "commit", "stream")
      /\ "run" \in o => \E st \in Of(C) : Is(st, "commit", "run")
      /\ A = <<>> \/ (DOMAIN A = {1} /\ Len(A) = 1)
      /\ C = <<>> \/ (DOMAIN C = {1} /\ Len(C) = 1)
  <2> DEFINE One(Q, on) == /\ Q \in Seq(Statements) /\ Of(Q) = {Commit(on)} /\ Final(c, Commit(on))
                           /\ Is(Commit(on), "commit", on) /\ Commit(on).op \in Quiet /\ ~Changes(Commit(on))
                           /\ DOMAIN Q = {1} /\ Len(Q) = 1
  <2>1. One(<<Commit("stream")>>, "stream") /\ One(<<Commit("run")>>, "run")
    BY <1>1, CommitFinal
  <2>2. "stream" \in o => One(A, "stream")
    BY <2>1
  <2>3. "run" \in o => One(C, "run")
    BY <2>1
  <2>4. ("stream" \notin o => A = <<>>) /\ ("run" \notin o => C = <<>>)
    OBVIOUS
  <2> HIDE DEF A, C
  <2> QED BY <2>2, <2>3, <2>4, EmptyProgram DEF Is
<1>4. D \in Statements /\ D.op = "keep" /\ \A y : ~Refused(D, y) /\ RowsAfter(D, y) = Kept(y, KeysOf(s.seen))
  <2>1. D.op = "keep"
    BY DEF Keep, Stmt
  <2>2. D \in Statements
    <3>1. "append" \in Hows
      BY DEF Hows
    <3> QED BY <1>1, <3>1, StatementTypes
  <2>3. \A y, how : ~Refused(Keep("auto", s.seen), y) /\ RowsAfter(Keep("auto", s.seen), y) = Kept(y, KeysOf(s.seen))
    BY StatementEffects
  <2> QED BY <2>1, <2>2, <2>3
<1>5. /\ K \in Seq(Statements) /\ \A st \in Of(K) : st = D /\ s.seen # <<>>
      /\ \A y : Outcomes(K, y) = {IF s.seen # <<>> THEN Kept(y, KeysOf(s.seen)) ELSE y}
  <2>1. CASE s.seen = <<>>
    BY <2>1, EmptyProgram
  <2>2. CASE s.seen # <<>>
    <3> DEFINE Q == <<D>>
    <3>1. Q \in Seq(Statements) /\ Of(Q) = {D}
      BY <1>4, OfParts
    <3>2. \A y : Outcomes(Q, y) = {Kept(y, KeysOf(s.seen))}
      BY <1>4, OutcomesOne
    <3>3. K = Q
      BY <2>2
    <3> HIDE DEF Q, K
    <3> QED BY <2>2, <3>1, <3>2, <3>3
  <2> QED BY <2>1, <2>2
<1>6. s.seen # <<>> => Final(c, D)
  BY <1>1, <1>4 DEF Final, Ddl, Gentle
<1>7. s.seen = <<>> => K = <<>>
  OBVIOUS
<1>8. ("stream" \notin o => A = <<>>) /\ ("run" \notin o => C = <<>>)
  OBVIOUS
<1>9. PgFlush(c, s, o) = F
  BY DEF PgFlush
<1> HIDE DEF A, K, C, D
<1>10. P \in Seq(Statements) /\ Of(P) = Of(A) \cup Of(K)
  BY <1>3, <1>5, OfConcat
<1> HIDE DEF P
<1>11. F \in Seq(Statements) /\ Of(F) = Of(A) \cup Of(K) \cup Of(C)
  BY <1>3, <1>10, OfConcat
<1>12. \A st \in Of(F) : Final(c, st) /\ st.op # "begin"
  BY <1>3, <1>4, <1>5, <1>6, <1>11
<1>13. ASSUME NEW on \in Sessions
       PROVE  EndsIn(F, on) /\ (on \in o => \E st \in Of(F) : Is(st, "commit", on))
  <2>1. EndsIn(F, on)
    BY <1>12, NoneBegun, EndsSimple
  <2>2. on \in o => on \in {"run", "stream"}
    BY <1>1
  <2> QED BY <1>3, <1>11, <2>1, <2>2
<1>14. ASSUME Atomic(c) PROVE InTxn(F, o) /\ CommitLast(F)
  <2>1. K = <<>>
    BY <1>1, <1>7, <1>14
  <2>2. P = A
    BY <1>3, <2>1, ConcatEmptySeq DEF P
  <2>3. F = A \/ F = C
    <3>1. A = <<>> \/ C = <<>>
      BY <1>1, <1>8
    <3> QED BY <1>3, <2>2, <3>1, ConcatEmptySeq
  <2>4. \A st \in Of(F) : ~Changes(st)
    BY <1>3, <2>3
  <2>5. F = <<>> \/ (DOMAIN F = {1} /\ Len(F) = 1)
    BY <1>3, <2>3
  <2> HIDE DEF F
  <2>6. CommitLast(F)
    <3>1. CASE F = <<>>
      BY <3>1, EmptyProgram, CommitSimple
    <3>2. CASE DOMAIN F = {1} /\ Len(F) = 1
      BY <3>2 DEF CommitLast
    <3> QED BY <2>5, <3>1, <3>2
  <2> QED BY <2>4, <2>6, TxnSimple
<1>15. FlushForm(F, c, o)
  BY <1>11, <1>12, <1>13, <1>14 DEF FlushForm
<1>16. ASSUME s.prepared PROVE FlushGives(F, c, s)
  <2>1. \A y : Outcomes(F, y) \subseteq Outcomes(P, y)
    BY <1>3, <1>10, QuietAround
  <2>2. \A y : Outcomes(P, y) \subseteq Outcomes(K, y)
    BY <1>3, <1>5, QuietAround DEF P
  <2>3. c.strategy = "merge_delete" <=> s.seen # <<>>
    BY <1>16 DEF AtRest
  <2>4. Mirrored(c, s) = KeysOf(s.seen)
    BY DEF Mirrored
  <2>5. \A y \in Contents : Outcomes(<<Flushed(c, s)>>, y) = {y}
    BY <1>2, FlushedFacts
  <2> QED BY <1>5, <2>1, <2>2, <2>3, <2>4, <2>5 DEF FlushGives
<1> QED BY <1>9, <1>15, <1>16

LEMMA MsFlushes ==
  ASSUME NEW c \in Configs, c.driver \in {"tiberius", "odbc", "bcp"}, NEW s \in SinkStates, NEW o,
         AtRest(c, s, o), s.prepared
  PROVE  FlushForm(MsFlush(c, s), c, o) /\ (~Deviates(c) => FlushGives(MsFlush(c, s), c, s))
<1> DEFINE D == IF Buffers(c) THEN MsDrain(c, s.buffer) ELSE <<>>
           B == IF c.driver = "bcp" /\ MsStaged(c) THEN <<Begin("run")>> ELSE <<>>
           st1 == Insert("run", Held(s), MsHow(c))
           I == IF MsStaged(c) THEN <<st1>> ELSE <<>>
           C == IF c.driver # "bcp" \/ MsStaged(c) THEN <<Commit("run")>> ELSE <<>>
           U == D \o B
           T == U \o I
           F == T \o C
<1>1. /\ s.buffer \in Seq(Rows) /\ s.staged \in Seq(Rows) /\ Held(s) \in Seq(Rows)
      /\ ~Buffers(c) => s.buffer = <<>>
      /\ ~MsStaged(c) => s.staged = <<>>
      /\ RunTxn(c) /\ Atomic(c) => "run" \in o
      /\ o \subseteq {"run"} /\ (c.driver = "bcp" => o = {})
      /\ c.strategy \in Strategies /\ "run" \in Sessions
  BY HeldType, ConfigTypes DEF AtRest, Between, LongSessions, Sessions
<1>2. /\ D \in Seq(Statements)
      /\ \A st \in Of(D) : Final(c, st) /\ st.op \in {"stage", "insert"}
      /\ Atomic(c) => InTxn(D, o)
      /\ MsStaged(c) => \A st \in Of(D) : st.op \in Quiet
      /\ ~MsStaged(c) => Sends(D, s.buffer, MsDirect(c))
  <2>1. CASE Buffers(c)
    <3> DEFINE E == MsDrain(c, s.buffer)
    <3>1. /\ RowsPart(E, c, o) /\ \A st \in Of(E) : st.op \in {"stage", "insert"}
          /\ MsStaged(c) => \A st \in Of(E) : st.op = "stage"
          /\ ~MsStaged(c) => Sends(E, s.buffer, MsDirect(c))
      BY <1>1, MsDrainFacts
    <3>2. D = E
      BY <2>1
    <3> HIDE DEF D, E
    <3>3. E \in Seq(Statements) /\ \A st \in Of(E) : st \in Statements /\ ~Ddl(st) /\ Gentle(c, st)
      BY <3>1, OfSeq DEF RowsPart, Part, Allowed
    <3> QED BY <3>1, <3>2, <3>3 DEF RowsPart, Final, Quiet
  <2>2. CASE ~Buffers(c)
    <3>1. D = <<>> /\ s.buffer = <<>>
      BY <1>1, <2>2
    <3> HIDE DEF D
    <3>2. InTxn(D, o)
      BY <3>1, EmptyProgram, TxnSimple
    <3>3. Sends(D, s.buffer, MsDirect(c))
      <4>1. MsDirect(c) \in Adding
        BY PlainFits DEF MsDirect, Adding
      <4> QED BY <3>1, <4>1, EmptyProgram, InsertNothing DEF Sends
    <3> QED BY <3>1, <3>2, <3>3, EmptyProgram
  <2> QED BY <2>1, <2>2
<1>3. /\ B \in Seq(Statements) /\ Begun(B) = (IF c.driver = "bcp" /\ MsStaged(c) THEN {"run"} ELSE {})
      /\ \A st \in Of(B) : Final(c, st) /\ st.op = "begin" /\ st.op \in Quiet /\ ~Changes(st)
  <2> DEFINE Q == <<Begin("run")>>
  <2>1. /\ Begin("run") \in Statements /\ Begin("run").op = "begin" /\ Q \in Seq(Statements)
        /\ Of(Q) = {Begin("run")} /\ Begun(Q) = {"run"}
    BY <1>1, BeginFacts
  <2>2. B = IF c.driver = "bcp" /\ MsStaged(c) THEN Q ELSE <<>>
    OBVIOUS
  <2> HIDE DEF Q, B
  <2> QED BY <2>1, <2>2, EmptyProgram DEF Final, Ddl, Gentle, Quiet, Changes
<1>4. st1.op = "insert" /\ st1.on = "run" /\ st1.how = MsHow(c) /\ st1 \in Statements /\ MsHow(c) \in Hows
      /\ \A y : /\ Refused(st1, y) <=> ~Takes(y, Held(s), MsHow(c))
                /\ RowsAfter(st1, y) = InsertEffect(y, Held(s), MsHow(c))
  <2>1. MsHow(c) \in Hows
    BY PlainFits DEF MsHow, Hows
  <2>2. st1 \in Statements
    BY <1>1, <2>1, StatementTypes
  <2>3. st1.op = "insert" /\ st1.on = "run" /\ st1.how = MsHow(c)
    BY DEF Insert, Stmt
  <2>4. \A y : /\ Refused(st1, y) <=> ~Takes(y, Held(s), MsHow(c))
               /\ RowsAfter(st1, y) = InsertEffect(y, Held(s), MsHow(c))
    BY StatementEffects
  <2> QED BY <2>1, <2>2, <2>3, <2>4
<1>5. Final(c, st1)
  <2> HIDE DEF st1
  <2> QED BY <1>1, <1>4, PlainFits DEF Final, Ddl, Gentle, Adding, Inserts, MsHow
<1>6. /\ I \in Seq(Statements) /\ \A st \in Of(I) : st = st1 /\ MsStaged(c)
      /\ ~MsStaged(c) => I = <<>>
      /\ MsStaged(c) => \A y : Outcomes(I, y) = IF Refused(st1, y) THEN {} ELSE {RowsAfter(st1, y)}
  <2> DEFINE Q == <<st1>>
  <2> HIDE DEF st1
  <2>0. Q \in Seq(Statements) /\ Of(Q) = {st1}
    BY <1>4, OfParts
  <2>1. \A y : Outcomes(Q, y) = IF Refused(st1, y) THEN {} ELSE {RowsAfter(st1, y)}
    BY <1>4, OutcomesOne
  <2>2. I = IF MsStaged(c) THEN Q ELSE <<>>
    OBVIOUS
  <2> HIDE DEF Q, I
  <2> QED BY <2>0, <2>1, <2>2, EmptyProgram
<1>7. MsFlush(c, s) = F
  BY DEF MsFlush, Held
<1>8. C = IF c.driver # "bcp" \/ MsStaged(c) THEN <<Commit("run")>> ELSE <<>>
  OBVIOUS
<1> HIDE DEF D, B, st1, I, C
<1>9. U \in Seq(Statements) /\ Of(U) = Of(D) \cup Of(B) /\ Begun(U) = Begun(B)
  <2>1. U \in Seq(Statements) /\ Of(U) = Of(D) \cup Of(B) /\ Begun(U) = Begun(D) \cup Begun(B)
    BY <1>2, <1>3, OfConcat
  <2>2. Begun(D) = {}
    BY <1>2, NoneBegun
  <2> HIDE DEF U
  <2> QED BY <2>1, <2>2
<1>10. Atomic(c) => InTxn(U, o)
  <2>1. InTxn(B, o \cup Begun(D))
    BY <1>3, TxnSimple
  <2> QED BY <1>2, <1>3, <2>1, TxnConcat
<1>11. \A y : MsStaged(c) => Outcomes(T, y) \subseteq Outcomes(I, y)
  <2>1. MsStaged(c) => \A st \in Of(U) : st.op \in Quiet
    BY <1>2, <1>3, <1>9
  <2> HIDE DEF U
  <2> QED BY <1>6, <1>9, <2>1, QuietAround
<1>12. \A y : ~MsStaged(c) => Outcomes(T, y) \subseteq Outcomes(D, y)
  <2>1. ~MsStaged(c) => T = U
    BY <1>6, <1>9, ConcatEmptySeq
  <2>2. \A y : Outcomes(U, y) \subseteq Outcomes(D, y)
    BY <1>2, <1>3, QuietAround
  <2> HIDE DEF T
  <2> QED BY <2>1, <2>2
<1> HIDE DEF U
<1>13. T \in Seq(Statements) /\ Of(T) = Of(D) \cup Of(B) \cup Of(I) /\ Begun(T) = Begun(B)
  <2>1. T \in Seq(Statements) /\ Of(T) = Of(U) \cup Of(I) /\ Begun(T) = Begun(U) \cup Begun(I)
    BY <1>6, <1>9, OfConcat
  <2>2. Begun(I) = {}
    BY <1>4, <1>6, NoneBegun
  <2> HIDE DEF T
  <2> QED BY <1>9, <2>1, <2>2
<1>14. Atomic(c) => InTxn(T, o)
  <2>1. ASSUME Atomic(c) PROVE InTxn(I, o \cup Begun(U))
    <3>1. MsStaged(c) => "run" \in o \cup Begun(U)
      <4>1. Begun(U) = IF c.driver = "bcp" /\ MsStaged(c) THEN {"run"} ELSE {}
        BY <1>3, <1>9
      <4>2. RunTxn(c) => "run" \in o
        BY <1>1, <2>1
      <4>3. c.driver # "bcp" => RunTxn(c)
        BY DEF RunTxn
      <4> QED BY <4>1, <4>2, <4>3
    <3> QED BY <1>4, <1>6, <3>1, TxnSimple
  <2> QED BY <1>6, <1>9, <1>10, <2>1, TxnConcat
<1> HIDE DEF T
<1>15. \A st \in Of(T) : Final(c, st) /\ st.op # "commit"
  BY <1>2, <1>3, <1>4, <1>5, <1>6, <1>13
<1>16. FlushForm(F, c, o) /\ \A y : Outcomes(F, y) \subseteq Outcomes(T, y)
  <2>1. CASE c.driver # "bcp" \/ MsStaged(c)
    <3>1. Begun(T) \subseteq {"run"}
      BY <1>3, <1>13
    <3> QED BY <1>1, <1>8, <1>13, <1>14, <1>15, <2>1, <3>1, AddCommit
  <2>2. CASE c.driver = "bcp" /\ ~MsStaged(c)
    <3>1. F = T /\ ~Atomic(c) /\ o = {}
      BY <1>1, <1>8, <1>13, <2>2, ConcatEmptySeq DEF Atomic, MsStaged
    <3>2. \A st \in Of(T) : st.op # "begin"
      <4>1. Begun(T) = {}
        BY <1>3, <1>13, <2>2
      <4> QED BY <4>1 DEF Begun
    <3> QED BY <1>13, <1>15, <3>1, <3>2, NoTxn
  <2> QED BY <2>1, <2>2
<1> HIDE DEF F
<1>17. ASSUME ~Deviates(c) PROVE FlushGives(F, c, s)
  <2> SUFFICES ASSUME NEW y \in Contents, NEW x \in Outcomes(T, y)
               PROVE  \E m \in Outcomes(<<Flushed(c, s)>>, y) :
                        x = IF c.strategy = "merge_delete" THEN Kept(m, Mirrored(c, s)) ELSE m
    BY <1>16 DEF FlushGives
  <2> DEFINE g == GathersBy(c)
  <2>1. Outcomes(<<Flushed(c, s)>>, y) = IF Takes(y, Held(s), g) THEN {InsertEffect(y, Held(s), g)} ELSE {}
    BY FlushedFacts
  <2>2. CASE MsStaged(c)
    <3>1. Takes(y, Held(s), MsHow(c)) /\ x = InsertEffect(y, Held(s), MsHow(c))
      BY <1>4, <1>6, <1>11, <2>2
    <3>2. CASE c.strategy = "merge_delete"
      <4>1. MsHow(c) = "mirror" /\ g = "update" /\ Mirrored(c, s) = KeysOf(Held(s))
        BY <2>2, <3>2 DEF MsHow, GathersBy, Mirrored
      <4>2. Repeated(Held(s)) = {}
        BY <3>1, <4>1 DEF Takes, Refused, Insert, Stmt
      <4>3. Takes(y, Held(s), "update")
        BY <4>2 DEF Takes, Refused, Insert, Stmt
      <4>4. x = Kept(InsertEffect(y, Held(s), "update"), KeysOf(Held(s)))
        BY <3>1, <4>1 DEF InsertEffect
      <4> QED BY <2>1, <3>2, <4>1, <4>3, <4>4
    <3>3. CASE c.strategy # "merge_delete"
      <4>1. g = MsHow(c)
        BY <1>1, <2>2, <3>3, PlainFits DEF MsHow, GathersBy, Strategies
      <4> QED BY <2>1, <3>1, <3>3, <4>1
    <3> QED BY <3>2, <3>3
  <2>3. CASE ~MsStaged(c)
    <3>1. c.strategy # "merge_delete" /\ g = MsDirect(c)
      BY <1>17, <2>3 DEF Deviates, GathersBy, MsStaged
    <3>2. Held(s) = s.buffer
      BY <1>1, <2>3, ConcatEmptySeq DEF Held
    <3>3. Takes(y, s.buffer, g) /\ x = InsertEffect(y, s.buffer, g)
      BY <1>2, <1>12, <2>3, <3>1 DEF Sends
    <3> QED BY <2>1, <3>1, <3>2, <3>3
  <2> QED BY <2>2, <2>3
<1> QED BY <1>7, <1>16, <1>17
=============================================================================
