------------------------------ MODULE Scd2Proofs ------------------------------
(***************************************************************************)
(* Proofs about Scd2: for every driver, key set, chunk size and number of  *)
(* runs, and with failures at any point, a table that is fed writes with   *)
(* distinct keys has at most one current version of each key, and a run    *)
(* that ends well leaves exactly what it received.                         *)
(***************************************************************************)
EXTENDS Scd2, FiniteSetTheorems, SequenceTheorems, TLAPS

\* What reads back stays as it is.
LEMMA StoredTwice == \A v : Stored(Stored(v)) = Stored(v)
  BY Scd2Assumption DEF Stored, Drivers

\* Closing changes the current flag of the versions it is about and nothing else.
LEMMA CloseProps ==
  ASSUME NEW t \in Seq(Versions), NEW ks
  PROVE  /\ Close(t, ks) \in Seq(Versions)
         /\ DOMAIN Close(t, ks) = DOMAIN t
         /\ \A i \in DOMAIN t :
              /\ Close(t, ks)[i].key = t[i].key
              /\ Close(t, ks)[i].val = t[i].val
              /\ Close(t, ks)[i].current <=>
                   t[i].current /\ ~(t[i].key \in ks /\ Matchable(t[i].key))
<1> DEFINE u == Close(t, ks)
<1>1. \A i \in DOMAIN t : t[i] \in Versions
  BY ElementOfSeq, LenProperties
<1>2. DOMAIN u = DOMAIN t
  BY DEF Close
<1>3. ASSUME NEW i \in DOMAIN t
      PROVE  /\ u[i] \in Versions
             /\ u[i].key = t[i].key
             /\ u[i].val = t[i].val
             /\ u[i].current <=> t[i].current /\ ~(t[i].key \in ks /\ Matchable(t[i].key))
  <2>1. u[i] = IF t[i].key \in ks /\ Matchable(t[i].key)
               THEN Closed(t[i]) ELSE t[i]
    BY DEF Close
  <2>2. t[i] \in Versions
    BY <1>1
  <2>3. CASE t[i].key \in ks /\ Matchable(t[i].key)
    <3>1. u[i] = Closed(t[i])
      BY <2>1, <2>3
    <3> QED BY <2>2, <2>3, <3>1 DEF Versions, Closed
  <2>4. CASE ~(t[i].key \in ks /\ Matchable(t[i].key))
    <3>1. u[i] = t[i]
      BY <2>1, <2>4
    <3> QED BY <2>2, <2>4, <3>1 DEF Versions
  <2> QED BY <2>3, <2>4
<1>4. u \in Seq(Versions)
  <2>1. DOMAIN t = 1..Len(t) /\ Len(t) \in Nat
    BY LenProperties
  <2>2. u \in [1..Len(t) -> Versions]
    BY <2>1, <1>3 DEF Close
  <2> QED BY <2>1, <2>2, IsASeq
<1> QED BY <1>2, <1>3, <1>4

\* Inserting appends the rows, as they read back, and keeps what is there.
LEMMA InsertProps ==
  ASSUME NEW t \in Seq(Versions), NEW rows \in Seq(Rows)
  PROVE  /\ Insert(t, rows) \in Seq(Versions)
         /\ DOMAIN Insert(t, rows) = 1..(Len(t) + Len(rows))
         /\ \A i \in 1..Len(t) : Insert(t, rows)[i] = t[i]
         /\ \A i \in 1..Len(rows) :
              Insert(t, rows)[Len(t) + i] =
                [key |-> rows[i].key, val |-> Stored(rows[i].val), current |-> TRUE]
<1> DEFINE new == [i \in DOMAIN rows |->
                     [key |-> rows[i].key, val |-> Stored(rows[i].val), current |-> TRUE]]
<1>1. Len(rows) \in Nat /\ DOMAIN rows = 1..Len(rows) /\ Len(t) \in Nat /\ DOMAIN t = 1..Len(t)
  BY LenProperties
<1>2. \A i \in DOMAIN rows : rows[i] \in Rows
  BY ElementOfSeq, <1>1
<1>3. ASSUME NEW i \in DOMAIN rows
      PROVE  [key |-> rows[i].key, val |-> Stored(rows[i].val), current |-> TRUE] \in Versions
  <2>1. rows[i].key \in Keys /\ rows[i].val \in Values
    BY <1>2 DEF Rows
  <2>2. Stored(rows[i].val) \in Values
    BY <2>1, StoredAssumption
  <2> QED BY <2>1, <2>2 DEF Versions
<1>4. new \in [1..Len(rows) -> Versions]
  BY <1>1, <1>3
<1>5. new \in Seq(Versions) /\ Len(new) = Len(rows)
  <2>1. new \in Seq(Versions)
    BY <1>1, <1>4, IsASeq
  <2>2. DOMAIN new = 1..Len(rows) /\ DOMAIN new = 1..Len(new) /\ Len(new) \in Nat
    BY <1>1, <2>1, LenProperties
  <2> HIDE DEF new
  <2> QED BY <1>1, <2>1, <2>2
<1>6. \A i \in 1..Len(rows) :
        new[i] = [key |-> rows[i].key, val |-> Stored(rows[i].val), current |-> TRUE]
  BY <1>1
<1>7. Insert(t, rows) = t \o new
  BY DEF Insert
<1> HIDE DEF new
<1>8. /\ t \o new \in Seq(Versions)
      /\ Len(t \o new) = Len(t) + Len(new)
      /\ \A i \in 1..(Len(t) + Len(new)) :
           (t \o new)[i] = IF i <= Len(t) THEN t[i] ELSE new[i - Len(t)]
  BY <1>5, ConcatProperties
<1>9. DOMAIN (t \o new) = 1..(Len(t) + Len(rows))
  BY <1>5, <1>8, LenProperties
<1>10. ASSUME NEW i \in 1..Len(rows)
       PROVE  (t \o new)[Len(t) + i] = new[i]
  <2>1. Len(t) + i \in 1..(Len(t) + Len(new)) /\ ~(Len(t) + i <= Len(t)) /\ (Len(t) + i) - Len(t) = i
    BY <1>1, <1>5
  <2> QED BY <2>1, <1>8
<1>11. \A i \in 1..Len(t) : (t \o new)[i] = t[i]
  BY <1>1, <1>5, <1>8
<1> QED BY <1>6, <1>7, <1>8, <1>9, <1>10, <1>11

\* A chunk to close is part of what is to be closed.
LEMMA ChunkSubset == \A S : \A c \in Chunks(S) : c \subseteq S
  BY DEF Chunks

\* A batch is a sequence of rows; when its keys are distinct, a row is the last one for
\* its key.
LEMMA BatchProps ==
  ASSUME NEW b \in Batches
  PROVE  /\ b \in Seq(Rows)
         /\ DOMAIN b = 1..Len(b) /\ Len(b) \in Nat
         /\ BatchKeys(b) \subseteq Keys
         /\ \A k \in BatchKeys(b) : \E i \in DOMAIN b : b[i].key = k
         /\ \A i \in DOMAIN b : b[i] \in Rows /\ b[i].key \in BatchKeys(b)
         /\ Distinct => /\ \A i, j \in DOMAIN b : b[i].key = b[j].key => i = j
                        /\ \A i \in DOMAIN b : LastVal(b, b[i].key) = b[i].val
<1>1. PICK n \in 1..BatchRows : b \in [1..n -> Rows]
  BY DEF Batches
<1>2. b \in Seq(Rows)
  BY <1>1, IsASeq, Scd2Assumption
<1>3. DOMAIN b = 1..Len(b) /\ Len(b) \in Nat
  BY <1>2, LenProperties
<1>4. \A i \in DOMAIN b : b[i] \in Rows
  BY <1>1
<1>5. BatchKeys(b) \subseteq Keys
  BY <1>4 DEF BatchKeys, Rows
<1>6. ASSUME Distinct
      PROVE  /\ \A i, j \in DOMAIN b : b[i].key = b[j].key => i = j
             /\ \A i \in DOMAIN b : LastVal(b, b[i].key) = b[i].val
  <2>1. \A i, j \in DOMAIN b : b[i].key = b[j].key => i = j
    BY <1>6 DEF Batches
  <2>2. ASSUME NEW i \in DOMAIN b PROVE LastVal(b, b[i].key) = b[i].val
    <3> DEFINE P(m) == b[m].key = b[i].key /\ \A j \in DOMAIN b : j > m => b[j].key # b[i].key
    <3>1. P(i)
      BY <2>1, <1>3
    <3>2. \A m \in DOMAIN b : P(m) => m = i
      BY <2>1
    <3>3. (CHOOSE m \in DOMAIN b : P(m)) = i
      BY <3>1, <3>2
    <3> QED BY <3>3 DEF LastVal
  <2> QED BY <2>1, <2>2
<1> QED BY <1>2, <1>3, <1>4, <1>5, <1>6 DEF BatchKeys

\* The rows at some positions of a batch, in order.
LEMMA InOrderProps ==
  ASSUME NEW b \in Batches, NEW S \in SUBSET DOMAIN b, NEW o \in InOrder(S)
  PROVE  /\ [i \in DOMAIN o |-> b[o[i]]] \in Seq(Rows)
         /\ \A i \in DOMAIN o : o[i] \in S
         /\ \A p \in S : \E i \in DOMAIN o : o[i] = p
         /\ \A i, j \in DOMAIN o : o[i] = o[j] => i = j
<1>1. DOMAIN b = 1..Len(b) /\ Len(b) \in Nat /\ \A i \in DOMAIN b : b[i] \in Rows
  BY BatchProps
<1>2. IsFiniteSet(S) /\ Cardinality(S) \in Nat
  <2>1. IsFiniteSet(1..Len(b))
    BY <1>1, FS_Interval
  <2>2. IsFiniteSet(S)
    BY <1>1, <2>1, FS_Subset
  <2> QED BY <2>2, FS_CardinalityType
<1>3. /\ o \in [1..Cardinality(S) -> S]
      /\ \A i, j \in DOMAIN o : i < j => o[i] < o[j]
      /\ S = {o[i] : i \in DOMAIN o}
  BY DEF InOrder
<1>4. [i \in DOMAIN o |-> b[o[i]]] \in [1..Cardinality(S) -> Rows]
  BY <1>1, <1>3
<1>5. [i \in DOMAIN o |-> b[o[i]]] \in Seq(Rows)
  BY <1>2, <1>4, IsASeq
<1>6. ASSUME NEW i \in DOMAIN o, NEW j \in DOMAIN o, o[i] = o[j] PROVE i = j
  <2>1. i \in Nat /\ j \in Nat /\ o[i] \in Nat /\ o[j] \in Nat
    BY <1>1, <1>2, <1>3
  <2>2. ~(i < j) /\ ~(j < i)
    BY <1>3, <1>6, <2>1
  <2> QED BY <2>1, <2>2
<1> QED BY <1>3, <1>5, <1>6

-----------------------------------------------------------------------------
(* The initial state and one lemma per action. *)

LEMMA InitInvariant == Init => IInv
<1> SUFFICES ASSUME Init PROVE IInv
  OBVIOUS
<1>1. table = <<>> /\ draft = <<>> /\ inserting = <<>> /\ closing = {} /\ seen = {}
      /\ phase = "idle" /\ writes = 0 /\ runs = 1 /\ DOMAIN fed = {}
  BY DEF Init, Nothing
<1>2. DOMAIN table = {} /\ DOMAIN draft = {} /\ DOMAIN inserting = {}
  BY <1>1
<1>3. TypeOK
  <2>1. <<>> \in Seq(Versions) /\ <<>> \in Seq(Rows)
    BY EmptySeq
  <2> QED BY <1>1, <2>1 DEF TypeOK, Phases
<1>4. OneCurrent /\ OneCurrentIn(draft)
  BY <1>2 DEF OneCurrent, OneCurrentIn
<1> QED BY <1>1, <1>2, <1>3, <1>4
        DEF IInv, Settled, Replacing, ReadsBack, ReadsBackIn, Fresh, Sweeping, Over

\* A write computes what to close and to insert from the current versions of its keys.
LEMMA WriteKeeps ==
  ASSUME Distinct, IInv, NEW b \in Batches, Write(b)
  PROVE  IInv'
<1> DEFINE found == {k \in BatchKeys(b) \cap CurrentKeys(draft) : Matchable(k)}
<1>1. PICK existing \in [found -> Values \cup {Null}] :
        /\ \A k \in found : \E v \in CurrentVals(draft, k) : existing[k] = ReadBack(v)
        /\ Decide(b, existing)
  BY DEF Write
<1> DEFINE Changed(i) == b[i].key \in found /\ existing[b[i].key] # b[i].val
           New(i) == b[i].key \notin found
           S == {i \in DOMAIN b : New(i) \/ Changed(i)}
<1>2. /\ closing' = {b[i].key : i \in {j \in DOMAIN b : Changed(j)}}
      /\ \E o \in InOrder(S) : inserting' = [i \in DOMAIN o |-> b[o[i]]]
  <2>1. DOMAIN existing = found
    BY <1>1
  <2> QED BY <1>1, <2>1 DEF Decide
<1>3. PICK o \in InOrder(S) : inserting' = [i \in DOMAIN o |-> b[o[i]]]
  BY <1>2
<1>4. /\ phase = "idle" /\ phase' = "write"
      /\ table' = table /\ draft' = draft /\ runs' = runs /\ writes' = writes + 1
      /\ seen' = SeenAfter(b)
      /\ fed' = [k \in DOMAIN fed \cup BatchKeys(b) |->
                   IF k \in BatchKeys(b) THEN LastVal(b, k) ELSE fed[k]]
  BY DEF Write
<1>5. /\ b \in Seq(Rows) /\ BatchKeys(b) \subseteq Keys
      /\ \A k \in BatchKeys(b) : \E i \in DOMAIN b : b[i].key = k
      /\ \A i \in DOMAIN b : b[i] \in Rows /\ b[i].key \in BatchKeys(b)
      /\ \A i, j \in DOMAIN b : b[i].key = b[j].key => i = j
      /\ \A i \in DOMAIN b : LastVal(b, b[i].key) = b[i].val
  BY BatchProps
<1>6. /\ inserting' \in Seq(Rows)
      /\ \A i \in DOMAIN o : o[i] \in S
      /\ \A p \in S : \E i \in DOMAIN o : o[i] = p
      /\ \A i, j \in DOMAIN o : o[i] = o[j] => i = j
  <2>1. S \in SUBSET DOMAIN b
    OBVIOUS
  <2> HIDE DEF S
  <2> QED BY <1>3, <2>1, InOrderProps
<1>7. DOMAIN inserting' = DOMAIN o /\ \A i \in DOMAIN o : inserting'[i] = b[o[i]] /\ o[i] \in DOMAIN b
  BY <1>3, <1>6
<1>8. DOMAIN inserting = {} /\ closing = {}
  BY <1>4 DEF IInv, Settled
<1>9. TypeOK'
  <2>1. closing' \subseteq Keys
    BY <1>2, <1>5
  <2>2. seen' \subseteq Keys
    BY <1>4, <1>5 DEF IInv, TypeOK, SeenAfter
  <2>3. DOMAIN fed' \subseteq Keys
    BY <1>4, <1>5 DEF IInv, TypeOK
  <2>4. ASSUME NEW k \in DOMAIN fed' PROVE fed'[k] \in Values
    <3>1. CASE k \in BatchKeys(b)
      <4>1. PICK i \in DOMAIN b : b[i].key = k
        BY <1>5, <3>1
      <4>2. fed'[k] = b[i].val /\ b[i] \in Rows
        BY <1>4, <1>5, <3>1, <4>1
      <4> QED BY <4>2 DEF Rows
    <3>2. CASE k \notin BatchKeys(b)
      BY <1>4, <3>2 DEF IInv, TypeOK
    <3> QED BY <3>1, <3>2
  <2>5. table' \in Seq(Versions) /\ draft' \in Seq(Versions) /\ writes' \in Nat /\ runs' \in Nat
    BY <1>4 DEF IInv, TypeOK
  <2>6. phase' \in Phases
    BY <1>4 DEF Phases
  <2> QED BY <1>6, <2>1, <2>2, <2>3, <2>4, <2>5, <2>6 DEF TypeOK
<1>10. Settled'
  BY <1>4 DEF Settled, Over
<1>11. OneCurrent' /\ OneCurrentIn(draft)' /\ ReadsBack'
  BY <1>4 DEF IInv, OneCurrent, OneCurrentIn, ReadsBack, ReadsBackIn
\* A key of the batch that has a current version was found.
<1>12. ASSUME NEW k \in BatchKeys(b), Matchable(k), CurrentOf(k)' # {} PROVE k \in found
  <2>1. PICK j \in DOMAIN draft : draft[j].current /\ draft[j].key = k
    BY <1>4, <1>12 DEF CurrentOf
  <2> QED BY <2>1, <1>12 DEF CurrentKeys
<1>13. Replacing'
  <2>1. ASSUME NEW k \in closing' PROVE Pending(k)' # {}
    <3>1. PICK p \in DOMAIN b : Changed(p) /\ b[p].key = k
      BY <1>2
    <3>2. PICK i \in DOMAIN o : o[i] = p
      BY <1>6, <3>1
    <3>3. i \in DOMAIN inserting' /\ inserting'[i].key = k
      BY <1>7, <3>1, <3>2
    <3> QED BY <3>3 DEF Pending
  <2>2. ASSUME NEW i \in DOMAIN inserting', NEW j \in DOMAIN inserting',
               inserting'[i].key = inserting'[j].key
        PROVE  i = j
    <3>1. b[o[i]].key = b[o[j]].key /\ o[i] \in DOMAIN b /\ o[j] \in DOMAIN b
      BY <1>7, <2>2
    <3> QED BY <1>5, <1>6, <1>7, <3>1
  <2>3. ASSUME NEW i \in DOMAIN inserting', Matchable(inserting'[i].key),
               NEW j \in DOMAIN draft', draft'[j].current, draft'[j].key = inserting'[i].key
        PROVE  inserting'[i].key \in closing'
    <3>1. inserting'[i] = b[o[i]] /\ o[i] \in S /\ o[i] \in DOMAIN b
      BY <1>6, <1>7
    <3>2. b[o[i]].key \in BatchKeys(b)
      BY <1>5, <3>1
    <3>3. b[o[i]].key \in found
      BY <1>4, <2>3, <3>1, <3>2 DEF CurrentKeys
    <3>4. Changed(o[i])
      BY <3>1, <3>3
    <3> QED BY <1>2, <3>1, <3>4
  <2> HIDE DEF found, S
  <2> QED BY <2>1, <2>2, <2>3 DEF Replacing, CurrentOf
<1>14. ASSUME NEW k \in DOMAIN fed', Matchable(k)
       PROVE  /\ Pending(k)' \cup CurrentOf(k)' # {}
              /\ \A i \in Pending(k)' : inserting'[i].val = fed'[k]
              /\ \A j \in CurrentOf(k)' : k \in closing' \/ StandsFor(draft'[j].val, fed'[k])
  <2>1. CASE k \in BatchKeys(b)
    <3>1. PICK p \in DOMAIN b : b[p].key = k
      BY <1>5, <2>1
    <3>2. fed'[k] = b[p].val
      BY <1>4, <1>5, <2>1, <3>1
    <3>3. \A i \in Pending(k)' : o[i] = p /\ inserting'[i].val = fed'[k]
      BY <1>5, <1>7, <3>1, <3>2 DEF Pending
    <3>4. CASE p \in S
      <4>1. PICK i \in DOMAIN o : o[i] = p
        BY <1>6, <3>4
      <4>2. i \in Pending(k)'
        BY <1>7, <3>1, <4>1 DEF Pending
      <4>3. ASSUME NEW j \in CurrentOf(k)' PROVE k \in closing'
        <5>1. k \in found
          BY <1>12, <1>14, <2>1, <4>3
        <5>2. Changed(p)
          BY <3>1, <3>4, <5>1
        <5> QED BY <1>2, <3>1, <5>2
      <4> QED BY <3>3, <4>2, <4>3
    <3>5. CASE p \notin S
      <4>1. k \in found /\ existing[k] = b[p].val
        BY <3>1, <3>5
      <4>2. PICK m \in DOMAIN draft : /\ draft[m].current /\ draft[m].key = k
                                      /\ existing[k] = ReadBack(draft[m].val)
        BY <1>1, <4>1 DEF CurrentVals
      <4>3. \A j \in CurrentOf(k)' : j = m
        BY <1>4, <1>14, <4>2 DEF CurrentOf, IInv, OneCurrentIn
      <4>4. m \in CurrentOf(k)'
        BY <1>4, <4>2 DEF CurrentOf
      <4>5. StandsFor(draft'[m].val, fed'[k])
        <5>1. Stored(draft[m].val) = draft[m].val
          BY DEF IInv, ReadsBack, ReadsBackIn
        <5> QED BY <1>4, <3>2, <4>1, <4>2, <5>1 DEF ReadBack, StandsFor
      <4> QED BY <3>3, <4>3, <4>4, <4>5
    <3> QED BY <3>4, <3>5
  <2>2. CASE k \notin BatchKeys(b)
    <3>1. k \in DOMAIN fed /\ fed'[k] = fed[k]
      BY <1>4, <2>2
    <3>2. Pending(k) = {}
      BY <1>8 DEF Pending
    <3>3. CurrentOf(k) # {} /\ \A j \in CurrentOf(k) : StandsFor(draft[j].val, fed[k])
      BY <1>4, <1>8, <1>14, <3>1, <3>2 DEF IInv, Fresh
    <3>4. CurrentOf(k)' = CurrentOf(k)
      BY <1>4 DEF CurrentOf
    <3>5. Pending(k)' = {}
      BY <1>5, <1>7, <2>2 DEF Pending
    <3> QED BY <1>4, <3>1, <3>3, <3>4, <3>5
  <2> QED BY <2>1, <2>2
<1>15. Fresh'
  BY <1>14 DEF Fresh
<1>16. Sweeping'
  <2>1. CloseMissing => seen = DOMAIN fed
    BY <1>4 DEF IInv, Sweeping
  <2>2. CloseMissing => seen' = DOMAIN fed'
    BY <1>4, <2>1 DEF SeenAfter
  <2> QED BY <1>4, <2>2 DEF Sweeping
<1> QED BY <1>9, <1>10, <1>11, <1>13, <1>15, <1>16 DEF IInv

\* Closing some of the keys that are to be closed, in a write or in the sweep.
LEMMA CloseKeeps ==
  ASSUME IInv, NEW c \in SUBSET closing, NEW atomic, Execute(Close(draft, c), atomic),
         phase \in {"write", "sweep"}, closing' = closing \ c,
         UNCHANGED <<phase, inserting, seen, fed, writes, runs>>
  PROVE  IInv'
<1>1. /\ draft' = Close(draft, c)
      /\ table' = table \/ table' = draft'
  BY DEF Execute
<1>2. /\ draft' \in Seq(Versions)
      /\ DOMAIN draft' = DOMAIN draft
      /\ \A i \in DOMAIN draft :
           /\ draft'[i].key = draft[i].key
           /\ draft'[i].val = draft[i].val
           /\ draft'[i].current <=>
                draft[i].current /\ ~(draft[i].key \in c /\ Matchable(draft[i].key))
  BY <1>1, CloseProps DEF IInv, TypeOK
<1>3. TypeOK'
  BY <1>1, <1>2 DEF IInv, TypeOK
<1>4. Settled'
  BY DEF IInv, Settled, Over
<1>5. OneCurrentIn(draft)'
  BY <1>2 DEF IInv, OneCurrentIn
<1>6. OneCurrent'
  BY <1>1, <1>5 DEF IInv, OneCurrent, OneCurrentIn
<1>7. \A k : Pending(k)' = Pending(k)
  BY DEF Pending
<1>8. \A k : CurrentOf(k)' \subseteq CurrentOf(k)
             /\ (Matchable(k) => CurrentOf(k)' = IF k \in c THEN {} ELSE CurrentOf(k))
  BY <1>2 DEF CurrentOf
<1>9. Replacing'
  <2>1. phase' = "write" => \A k \in closing' : Pending(k)' # {}
    BY <1>7 DEF IInv, Replacing
  <2>2. ASSUME NEW i \in DOMAIN inserting', Matchable(inserting'[i].key),
               NEW n \in DOMAIN draft', draft'[n].current, draft'[n].key = inserting'[i].key
        PROVE  inserting'[i].key \in closing'
    <3>1. n \in CurrentOf(inserting[i].key) /\ inserting[i].key \notin c
      BY <1>2, <2>2 DEF CurrentOf
    <3> QED BY <2>2, <3>1 DEF IInv, Replacing
  <2>3. \A i, m \in DOMAIN inserting' : inserting'[i].key = inserting'[m].key => i = m
    BY DEF IInv, Replacing
  <2> QED BY <2>1, <2>2, <2>3 DEF Replacing, CurrentOf
<1>10. ReadsBack'
  <2>1. ReadsBackIn(draft)'
    BY <1>2 DEF IInv, ReadsBack, ReadsBackIn
  <2> QED BY <1>1, <2>1 DEF IInv, ReadsBack, ReadsBackIn
<1>11. Fresh'
  <2>1. ASSUME NEW k \in DOMAIN fed', Matchable(k)
        PROVE  /\ Pending(k)' \cup CurrentOf(k)' # {}
               /\ \A i \in Pending(k)' : inserting'[i].val = fed'[k]
               /\ \A n \in CurrentOf(k)' : k \in closing' \/ StandsFor(draft'[n].val, fed'[k])
    <3>1. /\ Pending(k) \cup CurrentOf(k) # {}
          /\ \A i \in Pending(k) : inserting[i].val = fed[k]
          /\ \A n \in CurrentOf(k) : k \in closing \/ StandsFor(draft[n].val, fed[k])
      BY <2>1 DEF IInv, Fresh
    <3>2. CASE k \in c
      <4>1. CurrentOf(k)' = {}
        BY <1>8, <2>1, <3>2
      <4>2. phase = "write"
        BY <2>1, <3>2 DEF IInv, Sweeping
      <4>3. Pending(k) # {}
        BY <3>2, <4>2 DEF IInv, Replacing
      <4> QED BY <1>7, <3>1, <4>1, <4>3
    <3>3. CASE k \notin c
      <4>1. CurrentOf(k)' = CurrentOf(k)
        BY <1>8, <2>1, <3>3
      <4>2. \A n \in CurrentOf(k) : draft'[n].val = draft[n].val
        BY <1>2 DEF CurrentOf
      <4> QED BY <1>7, <3>1, <3>3, <4>1, <4>2
    <3> QED BY <3>2, <3>3
  <2> QED BY <2>1 DEF Fresh
<1>12. Sweeping'
  <2>1. CloseMissing /\ phase' \in {"idle", "write", "sweep"} => seen' = DOMAIN fed'
    BY DEF IInv, Sweeping
  <2>2. phase' = "sweep" => CloseMissing /\ closing' \cap DOMAIN fed' = {}
    BY DEF IInv, Sweeping
  <2>3. ASSUME CloseMissing, phase' = "sweep", NEW n \in DOMAIN draft',
               draft'[n].current, Matchable(draft'[n].key)
        PROVE  draft'[n].key \in DOMAIN fed' \cup closing'
    <3>1. /\ draft[n].current /\ draft'[n].key = draft[n].key
          /\ draft[n].key \notin c /\ n \in DOMAIN draft /\ Matchable(draft[n].key)
      BY <1>2, <2>3
    <3>2. draft[n].key \in DOMAIN fed \cup closing
      BY <2>3, <3>1 DEF IInv, Sweeping
    <3> QED BY <3>1, <3>2
  <2>4. phase' # "finished"
    OBVIOUS
  <2> QED BY <2>1, <2>2, <2>3, <2>4 DEF Sweeping
<1> QED BY <1>3, <1>4, <1>5, <1>6, <1>9, <1>10, <1>11, <1>12 DEF IInv

\* A statement of a write inserts its first n rows that are left.
InsertsForm(n) ==
  /\ n \in 0..Len(inserting)
  /\ inserting' \in Seq(Rows) /\ DOMAIN inserting' = 1..(Len(inserting) - n)
  /\ \A i \in 1..(Len(inserting) - n) : inserting'[i] = inserting[n + i]
  /\ draft' \in Seq(Versions) /\ DOMAIN draft' = 1..(Len(draft) + n)
  /\ \A i \in 1..Len(draft) : draft'[i] = draft[i]
  /\ \A i \in 1..n : draft'[Len(draft) + i] =
       [key |-> inserting[i].key, val |-> Stored(inserting[i].val), current |-> TRUE]
  /\ table' = IF AtomicWrite THEN table ELSE draft'
  /\ phase = "write" /\ phase' = "write" /\ closing = {} /\ closing' = {}
  /\ seen' = seen /\ fed' = fed /\ writes' = writes /\ runs' = runs

LEMMA InsertNewForm == ASSUME IInv, InsertNew PROVE \E n \in Nat : InsertsForm(n)
<1> DEFINE n == IF Len(inserting) < ChunkSize THEN Len(inserting) ELSE ChunkSize
           pre == SubSeq(inserting, 1, n)
           rest == SubSeq(inserting, n + 1, Len(inserting))
<1>1. /\ draft' = Insert(draft, pre)
      /\ table' = IF AtomicWrite THEN table ELSE draft'
      /\ inserting' = rest
      /\ phase = "write" /\ phase' = "write" /\ closing = {} /\ closing' = {}
      /\ seen' = seen /\ fed' = fed /\ writes' = writes /\ runs' = runs
  BY DEF InsertNew, Execute
<1>2. /\ inserting \in Seq(Rows) /\ Len(inserting) \in Nat /\ n \in 0..Len(inserting)
      /\ draft \in Seq(Versions) /\ Len(draft) \in Nat
  <2>1. inserting \in Seq(Rows) /\ draft \in Seq(Versions)
    BY DEF IInv, TypeOK
  <2> QED BY <2>1, LenProperties, Scd2Assumption
<1>3. /\ pre \in Seq(Rows) /\ Len(pre) = n /\ \A i \in 1..n : pre[i] = inserting[i]
  <2>1. 1 \in 1..Len(inserting)+1 /\ n \in 0..Len(inserting)
    BY <1>2
  <2> QED BY <1>2, <2>1, SubSeqProperties
<1>4. /\ rest \in Seq(Rows) /\ DOMAIN rest = 1..(Len(inserting) - n)
      /\ \A i \in 1..(Len(inserting) - n) : rest[i] = inserting[n + i]
  <2>1. n + 1 \in 1..Len(inserting)+1 /\ Len(inserting) \in n..Len(inserting)
    BY <1>2
  <2>2. rest \in Seq(Rows) /\ Len(rest) = Len(inserting) - n
        /\ \A i \in 1..(Len(inserting) - n) : rest[i] = inserting[n + i]
    BY <1>2, <2>1, SubSeqProperties
  <2> QED BY <2>2, LenProperties
<1> HIDE DEF n, pre, rest
<1>5. /\ draft' \in Seq(Versions)
      /\ DOMAIN draft' = 1..(Len(draft) + n)
      /\ \A i \in 1..Len(draft) : draft'[i] = draft[i]
      /\ \A i \in 1..n : draft'[Len(draft) + i] =
           [key |-> inserting[i].key, val |-> Stored(inserting[i].val), current |-> TRUE]
  <2>1. /\ draft' \in Seq(Versions)
        /\ DOMAIN draft' = 1..(Len(draft) + Len(pre))
        /\ \A i \in 1..Len(draft) : draft'[i] = draft[i]
        /\ \A i \in 1..Len(pre) : draft'[Len(draft) + i] =
             [key |-> pre[i].key, val |-> Stored(pre[i].val), current |-> TRUE]
    BY <1>1, <1>2, <1>3, InsertProps
  <2> QED BY <1>3, <2>1
<1>6. InsertsForm(n)
  BY <1>1, <1>2, <1>4, <1>5 DEF InsertsForm
<1> QED BY <1>2, <1>6

\* The rows of a write become current once everything they replace has been closed.
LEMMA InsertNewKeeps == ASSUME IInv, InsertNew PROVE IInv'
<1> DEFINE old == Len(draft)
<1>0. PICK n \in Nat : InsertsForm(n)
  BY InsertNewForm
<1>1. /\ table' = table \/ table' = draft'
      /\ phase = "write" /\ phase' = "write" /\ closing = {} /\ closing' = {}
      /\ seen' = seen /\ fed' = fed /\ writes' = writes /\ runs' = runs
  BY <1>0 DEF InsertsForm
<1>2. /\ inserting \in Seq(Rows) /\ Len(inserting) \in Nat /\ n \in 0..Len(inserting)
      /\ DOMAIN inserting = 1..Len(inserting)
      /\ draft \in Seq(Versions) /\ old \in Nat /\ DOMAIN draft = 1..old
  <2>1. inserting \in Seq(Rows) /\ draft \in Seq(Versions)
    BY DEF IInv, TypeOK
  <2> QED BY <1>0, <2>1, LenProperties DEF InsertsForm
<1>4. /\ inserting' \in Seq(Rows) /\ DOMAIN inserting' = 1..(Len(inserting) - n)
      /\ \A i \in 1..(Len(inserting) - n) : inserting'[i] = inserting[n + i]
  BY <1>0 DEF InsertsForm
<1>5. /\ draft' \in Seq(Versions)
      /\ DOMAIN draft' = 1..(old + n)
      /\ \A i \in 1..old : draft'[i] = draft[i]
      /\ \A i \in 1..n : draft'[old + i] =
           [key |-> inserting[i].key, val |-> Stored(inserting[i].val), current |-> TRUE]
  BY <1>0 DEF InsertsForm
\* A position of the table is an old one or one of the new rows.
<1>6. \A p \in DOMAIN draft' :
        \/ p \in DOMAIN draft /\ draft'[p] = draft[p]
        \/ \E i \in 1..n : /\ p = old + i /\ i \in DOMAIN inserting
                           /\ draft'[p].key = inserting[i].key
                           /\ draft'[p].val = Stored(inserting[i].val)
                           /\ draft'[p].current
  <2> SUFFICES ASSUME NEW p \in DOMAIN draft'
               PROVE  \/ p \in DOMAIN draft /\ draft'[p] = draft[p]
                      \/ \E i \in 1..n : /\ p = old + i /\ i \in DOMAIN inserting
                                         /\ draft'[p].key = inserting[i].key
                                         /\ draft'[p].val = Stored(inserting[i].val)
                                         /\ draft'[p].current
    OBVIOUS
  <2>1. p \in 1..(old + n)
    BY <1>5
  <2>2. CASE p <= old
    BY <1>2, <1>5, <2>1, <2>2
  <2>3. CASE p > old
    <3>1. p - old \in 1..n /\ p = old + (p - old) /\ p - old \in DOMAIN inserting
      BY <1>2, <2>1, <2>3
    <3>2. draft'[old + (p - old)] = [key |-> inserting[p - old].key,
                                     val |-> Stored(inserting[p - old].val), current |-> TRUE]
      BY <1>5, <3>1
    <3>3. /\ draft'[p].key = inserting[p - old].key
          /\ draft'[p].val = Stored(inserting[p - old].val)
          /\ draft'[p].current
      BY <3>1, <3>2
    <3> QED BY <3>1, <3>3
  <2> QED BY <1>2, <2>1, <2>2, <2>3
\* No row that is to be inserted has a current version.
<1>7. \A i \in DOMAIN inserting : \A p \in DOMAIN draft :
        Matchable(inserting[i].key) => ~(draft[p].current /\ draft[p].key = inserting[i].key)
  BY <1>1 DEF IInv, Replacing, CurrentOf
<1>8. \A i, m \in DOMAIN inserting : inserting[i].key = inserting[m].key => i = m
  BY DEF IInv, Replacing
<1>9. TypeOK'
  BY <1>1, <1>4, <1>5 DEF IInv, TypeOK
<1>10. Settled'
  BY <1>1 DEF Settled, Over
<1>11. OneCurrentIn(draft)'
  <2> SUFFICES ASSUME NEW p \in DOMAIN draft', NEW q \in DOMAIN draft',
                      draft'[p].current, draft'[q].current,
                      draft'[p].key = draft'[q].key, Matchable(draft'[p].key)
               PROVE  p = q
    BY DEF OneCurrentIn
  <2>1. CASE p \in DOMAIN draft /\ draft'[p] = draft[p] /\ q \in DOMAIN draft /\ draft'[q] = draft[q]
    BY <2>1 DEF IInv, OneCurrentIn
  <2> QED BY <1>6, <1>7, <1>8, <2>1
<1>12. OneCurrent'
  BY <1>1, <1>11 DEF IInv, OneCurrent, OneCurrentIn
\* The rows that are left come after the inserted ones.
<1>13. \A i \in DOMAIN inserting' :
         n + i \in DOMAIN inserting /\ n + i \notin 1..n /\ inserting'[i] = inserting[n + i]
  BY <1>1, <1>2, <1>4
<1>14. Replacing'
  <2>1. \A i, m \in DOMAIN inserting' : inserting'[i].key = inserting'[m].key => i = m
    <3> SUFFICES ASSUME NEW i \in DOMAIN inserting', NEW m \in DOMAIN inserting',
                        inserting'[i].key = inserting'[m].key
                 PROVE  i = m
      OBVIOUS
    <3>1. n + i = n + m
      BY <1>8, <1>13
    <3>2. i \in Nat /\ m \in Nat /\ n \in Nat
      BY <1>1, <1>2, <1>4
    <3> QED BY <3>1, <3>2
  <2>2. ASSUME NEW i \in DOMAIN inserting', Matchable(inserting'[i].key), NEW p \in DOMAIN draft',
               draft'[p].current, draft'[p].key = inserting'[i].key
        PROVE  FALSE
    BY <1>6, <1>7, <1>8, <1>13, <2>2
  <2> QED BY <1>1, <2>1, <2>2 DEF Replacing, CurrentOf
<1>15. ReadsBack'
  <2>1. ReadsBackIn(draft)'
    BY <1>6, StoredTwice DEF IInv, ReadsBack, ReadsBackIn
  <2> QED BY <1>1, <2>1 DEF IInv, ReadsBack, ReadsBackIn
<1>16. Fresh'
  <2>1. ASSUME NEW k \in DOMAIN fed', Matchable(k)
        PROVE  /\ Pending(k)' \cup CurrentOf(k)' # {}
               /\ \A i \in Pending(k)' : inserting'[i].val = fed'[k]
               /\ \A p \in CurrentOf(k)' : k \in closing' \/ StandsFor(draft'[p].val, fed'[k])
    <3>1. /\ Pending(k) \cup CurrentOf(k) # {}
          /\ \A i \in Pending(k) : inserting[i].val = fed[k]
          /\ \A p \in CurrentOf(k) : StandsFor(draft[p].val, fed[k])
      BY <1>1, <2>1 DEF IInv, Fresh
    <3>2. \A i \in Pending(k)' : inserting'[i].val = fed'[k]
      BY <1>1, <1>13, <3>1 DEF Pending
    <3>3. ASSUME NEW p \in CurrentOf(k)' PROVE StandsFor(draft'[p].val, fed'[k])
      <4>1. p \in DOMAIN draft' /\ draft'[p].current /\ draft'[p].key = k
        BY <3>3 DEF CurrentOf
      <4>2. CASE p \in DOMAIN draft /\ draft'[p] = draft[p]
        BY <1>1, <3>1, <4>1, <4>2 DEF CurrentOf
      <4>3. ASSUME NEW i \in 1..n, i \in DOMAIN inserting, draft'[p].key = inserting[i].key,
                   draft'[p].val = Stored(inserting[i].val)
            PROVE  StandsFor(draft'[p].val, fed'[k])
        BY <1>1, <3>1, <4>1, <4>3 DEF Pending, StandsFor
      <4> QED BY <1>6, <4>1, <4>2, <4>3
    <3>4. Pending(k)' \cup CurrentOf(k)' # {}
      <4>1. CASE CurrentOf(k) # {}
        <5>1. PICK p \in DOMAIN draft : draft[p].current /\ draft[p].key = k
          BY <4>1 DEF CurrentOf
        <5>2. p \in DOMAIN draft' /\ draft'[p] = draft[p]
          BY <1>2, <1>5, <5>1
        <5> QED BY <5>1, <5>2 DEF CurrentOf
      <4>2. CASE Pending(k) # {}
        <5>1. PICK i \in DOMAIN inserting : inserting[i].key = k
          BY <4>2 DEF Pending
        <5>2. CASE i <= n
          <6>1. i \in 1..n /\ old + i \in DOMAIN draft'
            BY <1>2, <1>5, <5>1, <5>2
          <6>2. draft'[old + i] = [key |-> inserting[i].key, val |-> Stored(inserting[i].val),
                                   current |-> TRUE]
            BY <1>5, <6>1
          <6>3. draft'[old + i].key = k /\ draft'[old + i].current
            BY <5>1, <6>2
          <6> QED BY <6>1, <6>3 DEF CurrentOf
        <5>3. CASE i > n
          <6>1. i - n \in DOMAIN inserting' /\ n + (i - n) = i
            BY <1>1, <1>2, <1>4, <5>1, <5>3
          <6>2. inserting'[i - n].key = k
            BY <1>13, <5>1, <6>1
          <6> QED BY <6>1, <6>2 DEF Pending
        <5> QED BY <1>2, <5>1, <5>2, <5>3
      <4> QED BY <3>1, <4>1, <4>2
    <3> QED BY <3>2, <3>3, <3>4
  <2> QED BY <2>1 DEF Fresh
<1>17. Sweeping'
  BY <1>1 DEF IInv, Sweeping
<1> QED BY <1>9, <1>10, <1>11, <1>12, <1>14, <1>15, <1>16, <1>17 DEF IInv

\* Between the statements: the end of a write, the beginning and the end of a flush, and
\* a failure, after which the connection sees what everybody sees.
LEMMA RestKeeps ==
  ASSUME IInv, Commit \/ Flush \/ SweepDone \/ Fail \/ Rerun
  PROVE  IInv'
<1>1. CASE Commit
  <2>1. /\ phase = "write" /\ phase' = "idle" /\ closing = {} /\ inserting = <<>>
        /\ table' = draft /\ draft' = draft /\ closing' = closing /\ inserting' = inserting
        /\ seen' = seen /\ fed' = fed /\ writes' = writes /\ runs' = runs
    BY <1>1 DEF Commit
  <2>2. TypeOK' /\ Settled'
    BY <2>1 DEF IInv, TypeOK, Settled, Over, Phases
  <2>3. OneCurrent' /\ OneCurrentIn(draft)' /\ ReadsBack'
    BY <2>1 DEF IInv, OneCurrent, OneCurrentIn, ReadsBack, ReadsBackIn
  <2>4. Replacing'
    BY <2>1 DEF Replacing
  <2>5. Fresh'
    BY <2>1 DEF IInv, Fresh, Pending, CurrentOf
  <2>6. Sweeping'
    BY <2>1 DEF IInv, Sweeping
  <2> QED BY <2>2, <2>3, <2>4, <2>5, <2>6 DEF IInv
<1>2. CASE Flush
  <2>1. /\ phase = "idle" /\ closing = {} /\ inserting = <<>> /\ draft = table
        /\ table' = table /\ draft' = draft /\ inserting' = inserting
        /\ seen' = seen /\ fed' = fed /\ writes' = writes /\ runs' = runs
    BY <1>2 DEF Flush, IInv, Settled
  <2>2. \/ /\ CloseMissing /\ phase' = "sweep" /\ closing' = CurrentKeys(draft) \ seen
        \/ /\ ~(CloseMissing /\ seen # {}) /\ phase' = "finished" /\ closing' = closing
    BY <1>2 DEF Flush
  <2>3. CloseMissing => seen = DOMAIN fed
    BY <2>1 DEF IInv, Sweeping
  <2>4. CurrentKeys(draft) \subseteq Keys
    <3>1. \A j \in DOMAIN draft : draft[j] \in Versions
      <4>1. draft \in Seq(Versions)
        BY DEF IInv, TypeOK
      <4> QED BY <4>1, ElementOfSeq, LenProperties
    <3> QED BY <3>1 DEF CurrentKeys, Versions
  <2>5. TypeOK' /\ Settled'
    BY <2>1, <2>2, <2>4 DEF IInv, TypeOK, Settled, Over, Phases
  <2>6. OneCurrent' /\ OneCurrentIn(draft)' /\ ReadsBack'
    BY <2>1 DEF IInv, OneCurrent, OneCurrentIn, ReadsBack, ReadsBackIn
  <2>7. Replacing'
    BY <2>1, <2>2 DEF Replacing
  <2>8. Fresh'
    BY <2>1, <2>2 DEF IInv, Fresh, Pending, CurrentOf
  <2>9. Sweeping'
    BY <2>1, <2>2, <2>3 DEF Sweeping, CurrentKeys
  <2> QED BY <2>5, <2>6, <2>7, <2>8, <2>9 DEF IInv
<1>3. CASE SweepDone
  <2>1. /\ phase = "sweep" /\ phase' = "finished" /\ closing = {}
        /\ table' = draft /\ draft' = draft /\ closing' = closing /\ inserting' = inserting
        /\ seen' = {} /\ fed' = fed /\ writes' = writes /\ runs' = runs
    BY <1>3 DEF SweepDone
  <2>2. inserting = <<>>
    BY <2>1 DEF IInv, Settled
  <2>3. TypeOK' /\ Settled'
    BY <2>1, <2>2 DEF IInv, TypeOK, Settled, Over, Phases
  <2>4. OneCurrent' /\ OneCurrentIn(draft)' /\ ReadsBack'
    BY <2>1 DEF IInv, OneCurrent, OneCurrentIn, ReadsBack, ReadsBackIn
  <2>5. Replacing'
    BY <2>1, <2>2 DEF Replacing
  <2>6. Fresh'
    BY <2>1 DEF IInv, Fresh, Pending, CurrentOf
  <2>7. Sweeping'
    BY <2>1 DEF IInv, Sweeping
  <2> QED BY <2>3, <2>4, <2>5, <2>6, <2>7 DEF IInv
<1>4. CASE Fail
  <2>1. /\ phase' = "failed" /\ closing' = {} /\ inserting' = <<>>
        /\ table' = table /\ draft' = table
        /\ seen' = seen /\ fed' = fed /\ writes' = writes /\ runs' = runs
    BY <1>4 DEF Fail
  <2>2. TypeOK'
    BY <2>1, EmptySeq DEF IInv, TypeOK, Over, Phases
  <2>3. Settled'
    BY <2>1 DEF Settled
  <2>4. OneCurrent' /\ OneCurrentIn(draft)' /\ ReadsBack'
    BY <2>1 DEF IInv, OneCurrent, OneCurrentIn, ReadsBack, ReadsBackIn
  <2>5. Replacing'
    BY <2>1 DEF Replacing
  <2>6. Fresh' /\ Sweeping'
    BY <2>1 DEF Fresh, Sweeping
  <2> QED BY <2>2, <2>3, <2>4, <2>5, <2>6 DEF IInv
<1>5. CASE Rerun
  <2>1. /\ phase \in Over /\ phase' = "idle" /\ closing' = closing /\ inserting' = inserting
        /\ table' = table /\ draft' = draft
        /\ seen' = {} /\ DOMAIN fed' = {} /\ writes' = 0 /\ runs' = runs + 1
    BY <1>5 DEF Rerun, Nothing
  <2>2. closing = {} /\ draft = table /\ inserting = <<>>
    BY <2>1 DEF IInv, Settled, Over
  <2>3. TypeOK'
    BY <2>1 DEF IInv, TypeOK, Phases
  <2>4. Settled' /\ Replacing'
    BY <2>1, <2>2 DEF Settled, Replacing
  <2>5. OneCurrent' /\ OneCurrentIn(draft)' /\ ReadsBack'
    BY <2>1 DEF IInv, OneCurrent, OneCurrentIn, ReadsBack, ReadsBackIn
  <2>6. Fresh' /\ Sweeping'
    BY <2>1 DEF Fresh, Sweeping
  <2> QED BY <2>3, <2>4, <2>5, <2>6 DEF IInv
<1> QED BY <1>1, <1>2, <1>3, <1>4, <1>5

-----------------------------------------------------------------------------
\* Every step keeps the inductive invariant.
LEMMA StepInvariant == ASSUME Distinct, IInv, [Next]_vars PROVE IInv'
<1>1. CASE \E b \in Batches : Write(b)
  BY <1>1, WriteKeeps
<1>2. CASE CloseChanged
  <2>1. PICK c \in Chunks(closing) :
          Execute(Close(draft, c), AtomicWrite) /\ closing' = closing \ c
    BY <1>2 DEF CloseChanged
  <2>2. c \in SUBSET closing
    BY ChunkSubset
  <2>3. phase = "write" /\ UNCHANGED <<phase, inserting, seen, fed, writes, runs>>
    BY <1>2 DEF CloseChanged
  <2> QED BY <2>1, <2>2, <2>3, CloseKeeps
<1>3. CASE InsertNew
  BY <1>3, InsertNewKeeps
<1>4. CASE SweepMissing
  <2>1. PICK c \in Chunks(closing) :
          Execute(Close(draft, c), AtomicSweep) /\ closing' = closing \ c
    BY <1>4 DEF SweepMissing
  <2>2. c \in SUBSET closing
    BY ChunkSubset
  <2>3. phase = "sweep" /\ UNCHANGED <<phase, inserting, seen, fed, writes, runs>>
    BY <1>4 DEF SweepMissing
  <2> QED BY <2>1, <2>2, <2>3, CloseKeeps
<1>5. CASE Commit \/ Flush \/ SweepDone \/ Fail \/ Rerun
  BY <1>5, RestKeeps
<1>6. CASE UNCHANGED vars
  BY <1>6 DEF vars, IInv, TypeOK, Settled, OneCurrent, OneCurrentIn, Replacing, ReadsBack,
     ReadsBackIn, Fresh, Sweeping, Pending, CurrentOf
<1> QED BY <1>1, <1>2, <1>3, <1>4, <1>5, <1>6 DEF Next, Done

\* With distinct keys in every write, the inductive invariant holds in every state,
\* whatever the driver groups into transactions and wherever a run breaks off.
THEOREM Invariance == ASSUME Distinct PROVE Spec => []IInv
<1>1. Init => IInv
  BY InitInvariant
<1>2. IInv /\ [Next]_vars => IInv'
  BY StepInvariant
<1> QED BY <1>1, <1>2, PTL DEF Spec

\* A key never has two current versions.
THEOREM OneCurrentVersion == ASSUME Distinct PROVE Spec => []OneCurrent
<1>1. IInv => OneCurrent
  BY DEF IInv
<1> QED BY <1>1, Invariance, PTL

\* A run that ends well leaves what it received last as the current version of every
\* key and, with close_missing, no current version of any other key, whatever runs that
\* broke off before it have left.  (A NULL leaves a value that the driver does not read back.)
THEOREM Convergence == ASSUME Distinct PROVE Spec => []SnapshotConverges
<1>1. IInv => SnapshotConverges
  <2> SUFFICES ASSUME IInv, phase = "finished", DOMAIN fed # {}, NEW k \in Keys, Matchable(k)
               PROVE  /\ k \in DOMAIN fed =>
                           \E v \in Values : CurrentVals(table, k) = {v} /\ StandsFor(v, fed[k])
                      /\ CloseMissing /\ k \notin DOMAIN fed => CurrentVals(table, k) = {}
    BY DEF SnapshotConverges
  <2>1. closing = {} /\ draft = table /\ inserting = <<>>
    BY DEF IInv, Settled, Over
  <2>2. CASE k \in DOMAIN fed
    <3>1. Pending(k) = {}
      BY <2>1 DEF Pending
    <3>2. CurrentOf(k) # {} /\ \A j \in CurrentOf(k) : StandsFor(table[j].val, fed[k])
      BY <2>1, <2>2, <3>1 DEF IInv, Fresh
    <3>3. PICK j \in DOMAIN table : table[j].current /\ table[j].key = k
      BY <2>1, <3>2 DEF CurrentOf
    <3>4. \A i \in DOMAIN table : table[i].current /\ table[i].key = k => i = j
      BY <3>3 DEF IInv, OneCurrent, OneCurrentIn
    <3>5. CurrentVals(table, k) = {table[j].val} /\ StandsFor(table[j].val, fed[k])
      BY <2>1, <3>2, <3>3, <3>4 DEF CurrentOf, CurrentVals
    <3>6. table[j].val \in Values
      <4>1. table[j] \in Versions
        BY ElementOfSeq, LenProperties DEF IInv, TypeOK
      <4> QED BY <4>1 DEF Versions
    <3> QED BY <2>2, <3>5, <3>6
  <2>3. CASE k \notin DOMAIN fed /\ CloseMissing
    BY <2>1, <2>3 DEF IInv, Sweeping, CurrentVals
  <2> QED BY <2>2, <2>3
<1> QED BY <1>1, Invariance, PTL

-----------------------------------------------------------------------------
(* History: what others see changes only as the sink's connection has prepared it. *)

\* What the four parts beyond IInv say when both views agree.
LEMMA Agreeing ==
  ASSUME TypeOK', draft' = table', Superseding'
  PROVE  Transacted' /\ Superseding' /\ Ahead' /\ Covered'
<1>1. Len(table') \in Nat
  BY LenProperties DEF TypeOK
<1>2. Transacted' /\ Covered'
  BY DEF Transacted, Covered
<1>3. Ahead'
  BY <1>1 DEF Ahead
<1> QED BY <1>2, <1>3

\* A version that is closed for a key of ks was current and has this key.
LEMMA CloseEffect ==
  ASSUME NEW t \in Seq(Versions), NEW ks, NEW i \in DOMAIN t, Close(t, ks)[i] # t[i]
  PROVE  /\ t[i].current /\ t[i].key \in ks
         /\ Close(t, ks)[i] = Closed(t[i])
<1>1. t[i] \in Versions
  BY ElementOfSeq, LenProperties
<1>2. Close(t, ks)[i] = IF t[i].key \in ks /\ Matchable(t[i].key)
                        THEN Closed(t[i]) ELSE t[i]
  BY DEF Close
<1>3. t[i].key \in ks /\ Close(t, ks)[i] = Closed(t[i])
  BY <1>2
<1>4. CASE ~t[i].current
  <2>1. t[i].current = FALSE
    BY <1>1, <1>4 DEF Versions
  <2>2. Closed(t[i]) = t[i]
    BY <1>1, <2>1 DEF Versions, Closed
  <2> QED BY <1>3, <2>2
<1> QED BY <1>3, <1>4

\* A write closes a key only for another value than its current one.
LEMMA WriteSupersedes ==
  ASSUME Distinct, IInv, NEW b \in Batches, Write(b)
  PROVE  Superseding' /\ draft' = table'
<1> DEFINE found == {k \in BatchKeys(b) \cap CurrentKeys(draft) : Matchable(k)}
<1>1. PICK existing \in [found -> Values \cup {Null}] :
        /\ \A k \in found : \E v \in CurrentVals(draft, k) : existing[k] = ReadBack(v)
        /\ Decide(b, existing)
  BY DEF Write
<1> DEFINE Changed(i) == b[i].key \in found /\ existing[b[i].key] # b[i].val
<1>2. closing' = {b[i].key : i \in {j \in DOMAIN b : Changed(j)}}
  <2>1. DOMAIN existing = found
    BY <1>1
  <2> QED BY <1>1, <2>1 DEF Decide
<1>3. /\ draft' = draft /\ table' = table /\ draft = table
      /\ fed' = [k \in DOMAIN fed \cup BatchKeys(b) |->
                   IF k \in BatchKeys(b) THEN LastVal(b, k) ELSE fed[k]]
  BY DEF Write, IInv, Settled
<1>4. ASSUME NEW k \in closing' PROVE k \in DOMAIN fed' /\ \A j \in CurrentOf(k)' : ReadBack(draft'[j].val) # fed'[k]
  <2>1. PICK i \in DOMAIN b : Changed(i) /\ b[i].key = k
    BY <1>2
  <2>2. k \in BatchKeys(b) /\ fed'[k] = b[i].val /\ k \in DOMAIN fed'
    BY <1>3, <2>1, BatchProps
  <2>3. PICK m \in DOMAIN draft : draft[m].current /\ draft[m].key = k /\ ReadBack(draft[m].val) = existing[k]
    BY <1>1, <2>1 DEF CurrentVals
  <2>4. Matchable(k)
    BY <2>1
  <2>5. \A j \in CurrentOf(k)' : j = m
    BY <1>3, <2>3, <2>4 DEF CurrentOf, IInv, OneCurrentIn
  <2> QED BY <1>3, <2>1, <2>2, <2>3, <2>5
<1> QED BY <1>3, <1>4 DEF Superseding

\* Closing a chunk of keys, in a write or in the sweep.
LEMMA CloseHistory ==
  ASSUME HistoryInv, NEW c \in SUBSET closing,
         phase \in {"write", "sweep"},
         Execute(Close(draft, c), IF phase = "write" THEN AtomicWrite ELSE AtomicSweep),
         closing' = closing \ c, UNCHANGED <<phase, inserting, seen, fed, writes, runs>>, IInv'
  PROVE  Transacted' /\ Superseding' /\ Ahead' /\ Covered'
<1> DEFINE atomic == IF phase = "write" THEN AtomicWrite ELSE AtomicSweep
<1>1. /\ draft' = Close(draft, c) /\ table' = IF atomic THEN table ELSE draft'
      /\ draft \in Seq(Versions) /\ draft' \in Seq(Versions) /\ table \in Seq(Versions)
  BY DEF Execute, HistoryInv, IInv, TypeOK
<1>2. /\ DOMAIN draft' = DOMAIN draft
      /\ \A i \in DOMAIN draft :
           /\ draft'[i].key = draft[i].key
           /\ draft'[i].val = draft[i].val
           /\ draft'[i].current <=> draft[i].current /\ ~(draft[i].key \in c /\ Matchable(draft[i].key))
  BY <1>1, CloseProps
<1>3. Superseding'
  <2>1. \A k : CurrentOf(k)' \subseteq CurrentOf(k)
    BY <1>2 DEF CurrentOf
  <2>2. ASSUME phase = "write", NEW k \in closing', NEW j \in CurrentOf(k)'
        PROVE  k \in DOMAIN fed' /\ ReadBack(draft'[j].val) # fed'[k]
    <3>1. j \in CurrentOf(k) /\ k \in closing /\ j \in DOMAIN draft
      BY <2>1, <2>2 DEF CurrentOf
    <3> QED BY <1>2, <2>2, <3>1 DEF HistoryInv, Superseding
  <2>3. phase = "write" => \A k \in closing' : k \in DOMAIN fed'
    BY DEF HistoryInv, Superseding
  <2> QED BY <2>2, <2>3 DEF Superseding
<1>4. CASE ~atomic
  <2>1. draft' = table'
    BY <1>1, <1>4
  <2> HIDE DEF atomic
  <2> QED BY <1>3, <2>1, Agreeing DEF IInv
<1>5. CASE atomic
  <2>1. table' = table
    BY <1>1, <1>5
  <2>2. Transacted'
    BY <1>5 DEF Transacted
  <2>3. Len(table) <= Len(draft) /\ Len(draft') = Len(draft) /\ DOMAIN table \subseteq DOMAIN draft
    <3>1. Len(table) <= Len(draft)
      BY DEF HistoryInv, Ahead
    <3>2. /\ Len(draft) \in Nat /\ DOMAIN draft = 1..Len(draft) /\ Len(table) \in Nat
          /\ DOMAIN table = 1..Len(table) /\ Len(draft') \in Nat /\ DOMAIN draft' = 1..Len(draft')
      BY <1>1, LenProperties
    <3>3. Len(draft') = Len(draft)
      BY <1>2, <3>2
    <3> QED BY <3>1, <3>2, <3>3
  <2>4. ASSUME NEW i \in DOMAIN table
        PROVE  \/ draft'[i] = table[i]
               \/ /\ draft'[i] = Closed(table[i])
                  /\ IF table[i].key \in DOMAIN fed THEN ReadBack(table[i].val) # fed[table[i].key]
                     ELSE CloseMissing /\ phase = "sweep"
    <3>1. \/ draft[i] = table[i]
          \/ /\ draft[i] = Closed(table[i])
             /\ IF table[i].key \in DOMAIN fed THEN ReadBack(table[i].val) # fed[table[i].key]
                ELSE CloseMissing /\ phase = "sweep"
      BY DEF HistoryInv, Ahead
    <3>2. CASE draft'[i] = draft[i]
      BY <3>1, <3>2
    <3>3. CASE draft'[i] # draft[i]
      <4>1. i \in DOMAIN draft /\ draft[i].current /\ draft[i].key \in c
            /\ draft'[i] = Closed(draft[i])
        BY <1>1, <2>3, <3>3, CloseEffect
      <4>2. draft[i] = table[i]
        <5>1. table[i] \in Versions
          BY <1>1, ElementOfSeq, LenProperties
        <5>2. Closed(table[i]).current = FALSE
          BY <5>1 DEF Versions, Closed
        <5> QED BY <3>1, <4>1, <5>2
      <4>3. CASE phase = "write"
        <5>1. i \in CurrentOf(draft[i].key)
          BY <4>1 DEF CurrentOf
        <5>2. draft[i].key \in DOMAIN fed /\ ReadBack(draft[i].val) # fed[draft[i].key]
          BY <4>1, <4>3, <5>1 DEF HistoryInv, Superseding
        <5> QED BY <4>1, <4>2, <5>2
      <4>4. CASE phase = "sweep"
        <5>1. CloseMissing /\ draft[i].key \notin DOMAIN fed
          BY <4>1, <4>4 DEF HistoryInv, IInv, Sweeping
        <5> QED BY <4>1, <4>2, <4>4, <5>1
      <4> QED BY <4>3, <4>4
    <3> QED BY <3>2, <3>3
  <2>5. Ahead'
    BY <2>1, <2>3, <2>4 DEF Ahead
  <2>6. ASSUME phase = "write", NEW k \in CurrentKeys(table), k \notin CurrentKeys(draft')
        PROVE  Pending(k)' # {}
    <3>1. Pending(k)' = Pending(k)
      BY DEF Pending
    <3>2. CASE k \in c
      BY <2>6, <3>1, <3>2 DEF HistoryInv, IInv, Replacing
    <3>3. CASE k \notin c
      <4>1. k \notin CurrentKeys(draft)
        BY <1>2, <2>6, <3>3 DEF CurrentKeys
      <4> QED BY <2>6, <3>1, <4>1 DEF HistoryInv, Covered
    <3> QED BY <3>2, <3>3
  <2>7. Covered'
    BY <2>1, <2>6 DEF Covered
  <2> QED BY <1>3, <2>2, <2>5, <2>7
<1> QED BY <1>4, <1>5

\* Inserting rows leaves the versions that are there alone.
LEMMA InsertHistory ==
  ASSUME HistoryInv, InsertNew, IInv'
  PROVE  Transacted' /\ Superseding' /\ Ahead' /\ Covered'
<1>0. IInv /\ Ahead /\ Covered
  BY DEF HistoryInv
<1>1. PICK n \in Nat : InsertsForm(n)
  BY <1>0, InsertNewForm
<1>2. /\ draft \in Seq(Versions) /\ Len(draft) \in Nat /\ DOMAIN draft = 1..Len(draft)
      /\ table \in Seq(Versions) /\ Len(table) \in Nat /\ DOMAIN table = 1..Len(table)
      /\ Len(inserting) \in Nat /\ DOMAIN inserting = 1..Len(inserting)
      /\ n \in 0..Len(inserting) /\ DOMAIN draft' = 1..(Len(draft) + n) /\ Len(draft') = Len(draft) + n
  <2>1. draft \in Seq(Versions) /\ table \in Seq(Versions) /\ inserting \in Seq(Rows)
    BY <1>0 DEF IInv, TypeOK
  <2>2. n \in 0..Len(inserting) /\ draft' \in Seq(Versions) /\ DOMAIN draft' = 1..(Len(draft) + n)
    BY <1>1 DEF InsertsForm
  <2>3. Len(draft') = Len(draft) + n
    <3>1. Len(draft') \in Nat /\ DOMAIN draft' = 1..Len(draft') /\ Len(draft) + n \in Nat
      BY <2>1, <2>2, LenProperties
    <3> QED BY <2>2, <3>1
  <2> QED BY <2>1, <2>2, <2>3, LenProperties
<1>3. Superseding'
  BY <1>1 DEF InsertsForm, Superseding
<1>4. CASE ~AtomicWrite
  BY <1>1, <1>3, <1>4, Agreeing DEF InsertsForm, IInv
<1>5. CASE AtomicWrite
  <2>1. table' = table /\ phase = "write" /\ phase' = "write" /\ fed' = fed
        /\ \A i \in 1..Len(draft) : draft'[i] = draft[i]
    BY <1>1, <1>5 DEF InsertsForm
  <2>2. Transacted'
    BY <1>5, <2>1 DEF Transacted
  <2>3. Len(table) <= Len(draft)
    BY <1>0 DEF Ahead
  <2>4. Ahead'
    <3>1. Len(table') <= Len(draft')
      BY <1>2, <2>1, <2>3
    <3>2. \A i \in DOMAIN table : draft'[i] = draft[i]
      BY <1>2, <2>1, <2>3
    <3> QED BY <1>0, <2>1, <3>1, <3>2 DEF Ahead
  <2>5. ASSUME NEW k \in CurrentKeys(table), k \notin CurrentKeys(draft')
        PROVE  Pending(k)' # {}
    <3>1. k \notin CurrentKeys(draft)
      <4>1. DOMAIN draft \subseteq DOMAIN draft'
        BY <1>2
      <4> QED BY <1>2, <2>1, <2>5, <4>1 DEF CurrentKeys
    <3>2. PICK i \in DOMAIN inserting : inserting[i].key = k
      BY <1>0, <2>1, <2>5, <3>1 DEF Covered, Pending
    <3>3. i > n
      <4> SUFFICES ASSUME i <= n PROVE FALSE
        BY <1>2, <3>2
      <4>1. i \in 1..n /\ Len(draft) + i \in DOMAIN draft'
        BY <1>2, <3>2
      <4>2. draft'[Len(draft) + i] = [key |-> inserting[i].key, val |-> Stored(inserting[i].val), current |-> TRUE]
        BY <1>1, <4>1 DEF InsertsForm
      <4>3. draft'[Len(draft) + i].key = k /\ draft'[Len(draft) + i].current
        BY <3>2, <4>2
      <4> QED BY <2>5, <4>1, <4>3 DEF CurrentKeys
    <3>4. i - n \in 1..(Len(inserting) - n) /\ n + (i - n) = i
      BY <1>2, <3>2, <3>3
    <3>5. i - n \in DOMAIN inserting' /\ inserting'[i - n].key = k
      BY <1>1, <3>2, <3>4 DEF InsertsForm
    <3> QED BY <3>5 DEF Pending
  <2>6. Covered'
    BY <2>1, <2>5 DEF Covered
  <2> QED BY <1>3, <2>2, <2>4, <2>6
<1> QED BY <1>4, <1>5

\* A step that closes a write or a flush, or begins one, shows others what the sink's
\* connection sees.
LEMMA RestHistory ==
  ASSUME HistoryInv, Commit \/ Flush \/ SweepDone \/ Fail \/ Rerun, IInv'
  PROVE  Transacted' /\ Superseding' /\ Ahead' /\ Covered'
<1>1. phase' # "write" /\ draft' = table'
  <2>1. CASE Commit \/ SweepDone
    BY <2>1 DEF Commit, SweepDone
  <2>2. CASE Flush
    BY <2>2 DEF Flush, HistoryInv, IInv, Settled
  <2>3. CASE Fail
    BY <2>3 DEF Fail
  <2>4. CASE Rerun
    BY <2>4 DEF Rerun, HistoryInv, IInv, Settled
  <2> QED BY <2>1, <2>2, <2>3, <2>4
<1>2. Superseding'
  BY <1>1 DEF Superseding
<1> QED BY <1>1, <1>2, Agreeing DEF IInv

\* The invariant about history holds at first and is kept by every step.
LEMMA StepHistory == ASSUME Distinct, HistoryInv, [Next]_vars PROVE HistoryInv'
<1>1. IInv'
  BY StepInvariant DEF HistoryInv
<1>2. CASE \E b \in Batches : Write(b)
  <2>1. Superseding' /\ draft' = table'
    BY <1>2, WriteSupersedes DEF HistoryInv
  <2> QED BY <1>1, <2>1, Agreeing DEF HistoryInv, IInv
<1>3. CASE CloseChanged
  <2>1. PICK c \in Chunks(closing) :
          Execute(Close(draft, c), AtomicWrite) /\ closing' = closing \ c
    BY <1>3 DEF CloseChanged
  <2>2. c \in SUBSET closing
    BY ChunkSubset
  <2>3. phase = "write" /\ UNCHANGED <<phase, inserting, seen, fed, writes, runs>>
    BY <1>3 DEF CloseChanged
  <2> QED BY <1>1, <2>1, <2>2, <2>3, CloseHistory DEF HistoryInv
<1>4. CASE InsertNew
  BY <1>1, <1>4, InsertHistory DEF HistoryInv
<1>5. CASE SweepMissing
  <2>1. PICK c \in Chunks(closing) :
          Execute(Close(draft, c), AtomicSweep) /\ closing' = closing \ c
    BY <1>5 DEF SweepMissing
  <2>2. c \in SUBSET closing
    BY ChunkSubset
  <2>3. phase = "sweep" /\ UNCHANGED <<phase, inserting, seen, fed, writes, runs>>
    BY <1>5 DEF SweepMissing
  <2> QED BY <1>1, <2>1, <2>2, <2>3, CloseHistory DEF HistoryInv
<1>6. CASE Commit \/ Flush \/ SweepDone \/ Fail \/ Rerun
  BY <1>1, <1>6, RestHistory DEF HistoryInv
<1>7. CASE UNCHANGED vars
  <2>1. Transacted /\ Superseding /\ Ahead /\ Covered
    BY DEF HistoryInv
  <2>2. Transacted' /\ Ahead'
    BY <1>7, <2>1 DEF vars, Transacted, Ahead
  <2>3. Superseding'
    BY <1>7, <2>1 DEF vars, Superseding, CurrentOf
  <2>4. Covered'
    BY <1>7, <2>1 DEF vars, Covered, CurrentKeys, Pending
  <2> QED BY <1>1, <2>2, <2>3, <2>4 DEF HistoryInv
<1>8. HistoryInv' <=> IInv' /\ Transacted' /\ Superseding' /\ Ahead' /\ Covered'
  BY DEF HistoryInv
<1> QED BY <1>1, <1>8, <1>2, <1>3, <1>4, <1>5, <1>6, <1>7 DEF Next, Done

\* Others see the versions of the sink's connection as they were at the last commit, and
\* what it closed since then was superseded, or is missing from a full snapshot.
THEOREM HistoryInvariance == ASSUME Distinct PROVE Spec => []HistoryInv
<1>1. Init => HistoryInv
  <2> SUFFICES ASSUME Init PROVE HistoryInv
    OBVIOUS
  <2>1. IInv
    BY InitInvariant
  <2>2. draft = table /\ table = <<>> /\ phase = "idle"
    BY DEF Init
  <2>3. Transacted /\ Superseding /\ Covered
    BY <2>2 DEF Transacted, Superseding, Covered
  <2>4. Ahead
    <3>1. Len(table) \in Nat
      BY <2>1, LenProperties DEF IInv, TypeOK
    <3> QED BY <2>2, <3>1 DEF Ahead
  <2> QED BY <2>1, <2>3, <2>4 DEF HistoryInv
<1>2. HistoryInv /\ [Next]_vars => HistoryInv'
  BY StepHistory
<1> QED BY <1>1, <1>2, PTL DEF Spec

\* A step of the sink shows others nothing new, or what its connection sees after the
\* step, or what it saw before it.
LEMMA Shows ==
  ASSUME [Next]_vars
  PROVE  \/ table' = table
         \/ Commit \/ SweepDone
         \/ InsertNew /\ ~AtomicWrite
         \/ \E c \in SUBSET closing :
              /\ table' = Close(draft, c)
              /\ \/ CloseChanged /\ ~AtomicWrite
                 \/ SweepMissing /\ ~AtomicSweep
<1>1. CASE CloseChanged \/ SweepMissing
  BY <1>1, ChunkSubset DEF CloseChanged, SweepMissing, Execute
<1>2. CASE InsertNew
  BY <1>2 DEF InsertNew, Execute
<1>3. CASE (\E b \in Batches : Write(b)) \/ Flush \/ Fail \/ Rerun \/ UNCHANGED vars
  BY <1>3 DEF Write, Flush, Fail, Rerun, vars
<1> QED BY <1>1, <1>2, <1>3 DEF Next, Done

\* Where every value is stored as it was written, history is only appended to, and a
\* version is closed only because this run received another value for its key than the
\* version reads as or, by the sweep, none.  (A driver that stores NULL as '' finds NULL
\* changed each time, and one that does not read a value back finds that value changed.)
THEOREM HistoryIsKept ==
  ASSUME Distinct, \A v \in Values : Stored(v) = v PROVE Spec => UnchangedUntouched
<1>1. HistoryInv /\ [Next]_vars => OnlySuperseded
  <2> SUFFICES ASSUME HistoryInv, [Next]_vars PROVE OnlySuperseded
    OBVIOUS
  <2>1. /\ IInv /\ Ahead /\ Transacted
        /\ table \in Seq(Versions) /\ Len(table) \in Nat /\ DOMAIN table = 1..Len(table)
        /\ draft \in Seq(Versions) /\ Len(draft) \in Nat /\ DOMAIN draft = 1..Len(draft)
        /\ \A i \in DOMAIN table : table[i] \in Versions
    BY LenProperties, ElementOfSeq DEF HistoryInv, IInv, TypeOK
  <2>2. \A k \in DOMAIN fed : Stored(fed[k]) = fed[k]
    BY DEF HistoryInv, IInv, TypeOK
  <2>3. CASE table' = table
    BY <2>1, <2>3 DEF OnlySuperseded
  <2>4. CASE Commit \/ SweepDone
    <3>1. table' = draft
      BY <2>4 DEF Commit, SweepDone
    <3> QED BY <2>1, <2>2, <3>1 DEF Ahead, OnlySuperseded
  <2>5. CASE InsertNew /\ ~AtomicWrite
    <3>1. draft = table /\ table' = draft'
      BY <2>1, <2>5 DEF InsertNew, Execute, Transacted
    <3>2. PICK n \in Nat : InsertsForm(n)
      BY <2>1, <2>5, InsertNewForm
    <3>3. DOMAIN draft' = 1..(Len(draft) + n) /\ draft' \in Seq(Versions)
          /\ \A i \in 1..Len(draft) : draft'[i] = draft[i]
      BY <3>2 DEF InsertsForm
    <3>4. Len(table') = Len(table) + n
      <4>1. Len(draft') \in Nat /\ DOMAIN draft' = 1..Len(draft')
        BY <3>3, LenProperties
      <4> QED BY <2>1, <3>1, <3>3, <4>1
    <3> QED BY <2>1, <3>1, <3>3, <3>4 DEF OnlySuperseded
  <2>6. ASSUME NEW c \in SUBSET closing, table' = Close(draft, c),
               \/ CloseChanged /\ ~AtomicWrite
               \/ SweepMissing /\ ~AtomicSweep
        PROVE  OnlySuperseded
    <3>1. draft = table /\ phase \in {"write", "sweep"}
      BY <2>1, <2>6 DEF CloseChanged, SweepMissing, Transacted
    <3>2. Len(table') = Len(table)
      <4>1. table' \in Seq(Versions) /\ DOMAIN table' = DOMAIN table
        BY <2>1, <2>6, <3>1, CloseProps
      <4>2. Len(table') \in Nat /\ DOMAIN table' = 1..Len(table')
        BY <4>1, LenProperties
      <4> QED BY <2>1, <4>1, <4>2
    <3>3. ASSUME NEW i \in DOMAIN table, table'[i] # table[i]
          PROVE  /\ table'[i] = Closed(table[i])
                 /\ IF table[i].key \in DOMAIN fed THEN ReadBack(table[i].val) # fed[table[i].key]
                    ELSE CloseMissing /\ phase = "sweep"
      <4>0. table' = Close(table, c) /\ Close(table, c)[i] # table[i]
        BY <2>6, <3>1, <3>3
      <4>1. /\ table[i].current /\ table[i].key \in c
            /\ table'[i] = Closed(table[i])
        BY <2>1, <4>0, CloseEffect
      <4>2. CASE phase = "write"
        <5>1. i \in CurrentOf(table[i].key)
          BY <3>1, <4>1 DEF CurrentOf
        <5>2. table[i].key \in DOMAIN fed /\ ReadBack(table[i].val) # fed[table[i].key]
          BY <3>1, <4>1, <4>2, <5>1 DEF HistoryInv, Superseding
        <5> QED BY <4>1, <5>2
      <4>3. CASE phase = "sweep"
        <5>1. CloseMissing /\ table[i].key \notin DOMAIN fed
          BY <2>1, <4>1, <4>3 DEF IInv, Sweeping
        <5> QED BY <4>1, <4>3, <5>1
      <4> QED BY <3>1, <4>2, <4>3
    <3> QED BY <2>1, <2>2, <3>2, <3>3 DEF OnlySuperseded
  <2>7. CASE \E c \in SUBSET closing :
                 /\ table' = Close(draft, c)
                 /\ \/ CloseChanged /\ ~AtomicWrite
                    \/ SweepMissing /\ ~AtomicSweep
    BY <2>6, <2>7
  <2> QED BY <2>3, <2>4, <2>5, <2>7, Shows
<1>2. HistoryInv /\ [Next]_vars => [OnlySuperseded]_vars
  BY <1>1
<1> QED BY <1>2, HistoryInvariance, PTL DEF Spec, UnchangedUntouched

\* Where a write is one transaction, no reader finds a key without a current version
\* because it is being replaced.
THEOREM NoGapWhileReplacing ==
  ASSUME Distinct, AtomicWrite PROVE Spec => KeyNeverVanishes
<1>1. HistoryInv /\ [Next]_vars => OnlySwept
  <2> SUFFICES ASSUME HistoryInv, [Next]_vars, phase # "sweep" PROVE CurrentKeys(table) \subseteq CurrentKeys(table')
    BY DEF OnlySwept
  <2>1. CASE table' = table
    BY <2>1
  <2>2. CASE Commit
    <3>1. phase = "write" /\ table' = draft /\ inserting = <<>>
      BY <2>2 DEF Commit
    <3>2. \A k : Pending(k) = {}
      BY <3>1 DEF Pending
    <3> QED BY <3>1, <3>2 DEF HistoryInv, Covered
  <2>3. ~(\E c \in SUBSET closing :
             /\ table' = Close(draft, c)
             /\ \/ CloseChanged /\ ~AtomicWrite
                \/ SweepMissing /\ ~AtomicSweep)
    BY DEF SweepMissing
  <2>4. ~SweepDone
    BY DEF SweepDone
  <2> QED BY <2>1, <2>2, <2>3, <2>4, Shows
<1>2. HistoryInv /\ [Next]_vars => [OnlySwept]_vars
  BY <1>1
<1> QED BY <1>2, HistoryInvariance, PTL DEF Spec, KeyNeverVanishes
=============================================================================
