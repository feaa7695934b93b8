-------------------------------- MODULE RowJoin --------------------------------
(***************************************************************************)
(* The join step: the right side is read whole into a hash map from its    *)
(* non-NULL keys to row numbers; the left side streams past it batch by    *)
(* batch. A row is a function from column names to values, "k" the key on  *)
(* both sides, "v" a column both sides have, "l" and "r" columns of one.   *)
(***************************************************************************)
EXTENDS ArrowValues, SequencesExt

LeftColumns  == {"k", "v", "l"}
RightColumns == {"k", "v", "r"}

\* The rows of all right batches, the map and the rows whose key is NULL; "columns"
\* is empty when no batch came, so that not even the schema is known.
BuildRightHashMap(batches) ==
  LET right == FlattenSeq(batches)
      at(key) == {i \in DOMAIN right : right[i].k = key}
  IN  [right     |-> right,
       columns   |-> IF batches = <<>> THEN {} ELSE RightColumns,
       map       |-> [key \in {right[i].k : i \in DOMAIN right} \ {Null} |->
                        SetToSortSeq(at(key), <)],
       null_rows |-> SetToSortSeq(at(Null), <)]

\* Of the columns of both sides the right value wins on matched rows.
Combine(l, right_map, r) ==
  [c \in LeftColumns \cup right_map.columns |->
     IF c = "k" \/ c \notin right_map.columns \/ (r = 0 /\ c \in LeftColumns) THEN l[c]
     ELSE IF r = 0 THEN Null
     ELSE right_map.right[r][c]]

Matches(l, right_map) ==
  IF l.k \in DOMAIN right_map.map THEN right_map.map[l.k] ELSE <<>>

ProbeLeftBatch(batch, right_map, how) ==
  FlattenSeq([i \in DOMAIN batch |->
    LET l == batch[i]  rows == Matches(l, right_map)
    IN  IF rows # <<>> THEN [j \in DOMAIN rows |-> Combine(l, right_map, rows[j])]
        ELSE IF how \in {"left", "full"} THEN <<Combine(l, right_map, 0)>>
        ELSE <<>>])

MatchedKeysOfLast(lefts, right_map) ==
  IF lefts = <<>> THEN {}
  ELSE {lefts[Len(lefts)][i].k : i \in DOMAIN lefts[Len(lefts)]} \cap DOMAIN right_map.map

\* The keys a full join remembers as matched, over all left batches.
MatchedKeys(lefts, right_map) ==
  {l.k : l \in UNION {ToSet(lefts[b]) : b \in DOMAIN lefts}} \cap DOMAIN right_map.map

\* Right rows whose key was never matched in their order, then those with a NULL key;
\* the columns only the left has are NULL.
EmitUnmatchedRight(right_map, matched) ==
  LET never == {i \in DOMAIN right_map.right :
                  right_map.right[i].k \in DOMAIN right_map.map \ matched}
      rows  == SetToSortSeq(never, <) \o right_map.null_rows
  IN  [j \in DOMAIN rows |->
         [c \in LeftColumns \cup right_map.columns |->
            IF c \in RightColumns THEN right_map.right[rows[j]][c] ELSE Null]]

\* The step: an inner join of nothing reads the left side without looking at it, and a
\* full join learns the schema of the unmatched rows from its first batch of output.
JoinStep(lefts, rights, how) ==
  IF rights = <<>> /\ how = "inner" THEN <<>>
  ELSE LET right_map == BuildRightHashMap(rights)
           probed    == SelectSeq([b \in DOMAIN lefts |->
                                     ProbeLeftBatch(lefts[b], right_map, how)],
                                  LAMBDA out : out # <<>>)
           unmatched == EmitUnmatchedRight(right_map, MatchedKeys(lefts, right_map))
       IN  IF how = "full" /\ probed # <<>> /\ unmatched # <<>>
           THEN Append(probed, unmatched) ELSE probed

-----------------------------------------------------------------------------
CONSTANTS JoinKeys, MaxLeft, MaxRight

\* Left rows and right rows told apart by their numbers, cut into batches anywhere.
RowsOf(n, side) ==
  {[i \in 1..n |-> [c \in {"k", "v", side} |->
      IF c = "k" THEN keys[i] ELSE IF c = side THEN i ELSE IF side = "l" THEN -i ELSE 100 + i]] :
   keys \in [1..n -> JoinKeys \cup {Null}]}

Cuts(rows) ==
  IF rows = <<>> THEN {<<>>, <<rows>>}
  ELSE {<<SubSeq(rows, 1, n), SubSeq(rows, n + 1, Len(rows))>> : n \in 1..(Len(rows) - 1)}
         \cup {<<rows>>}

JoinCases ==
  [algo : {"join"}, how : {"inner", "left", "full"},
   lefts : UNION {Cuts(rows) : rows \in UNION {RowsOf(n, "l") : n \in 0..MaxLeft}},
   rights : UNION {Cuts(rows) : rows \in UNION {RowsOf(n, "r") : n \in 0..MaxRight}}]

\* SQL's answer, without a map. Every row has a number, so that no two are equal.
SqlJoin(c) ==
  LET L == ToSet(FlattenSeq(c.lefts))   R == ToSet(FlattenSeq(c.rights))
      right == IF c.rights = <<>> THEN {} ELSE RightColumns
      pairs == {p \in L \X R : p[1].k # Null /\ p[1].k = p[2].k}
      lonelyLeft  == IF c.how = "inner" THEN {} ELSE {l \in L : \A p \in pairs : p[1] # l}
      lonelyRight == IF c.how = "full" THEN {r \in R : \A p \in pairs : p[2] # r} ELSE {}
  IN  {[x \in LeftColumns \cup right |-> IF x \in right THEN p[2][x] ELSE p[1][x]] : p \in pairs}
        \cup {[x \in LeftColumns \cup right |-> IF x \in LeftColumns THEN l[x] ELSE Null] :
              l \in lonelyLeft}
        \cup {[x \in LeftColumns \cup right |-> IF x \in right THEN r[x] ELSE Null] :
              r \in lonelyRight}

\* However the two sides are cut into batches, the step emits the rows of SQL's join,
\* each once: NULL keys match nothing, and what matched in one batch is not reported as
\* unmatched at the end. A full join needs one left row for that: without one it has no
\* schema for the right rows and emits nothing (dag/mod.rs 2509).
JoinIsSql(c) ==
  LET out == FlattenSeq(JoinStep(c.lefts, c.rights, c.how))
  IN  \/ c.how = "full" /\ FlattenSeq(c.lefts) = <<>>
      \/ ToSet(out) = SqlJoin(c) /\ Len(out) = Cardinality(SqlJoin(c))
=============================================================================
