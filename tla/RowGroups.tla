------------------------------- MODULE RowGroups -------------------------------
(***************************************************************************)
(* The aggregate step: all batches are kept, the rows grouped by their     *)
(* columns as texts, and each metric computed per group. A row has a group *)
(* column "g" and a value column "x" of one type for the whole input.      *)
(***************************************************************************)
EXTENDS ArrowValues, SequencesExt, FiniteSetsExt

MetricFunctions == {"sum", "count", "countcol", "min", "max", "avg", "first"}

\* KeyPart: NULL is a group of its own, not the empty text.
GroupKey(row) == IF row.g = Null THEN <<"null">> ELSE <<"value", row.g>>

\* The keys in the order in which they first appear.
GroupKeys(rows) ==
  LET first(i) == \A j \in 1..(i - 1) : GroupKey(rows[j]) # GroupKey(rows[i])
  IN  [n \in 1..Cardinality({i \in DOMAIN rows : first(i)}) |->
         GroupKey(rows[SetToSortSeq({i \in DOMAIN rows : first(i)}, <)[n]])]

NonNull(rows) == SelectSeq(rows, LAMBDA row : row.x # Null)
Values(rows)  == [i \in DOMAIN NonNull(rows) |-> NonNull(rows)[i].x]

\* agg_min_max keeps the better of two in a scan. Int64 compares as it is; the other
\* number types through Float64; every other type, decimals among them, as text.
Better(type, new, cur, want_max) ==
  LET less(a, b) == IF type = "number" THEN a < b ELSE Rank(Written[a]) < Rank(Written[b])
  IN  IF want_max THEN (IF less(cur, new) THEN new ELSE cur)
      ELSE (IF less(new, cur) THEN new ELSE cur)

AggMinMax(type, rows, want_max) ==
  LET vals == Values(rows)
  IN  IF vals = <<>> THEN Null
      ELSE FoldLeft(LAMBDA cur, v : Better(type, v, cur, want_max), Head(vals), Tail(vals))

Total(rows) == FoldLeft(LAMBDA acc, v : acc + v, 0, Values(rows))

\* An average is kept as its sum and count.
ComputeMetric(func, type, rows) ==
  CASE func = "count"    -> Len(rows)
    [] func = "countcol" -> Len(NonNull(rows))
    [] func = "sum"      -> Total(rows)
    [] func = "avg"      -> IF NonNull(rows) = <<>> THEN Null
                            ELSE <<Total(rows), Len(NonNull(rows))>>
    [] func = "min"      -> AggMinMax(type, rows, FALSE)
    [] func = "max"      -> AggMinMax(type, rows, TRUE)
    [] func = "first"    -> IF NonNull(rows) = <<>> THEN Null ELSE Head(Values(rows))

ComputeAggRow(key, metrics, type, rows) ==
  [key |-> key, metric |-> [f \in metrics |-> ComputeMetric(f, type, rows)]]

\* No batch gives no row, grouped or not; an empty batch gives one row when ungrouped.
ApplyAggregate(batches, grouped, metrics, type) ==
  LET all == FlattenSeq(batches)
  IN  IF batches = <<>> THEN <<>>
      ELSE IF ~grouped THEN <<ComputeAggRow(<<>>, metrics, type, all)>>
      ELSE [n \in DOMAIN GroupKeys(all) |->
              ComputeAggRow(GroupKeys(all)[n], metrics, type,
                            SelectSeq(all, LAMBDA row : GroupKey(row) = GroupKeys(all)[n]))]

-----------------------------------------------------------------------------
CONSTANTS GroupNames, GroupValues, MaxRows

GroupCases ==
  [algo : {"aggregate"}, grouped : BOOLEAN, type : {"number", "decimal"},
   rows : UNION {[1..n -> [g : GroupNames \cup {Null}, x : GroupValues \cup {Null}]] :
                 n \in 0..MaxRows},
   cut : 0..1]

\* All rows in one batch, or the first in one of its own; no rows in an empty batch or in none.
Batches(c) ==
  CASE c.cut = 0 -> <<c.rows>>
    [] c.cut = 1 /\ c.rows = <<>> -> <<>>
    [] OTHER -> <<SubSeq(c.rows, 1, 1), Tail(c.rows)>>

\* Each group appears once, in the order of its first row, NULL and the empty text apart;
\* its counts, sum, average and bounds are those of exactly its rows that have a value.
\* Three things are not as in SQL: without a value the sum is 0 and not NULL (aggregate.rs
\* 193); the bounds of decimals are bounds of their texts, and only some value of the group
\* is asked for (aggregate.rs 300); and no batch at all gives no row, not even for a global
\* count, while an empty batch does (aggregate.rs 91).
GroupsAreOfTheirRows(c) ==
  LET out == ApplyAggregate(Batches(c), c.grouped, MetricFunctions, c.type)
      rowsOf(n) == {i \in DOMAIN c.rows : ~c.grouped \/ GroupKey(c.rows[i]) = out[n].key}
      filled(n) == {i \in rowsOf(n) : c.rows[i].x # Null}
      metric(n) == out[n].metric
      sum(S) == MapThenSumSet(LAMBDA i : c.rows[i].x, S)
  IN  /\ c.grouped =>
           /\ \A i, j \in DOMAIN c.rows :
                (c.rows[i].g = c.rows[j].g) <=>
                  (\E n \in DOMAIN out : {i, j} \subseteq rowsOf(n))
           /\ \A n \in 1..(Len(out) - 1) : Min(rowsOf(n)) < Min(rowsOf(n + 1))
      /\ ~c.grouped => Len(out) = IF Batches(c) = <<>> THEN 0 ELSE 1
      /\ \A n \in DOMAIN out :
           /\ metric(n)["count"] = Cardinality(rowsOf(n))
           /\ metric(n)["countcol"] = Cardinality(filled(n))
           /\ metric(n)["sum"] = sum(filled(n))
           /\ metric(n)["avg"] = IF filled(n) = {} THEN Null ELSE <<sum(filled(n)), Cardinality(filled(n))>>
           /\ \A f \in {"min", "max", "first"} :
                IF filled(n) = {} THEN metric(n)[f] = Null
                ELSE \E i \in filled(n) :
                       /\ metric(n)[f] = c.rows[i].x
                       /\ f = "first" => i = Min(filled(n))
                       /\ c.type = "number" => \A j \in filled(n) :
                            /\ f = "min" => metric(n)[f] <= c.rows[j].x
                            /\ f = "max" => metric(n)[f] >= c.rows[j].x
=============================================================================
