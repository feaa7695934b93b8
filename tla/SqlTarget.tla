------------------------------ MODULE SqlTarget ------------------------------
(***************************************************************************)
(* What the sinks of write_db know of a target table, and the statements   *)
(* they send to it (TableMode and WriteStrategy of common/src/db/mod.rs).  *)
(*                                                                         *)
(* A row is a key, the values of the primary key columns, and one value    *)
(* for all other columns.  A table holds each row a number of times; with  *)
(* a primary key, whatever the strategy, a key occurs at most once.        *)
(* A statement names the session it runs in:                               *)
(*   "run"     the sink's own connection, from the first batch to flush    *)
(*   "batch"   a pooled connection with a transaction for one batch        *)
(*   "stream"  a pooled connection that holds one COPY open                *)
(*   "auto"    any connection, in autocommit mode                          *)
(***************************************************************************)
EXTENDS Naturals, Sequences, FiniteSets

CONSTANTS
  Keys,       \* the values of the primary key
  Values,     \* the values of the other columns
  Compared,   \* what a MERGE that looks for changes sees of each: all columns but the LOBs
  Chunk,      \* the rows of one statement
  Threshold,  \* the rows buffered before a bulk insert (SQL Server)
  Batches     \* the batches that may arrive, sequences of rows

ASSUME TargetAssumption ==
  /\ DOMAIN Compared = Values
  /\ Chunk \in Nat \ {0}
  /\ Threshold \in Nat \ {0}
  /\ Batches \subseteq Seq([key : Keys, val : Values]) \ {<<>>}

Modes      == {"use_existing", "create_if_not_exists", "drop_and_replace"}
Strategies == {"append", "insert_ignore", "upsert", "merge_delete", "truncate"}

\* The strategies that refuse a schema without a primary key.
Keyed == {"insert_ignore", "upsert", "merge_delete"}

Rows     == [key : Keys, val : Values]
NoRows   == [r \in Rows |-> 0]
Tables   == [exists : BOOLEAN, rows : [Rows -> Nat]]
Missing  == [exists |-> FALSE, rows |-> NoRows]
NewTable == [exists |-> TRUE, rows |-> NoRows]

Sessions == {"run", "batch", "stream", "auto"}

KeysOf(b)     == {b[i].key : i \in DOMAIN b}
RowsOf(b)     == {b[i] : i \in DOMAIN b}
Occurs(b, r)  == Cardinality({i \in DOMAIN b : b[i] = r})
Has(rows, k)  == \E v \in Values : rows[[key |-> k, val |-> v]] > 0
Repeated(b)   == {k \in Keys : \E i, j \in DOMAIN b : i # j /\ b[i].key = k /\ b[j].key = k}

\* The table has no row that a comparison takes for this one.
Differs(rows, r) ==
  ~\E v \in Values : rows[[key |-> r.key, val |-> v]] > 0 /\ Compared[v] = Compared[r.val]

-----------------------------------------------------------------------------
\* The effects of the statements on the rows of the table.
Appended(rows, b) == [r \in Rows |-> rows[r] + Occurs(b, r)]

Ignored(rows, b) ==
  [r \in Rows |-> IF r \in RowsOf(b) /\ ~Has(rows, r.key) THEN 1 ELSE rows[r]]

Updated(rows, b) ==
  [r \in Rows |-> IF r.key \in KeysOf(b) THEN Occurs(b, r) ELSE rows[r]]

\* A MERGE that updates a row WHERE it differs: of the rows in S those that differ are new,
\* or replace the one with their key.
Changed(rows, S) ==
  LET new == {r \in S : Differs(rows, r)}
  IN  [r \in Rows |-> IF r \in new THEN 1
                      ELSE IF \E x \in new : x.key = r.key THEN 0 ELSE rows[r]]

Kept(rows, ks) == [r \in Rows |-> IF r.key \in ks THEN rows[r] ELSE 0]

Stmt(op, on, b, how) == [op |-> op, on |-> on, rows |-> b, how |-> how]

Begin(on)          == Stmt("begin", on, <<>>, "")
Commit(on)         == Stmt("commit", on, <<>>, "")
Drop(on)           == Stmt("drop", on, <<>>, "")
Create(on)         == Stmt("create", on, <<>>, "")
Truncate(on)       == Stmt("truncate", on, <<>>, "")
Insert(on, b, how) == Stmt("insert", on, b, how)
Keep(on, b)        == Stmt("keep", on, b, "")       \* DELETE ... WHERE key NOT IN (...)
Stage(on, b)       == Stmt("stage", on, b, "")      \* rows into the staging table
Clone(on)          == Stmt("clone", on, <<>>, "")   \* a staging table like the target
Bulk(on, b)        == Stmt("bulk", on, b, "append") \* ODBC insert with a fallback

Hows == {"append", "unique", "ignore", "update", "changed", "mirror"}
Ops  == {"begin", "commit", "drop", "create", "truncate", "insert", "keep", "stage", "clone", "bulk"}

Statements ==
  {st \in [op : Ops, on : Sessions, rows : Seq(Rows), how : Hows \cup {""}] :
     st.op = "insert" => st.how \in Hows}

\* The statements that fail without a table.
NeedsTable(st) == st.op \in {"truncate", "insert", "keep", "clone", "bulk"}
Changes(st)    == st.op \in {"drop", "create", "truncate", "insert", "keep", "bulk"}

\* What the database refuses: a second row for a primary key, and a merge that would
\* touch a row twice.
Refused(st, rows) ==
  /\ st.op = "insert"
  /\ \/ st.how = "unique" /\ (Repeated(st.rows) # {} \/ \E k \in KeysOf(st.rows) : Has(rows, k))
     \/ st.how = "ignore" /\ \E k \in Repeated(st.rows) : ~Has(rows, k)
     \/ st.how \in {"update", "mirror"} /\ Repeated(st.rows) # {}
     \/ st.how = "changed" /\ \E i, j \in DOMAIN st.rows :
          /\ i # j /\ st.rows[i].key = st.rows[j].key
          /\ Differs(rows, st.rows[i]) /\ Differs(rows, st.rows[j])

InsertEffect(rows, b, how) ==
  CASE how \in {"append", "unique"} -> Appended(rows, b)
    [] how = "ignore"               -> Ignored(rows, b)
    [] how = "update"               -> Updated(rows, b)
    [] how = "changed"              -> Changed(rows, RowsOf(b))
    [] how = "mirror"               -> Kept(Updated(rows, b), KeysOf(b))

Effect(st, t) ==
  CASE st.op = "drop"     -> Missing
    [] st.op = "create"   -> IF t.exists THEN t ELSE NewTable
    [] st.op = "truncate" -> [t EXCEPT !.rows = NoRows]
    [] st.op = "insert"   -> [t EXCEPT !.rows = InsertEffect(@, st.rows, st.how)]
    [] st.op = "keep"     -> [t EXCEPT !.rows = Kept(@, KeysOf(st.rows))]
    [] OTHER              -> t

-----------------------------------------------------------------------------
\* The drivers' ways of loading; the first five know a staging table.
Staging == {"postgres", "oracle", "tiberius", "odbc", "bcp"}
Drivers == Staging \cup {"oracle_direct", "mysql", "databricks", "databricks_odbc"}

\* pk: a key can occur once only.  The databases enforce the primary key of the table, which
\* CREATE TABLE takes from the schema, whatever the strategy; Databricks enforces none, and
\* there only the merges by key see to it.
Configs ==
  {c \in [driver : Drivers, mode : Modes, strategy : Strategies, staged : BOOLEAN, pk : BOOLEAN] :
     /\ c.staged => c.driver \in Staging
     /\ c.strategy \in Keyed => c.pk
     /\ c.driver \in {"databricks", "databricks_odbc"} /\ c.pk => c.strategy \in Keyed}

\* Rows that are only inserted: append fails on a key that is there.
PlainHow(c) == IF c.pk THEN "unique" ELSE "append"

\* What a sink keeps between two calls: table_prepared, the rows it buffers, those in its
\* staging table, those whose keys were seen, the connection with the staging table.
Idle == [prepared |-> FALSE, buffer |-> <<>>, staged |-> <<>>, seen |-> <<>>, home |-> 0]

Pieces(b, n) ==
  [i \in 1 .. (Len(b) + n - 1) \div n |->
     SubSeq(b, (i - 1) * n + 1, IF i * n < Len(b) THEN i * n ELSE Len(b))]

\* One statement for each chunk.
InsertEach(on, b, n, how) == LET p == Pieces(b, n) IN [i \in DOMAIN p |-> Insert(on, p[i], how)]
KeepEach(on, b, n)        == LET p == Pieces(b, n) IN [i \in DOMAIN p |-> Keep(on, p[i])]

\* A mutant: create_if_not_exists treated like drop_and_replace
ModeDdlAlwaysDrop(mode, on) == IF mode = "use_existing" THEN <<>> ELSE <<Drop(on), Create(on)>>

\* CREATE TABLE or DROP TABLE and CREATE TABLE, by table mode.
ModeDdl(mode, on) ==
  CASE mode = "use_existing"         -> <<>>
    [] mode = "create_if_not_exists" -> <<Create(on)>>
    [] mode = "drop_and_replace"     -> <<Drop(on), Create(on)>>

Truncates(c) == c.strategy = "truncate" /\ c.mode # "drop_and_replace"
=============================================================================
