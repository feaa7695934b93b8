---------------------------- MODULE DatabricksSink ----------------------------
(* The Databricks sinks: DatabricksApiSink and DatabricksThriftSink ("databricks")  *)
(* and DatabricksOdbcSink ("databricks_odbc").  A Delta table commits each          *)
(* statement by itself.                                                             *)
EXTENDS SqlTarget

DbxPrepare(c) ==
  ModeDdl(c.mode, "auto") \o (IF Truncates(c) THEN <<Truncate("auto")>> ELSE <<>>)

\* build_delta_merge: for merge_delete the MERGE of each chunk deletes what its chunk lacks.
DbxHow(c) ==
  CASE c.strategy \in {"append", "truncate"} -> "append"
    [] c.strategy = "insert_ignore"          -> "ignore"
    [] c.strategy = "upsert"                 -> "update"
    [] c.strategy = "merge_delete"           -> "mirror"

\* INSERT or MERGE statements of at most 500 rows
DbxRows(c, b) == InsertEach("auto", b, Chunk, DbxHow(c))

\* can_use_odbc_insert
DbxOdbc(c) == c.driver = "databricks_odbc" /\ c.strategy \in {"append", "truncate"}

\* When the ODBC insert fails, write_rest_insert sends the whole batch again.
DbxFallback(b) == InsertEach("auto", b, Chunk, "append")

DbxWrite(c, s, b) ==
  (IF s.prepared THEN <<>> ELSE DbxPrepare(c))
    \o (IF DbxOdbc(c) THEN <<Bulk("auto", b)>> ELSE DbxRows(c, b))

DbxAfterWrite(s) == [s EXCEPT !.prepared = TRUE]
DbxFlush == <<>>
=============================================================================
