------------------------------ MODULE MssqlSink ------------------------------
(* MssqlWriteDB (drivers/mssql/src/sink.rs, bcp.rs, odbc.rs) with its three ways of *)
(* loading: "tiberius" (INSERT BULK), "odbc" and "bcp" (a subprocess with a         *)
(* connection of its own).                                                          *)
EXTENDS SqlTarget

\* Whether this load goes through a staging table: #etl_bulk_stage, #etl_odbc_stage or,
\* for bcp, a permanent table with a random name.
MsStaged(c) == c.staged

\* The statement that takes the staged rows over: staging_merge_sql, merge_sql, ...
MsHow(c) ==
  CASE c.strategy = "insert_ignore" -> "ignore"
    [] c.strategy = "upsert"        -> "update"
    [] c.strategy = "merge_delete"  -> "mirror"
    [] OTHER                        -> PlainHow(c)

\* A bulk insert straight into the target, whose primary key knows no conflict handling
MsDirect(c) == PlainHow(c)

\* A mutant: the transaction begins after the DDL of the first batch.
TibPrepareLate(c) ==
  ModeDdl(c.mode, "auto")
    \o (IF Truncates(c) THEN <<Truncate("auto")>> ELSE <<>>) \o <<Begin("run")>>

\* tiberius: BEGIN TRANSACTION comes before the DDL of the first batch.
TibPrepare(c) ==
  <<Begin("run")>> \o ModeDdl(c.mode, "run")
    \o (IF Truncates(c) THEN <<Truncate("run")>> ELSE <<>>)

\* The buffered rows, into the staging table or the target
TibDrain(c, rows) ==
  IF rows = <<>> THEN <<>>
  ELSE IF MsStaged(c) THEN <<Stage("run", rows)>> ELSE <<Insert("run", rows, MsDirect(c))>>

\* odbc: DDL and TRUNCATE come before BEGIN TRANSACTION.
OdbcPrepare(c) ==
  ModeDdl(c.mode, "auto")
    \o (IF Truncates(c) THEN <<Truncate("auto")>> ELSE <<>>)
    \o <<Begin("run")>>

\* bulk_insert_batch
OdbcInsert(c, b) ==
  IF MsStaged(c) THEN <<Stage("run", b)>> ELSE InsertEach("run", b, Threshold, MsDirect(c))

\* bcp: the TRUNCATE is left out with a staging table, and staging_ddl follows.
BcpPrepare(c) ==
  ModeDdl(c.mode, "auto")
    \o (IF c.strategy = "truncate" /\ ~MsStaged(c) THEN <<Truncate("auto")>> ELSE <<>>)
    \o (IF MsStaged(c) THEN <<Stage("auto", <<>>)>> ELSE <<>>)

\* flush_buffer: one invocation, which commits every -b rows
BcpInvoke(c, rows) ==
  IF rows = <<>> THEN <<>>
  ELSE IF MsStaged(c) THEN <<Stage("auto", rows)>>
  ELSE InsertEach("auto", rows, Threshold, MsDirect(c))

\* tiberius and bcp buffer rows until they have Threshold of them; odbc does not.
Buffers(c) == c.driver \in {"tiberius", "bcp"}
Full(c, s, b) == Len(s.buffer \o b) >= Threshold

MsPrepare(c) ==
  CASE c.driver = "tiberius" -> TibPrepare(c)
    [] c.driver = "odbc"     -> OdbcPrepare(c)
    [] c.driver = "bcp"      -> BcpPrepare(c)

MsDrain(c, rows) ==
  CASE c.driver = "tiberius" -> TibDrain(c, rows)
    [] c.driver = "odbc"     -> OdbcInsert(c, rows)
    [] c.driver = "bcp"      -> BcpInvoke(c, rows)

\* write_impl and write_impl_odbc
MsWrite(c, s, b) ==
  (IF s.prepared THEN <<>> ELSE MsPrepare(c))
    \o (IF ~Buffers(c) THEN MsDrain(c, b)
        ELSE IF Full(c, s, b) THEN MsDrain(c, s.buffer \o b) ELSE <<>>)

\* A mutant: the buffer is not emptied when it is sent.
MsAfterWriteKeepsBuffer(c, s, b) ==
  LET sent == IF ~Buffers(c) THEN b ELSE IF Full(c, s, b) THEN s.buffer \o b ELSE <<>>
  IN  [s EXCEPT !.prepared = TRUE,
                !.buffer   = IF Buffers(c) THEN @ \o b ELSE <<>>,
                !.staged   = IF MsStaged(c) THEN @ \o sent ELSE <<>>]

MsAfterWrite(c, s, b) ==
  LET sent == IF ~Buffers(c) THEN b ELSE IF Full(c, s, b) THEN s.buffer \o b ELSE <<>>
  IN  [s EXCEPT !.prepared = TRUE,
                !.buffer   = IF Buffers(c) /\ ~Full(c, s, b) THEN @ \o b ELSE <<>>,
                !.staged   = IF MsStaged(c) THEN @ \o sent ELSE <<>>]

\* flush_all: the rest of the buffer, the staged rows, COMMIT; with bcp the transaction
\* is only around the staged rows.
MsFlush(c, s) ==
  IF ~s.prepared THEN <<>>
  ELSE (IF Buffers(c) THEN MsDrain(c, s.buffer) ELSE <<>>)
         \o (IF c.driver = "bcp" /\ MsStaged(c) THEN <<Begin("run")>> ELSE <<>>)
         \o (IF MsStaged(c) THEN <<Insert("run", s.staged \o s.buffer, MsHow(c))>> ELSE <<>>)
         \o (IF c.driver # "bcp" \/ MsStaged(c) THEN <<Commit("run")>> ELSE <<>>)
=============================================================================
