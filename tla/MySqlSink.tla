------------------------------ MODULE MySqlSink ------------------------------
(* MySqlWriteDB (drivers/mysql/src/sink.rs): every statement in autocommit mode.   *)
EXTENDS SqlTarget

\* The DDL of the first batch, then TRUNCATE
MyPrepare(c) ==
  ModeDdl(c.mode, "auto") \o (IF Truncates(c) THEN <<Truncate("auto")>> ELSE <<>>)

MyHow(c) ==
  CASE c.strategy \in {"append", "truncate"}     -> PlainHow(c)
    [] c.strategy = "insert_ignore"              -> "ignore"
    [] c.strategy \in {"upsert", "merge_delete"} -> "update"

\* One INSERT per chunk; merge_delete then deletes, for each chunk of this batch, the rows
\* whose key is not in the chunk.
MyRows(c, b) ==
  InsertEach("auto", b, Chunk, MyHow(c))
    \o (IF c.strategy = "merge_delete" THEN KeepEach("auto", b, Chunk) ELSE <<>>)

MyWrite(c, s, b) == (IF s.prepared THEN <<>> ELSE MyPrepare(c)) \o MyRows(c, b)
MyAfterWrite(s)  == [s EXCEPT !.prepared = TRUE]

\* flush_impl only closes the pool.
MyFlush == <<>>
=============================================================================
