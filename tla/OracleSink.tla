------------------------------ MODULE OracleSink ------------------------------
(* WriterState (drivers/oracle/src/sink.rs): the connection of the writer thread.  A *)
(* DDL statement commits by itself; the first INSERT or MERGE after a commit opens  *)
(* the transaction.  "oracle_direct" is the option direct_path, which applies to    *)
(* plain inserts.                                                                   *)
EXTENDS SqlTarget

OraDirect(c) == c.driver = "oracle_direct" /\ c.strategy \notin Keyed
OraStaged(c) == c.driver = "oracle" /\ c.staged /\ c.strategy \in {"upsert", "merge_delete"}

OraPrepare(c) ==
  ModeDdl(c.mode, "auto") \o (IF Truncates(c) THEN <<Truncate("auto")>> ELSE <<>>)

OraOpen(o) == IF "run" \in o THEN <<>> ELSE <<Begin("run")>>

\* The staging table is dropped, created like the target and filled; nothing is merged yet.
OraStage(s, o, b) ==
  (IF s.staged = <<>> THEN <<Clone("auto")>> ELSE <<>>) \o OraOpen(o) \o <<Stage("run", b)>>

\* Array inserts or merges by chunk, and the deletes of merge_delete for each 999 keys of
\* the batch.  direct_path commits after every chunk.
OraRows(c, o, b) ==
  CASE OraDirect(c)                  -> InsertEach("auto", b, Chunk, PlainHow(c))
    [] c.strategy = "merge_delete"   ->
         OraOpen(o) \o InsertEach("run", b, Chunk, "update") \o KeepEach("run", b, Chunk)
    [] c.strategy = "upsert"         -> OraOpen(o) \o InsertEach("run", b, Chunk, "update")
    [] c.strategy = "insert_ignore"  -> OraOpen(o) \o InsertEach("run", b, Chunk, "ignore")
    [] OTHER                         -> OraOpen(o) \o InsertEach("run", b, Chunk, PlainHow(c))

\* handle_write_batch
OraWrite(c, s, o, b) ==
  (IF s.prepared THEN <<>> ELSE OraPrepare(c))
    \o (IF OraStaged(c) THEN OraStage(s, o, b) ELSE OraRows(c, o, b))

OraAfterWrite(c, s, b) ==
  [s EXCEPT !.prepared = TRUE, !.staged = IF OraStaged(c) THEN @ \o b ELSE @]

\* A mutant: the MERGE updates every row it finds.
OraFlushAll(s, o) ==
  (IF s.staged # <<>> THEN <<Insert("run", s.staged, "update")>> ELSE <<>>)
    \o (IF "run" \in o THEN <<Commit("run")>> ELSE <<>>)

\* do_commit: the MERGE of the staging table, whose DROP commits, or COMMIT.  The MERGE
\* updates a row only where a column differs, and does not look at LOBs; a table that has
\* nothing but LOBs beside its key, where it updates every row, is not one of these.
OraFlush(s, o) ==
  (IF s.staged # <<>> THEN <<Insert("run", s.staged, "changed")>> ELSE <<>>)
    \o (IF "run" \in o THEN <<Commit("run")>> ELSE <<>>)
=============================================================================
