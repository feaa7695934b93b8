----------------------------- MODULE PostgresSink -----------------------------
(* PgWriteDB (drivers/postgres/src/sink.rs): the statements of write_impl and       *)
(* flush_impl, in their order.  o is the set of open transactions, s the sink.      *)
EXTENDS SqlTarget

\* The long-lived transaction of ensure_table.
PgRunTxn(c) == c.mode = "drop_and_replace" \/ c.strategy = "truncate"

\* InsertPlan::compile: the ON CONFLICT clause
PgHow(c) == IF c.strategy = "insert_ignore" THEN "ignore" ELSE "update"

\* A mutant: CREATE TABLE IF NOT EXISTS inside the long-lived transaction as well
PgPrepareInTxn(c) ==
  IF c.mode = "use_existing" THEN <<>> ELSE <<Begin("run")>> \o ModeDdl(c.mode, "run")

\* ensure_table: CREATE TABLE IF NOT EXISTS goes to the pool, everything else opens the
\* transaction that flush commits.
PgPrepare(c) ==
  (IF c.mode = "drop_and_replace" THEN <<Begin("run")>> \o ModeDdl(c.mode, "run")
   ELSE ModeDdl(c.mode, "auto"))
    \o (IF Truncates(c) THEN <<Begin("run"), Truncate("run")>> ELSE <<>>)

\* COPY: one per batch inside the transaction, else one for the whole run, which may report
\* a row it refuses only later, at the latest at its end
PgCopy(c, o, b) ==
  IF PgRunTxn(c) THEN <<Insert("run", b, PlainHow(c))>>
  ELSE (IF "stream" \in o THEN <<>> ELSE <<Begin("stream")>>) \o <<Insert("stream", b, PlainHow(c))>>

\* The staging table, a temporary one: COPY into it and merge
PgStagedMerge(c, b) ==
  <<Begin("batch"), Stage("batch", b), Insert("batch", b, PgHow(c)), Commit("batch")>>

\* A mutant: the chunks of a batch in autocommit mode
PgInsertPlanAuto(c, b) == InsertEach("auto", b, Chunk, PgHow(c))

\* execute_insert_plan: the chunks of a batch in one transaction
PgInsertPlan(c, b) ==
  <<Begin("batch")>> \o InsertEach("batch", b, Chunk, PgHow(c)) \o <<Commit("batch")>>

PgWrite(c, s, o, b) ==
  (IF s.prepared THEN <<>> ELSE PgPrepare(c))
    \o (IF c.strategy \notin Keyed THEN PgCopy(c, o, b)
        ELSE IF c.staged THEN PgStagedMerge(c, b) ELSE PgInsertPlan(c, b))

\* The keys a mirror will not delete
PgSeen(c, s, b) == IF c.strategy = "merge_delete" THEN s.seen \o b ELSE <<>>

PgAfterWrite(c, s, b) == [s EXCEPT !.prepared = TRUE, !.seen = PgSeen(c, s, b)]

\* flush_impl: the end of the COPY, the DELETE of absent keys, through the pool, and the
\* long-lived transaction
PgFlush(c, s, o) ==
  (IF "stream" \in o THEN <<Commit("stream")>> ELSE <<>>)
    \o (IF s.seen # <<>> THEN <<Keep("auto", s.seen)>> ELSE <<>>)
    \o (IF "run" \in o THEN <<Commit("run")>> ELSE <<>>)
=============================================================================
