# Potato-ETL: a TLA+ verification project

Potato-ETL runs data pipelines: a YAML or JSON document (or a Rust or Python
program) lists steps that read, transform, join and write Arrow record batches,
and the runtime executes them concurrently. This directory holds TLA+ modules of
its core, TLC configurations that check them on small instances, and proofs of
the most important theorems. Paths below are relative to the repository.

## The system

| part | code | state | operations |
|---|---|---|---|
| pipeline construction | `runtime/src/dag/{mod,json,yaml}.rs` | the steps and their order | `add_*`, `build_dag_from_doc`, `validate`, the wiring loop of `run_inner` |
| executor | `runtime/src/dag/mod.rs` | one task per step, one bounded channel per edge, statistics, errors | `run`, `run_dry`, `run_component`, `run_component_inner`, `send_to_all` |
| SCD2 sink | `runtime/src/db/mod.rs`, `drivers/*/src/scd2.rs`, `common/src/db/common/mod.rs` | the table's versions, the open transaction, the keys seen | `write`, `flush`, the decision which versions to close |
| database sinks | `drivers/*/src/sink.rs`, `bcp.rs`, `odbc.rs`, `thrift/`, `api/` | transaction, staging table, prepared and aligned columns, a writer thread (Oracle), sessions (Databricks) | prepare the table, write a batch, flush |
| database sources | `drivers/*/src/source.rs` | cursor, type decisions | stream batches |
| REST source and sink | `common/src/http/mod.rs` | page, offset, cursor, keys seen | fetch a page, send a row or batch |
| file transports | `common/src/file_transport.rs`, `transports/*` | token cache (SharePoint), staged files | list, match a glob, read, publish |
| file formats | `common/src/{csv,json,parquet}_file.rs` | none | convert |
| transforms, expressions | `common/src/transform/` | a join's right side, an aggregate's groups, thread-local variables | one pure function per batch |
| schemas, DDL, alignment | `common/src/schema/`, `common/src/db/common/` | none | generate and compare |
| secrets, configuration | `common/src/secrets/`, `common/src/config/` | none after loading | resolve and parse |
| command line, Python | `cli/src/main.rs`, `python/src/lib.rs` | none | call the above |

The loader builds a `Dag`; `run` validates it, wires one channel per edge and
spawns one task per step. A task reads its input channel until it is closed,
calls a transform or a sink for each batch, hands the result to every consumer in
turn, and at the end of its input commits (sinks) or emits what it kept
(aggregates, full joins). Sinks call a driver, and drivers a database.

What makes the executor hard is that **a closed channel means "the data is
complete"**: a step that fails must get its error into every output before it
drops the senders, while consumers run, fail, drain or wait; that channels are
bounded, so that every task may end up waiting; and that a failure shows in
several tasks at once. What makes the sinks hard is that a run may stop between any
two statements, that drivers differ in which statements are one transaction and
which go through another connection, and that the SCD2 decision compares what was
received with what the database stored. What makes the sources hard is that rows
move while they are read page by page. And a value passes three type systems on its
way from one database to another. `PROJECT.json` lists these hazards with their
lines, and the properties that cover them.

### What makes each part correct

* executor: no sink commits behind a failure; a success has lost nothing; an
  error report names a cause; memory is bounded; every run ends.
* construction: what `validate` accepts is wired so that each step has its
  receivers, each sender its receiver, and the executor's assumptions hold.
* SCD2 sink: one current version per key; a run that ends well leaves exactly
  what it received; history is only appended to; what is unchanged is untouched.
* database sinks: a run ends with the rows the table mode and the strategy ask for;
  before that, readers see the old rows, or as far as the driver goes.
* database and REST sources: they end; no row that was there all the time is missing,
  none comes twice.
* REST and file sinks: nothing is sent twice; a published file is whole.
* Databricks session: pages in order, one statement at most in doubt, sessions closed.
* secrets: every reference gets its own value; no request with an expired token.
* transforms, expressions, globs: what SQL, three-valued logic or the pattern means,
  however the data was cut into batches.
* types: a column holds what is sent to it, or something says that it does not.

## Modules

| module | models | extends |
|---|---|---|
| `DagContract` | the promise of `Dag::run`, without channels | |
| `DagExecutor` | tasks, channels, errors and ends of data | instantiates `DagContract` |
| `DagExecutorProofs` | theorems about `DagExecutor`: errors, ends of data, batches and back-pressure | `DagExecutor`, `TLAPS` |
| `MCDag` | small pipelines for TLC | `DagExecutor` |
| `DagWiring` | construction, validation, wiring | |
| `DagWiringProofs` | theorems about `DagWiring` | `DagWiring`, `InductionLemmas`, `TLAPS` |
| `MCWiring` | symmetry for TLC | `DagWiring` |
| `Scd2` | the SCD2 sink of the five drivers | |
| `Scd2Proofs` | theorems about `Scd2` | `Scd2`, `TLAPS` |
| `SqlTarget` | a target table, table modes, strategies, and the statements sent to it | |
| `PostgresSink`, `MySqlSink`, `OracleSink`, `DatabricksSink`, `MssqlSink` | the statements of each driver's `write` and `flush`, in order | `SqlTarget` |
| `SinkContract` | the promise of a `write_db` sink | |
| `DbSink` | the sinks against a database with sessions, transactions and locks | the five, instantiates `SinkContract` |
| `MCSink` | configurations and batches for TLC | `DbSink` |
| `InductionLemmas` | induction over the natural numbers, by least elements; flattening, indexing and cutting sequences | `TLAPS` |
| `DbSinkLemmas` | lemmas about rows, statements and each driver's programs | `DbSink`, `InductionLemmas`, `TLAPS` |
| `DbSinkProofs` | theorems about `DbSink` | `DbSinkLemmas` |
| `RestSource` | pagination against a server whose rows move | |
| `RestSink` | requests, refusals, lost answers | |
| `FileSink` | staging and publishing of files | |
| `ThriftSession` | sessions, statements and prefetching at Databricks | |
| `SecretFetch` | tokens, ways to log in, requests for secrets | |
| `DbSource` | reading a table in pages while it changes | |
| `Connectors` | one of the six at a time, with their fairness | the six |
| `ConnectorProofs` | theorems about them | the six, `InductionLemmas`, `TLAPS` |
| `ArrowValues` | cells, NULL and casts | |
| `RowJoin`, `RowGroups` | join and aggregate over batches | `ArrowValues` |
| `Expressions`, `ExprParser` | evaluation of expressions, their parser | `ArrowValues` |
| `GlobMatch` | the matcher and the resolution of paths | |
| `Reshape`, `SecretRefs` | unnest, objects, flatten, rename; references to secrets | |
| `SourceColumns`, `SqlTypes` | types of columns read and created | |
| `PgTypes`, `Coercions` | values written to Postgres and to the others | `SqlTypes` |
| `ColumnPlans` | casts, renames, injections, stamps, alignment | |
| `TableDdl` | creating a table, twice | `SqlTypes` |
| `AlgorithmProofs` | theorems about the glob matcher and unnest | `GlobMatch`, `Reshape`, `InductionLemmas` |
| `MCAlgorithms` | each of the pure parts called with enumerated inputs | all of these |

### DagExecutor

`pc[n]` says where the task of step `n` is in `run_component_inner` (`init`,
`read`, `build`, `hash`, `drain`, `recv`, `work`, `send`, `tail`, `sendTail`) or,
after it, in `run_component` (`forward`, `report`). `chan[e]` is the channel of
edge `e`; a receiver is gone once its task has left `run_component_inner`, a
sender once its task has ended, which is what `RxOpen` and `TxOpen` say and what
the order of drops in the code comes to. Every `await` separates two actions;
what a task does between two of them is one. `got` and `made` count batches, since
the contents of a batch do not matter to the protocol. Kinds of steps with the
same control are one kind: `Scd2Sink` is a `dbSink`, the file and REST sources
are `fileSource`, `Unnest` a `filter`, `Rename` and `Flatten` a `map`. A step in
`Fallible` may return an error wherever its kind of code has a `?`
(`FallibleAt`), one in `Panicky` may panic in code that runs in the task itself.
A send waits for room while the receiver is there. `PipelineAssumption`,
`WiringAssumption` and `ConfigAssumption` are what `validate`, the wiring loop
and the configuration guarantee.

| properties | meaning |
|---|---|
| `CommitNeedsCleanUpstream` | a sink that has committed has only steps above it that returned `Ok`; exempt are the two ways around the error forwarding that the code leaves open, a panic and the left side of an inner join whose right side is empty |
| `ReportsRootCause` | the report is never just "downstream channel closed" |
| `SuccessDelivers` | a success has delivered every batch and committed every sink |
| `BoundedBuffering` | a producer is at most `Cap + 1` batches ahead |
| `SampleReachesConsumers` | a dry run's sample reaches the steps below the sources (proved as `SamplesArrive`; no run of its own) |
| `Termination` | every run ends |
| `ContractSpec` | the executor implements `DagContract` |

The contract is a state machine over outcomes, commits and the result. Its
refinement mapping takes a task's outcome from `pc`, and maps both kinds of error
report to `error`.

**Fairness.** `FairSpec` has weak fairness of `Progress(n)` for each task (tokio
polls a task that can go on; an external call returns) and of `Finish`. Failing
and panicking have none: nothing obliges a step to fail. That a source ends its
data is part of the bound `MaxBatches`.

### DagWiring

`Add` is any `add_*` call, from a program or from `build_dag_from_doc` (a step replaces an earlier one with its id and is
listed twice, as with `IndexMap::insert` and `order.push`), `RefuseDuplicate` the check of ids in
`build_dag_from_doc`, `Validate` the two
loops of `validate` after the replacement of sinks in a dry run, `Wire` one turn
of the wiring loop. `FitsExecutor` says that what is wired has a sender for every receiver and a
receiver for every sender that is used, and fulfils the assumptions of `DagExecutor`. Its first
conjunct, `WiringInv`, is the inductive invariant: which channels the steps before `wire` have made, and
that none exists for those behind it.

### Scd2

`table` is what another session sees, `draft` what the sink's connection sees;
they differ while a transaction is open. `Write` is `write` up to its first
changing statement: it fetches, decides (`compute_scd2_decision`) and records the
seen keys; `CloseChanged` and `InsertNew` are its chunked statements, `Commit` its
end. `Flush`, `SweepMissing` and `SweepDone` are `flush`. `Fail` is anything that
ends the run early: an open transaction is lost, the rest stays. `Rerun` starts
the pipeline again on the table as it is. Drivers differ in `AtomicWrite`
(Postgres, SQL Server, Oracle), `AtomicSweep` (Oracle), `Stored` (Databricks
writes NULL as `''`, Oracle reads `''` as NULL), `ReadBack` (a select that tries some types for a column
takes the others for NULL: a DATE, DECIMAL or timestamp in Postgres and MySQL, an INT in SQL
Server; `Unread` are the values of such columns), `Matchable` (a NULL key is only
found again in Databricks) and `SweepReadFails` (Postgres). A version is a key, one
value for all tracked columns, and whether it is current.

`IInv` is the inductive invariant. Its important parts say that the keys still to be
closed will be replaced, that what is to be inserted has no current version that stays,
and that what was received last is current or about to be. `HistoryInv` adds how far
the sink's connection may be ahead of what others see.

A value the driver does not read back differs from what comes in on every run, and its version
is superseded each time, where `docs/steps/scd2-sink.md:8` says that unchanged rows are left
untouched; a NULL that follows it looks unchanged and is never written. `UnchangedUntouched` and
`SnapshotConverges` say what holds with such values among the others (a version is closed for
another value than it *reads as*). Values that read as another text (a BOOL of MySQL, a timestamp of
SQL Server) are superseded in the same way; an INT *key* of SQL Server, which is not found again
(`drivers/mssql/src/scd2.rs:258`), is outside the model.

### Database sinks

`SqlTarget` has what the drivers share: a table is whether it exists and a bag of
rows, a row a key and a value; the table modes and strategies; and the statements
(`drop`, `create`, `truncate`, `insert` in its ways, `keep`, `clone`, `stage`, `bulk`,
`begin`, `commit`), each with its effect and the session that sends it: `run` for the
transaction of the whole run, `batch` for that of one batch, `stream` for Oracle's
direct path and bulk load, `auto` for no transaction. A driver's module is the list
of statements its `write` and its `flush` come to, read off the code path by path.

`DbSink` runs these lists. `Write` and `Flush` are the calls of the executor, which
come one after the other; they put the statements into `todo`, and `StepBegin`,
`StepCommit`, `StepRun`, `StepStage` and `StepBulk` take them out. What the database
does between them is in `table` (committed), `draft` (as the open transaction sees
it), `holder` (who has the table's lock), `open` and `conn` (which of the pool's
connections the batch got). `Blocked` is a statement that waits for a lock, `Reject`
one the database refuses, `Fault` a lost connection or a cancelled run at any point,
where the statement or the commit under way may have been carried out all the same.

| properties | meaning |
|---|---|
| `KeepsContract` | refinement of `SinkContract`: what a run ends with, and what readers see before |
| `WholeBatches` | Postgres with a key: the target holds a whole number of batches at any time |
| `BaseKept` | append and ignore never lose a row, upsert never a key, however the run ends |
| `RefusedForCause` | the inductive invariants `IInv` and `CauseInv` hold, and a run the database refuses had a table with a primary key, whatever the strategy, and a key that was not new, no table under `use_existing`, or a staging table on another connection |
| `Ends` | every run ends (waiting for one's own lock is the way not to) |

The promise depends on the configuration. `Atomic`: Postgres without a key, `tiberius`,
and, without drop or truncate, ODBC, staged `bcp` and Oracle off the direct path have
one transaction for the run; nobody sees anything before its commit. `Deviates`:
`merge_delete` outside Postgres and staged SQL Server, which mirrors a batch or a chunk,
or deletes nothing; staged `bcp`, which never truncates; and the Databricks ODBC insert,
which falls back to another interface after a failure that may have been a success, and
duplicates rows. Everything else ends with the right rows and may show others before.

The primary key is the table's, not the strategy's: `CREATE TABLE` takes it from the schema, so `append`
is refused where a key comes again (`pk` in `Configs`; `docs/steps/write-db.md:43` says so too). A COPY
may report it later than the statement the model has it at; a `bcp` load with a staging table meets
the rows TRUNCATE should have removed (`Met`). Oracle's staged MERGE updates a row only
where a column differs and cannot compare LOBs (`drivers/oracle/src/sink.rs:121`, as its comment
says): `Compared` is what it sees of a value. So a change in a LOB alone is not written, and of the rows staged for a key only
those count that differ from the target's, where `docs/steps/write-db.md:45` has an upsert update existing
rows. `Loaded`, the rows the contract asks for, takes the MERGE's rows here and the last row
of a key everywhere else. A table of a key and LOBs only, where that MERGE has no such condition, is left out.

### Connectors

Six parts, each a specification of its own; `Connectors` starts in one of them.

* `RestSource`: the loop of pages by offset, page number, cursor or link against a
  server that inserts and deletes rows between the requests. `SettledRowsArrive`: a
  row that was there all the time is delivered, where the strategy can (an offset
  shifts under deletions), and with a cursor or deduplication no row comes twice; it ends once the
  rows have stopped moving. The inductive invariant `RestInv` is its first conjunct, so that TLC checks it too.
* `RestSink`: a request per row or per batch, refused, failed or with a lost answer.
  `EachRowOnce`.
* `FileSink`: start, receive, stage, publish by rename, copy or put, clean up; errors
  from upstream, failures and crashes. `FileIsOldOrWhole`: a reader
  sees the old file or the whole new one, a success leaves the new one, and a failure upstream the old one.
* `ThriftSession`: open, use, execute, poll, fetch, close at the client, the statement
  at the server, the task that fetches ahead, and the closing requests that a drop
  sends off (`Released`). `PagesArrive` (in order, and all before a success), `OneInDoubt`. `USE CATALOG` and
  `USE SCHEMA` are one step.
* `SecretFetch`: the ways to log in, one after the other, token cache and margin, a
  clock, servers that grant lifetimes. `TokenLives`: a token the cache calls valid is
  valid when it arrives. The cache of secrets in front of it is left out: every
  resolution makes a new provider, so it never hits.
* `DbSource`: a scan or a cursor over a table that changes, with the thread that reads
  ahead. `SettledRowsReadOnce`, with the inductive invariant `ReadInv`: a settled row
  is read, and a row is fetched twice only where `Repeats` or insertions in front of an
  offset say so; and it ends (`EveryConnectorEnds`, for all but the writers).

### Algorithms

Pure parts have no interleavings. Each module defines what the code computes, and,
independently of the code's steps, what the answer should be: `RowJoin` and `RowGroups`
against the join and the grouping of whole tables, `Expressions` against Kleene's logic,
`ExprParser` by printing a tree and reading it back, `GlobMatch` against the set of texts
a pattern stands for, `SourceColumns`, `SqlTypes`, `PgTypes` and `Coercions` against the set of
values a column can have, `TableDdl` by running a plan twice, `ColumnPlans` against
doing it in one step and in another order. `MCAlgorithms` calls one part with one case
in one step; its invariants compare.

Where code and definition differ, the cases are listed by cause, in an operator the
invariant excludes, so that each list is as short as it can be and nothing else slips in:

* `SourceColumns.LosesOnRead`: what a driver reads with less precision or not at all, such
  as numbers of more than 15 digits in SQL Server and Oracle.
* `SqlTypes.NarrowedFrom`, `NarrowedArrow`: columns created too narrow without a warning.
* `PgTypes.Mistaken`, `TextsRefused`: COPY writes a 64-bit integer into an INT4 or INT2
  column cut to its width; eight kinds of Postgres columns are read as texts that
  a table of the same type then refuses.
* `Coercions.LostSilently`, `RefusedThough`: Arrow's cast makes NULL of what does not
  fit, although a comment promises an "overflow check"
  (`common/src/db/common/type_coercion.rs`); in MySQL instants and flags that fit are refused.
* `TableDdl.StopsAgain`, `AddsChecks`, `Shadowed`: about a second run in Postgres with constraints
  that have a name nothing is said (the run `tables` shows that it stops); Databricks adds checks each time;
  an index or enum with the name of another table's is not made.
* `GlobMatch`: a star goes across a slash, against the comments at `common/src/file_transport.rs:518` and
  `:560` and `docs/steps/read-csv.md:69`; a recursive path may select files by that. `Means` is what
  the comments say, `MeansAcross` what the matcher does; where they differ the properties ask that
  what is meant is found, and that what is found is meant across slashes.
* `Reshape`: a cell that is no array fails the whole batch (`common/src/transform/unnest.rs:240`), where
  `docs/steps/unnest.md:179` has that row skipped. `RowsLineUp` speaks of the other batches.
* `RowGroups`: the sum of nothing is 0, decimals are bounded as texts, and no batch at all gives no row, not
  even for a global count. In SQL a sum of nothing is NULL and a count of no rows is one row.
* `SecretRefs`: a mapping that comes out of a secret is looked through for references again, and one in it is
  replaced if the document has it elsewhere. A secret with a reference to itself would be
  expanded without end (`common/src/secrets/resolve.rs:272`); the store of the model has none.
* `ColumnPlans.OrderMatters`: injections that read each other, in a HashMap's order.
* `RowJoin`: a full join that has got no left row drops all right rows, which
  `docs/steps/join.md:33` does not say. `Expressions`: a comparison with NULL is false, not
  unknown, so that its NOT is true.

## Runs

| run | instance | what it checks |
|---|---|---|
| `tap` | `MCDag`, five steps: two sources, an inner join, one source with a second consumer; every step may fail or panic | `CommitNeedsCleanUpstream`, `SuccessDelivers`, `ReportsRootCause`, `Termination` |
| `groups` | a source of several batches, an aggregate, a full join, a file sink; every step may fail or panic | the inductive invariant `DeliveryInv` (with `IInv`, of which the clean commits and the root cause follow), `BoundedBuffering`, `Termination`, the refinement `ContractSpec` |
| `wiring` | all pipelines of up to four steps, full and dry | `FitsExecutor` |
| `scd2_pg` | Postgres, two keys, three values (NULL and one that does not read back), chunks of one, two runs, cut off anywhere | the inductive invariant `HistoryInv` (with one current version per key), `SnapshotConverges`, `UnchangedUntouched`, `KeyNeverVanishes` |
| `scd2_mysql` | MySQL without transactions, a NULL key, the same values, three runs | `OneCurrent`, `SnapshotConverges` |
| `sinks` | all drivers, modes, strategies and ways of staging (except those of `selflock`), up to three batches from a set of three, four tables before the run, with and without a primary key, a pool of two connections | the table above |
| `connectors` | the six parts, each from every configuration | `SettledRowsArrive`, `EachRowOnce`, `FileIsOldOrWhole`, `PagesArrive`, `OneInDoubt`, `Released`, `TokenLives`, `SettledRowsReadOnce`, `EveryConnectorEnds` |
| `algorithms` | every case of every pure part | ten invariants, listed with the parts in `MCAlgorithms` |

Four runs must end with a violation; each is a finding in `PROJECT.json`:

| run | what happens |
|---|---|
| `diamond` | one source feeds both sides of a join: the join reads its right side to the end first, the source waits for the left branch, and with more batches than the channels hold all wait forever |
| `selflock` | Postgres, `drop_and_replace` with a strategy that needs a key: the batch waits, on another connection, for the lock of the sink's own open transaction |
| `mirror` | `merge_delete` on MySQL: each chunk deletes the rows of the chunks before it |
| `tables` | `create_table: if_not_exists` over the table of an earlier run: Postgres sends its named constraints and primary indexes again and stops, Databricks adds the checks of its enums again, where `docs/universal-schema-options.md:549` says "No-op if table exists" |

Other disagreements between the code and what is said of it, met while modelling:

* An inner join whose right side is empty drains its left side without looking at errors
  in it, so that the sinks below commit although a step above failed. A task that panics
  forwards nothing: its consumers see a regular end. `CommitNeedsCleanUpstream` names both.
* In a dry run a file or REST source with a limit of one batch counts the batch and does
  not send it.
* The Databricks SCD2 sink stores NULL as `''`, and supersedes the row in every run.
  Two rows of one batch with one key both become current (`Distinct` excludes them).
* The comment on the channels speaks of `capacity` batches; a producer may be one more ahead.
* `docs/steps/index.md` lets steps come in any order, `validate` wants inputs first.
* A join of a step with itself passes `validate` and then stops with "wiring bug"
  (`Selfish` adds such joins).
* An empty snapshot expires nothing.

**Bounds.** They are small because the hazards need few actors, and every one is a
CONSTANT of its run.

* Executor: capacity 1 makes every send a possible wait, three batches are more than a
  channel and its two ends hold, so that back-pressure, errors behind data and ends behind
  errors all occur.
* SCD2: a chunk of one row splits a write of two rows into several statements. A second
  run repairs, a third shows that nothing more changes.
* Sinks: a batch of one and of two rows lies below and above the chunk (1) and reaches the
  threshold (2) of the bulk paths; one key comes with three values, two of which differ in a LOB only, in one
  batch and again in another, so that it was in the table, came before, or comes twice.
* Connectors: pages of 2 of 4 rows, of which one has no key, two insertions and one
  deletion: rows move over the border of a page in both directions. Batches of 3 do not divide the pages. Two
  failing requests reach each retry. Lifetimes of 1 and 5 lie below and above the margin
  of 2. The code reads 4 batches ahead, the model 2.
* Algorithms: joins of up to 3 rows a side, groups of up to 3 rows, cut into batches
  in every way; patterns of up to 4 and texts of up to 3 characters; each listed source
  column in each of the five dialects; each column of four drivers with each of 17 Arrow types.

Deadlock is checked except in `diamond`, where it is the point, in `connectors`, where an
ended step has no further action, and in `algorithms`, where each case is one step.

**Fairness** outside the executor: `DbSink` has weak fairness of `Run`, the sink's own next
statement, which the database answers unless a lock is in the way. `Connectors` has it of
the server's answers to the REST source, of the tasks and the server of the Thrift session and of the closing requests, of requests
for secrets being answered or given up, and of the two sides of a table read. Failures,
drops, crashes, the clock and what others do to the data have none.

## Proofs

`DagExecutorProofs`, for every pipeline with the shape `validate` guarantees, every capacity, every
number of batches, and every set of failing and panicking steps: `TypeCorrect`,
`Invariance`, `CommitsAreClean`, `RootCauseReported`, `ImplementsContract` (safety
only: the contract has no fairness). That a committed sink's upstream is clean is not inductive:
a sink sees one channel. `IInv` adds why the channel can be trusted.
A consumer sees the end only after the producer is gone (`EndMeansGone`); an error that
was forwarded is queued as long as its receiver listens (`ErrorQueued`); hence an end
that binds is a good one (`EndMeansClean`), and behind every "closed" there is
a task that failed by itself (`SymptomHasCause`). The theorem about commits then follows a
path through the pipeline, of any length, by the closure of `Above`. `StepForms` reduces each action
to what it does to these parts, so that one lemma per part serves all actions.

In the same module, for the same pipelines: `DeliveryInvariance`, `BuffersAreBounded`,
`SuccessLosesNothing`, `SamplesArrive`. The invariant keeps the books of each channel:
`BatchesAccounted` says that what the producer made is what the consumer got, what is queued, and
the one batch being sent; `QueuesFit` that no queue exceeds its capacity; `EndMeansEmpty` that a
consumer is done with a channel only when it is empty; `SuccessOfAll` and `ReportedMatches` that
a success is one of every task, and all of them are in the report. A file source in a dry run
counts the batch at its limit and does not send it. `SuccessLosesNothing` is therefore about
runs, and dry runs without file sources, and `SamplesArrive` about limits above one where a
file source is one of the steps. The runs have no dry run: nothing in it is committed.

`DagWiringProofs`, for every set of ids and every number of steps, without a step that is its own second input
(`Selfish = FALSE`: `validate` accepts such a join, and the loop wires it
wrongly): `WiringInvariance`, `PipelinesFit`. `DagExecutor` takes the shape of its pipelines as assumptions; this is where they
come from. The consumers of a step are picked out of the order (`ConsumersListed`: each is
listed, once, at a later place), so the channels its turn of the loop makes are one per consumer
(`ChannelsMade`), and after the last turn every input has one.

`Scd2Proofs`, for all five drivers, all sets of keys and values, chunk sizes and numbers of runs,
when the keys of a write are distinct: `Invariance`, `OneCurrentVersion`, `Convergence`.
`Replacing` keeps a second current version from appearing, `Fresh` says that what was received is
current or pending, `Sweeping` that the sweep reaches everything else and nothing else.
`HistoryInvariance` adds the two copies of the table: `Ahead`, that the sink's connection has
only added versions to what others see, and closed those that were superseded or missing;
`Covered`, that a key it took away is about to return. `HistoryIsKept` follows
for every driver that stores what it writes (`Stored` is the identity on the values: Databricks and
Oracle rewrite NULL and `''`), whatever values it does not read back, `NoGapWhileReplacing` for those that write in a transaction.

`DbSinkProofs`, for every set of configurations, keys, values and tables, every chunk size,
threshold, pool and number of batches, and a fault at any statement:

* `SinkShape`, without a hypothesis. Each driver's program for a batch is put together from a
  few pieces (DDL, begin, inserts, stage, commit), and `DbSinkLemmas` has one lemma for each property
  of each program: DDL leads, every transaction that begins ends, with one transaction
  for the run every change is in it and its commit is the last statement. `StepShape`
  shows that taking the first statement, or adding the program of a call, keeps this.
* `BaseIsKept`, without a hypothesis: every statement sent by an append, an ignore or an upsert keeps
  the rows, or the keys, that were there (`KeepsRows`), and the DDL of every mode but `drop_and_replace`
  is gentle.
* `SinkKeepsContract`, the refinement of `SinkContract`, and `SinkInvariance`, when no batch holds a
  key twice where the strategy needs a key (`DistinctInBatch`, without which a chunk is refused or takes both). The
  argument is `Delivering`: `Outcomes` is what a program makes of rows, and what is left of the call, followed
  by the rows held back, leads to what the options ask for or is refused. Executing the first
  statement does not change that, and for each program a lemma (`Sends`, by driver) establishes it: that
  chunks make of a batch what one statement would, is an induction over the chunks. `Hidden`
  then says that with one transaction nothing shows before the commit.
* `WholeBatchesOnly`, under the same hypothesis and for configurations that do not wait
  for themselves: what is committed is what it was before the batch, as long as a
  statement of the batch is left (`HiddenBatch`).
* `RefusalsHaveCauses`, under `DistinctInBatch`. `CauseInv` has one part for each kind of refusal, and
  each is a statement about what is left of the call. `TableThere`: the table is there, or the rest creates it
  before a statement needs it and does no DDL afterwards (`Creates`); `TableSeen`: the session that sends a
  statement is the one that sees the table, because DDL belongs to the transaction of the run or to none
  (`Proper`); so a missing table was missing before the run. `StagedOnce`: one statement stages a batch, so the
  connection the staging table is on was chosen by an earlier batch. `KeysWelcome`: as long as every key is new
  (`AllNew`), the rest of the call leads somewhere, to a table without the keys that are held back. Each driver's
  programs establish the last one: the statements before the rows leave no key behind that was not there, and an
  insert, in chunks or not, of keys that are distinct and new is taken (`Accepts`, `Welcomes`). A key
  is refused by the table's primary key whatever the strategy (`HowsInsert`: without one every insert is an
  append), and the table it is missing from is the one the first insert meets (`Met`), which is empty after
  `drop_and_replace`.

What recursive functions of the model compute is proved with the well-founded minimum of
the library (`InductionLemmas`): the set of numbers for which a fact fails has a
least element. The induction rule for operators is not needed.

`ConnectorProofs`:

* `FilesAreOldOrWhole` from `FileInv`; `CachedTokensLive` from `TokenInv`, which bounds how far the
  client's idea of a token's age is from the server's, for every margin of at least two units;
  `RowsAreSentOnce` from `RestSinkInv`, for every number and size of batches (a row still to send was not
  taken).
* `SettledRowsAreFetched` from `RestInv`, for every number of rows, every number of insertions and
  deletions, every size of a page and a batch, and every way of paginating. `Listed` says
  that the server lists the rows that are there, the newest first; `Taken` that the keys of what was
  delivered have been seen and that it lies before the cursor; `NothingMissed` that every settled
  row behind the position the next request names has been delivered, and at the end every one. Cutting a buffer into
  batches and concatenating them again gives the buffer: `Stretches` and
  `FlattenStretches` in `InductionLemmas`.
* `SettledRowsAreRead` from `ReadInv`, for every table, page size and number of changes:
  `BehindCursor`, `FromStatement` and `FromOffset` say, for the three ways of reading, that the settled rows
  not fetched yet are ahead of the place where the next page begins, and that those fetched are not;
  `EndReached` that none is missing where reading has ended. The attempt at this proof corrected the property: a Postgres source whose first page
  ended with NULL has no cursor and fetches that page again (`Repeats`), which the
  small tables of `connectors` had not shown.
* `ThriftTypeCorrect`, `AtMostOneInDoubt`, `PagesInOrder`, `EveryPageArrives`, for every number of
  pages, statements and faults. `InDoubt` ties what the server has carried out to what the client
  knows at each place of its program; `PagesQueued` and `PagesKept` say which page the
  prefetching task holds, and that it is not lost between the two tasks.

`AlgorithmProofs`, for inputs of every length:

* `GlobScanIsComplete`: the matcher with its one bookmark accepts what the pattern means and, in texts without a slash,
  nothing else. The scan is a
  loop, and that its function exists at all is a first lemma: a rank (`Progress`, the end of the last star, then the
  place in the pattern) goes up with each step and is bounded (`TailRecursion`). Then `Kept` and `Right` are
  the invariant and the answer of a state. Since the last star the pattern's characters were
  matched one for one, so what is left suits just if the star may end at its bookmark (`Kept`). When a new star is
  met, an earlier one need not be tried again: were it longer, the new star would begin later, and
  what it could reach from there it reaches from here (`StepKeeps`). At the end of the text a longer last star has no room for
  what follows it (`RightAtTheEnd`).
* `UnnestedColumnsLineUp`: the columns of an unnested batch are built one by one, each in a loop of its own over the rows.
  Flattening puts every element of every row in one place, in order (`Laid`, `FlattenLays` in
  `InductionLemmas`), and the place depends on the lengths of the arrays only. So every column has at each
  place what belongs to one row and one element, and the columns line up.

What the scan of a pattern says of the resolution of paths, and the rest of `Reshape`, is
model-checked. So are plans of columns, groups and the join: they use SelectSeq, which TLC knows and the prover does not.

The assumptions are the named ASSUMEs of the modules; TLC evaluates each of them in a run.

Out of the provers' reach are liveness under fairness, ENABLED, and RECURSIVE operators, so the
termination properties (`Termination`, `Ends`, `Released`, `EveryConnectorEnds`) and the expressions, their parser
and the references to secrets are only model-checked. `algorithms` enumerates cases of the two algorithms above and
of all the others: most of those are tables of cases, which TLC goes through one by one. Its properties call the
expressions too, which are RECURSIVE, so the theorems of `AlgorithmProofs` are about the
definitions they compare (`ScanIsComplete`, `ApplyUnnest`) and not about the properties of the run.

## Not modelled

* Command line, configuration and Python bindings parse and pass on; they decide nothing that
  outlives a call. File formats are conversions by libraries, one call per file.
* SQL text: quoting, comments, default expressions. A statement is what it does.
* Value encodings: the rescaling of decimals in COPY, the direct bulk load, ODBC and
  `bcp` files of SQL Server, Thrift. URLs, headers, bodies; the transports' protocols and log-in.
* Databricks by its REST interface and by ODBC as a source.
* The lexer, the date and text functions of expressions, and the per-thread cache of the environment.
* `read_schema` of the sources, which the runtime does not call.
* Contents of batches in the executor, and of secrets in `SecretFetch` and `SecretRefs`.
* Several pipelines at one table or in one process: a pipeline has one writer per table.

Hazards of the code that no property here covers:

* a file or REST source in a dry run with a limit of one does not send its batch
  (`runtime/src/dag/mod.rs:2270`; `SamplesArrive` is proved for limits above one);
* a `batch_size` of 0 never gets to the end of a batch (`runtime/src/dag/mod.rs:1642`);
* the update of the environment is skipped when the new one has the address of the old one
  (`runtime/src/dag/mod.rs:1604`), which concerns one process running several pipelines;
* two pipelines that write one SCD2 table read the current versions before they write
  (`drivers/postgres/src/scd2.rs:114`);
* an empty snapshot expires nothing (`:239`), and an integer key beyond 63 bits is
  taken for 0 (`:163`): `Scd2` has neither widths nor empty sources that should empty the table;
* the REST sink counts all rows of a batch request as sent, also those left out for a
  NULL body (`common/src/http/mod.rs:617`); a SharePoint token is taken from the cache until a
  minute before it expires, however long the transfer takes (`transports/sharepoint/src/lib.rs:63`);
  a secret that reads like a number or a boolean becomes
  one (`common/src/secrets/resolve.rs:309`).
