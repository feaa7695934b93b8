-------------------------------- MODULE DbSink --------------------------------
(***************************************************************************)
(* write_db against one table of one database.  The DAG executor calls     *)
(* write_batch for every batch and flush at the end; the driver turns each *)
(* call into statements, which reach the database one by one and may fail  *)
(* at any of them.  A statement of an open transaction works on a draft of *)
(* the table and holds the table's lock from its first change on.          *)
(***************************************************************************)
EXTENDS PostgresSink, MySqlSink, OracleSink, DatabricksSink, MssqlSink

CONSTANTS
  Plans,       \* the configurations of the step
  Bases,       \* the tables before the run
  Conns,       \* the connections of a pool
  MaxBatches   \* a bound on the batches of a run

ASSUME SinkAssumption ==
  /\ Plans \subseteq Configs
  /\ Bases \subseteq Tables /\ \A t \in Bases : ~t.exists => t = Missing
  /\ Conns # {} /\ 0 \notin Conns
  /\ MaxBatches \in Nat

VARIABLES
  cfg,      \* the driver and the step's options
  base,     \* the table before the run
  table,    \* the committed table
  draft,    \* the table as the transaction that changed it sees it
  holder,   \* the session of that transaction, or "none"
  open,     \* the sessions with an open transaction
  conn,     \* the connection of the last "batch" transaction
  todo,     \* the statements left of the current call
  sink,     \* the sink's own state
  fed,      \* the batches received
  pc,       \* idle, write, flush, finished, failed
  why       \* what made the run fail

vars == <<cfg, base, table, draft, holder, open, conn, todo, sink, fed, pc, why>>
db   == <<table, draft, holder, open, conn>>

Causes == {"none", "fault", "missing", "conflict", "staging"}

-----------------------------------------------------------------------------
\* The statements of write_batch and of flush, and the sink after write_batch.
WriteProgram(b) ==
  CASE cfg.driver = "postgres"                              -> PgWrite(cfg, sink, open, b)
    [] cfg.driver = "mysql"                                 -> MyWrite(cfg, sink, b)
    [] cfg.driver \in {"oracle", "oracle_direct"}           -> OraWrite(cfg, sink, open, b)
    [] cfg.driver \in {"databricks", "databricks_odbc"}     -> DbxWrite(cfg, sink, b)
    [] cfg.driver \in {"tiberius", "odbc", "bcp"}           -> MsWrite(cfg, sink, b)

AfterWrite(b) ==
  CASE cfg.driver = "postgres"                              -> PgAfterWrite(cfg, sink, b)
    [] cfg.driver = "mysql"                                 -> MyAfterWrite(sink)
    [] cfg.driver \in {"oracle", "oracle_direct"}           -> OraAfterWrite(cfg, sink, b)
    [] cfg.driver \in {"databricks", "databricks_odbc"}     -> DbxAfterWrite(sink)
    [] cfg.driver \in {"tiberius", "odbc", "bcp"}           -> MsAfterWrite(cfg, sink, b)

FlushProgram ==
  CASE cfg.driver = "postgres"                              -> PgFlush(cfg, sink, open)
    [] cfg.driver = "mysql"                                 -> MyFlush
    [] cfg.driver \in {"oracle", "oracle_direct"}           -> OraFlush(sink, open)
    [] cfg.driver \in {"databricks", "databricks_odbc"}     -> DbxFlush
    [] cfg.driver \in {"tiberius", "odbc", "bcp"}           -> MsFlush(cfg, sink)

-----------------------------------------------------------------------------
Calling == pc \in {"write", "flush"} /\ todo # <<>>
Over    == pc \in {"finished", "failed"}

\* The table a session sees
View(on) == IF holder = on THEN draft ELSE table

\* Another session's transaction holds the lock of the table.
Blocked(st) ==
  /\ NeedsTable(st) \/ Changes(st)
  /\ holder \notin {"none", st.on}
  /\ table.exists

\* The database after a statement
Result(st) ==
  LET new == Effect(st, View(st.on))
  IN  CASE st.op = "commit" /\ holder = st.on ->
             [table |-> draft, draft |-> draft, holder |-> "none"]
        [] Changes(st) /\ st.on \in open ->
             [table |-> table, draft |-> new, holder |-> st.on]
        [] Changes(st) /\ st.on \notin open ->
             [table |-> new, draft |-> new, holder |-> holder]
        [] OTHER -> [table |-> table, draft |-> draft, holder |-> holder]

Becomes(r) == table' = r.table /\ draft' = r.draft /\ holder' = r.holder

\* The pool closes a failed sink's connections, and the databases roll back.
FailWith(cause) ==
  /\ pc' = "failed"
  /\ why' = cause
  /\ draft' = table'
  /\ holder' = "none"
  /\ open' = {}
  /\ todo' = <<>>
  /\ UNCHANGED <<cfg, base, conn, sink, fed>>

-----------------------------------------------------------------------------
Init ==
  /\ cfg \in Plans
  /\ base \in Bases
  /\ cfg.pk => \A k \in Keys :
                Cardinality({v \in Values : base.rows[[key |-> k, val |-> v]] > 0}) <= 1
  /\ table = base
  /\ draft = base
  /\ holder = "none"
  /\ open = {}
  /\ conn = 0
  /\ todo = <<>>
  /\ sink = Idle
  /\ fed = <<>>
  /\ pc = "idle"
  /\ why = "none"

Write(b) ==
  /\ pc = "idle"
  /\ Len(fed) < MaxBatches
  /\ pc' = "write"
  /\ todo' = WriteProgram(b)
  /\ sink' = AfterWrite(b)
  /\ fed' = Append(fed, b)
  /\ UNCHANGED <<cfg, base, why, db>>

WriteDone ==
  /\ pc = "write"
  /\ todo = <<>>
  /\ pc' = "idle"
  /\ UNCHANGED <<cfg, base, todo, sink, fed, why, db>>

Flush ==
  /\ pc = "idle"
  /\ pc' = "flush"
  /\ todo' = FlushProgram
  /\ UNCHANGED <<cfg, base, sink, fed, why, db>>

FlushDone ==
  /\ pc = "flush"
  /\ todo = <<>>
  /\ pc' = "finished"
  /\ UNCHANGED <<cfg, base, todo, sink, fed, why, db>>

\* A transaction begins, on any connection of the pool.
StepBegin ==
  /\ Calling
  /\ Head(todo).op = "begin"
  /\ open' = open \cup {Head(todo).on}
  /\ IF Head(todo).on = "batch" THEN conn' \in Conns ELSE conn' = conn
  /\ todo' = Tail(todo)
  /\ UNCHANGED <<cfg, base, table, draft, holder, sink, fed, pc, why>>

StepCommit ==
  /\ Calling
  /\ Head(todo).op = "commit"
  /\ Becomes(Result(Head(todo)))
  /\ open' = open \ {Head(todo).on}
  /\ todo' = Tail(todo)
  /\ UNCHANGED <<cfg, base, conn, sink, fed, pc, why>>

\* A statement that reads or changes the table, or fills a staging table.
StepRun ==
  LET st == Head(todo)
  IN  /\ Calling
      /\ st.op \in {"drop", "create", "truncate", "insert", "keep", "clone"}
      /\ ~Blocked(st)
      /\ NeedsTable(st) => View(st.on).exists
      /\ ~Refused(st, View(st.on).rows)
      /\ Becomes(Result(st))
      /\ todo' = Tail(todo)
      /\ UNCHANGED <<cfg, base, open, conn, sink, fed, pc, why>>

\* The rows go to the staging table.  A temporary one of Postgres belongs to the connection
\* it was created on, and staging_table_created does not say which that was.
StepStage ==
  LET st == Head(todo)
  IN  /\ Calling
      /\ st.op = "stage"
      /\ st.on = "batch" => sink.home \in {0, conn}
      /\ sink' = [sink EXCEPT !.home = IF st.on = "batch" THEN conn ELSE @]
      /\ todo' = Tail(todo)
      /\ UNCHANGED <<cfg, base, fed, pc, why, db>>

\* write_impl of the ODBC sink: an insert that reports failure, applied or not, is followed
\* by the same rows through the other interface.
StepBulk ==
  LET st == Head(todo)
  IN  /\ Calling
      /\ st.op = "bulk"
      /\ table.exists
      /\ \E applied, reported \in BOOLEAN :
           /\ reported => applied
           /\ table' = IF applied THEN [table EXCEPT !.rows = Appended(@, st.rows)] ELSE table
           /\ draft' = table'
           /\ todo' = (IF reported THEN <<>> ELSE DbxFallback(st.rows)) \o Tail(todo)
      /\ UNCHANGED <<cfg, base, holder, open, conn, sink, fed, pc, why>>

\* The database refuses a statement.
Reject ==
  LET st == Head(todo)
  IN  /\ Calling
      /\ ~Blocked(st)
      /\ UNCHANGED table
      /\ \/ NeedsTable(st) /\ ~View(st.on).exists /\ FailWith("missing")
         \/ /\ NeedsTable(st) => View(st.on).exists
            /\ Refused(st, View(st.on).rows) /\ FailWith("conflict")
         \/ st.op = "stage" /\ st.on = "batch" /\ sink.home \notin {0, conn} /\ FailWith("staging")

\* A lost connection or a cancelled run.  The statement under way, or the commit, may have
\* been carried out.
Fault ==
  /\ ~Over
  /\ \/ UNCHANGED table
     \/ /\ Calling
        /\ ~Blocked(Head(todo)) /\ ~Refused(Head(todo), View(Head(todo).on).rows)
        /\ NeedsTable(Head(todo)) => View(Head(todo).on).exists
        /\ table' = Result(Head(todo)).table
  /\ FailWith("fault")

Done == Over /\ UNCHANGED vars

Run ==
  \/ \E b \in Batches : Write(b)
  \/ WriteDone
  \/ Flush
  \/ FlushDone
  \/ StepBegin
  \/ StepCommit
  \/ StepRun
  \/ StepStage
  \/ StepBulk
  \/ Reject

Next == Run \/ Fault \/ Done

Spec == Init /\ [][Next]_vars /\ WF_vars(Run)

-----------------------------------------------------------------------------
(* What the options ask for: the table mode and the strategy applied to the whole run. *)

FedKeys(bs) == UNION {KeysOf(bs[i]) : i \in DOMAIN bs}
FedRows(bs) == UNION {RowsOf(bs[i]) : i \in DOMAIN bs}

OneBatch(c, rows, b) ==
  CASE c.strategy \in {"append", "truncate"}     -> Appended(rows, b)
    [] c.strategy = "insert_ignore"              -> Ignored(rows, b)
    [] c.strategy \in {"upsert", "merge_delete"} -> Updated(rows, b)

\* The rows before the first batch
Start(c, rows) ==
  IF c.mode = "drop_and_replace" \/ c.strategy = "truncate" THEN NoRows ELSE rows

\* The rows after one batch after the other
InTurn(c, rows, bs) ==
  LET f[n \in 0 .. Len(bs)] == IF n = 0 THEN Start(c, rows) ELSE OneBatch(c, f[n - 1], bs[n])
  IN  f[Len(bs)]

\* The rows after all batches, before merge_delete removes the keys that did not come.  The
\* MERGE of Oracle's staging table compares what came with the rows the run began with: a
\* row that differs in LOBs only is as good as the old one, and so is one that brings the
\* old values back after another.
Loaded(c, rows, bs) ==
  IF OraStaged(c) THEN Changed(Start(c, rows), FedRows(bs)) ELSE InTurn(c, rows, bs)

Expected(c, rows, bs) ==
  IF bs = <<>> THEN rows
  ELSE IF c.strategy = "merge_delete" THEN Kept(Loaded(c, rows, bs), FedKeys(bs))
  ELSE Loaded(c, rows, bs)

\* The configurations that do not do what their options ask for: merge_delete that mirrors
\* a chunk or a batch instead of the run, or deletes nothing; bcp with a staging table,
\* which never truncates; the ODBC insert with a fallback.
Deviates(c) ==
  \/ c.strategy = "merge_delete" /\ c.driver \notin {"postgres", "tiberius", "odbc", "bcp"}
  \/ c.strategy = "merge_delete" /\ c.driver \in {"tiberius", "odbc", "bcp"} /\ ~c.staged
  \/ c.driver = "bcp" /\ c.staged /\ Truncates(c)
  \/ DbxOdbc(c)

\* The configurations with one transaction around the whole run
Atomic(c) ==
  \/ c.driver = "postgres" /\ c.strategy \notin Keyed
  \/ c.driver = "tiberius"
  \/ /\ c.driver = "odbc" \/ (c.driver = "bcp" /\ c.staged)
     /\ c.mode # "drop_and_replace" /\ c.strategy # "truncate"
  \/ /\ c.driver \in {"oracle", "oracle_direct"} /\ ~OraDirect(c)
     /\ c.mode # "drop_and_replace" /\ c.strategy # "truncate"

Contract == INSTANCE SinkContract WITH
  Promises <- {"atomic", "eventual", "none"},
  promise  <- IF Deviates(cfg) THEN "none" ELSE IF Atomic(cfg) THEN "atomic" ELSE "eventual",
  rows     <- table.rows,
  wanted   <- Expected(cfg, base.rows, fed),
  phase    <- CASE pc = "finished"               -> "ok"
                [] pc = "failed"                 -> "failed"
                [] pc = "flush" /\ todo = <<>>   -> "delivered"
                [] OTHER                         -> "accepting"

-----------------------------------------------------------------------------
TypeOK ==
  /\ cfg \in Plans /\ base \in Bases
  /\ table \in Tables /\ draft \in Tables
  /\ holder \in Sessions \cup {"none"} /\ open \subseteq Sessions
  /\ conn \in Conns \cup {0}
  /\ todo \in Seq(Statements)
  /\ sink \in [prepared : BOOLEAN, buffer : Seq(Rows), staged : Seq(Rows), seen : Seq(Rows),
               home : Conns \cup {0}]
  /\ fed \in Seq(Batches) /\ Len(fed) <= MaxBatches
  /\ pc \in {"idle", "write", "flush", "finished", "failed"} /\ why \in Causes

\* The sinks keep the contract: with one transaction for the run the target changes once,
\* to exactly what the options ask for, and a failed run leaves the old rows (or, when the
\* answer to the commit is lost, all of the new ones); the others at least end there.
KeepsContract == Contract!Spec

\* With a Postgres strategy that needs a key the target holds a whole number of batches at
\* any time: the chunks of a batch are one transaction.  merge_delete deletes at the end.
WholeBatches ==
  cfg.driver = "postgres" /\ cfg.strategy \in Keyed /\ base.exists =>
    \/ \E n \in 0 .. Len(fed) : table.rows = Loaded(cfg, base.rows, SubSeq(fed, 1, n))
    \/ pc \in {"flush", "finished", "failed"} /\ table.rows = Expected(cfg, base.rows, fed)

\* Without drop_and_replace, a strategy that only adds rows never loses one, and upsert
\* never loses a key, however the run ends.
BaseKept ==
  cfg.mode # "drop_and_replace" =>
    /\ cfg.strategy \in {"append", "insert_ignore"} =>
         \A r \in Rows : table.rows[r] >= base.rows[r]
    /\ cfg.strategy = "upsert" =>
         \A k \in Keys : Has(base.rows, k) => Has(table.rows, k)

\* Every run comes to an end.
Ends == <>Over

\* merge_delete leaves exactly the keys the run delivered.
MirrorsTheRun ==
  pc = "finished" /\ cfg.strategy = "merge_delete" /\ fed # <<>> =>
    {k \in Keys : Has(table.rows, k)} = FedKeys(fed)
-----------------------------------------------------------------------------
(* The inductive invariant behind KeepsContract, WholeBatches and BaseKept, and what a *)
(* refused run shows.                                                                 *)

\* What a statement makes of the rows of a table that exists.
RowsAfter(st, rows) == Effect(st, [exists |-> TRUE, rows |-> rows]).rows

\* What a program makes of some rows: one element, or none when a statement is refused.
AfterEach(st, S) == {RowsAfter(st, r) : r \in {x \in S : ~Refused(st, x)}}

Outcomes(prog, rows) ==
  LET f[n \in 0 .. Len(prog)] == IF n = 0 THEN {rows} ELSE AfterEach(prog[n], f[n - 1])
  IN  f[Len(prog)]

\* No key comes twice in one batch where a strategy needs a key.
DistinctInBatch == \A c \in Plans : c.strategy \in Keyed => \A b \in Batches : Repeated(b) = {}

\* Postgres waits for its own lock when drop_and_replace meets a keyed strategy.
SelfLocks(c) == c.driver = "postgres" /\ c.mode = "drop_and_replace" /\ c.strategy \in Keyed

\* The statements of a program, those of a kind in a session, and the transactions it begins
Of(prog)       == {prog[i] : i \in DOMAIN prog}
Is(st, op, on) == st.op = op /\ st.on = on
Ddl(st)        == st.op \in {"drop", "create"}
Begun(prog)    == {st.on : st \in {s \in Of(prog) : s.op = "begin"}}

\* DDL comes before every other change, or in its session.
DdlLeads(prog) ==
  \A i \in DOMAIN prog : \A j \in 1 .. i - 1 :
    Ddl(prog[i]) /\ Changes(prog[j]) => prog[j].on = prog[i].on

\* A transaction that begins also ends.
EndsIn(prog, on) ==
  \A i \in DOMAIN prog : Is(prog[i], "begin", on) =>
    \E j \in DOMAIN prog : j > i /\ Is(prog[j], "commit", on)

\* Every change happens in a transaction, the creation of a missing table excepted.
InTxn(prog, o) ==
  \A i \in DOMAIN prog : Changes(prog[i]) =>
    \/ prog[i].op = "create"
    \/ prog[i].on \in o
    \/ \E j \in 1 .. i - 1 : Is(prog[j], "begin", prog[i].on)

\* Nothing is committed before the last statement.
CommitLast(prog) == \A i \in DOMAIN prog : prog[i].op = "commit" => i = Len(prog)

\* A table that does not exist has no rows, without an open change there is no draft, and
\* between two calls nothing is left to send.
Consistent ==
  /\ \A t \in {base, table, draft} : ~t.exists => t.rows = NoRows
  /\ holder = "none" => draft = table
  /\ holder # "none" => holder \in open
  /\ pc \notin {"write", "flush"} => todo = <<>>

DdlFirst ==
  /\ DdlLeads(todo)
  /\ \A st \in Of(todo) : Ddl(st) => holder \in {"none", st.on}

\* The sessions in which a driver has transactions across calls
LongSessions(c) ==
  CASE c.driver = "postgres"                    -> IF PgRunTxn(c) THEN {"run"} ELSE {"stream"}
    [] c.driver \in {"oracle", "oracle_direct"} -> {"run"}
    [] c.driver \in {"tiberius", "odbc"}        -> {"run"}
    [] OTHER                                    -> {}

\* A transaction for one batch ends with the batch, every other one with the flush.
EveryTxnEnds ==
  /\ sink.prepared \/ (open = {} /\ todo = <<>>)
  /\ \A on \in open \cup Begun(todo) : on \in LongSessions(cfg) \cup {"batch"} \/ pc = "flush"
  /\ \A on \in Sessions : on = "batch" \/ pc = "flush" =>
       /\ EndsIn(todo, on)
       /\ on \in open => \E st \in Of(todo) : Is(st, "commit", on)
  /\ \A st \in Of(todo) : st.op = "bulk" => DbxOdbc(cfg) /\ st.on = "auto"

\* What the sink holds back is what its options make it hold back.
GathersBy(c) ==
  IF c.driver \in {"tiberius", "odbc", "bcp"} THEN
    IF ~MsStaged(c) THEN MsDirect(c) ELSE IF MsHow(c) = "mirror" THEN "update" ELSE MsHow(c)
  ELSE IF OraStaged(c) THEN "changed" ELSE "update"

Gathered == Insert("run", sink.staged \o sink.buffer, GathersBy(cfg))

HeldBack ==
  /\ sink.prepared <=> fed # <<>>
  /\ fed = <<>> => sink.staged = <<>> /\ sink.buffer = <<>>
  /\ sink.buffer # <<>> => Buffers(cfg)
  /\ sink.staged # <<>> =>
       IF cfg.driver \in {"tiberius", "odbc", "bcp"} THEN MsStaged(cfg) ELSE OraStaged(cfg)
  /\ OraStaged(cfg) => RowsOf(sink.staged) = FedRows(fed)
  /\ cfg.driver = "postgres" /\ cfg.strategy = "merge_delete" =>
       KeysOf(sink.seen) = FedKeys(fed) /\ (sink.seen = <<>> <=> fed = <<>>)
  /\ ~(cfg.driver = "postgres" /\ cfg.strategy = "merge_delete") => sink.seen = <<>>
  /\ cfg.driver \in {"tiberius", "odbc", "bcp"} /\ MsStaged(cfg) =>
       KeysOf(sink.staged \o sink.buffer) = FedKeys(fed)

\* The rest of the call and what is held back lead to what the options ask for, unless a
\* statement is refused; Oracle's staging table leaves the target alone until the flush.
Delivering ==
  ~Deviates(cfg) =>
    /\ pc \in {"idle", "write"} =>
         IF fed = <<>> THEN draft.rows = base.rows
         ELSE IF OraStaged(cfg) THEN Outcomes(todo, draft.rows) \subseteq {Start(cfg, base.rows)}
         ELSE Outcomes(todo \o <<Gathered>>, draft.rows) \subseteq {Loaded(cfg, base.rows, fed)}
    /\ pc = "flush" => Outcomes(todo, draft.rows) \subseteq {Expected(cfg, base.rows, fed)}

\* The drivers that begin one transaction for the run with the first batch
RunTxn(c) == (c.driver = "postgres" /\ PgRunTxn(c)) \/ c.driver \in {"tiberius", "odbc"}

\* With one transaction around the run every change happens in it, and its commit is the
\* last statement of the flush.
OneTxn ==
  /\ InTxn(todo, open)
  /\ CommitLast(todo)
  /\ pc # "flush" => \A st \in Of(todo) : st.op # "commit"
  /\ pc # "flush" /\ sink.prepared /\ (RunTxn(cfg) \/ (cfg.driver = "oracle" /\ sink.staged # <<>>)) =>
       "run" \in open \cup Begun(todo)

\* It hides everything until then.
Hidden ==
  Atomic(cfg) /\ pc \in {"idle", "write", "flush"} =>
    /\ (pc # "flush" \/ todo # <<>>) => table.rows = base.rows
    /\ OneTxn

\* A transaction around each batch hides the batch until its commit, its last statement.
HiddenBatch ==
  cfg.driver = "postgres" /\ cfg.strategy \in Keyed /\ ~SelfLocks(cfg) =>
    /\ open \cup Begun(todo) \subseteq {"batch"}
    /\ pc = "write" /\ todo # <<>> =>
         table.rows = Loaded(cfg, base.rows, SubSeq(fed, 1, Len(fed) - 1))
    /\ pc = "write" => InTxn(todo, open) /\ CommitLast(todo)
    /\ pc = "flush" /\ todo # <<>> =>
         todo = <<Keep("auto", sink.seen)>> /\ table.rows = Loaded(cfg, base.rows, fed)

Shape ==
  /\ TypeOK
  /\ Consistent
  /\ DdlFirst
  /\ EveryTxnEnds
  /\ HeldBack
  /\ Hidden

IInv == Shape /\ Delivering /\ HiddenBatch

-----------------------------------------------------------------------------
(* The reasons a database can have to refuse a statement. *)

\* DDL in the transaction of the run
DdlInRun(c) == c.driver = "tiberius" \/ (c.driver = "postgres" /\ c.mode = "drop_and_replace")

\* The session each statement belongs to, and the inserts that no key can make fail: those
\* into a table without a primary key
Proper(c, st) ==
  /\ st.op = "begin" => st.on # "auto"
  /\ Ddl(st) /\ ~DdlInRun(c) => st.on = "auto"
  /\ (NeedsTable(st) \/ Changes(st)) /\ DdlInRun(c) /\ ~SelfLocks(c) => st.on = "run"
  /\ st.op = "insert" /\ ~c.pk => st.how = "append"

\* A program that creates the table before it needs one, and does no DDL after that
Creates(prog) ==
  \E i \in DOMAIN prog :
    /\ prog[i].op = "create"
    /\ \A j \in 1 .. i - 1 : ~NeedsTable(prog[j])
    /\ \A j \in i + 1 .. Len(prog) : ~Ddl(prog[j])

\* The table is there, or comes before the first statement that needs one.
TableThere ==
  /\ ~sink.prepared => draft = base
  /\ sink.prepared /\ (cfg.mode = "use_existing" => base.exists) =>
       Creates(todo) \/ (draft.exists /\ \A st \in Of(todo) : ~Ddl(st))

\* The session that sends a statement sees it.
TableSeen ==
  /\ "auto" \notin open
  /\ \A st \in Of(todo) : Proper(cfg, st)
  /\ ~SelfLocks(cfg) =>
       IF DdlInRun(cfg) THEN holder \in {"none", "run"} ELSE draft.exists = table.exists

\* A batch is staged by one statement.
StagedOnce ==
  /\ sink.home # 0 => conn # 0 /\ fed # <<>>
  /\ \A i, j \in DOMAIN todo :
       Is(todo[i], "stage", "batch") /\ Is(todo[j], "stage", "batch") => i = j
  /\ sink.home # 0 /\ (\E st \in Of(todo) : Is(st, "stage", "batch")) => Len(fed) > 1

\* The rows the first insert meets: bcp does not truncate before it fills a staging table.
Met(c, rows) == IF c.driver = "bcp" /\ c.staged /\ Truncates(c) THEN rows ELSE Start(c, rows)

\* Every key came once, and was not in the table.
AllNew ==
  \A i \in DOMAIN fed : \A k \in KeysOf(fed[i]) :
    /\ ~Has(Met(cfg, base.rows), k)
    /\ k \notin Repeated(fed[i])
    /\ \A j \in DOMAIN fed \ {i} : k \notin KeysOf(fed[j])

\* Then no statement is refused for a key: what is left of a call leads to a table that has
\* none of the keys that are held back, and none that are new.
KeysWelcome ==
  cfg.pk /\ AllNew =>
    LET held == sink.staged \o sink.buffer
    IN  /\ pc \in {"idle", "write"} =>
             /\ Repeated(held) = {} /\ KeysOf(held) \subseteq FedKeys(fed)
             /\ fed # <<>> => \E rows \in Outcomes(todo, draft.rows) : \A k \in Keys : Has(rows, k) =>
                  k \notin KeysOf(held) /\ (Has(Met(cfg, base.rows), k) \/ k \in FedKeys(fed))
        /\ pc = "flush" => Outcomes(todo, draft.rows) # {}

CauseInv ==
  /\ why # "none" => pc = "failed"
  /\ pc \in {"idle", "write", "flush"} => TableThere /\ TableSeen /\ StagedOnce /\ KeysWelcome

\* A run the database refuses had a reason: a table with a primary key, whatever the strategy,
\* and a key that came twice or was there already; no table, or the lock of Postgres' own
\* transaction; a second batch on another connection.
Caused ==
  /\ why = "conflict" => cfg.pk /\ ~AllNew
  /\ why = "missing" => SelfLocks(cfg) \/ (cfg.mode = "use_existing" /\ ~base.exists)
  /\ why = "staging" => Len(fed) > 1 /\ \E a, b \in Conns : a # b

\* The state is one of those the proofs rely on, and a run is refused for a cause only.
RefusedForCause == IInv /\ CauseInv /\ Caused
=============================================================================
