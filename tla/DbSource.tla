-------------------------------- MODULE DbSource --------------------------------
(***************************************************************************)
(* Reading a table in batches (exec of the four database sources) while    *)
(* others change it. With a cursor column every page is a query of its     *)
(* own, for the rows above the last value seen; without one Postgres,      *)
(* MySQL and Oracle read on from one statement, and SQL Server skips the   *)
(* rows it has had. Postgres and Oracle read in a thread that runs ahead   *)
(* of the pipeline; the others read when they are polled.                  *)
(***************************************************************************)
EXTENDS Integers, Sequences, FiniteSets, FiniteSetsExt

CONSTANTS
  TableRows,     \* rows the table has when reading begins
  PageRows,      \* batch_size
  ReadAhead,     \* the capacity of the thread's channel
  TableChanges   \* rows others insert, and rows they delete, while it is read

ASSUME DbSourceAssumption ==
  TableRows \in Nat /\ PageRows \in Nat \ {0} /\ ReadAhead \in Nat \ {0} /\ TableChanges \in Nat

VARIABLES
  reader,     \* the driver, its mode and what is odd about the table
  table,      \* the rows, each with its cursor's value; NoKey is NULL
  added, removed,
  last,       \* last_cursor, NoKey when there is none
  skipped,     \* rows SQL Server has been given
  remaining,  \* the rows the open statement has still to give, once it is open
  src_pc,     \* what the reading side is doing
  queue,      \* batches, and at last an error, on their way to the pipeline
  got,        \* the rows the pipeline has received
  outcome     \* what the pipeline takes the stream for

tableVars  == <<table, added, removed>>
cursorVars == <<last, skipped, remaining>>
dbVars == <<reader, table, added, removed, last, skipped, remaining, src_pc, queue, got, outcome>>

NoKey == 0
Drivers == {"postgres", "oracle", "mysql", "mssql"}
Threaded == reader.driver \in {"postgres", "oracle"}

\* Keys of the rows the table starts with: unique ones, two alike, and some or most NULL.
Layouts ==
  {[r \in 1..TableRows |-> 2 * r],
   [r \in 1..TableRows |-> IF r = PageRows + 1 THEN 2 * PageRows ELSE 2 * r],
   [r \in 1..TableRows |-> IF r = 1 THEN NoKey ELSE 2 * r],
   [r \in 1..TableRows |-> IF r = TableRows THEN 2 * r ELSE NoKey]}

\* readable: the cursor's type is one exec reads it as (SQL Server only BIGINT and text;
\* elsewhere no date, and in Postgres no SMALLINT). unreadable_row: a row with a value
\* that is no value of its Rust type, in a NOT NULL column.
Readers ==
  [driver : Drivers, mode : {"keyset", "scan"}, readable : BOOLEAN, unreadable_row : {0, 2}]

DbSourceInit ==
  /\ reader \in Readers
  /\ table \in Layouts
  /\ reader.mode = "scan" \/ ~reader.readable \/ reader.unreadable_row # 0 =>
       \A r \in DOMAIN table : table[r] = 2 * r
  /\ reader.mode = "scan" => reader.readable
  /\ reader.driver # "postgres" \/ ~reader.readable => reader.unreadable_row = 0
  /\ added = 0 /\ removed = {}
  /\ last = NoKey /\ skipped = 0 /\ remaining = [open |-> FALSE, rows |-> {}]
  /\ src_pc = "fetching" /\ queue = <<>> /\ got = {} /\ outcome = "reading"

\* ORDER BY puts NULL last in Postgres and Oracle, first in the others. (SQL Server's
\* pages without a cursor have no order: they come in that of the table, here the keys'.)
AfterAll == 2 * TableRows + 4
Place(r) == IF table[r] # NoKey THEN table[r]
            ELSE IF Threaded THEN AfterAll ELSE -1

\* The first n of these rows: any of those, when some are alike.
FirstOf(rows, n) ==
  {page \in SUBSET rows :
     /\ Cardinality(page) = Min({n, Cardinality(rows)})
     /\ \A r \in page, other \in rows \ page : Place(r) <= Place(other)}

\* build_keyset_query and its likes: a comparison with NULL is not true.
AboveCursor == {r \in DOMAIN table : last = NoKey \/ table[r] > last}

\* The cursor after a page. Oracle takes the last value of the page that is none of NULL,
\* or none at all; the others that of the last row, and keep the old one if it is NULL.
Keys(page) == {table[r] : r \in page} \ {NoKey}
CursorAfter(page) ==
  LET lastRow == CHOOSE r \in page : \A other \in page : Place(other) <= Place(r)
  IN  IF ~reader.readable THEN last
      ELSE IF reader.driver = "oracle" THEN IF Keys(page) = {} THEN NoKey ELSE Max(Keys(page))
      ELSE IF table[lastRow] = NoKey THEN last ELSE table[lastRow]

\* The reading side goes on as long as there is room for a batch and someone takes it.
Reading == src_pc = "fetching" /\ outcome = "reading" /\ Len(queue) < (IF Threaded THEN ReadAhead ELSE 1)

\* A page is sent on, and a short one is the last. The batch of a Postgres row that
\* cannot be read is none: the thread panics, and its channel closes behind it.
ShortOrFull(page) == Cardinality(page) <= PageRows
Short(page) == Cardinality(page) < PageRows
Deliver(page) ==
  IF page = {} \/ reader.unreadable_row \in page THEN src_pc' = "ended" /\ UNCHANGED queue
  ELSE queue' = Append(queue, page) /\ src_pc' = IF Short(page) THEN "ended" ELSE "fetching"

FetchKeyset ==
  /\ Reading /\ reader.mode = "keyset"
  /\ \E page \in FirstOf(AboveCursor, PageRows) :
       /\ Deliver(page)
       /\ last' = IF page = {} THEN last ELSE CursorAfter(page)
  /\ UNCHANGED <<reader, tableVars, skipped, remaining, got, outcome>>

\* OFFSET and FETCH NEXT, on the table as it is now.
FetchOffset ==
  /\ Reading /\ reader.mode = "scan" /\ reader.driver = "mssql"
  /\ LET before == CHOOSE skip \in FirstOf(DOMAIN table, skipped) : TRUE
     IN  \E page \in FirstOf(DOMAIN table \ before, PageRows) :
           Deliver(page) /\ skipped' = skipped + Cardinality(page)
  /\ UNCHANGED <<reader, tableVars, last, remaining, got, outcome>>

\* A server-side cursor, or a statement that is read on: the table as it was.
OpenStatement ==
  /\ Reading /\ ~remaining.open /\ reader.mode = "scan" /\ reader.driver # "mssql"
  /\ remaining' = [open |-> TRUE, rows |-> DOMAIN table]
  /\ UNCHANGED <<reader, tableVars, last, skipped, src_pc, queue, got, outcome>>

RestAfter(page) == remaining.rows \ page
FetchOn ==
  /\ Reading /\ remaining.open
  /\ LET page == IF Cardinality(remaining.rows) <= PageRows THEN remaining.rows
                 ELSE CHOOSE p \in SUBSET remaining.rows :
                        Cardinality(p) = PageRows /\ \A r \in p, o \in remaining.rows \ p : r < o
     IN  Deliver(page) /\ remaining' = [remaining EXCEPT !.rows = RestAfter(page)]
  /\ UNCHANGED <<reader, tableVars, last, skipped, got, outcome>>

\* A query fails: the error follows the batches that were sent before it.
QueryFails ==
  /\ Reading
  /\ queue' = Append(queue, {}) /\ src_pc' = "ended"
  /\ UNCHANGED <<reader, tableVars, cursorVars, got, outcome>>

\* The pipeline takes a batch, or the error, or finds the stream at its end.
PipelineTakes ==
  /\ outcome = "reading" /\ queue # <<>>
  /\ queue' = Tail(queue)
  /\ IF Head(queue) = {} THEN outcome' = "failed" /\ UNCHANGED got
     ELSE got' = got \cup Head(queue) /\ UNCHANGED outcome
  /\ UNCHANGED <<reader, tableVars, cursorVars, src_pc>>

EndOfStream ==
  /\ outcome = "reading" /\ queue = <<>> /\ src_pc = "ended"
  /\ outcome' = "whole"
  /\ UNCHANGED <<reader, tableVars, cursorVars, src_pc, queue, got>>

\* The pipeline has failed elsewhere; the next send of the reading side fails.
HangUp ==
  /\ outcome = "reading" /\ outcome' = "dropped"
  /\ UNCHANGED <<reader, tableVars, cursorVars, src_pc, queue, got>>

SendFails ==
  /\ outcome = "dropped" /\ src_pc = "fetching" /\ src_pc' = "ended"
  /\ UNCHANGED <<reader, tableVars, cursorVars, queue, got, outcome>>

\* Others write to the table.
NewKeys == IF reader.mode = "keyset" THEN {3, 2 * TableRows + 1} ELSE {3, 2 * TableRows + 1} \ {table[r] : r \in DOMAIN table}
InsertRow ==
  /\ src_pc = "fetching" /\ outcome = "reading" /\ added < TableChanges
  /\ added' = added + 1
  /\ \E k \in NewKeys :
       table' = [r \in DOMAIN table \cup {TableRows + added'} |-> IF r \in DOMAIN table THEN table[r] ELSE k]
  /\ UNCHANGED <<reader, removed, cursorVars, src_pc, queue, got, outcome>>

DeleteRow ==
  /\ src_pc = "fetching" /\ outcome = "reading" /\ Cardinality(removed) < TableChanges
  /\ \E r \in DOMAIN table :
       /\ removed' = removed \cup {r}
       /\ table' = [other \in DOMAIN table \ {r} |-> table[other]]
  /\ UNCHANGED <<reader, added, cursorVars, src_pc, queue, got, outcome>>

Fetch == FetchKeyset \/ FetchOffset \/ OpenStatement \/ FetchOn
ReadSide == Fetch \/ SendFails
PipelineSide == PipelineTakes \/ EndOfStream
DbSourceNext == ReadSide \/ QueryFails \/ PipelineSide \/ HangUp \/ InsertRow \/ DeleteRow

DbSourceSpec ==
  DbSourceInit /\ [][DbSourceNext]_dbVars /\ WF_dbVars(ReadSide) /\ WF_dbVars(PipelineSide)

-----------------------------------------------------------------------------
\* What has left the reading side; an empty batch stands for an error.
Batched(q)  == UNION {q[i] : i \in DOMAIN q}
HasError(q) == \E i \in DOMAIN q : q[i] = {}
Fetched == got \cup Batched(queue)

\* Rows the table has had all along; those without a key, or with the key of a row that
\* has gone or is given.
Settled == 1..TableRows \ removed
NullRows == {r \in DOMAIN table : table[r] = NoKey}
Alike(r) == {other \in DOMAIN table \ {r} : table[other] = table[r]}

\* A settled row is among these. Not held to that: a row without a key, or with the key of
\* a row that was given, under a cursor; anything SQL Server skips without one when rows
\* before it go.
Given(r, rows) ==
  \/ r \in rows
  \/ reader.mode = "keyset" /\ (table[r] = NoKey \/ (Alike(r) \cup removed) \cap rows # {})
  \/ reader.driver = "mssql" /\ reader.mode = "scan" /\ removed # {}

\* A stream that ends without an error has given every settled row; but a Postgres table
\* with a row that cannot be read, whose stream just ends there.
SettledRowsRead ==
  outcome = "whole" /\ reader.unreadable_row = 0 => \A r \in Settled : Given(r, got)

\* Postgres keeps no cursor when the first page ends with a NULL, and fetches it again.
Repeats == reader.driver = "postgres" /\ (NullRows \cup removed) \cap Fetched # {}

\* Once there is a cursor nothing is fetched that was fetched before, and nothing at all
\* without one, except the rows others push back in SQL Server.
NothingFetchedTwice ==
  /\ Len(queue') > Len(queue)
  /\ \/ last # NoKey /\ ~Repeats
     \/ reader.mode = "scan" /\ (reader.driver # "mssql" \/ added = 0)
  => queue'[Len(queue')] \cap Fetched = {}

-----------------------------------------------------------------------------
(* The inductive invariant.                                                  *)

RowIds == 1..TableRows + added
ReadTypeOK ==
  /\ reader \in Readers /\ (reader.unreadable_row # 0 => reader.driver = "postgres")
  /\ added \in Nat /\ removed \subseteq RowIds
  /\ DOMAIN table = RowIds \ removed /\ table \in [DOMAIN table -> 0..AfterAll - 1]
  /\ last \in Nat /\ skipped \in Nat
  /\ remaining \in [open : BOOLEAN, rows : SUBSET RowIds]
  /\ src_pc \in {"fetching", "ended"} /\ outcome \in {"reading", "whole", "failed", "dropped"}
  /\ queue \in Seq(SUBSET RowIds) /\ got \subseteq RowIds

\* An error comes last, and a stream is taken for whole when nothing is left of it.
Ending ==
  /\ HasError(queue) => src_pc = "ended"
  /\ outcome = "whole" => queue = <<>> /\ src_pc = "ended"

\* The cursor is behind what was fetched, and nothing settled is left behind it.
BehindCursor ==
  /\ last # NoKey => reader.mode = "keyset" /\ reader.readable
  /\ reader.mode = "keyset" /\ last # NoKey /\ reader.unreadable_row = 0 =>
       \A r \in Settled : table[r] <= last => Given(r, Fetched)
  /\ reader.mode = "keyset" /\ reader.readable /\ ~Repeats =>
       \A r \in DOMAIN table \cap Fetched : table[r] <= last

\* One statement gives each of its rows once.
FromStatement ==
  /\ remaining.open => reader.mode = "scan" /\ reader.driver # "mssql"
  /\ reader.mode = "scan" /\ reader.driver # "mssql" =>
       /\ ~remaining.open => Fetched = {} /\ remaining.rows = {}
       /\ remaining.rows \cap Fetched = {}
  /\ remaining.open /\ reader.unreadable_row = 0 => Settled \subseteq remaining.rows \cup Fetched

\* As long as rows only come in SQL Server has given all that it skips, and as long as
\* they only go it skips all that it has given.
Before(r) == {other \in DOMAIN table : table[other] < table[r]}
FromOffset ==
  reader.mode = "scan" =>
    /\ \A r, other \in DOMAIN table : table[r] # NoKey /\ (table[r] = table[other] => r = other)
    /\ reader.driver = "mssql" =>
         /\ removed = {} => \A r \in Settled : r \in Fetched \/ Cardinality(Before(r)) >= skipped
         /\ added = 0 => \A r \in DOMAIN table \cap Fetched : Cardinality(Before(r)) < skipped

\* Where reading has come to its end everything has been given.
EndReached ==
  /\ src_pc = "ended" /\ outcome \in {"reading", "whole"} /\ reader.unreadable_row = 0
  => HasError(queue) \/ \A r \in Settled : Given(r, Fetched)

ReadInv ==
  /\ ReadTypeOK
  /\ Ending
  /\ BehindCursor
  /\ FromStatement
  /\ FromOffset
  /\ EndReached

\* Reading in pages while others write loses nothing that stays and repeats nothing.
SettledRowsReadOnce == [][ReadInv' /\ SettledRowsRead' /\ NothingFetchedTwice]_dbVars
=============================================================================
