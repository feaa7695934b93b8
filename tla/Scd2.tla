--------------------------------- MODULE Scd2 ---------------------------------
(***************************************************************************)
(* The SCD2 sink: drivers/*/src/scd2.rs (databricks: src/api/scd2.rs) over *)
(* the shared decision of common/src/db/common/mod.rs.                     *)
(*                                                                         *)
(* The table keeps every version a key ever had; at most one is current.   *)
(* write() fetches the current versions of the keys in its batch, closes   *)
(* those whose values changed and inserts the new ones, in statements of   *)
(* at most chunk_size keys; flush() closes what a full snapshot did not    *)
(* contain.  Which statements make one transaction depends on the driver,  *)
(* and a run may be cut off between any two of them: the next run works    *)
(* with what it finds.  A version is a key and one value that stands for   *)
(* its tracked columns; of valid_from and valid_to only "still open" is    *)
(* kept.                                                                   *)
(***************************************************************************)
EXTENDS Naturals, Sequences, FiniteSets

CONSTANTS
  Driver,       \* which implementation of Scd2Builder
  Keys,         \* the values of the key column
  Values,       \* the values of the tracked columns
  NullKey,      \* NULL as a key; a member of Keys if the column may hold it
  Null,         \* NULL as a value
  Empty,        \* the empty string as a value
  Unread,       \* the values of column types the driver has no reading for
  CloseMissing, \* Scd2Config::close_missing
  ChunkSize,    \* the keys or rows of one statement
  Distinct,     \* TRUE: no two rows of one write have the same key
  BatchRows,    \* bound: the rows of one write
  MaxWrites,    \* bound: the writes of one run
  MaxRuns       \* bound: the runs

Drivers == {"postgres", "mysql", "mssql", "oracle", "databricks"}

ASSUME Scd2Assumption ==
  /\ Driver \in Drivers
  /\ CloseMissing \in BOOLEAN
  /\ Distinct \in BOOLEAN
  /\ Unread \subseteq Values \ {Null} /\ (Driver \in {"oracle", "databricks"} => Unread = {})
  /\ ChunkSize \in Nat \ {0}
  /\ BatchRows \in Nat
  /\ MaxWrites \in Nat
  /\ MaxRuns \in Nat

\* write() is one transaction, flush() is one.
AtomicWrite == Driver \in {"postgres", "mssql", "oracle"}
AtomicSweep == Driver = "oracle"

\* What a value is once it was written: the Databricks statement spells NULL as
\* '', and for Oracle '' is NULL.
Stored(v) ==
  IF Driver = "databricks" /\ v = Null THEN Empty
  ELSE IF Driver = "oracle" /\ v = Empty THEN Null ELSE v

\* What the select of the current rows makes of a stored value.  The drivers try some types
\* for each column and take NULL where none fits: a DATE, DECIMAL or timestamp (Postgres,
\* MySQL), an INT (SQL Server).  One that reads as another text (a BOOL of MySQL, a
\* timestamp of SQL Server) differs from what comes in the same way, but from NULL, too.
ReadBack(v) == IF v \in Unread THEN Null ELSE v

\* WHERE key IN (...) finds a row with this key, and extract_scd2_key_strings gives it
\* the same string: not so for a NULL key, which only Databricks stores as ''.
Matchable(k) == k # NullKey \/ Driver = "databricks"

ASSUME StoredAssumption == \A v \in Values : Stored(v) \in Values

Rows     == [key : Keys, val : Values]
Versions == [key : Keys, val : Values, current : BOOLEAN]

VARIABLES
  table,      \* the versions, as another session sees them
  draft,      \* the versions, as the sink's own connection sees them
  phase,      \* what the sink is doing
  closing,    \* the keys still to be closed by write or flush
  inserting,  \* Scd2Decision::to_insert, what is left of it
  seen,       \* seen_keys
  fed,        \* the last value this run received for each key
  writes,     \* the writes of this run so far
  runs        \* the runs started so far

vars == <<table, draft, phase, closing, inserting, seen, fed, writes, runs>>

Over   == {"finished", "failed"}
Phases == {"idle", "write", "sweep"} \cup Over

Nothing == [k \in {} |-> Null]

CurrentVals(t, k) == {t[i].val : i \in {j \in DOMAIN t : t[j].current /\ t[j].key = k}}
CurrentKeys(t)    == {t[i].key : i \in {j \in DOMAIN t : t[j].current}}

Closed(version) == [version EXCEPT !.current = FALSE]

\* UPDATE ... SET is_current = false WHERE is_current = true AND key IN (ks)
Close(t, ks) ==
  [i \in DOMAIN t |-> IF t[i].key \in ks /\ Matchable(t[i].key)
                      THEN Closed(t[i]) ELSE t[i]]

Chunks(S) == {c \in SUBSET S : Cardinality(c) = IF Cardinality(S) < ChunkSize
                                                THEN Cardinality(S) ELSE ChunkSize}

BatchKeys(b) == {b[i].key : i \in DOMAIN b}

Batches ==
  {b \in UNION {[1..n -> Rows] : n \in 1..BatchRows} :
     Distinct => \A i, j \in DOMAIN b : b[i].key = b[j].key => i = j}

\* The last row of the batch for key k.
LastVal(b, k) == b[CHOOSE i \in DOMAIN b : b[i].key = k /\ \A j \in DOMAIN b : j > i => b[j].key # k].val

\* The positions in S in increasing order.
InOrder(S) ==
  {o \in [1..Cardinality(S) -> S] :
     /\ \A i, j \in DOMAIN o : i < j => o[i] < o[j]
     /\ S = {o[i] : i \in DOMAIN o}}

-----------------------------------------------------------------------------
(* Faults: what plausible mistakes in the code would make of definitions below.    *)
(* Nothing in the specification uses them; they show that the properties notice.    *)

\* A chunk of more than one row is cut to its first.
InsertFirstOfChunk(t, rows) ==
  Append(t, [key |-> rows[1].key, val |-> Stored(rows[1].val), current |-> TRUE])

\* The connection is in autocommit mode all the time.
ExecuteAutocommit(t, atomic) == draft' = t /\ table' = t

\* seen_keys holds the keys of the last write only.
SeenLastOnly(b) == IF CloseMissing THEN BatchKeys(b) ELSE {}

\* The changed versions are not closed.
DecideOnlyInserts(b, existing) ==
  LET Changed(i) == b[i].key \in DOMAIN existing /\ existing[b[i].key] # b[i].val
      New(i)     == b[i].key \notin DOMAIN existing
  IN  /\ closing' = {}
      /\ \E o \in InOrder({i \in DOMAIN b : New(i) \/ Changed(i)}) :
           inserting' = [i \in DOMAIN o |-> b[o[i]]]

\* Every version found is superseded, without a comparison.
DecideAlwaysChanged(b, existing) == closing' = DOMAIN existing /\ inserting' = b

-----------------------------------------------------------------------------
\* INSERT of rows as current versions
Insert(t, rows) ==
  t \o [i \in DOMAIN rows |-> [key |-> rows[i].key, val |-> Stored(rows[i].val), current |-> TRUE]]

\* A statement is visible to others at once unless a transaction is open.
Execute(t, atomic) == draft' = t /\ table' = IF atomic THEN table ELSE t

SeenAfter(b) == IF CloseMissing THEN seen \cup BatchKeys(b) ELSE seen

\* compute_scd2_decision: the keys to close and the rows to insert.
Decide(b, existing) ==
  LET Changed(i) == b[i].key \in DOMAIN existing /\ existing[b[i].key] # b[i].val
      New(i)     == b[i].key \notin DOMAIN existing
  IN  /\ closing' = {b[i].key : i \in {j \in DOMAIN b : Changed(j)}}
      /\ \E o \in InOrder({i \in DOMAIN b : New(i) \/ Changed(i)}) :
           inserting' = [i \in DOMAIN o |-> b[o[i]]]

\* write(), up to its first statement that changes the table.  When a key has several
\* current versions the map of fetched rows keeps any one of them.
Write(b) ==
  /\ phase = "idle"
  /\ writes < MaxWrites
  /\ LET found == {k \in BatchKeys(b) \cap CurrentKeys(draft) : Matchable(k)}
     IN  \E existing \in [found -> Values \cup {Null}] :
           /\ \A k \in found : \E v \in CurrentVals(draft, k) : existing[k] = ReadBack(v)
           /\ Decide(b, existing)
  /\ seen' = SeenAfter(b)
  /\ fed' = [k \in DOMAIN fed \cup BatchKeys(b) |->
               IF k \in BatchKeys(b) THEN LastVal(b, k) ELSE fed[k]]
  /\ writes' = writes + 1
  /\ phase' = "write"
  /\ UNCHANGED <<table, draft, runs>>

CloseChanged ==
  /\ phase = "write"
  /\ closing # {}
  /\ \E c \in Chunks(closing) :
       /\ Execute(Close(draft, c), AtomicWrite)
       /\ closing' = closing \ c
  /\ UNCHANGED <<phase, inserting, seen, fed, writes, runs>>

InsertNew ==
  /\ phase = "write"
  /\ closing = {}
  /\ inserting # <<>>
  /\ LET n == IF Len(inserting) < ChunkSize THEN Len(inserting) ELSE ChunkSize
     IN  /\ Execute(Insert(draft, SubSeq(inserting, 1, n)), AtomicWrite)
         /\ inserting' = SubSeq(inserting, n + 1, Len(inserting))
  /\ UNCHANGED <<phase, closing, seen, fed, writes, runs>>

Commit ==
  /\ phase = "write"
  /\ closing = {}
  /\ inserting = <<>>
  /\ table' = draft
  /\ phase' = "idle"
  /\ UNCHANGED <<draft, closing, inserting, seen, fed, writes, runs>>

\* The Postgres driver cannot read a NULL key back, and flush fails.
SweepReadFails == Driver = "postgres" /\ NullKey \in CurrentKeys(draft)

\* flush(): nothing to sweep without close_missing, or when no key was seen.
Flush ==
  /\ phase = "idle"
  /\ IF CloseMissing /\ seen # {}
     THEN /\ ~SweepReadFails
          /\ closing' = CurrentKeys(draft) \ seen
          /\ phase' = "sweep"
     ELSE phase' = "finished" /\ UNCHANGED closing
  /\ UNCHANGED <<table, draft, inserting, seen, fed, writes, runs>>

SweepMissing ==
  /\ phase = "sweep"
  /\ closing # {}
  /\ \E c \in Chunks(closing) :
       /\ Execute(Close(draft, c), AtomicSweep)
       /\ closing' = closing \ c
  /\ UNCHANGED <<phase, inserting, seen, fed, writes, runs>>

SweepDone ==
  /\ phase = "sweep"
  /\ closing = {}
  /\ table' = draft
  /\ seen' = {}
  /\ phase' = "finished"
  /\ UNCHANGED <<draft, closing, inserting, fed, writes, runs>>

\* A statement fails, an upstream error ends the step, or the process dies: an open
\* transaction is rolled back, everything else stays, and the run is over.
Fail ==
  /\ phase \notin Over
  /\ phase' = "failed"
  /\ draft' = table
  /\ closing' = {}
  /\ inserting' = <<>>
  /\ UNCHANGED <<table, seen, fed, writes, runs>>

\* The pipeline is run again, with a new sink and whatever data there is by then.
Rerun ==
  /\ phase \in Over
  /\ runs < MaxRuns
  /\ phase' = "idle"
  /\ seen' = {}
  /\ fed' = Nothing
  /\ writes' = 0
  /\ runs' = runs + 1
  /\ UNCHANGED <<table, draft, closing, inserting>>

Done == phase \in Over /\ runs = MaxRuns /\ UNCHANGED vars

Init ==
  /\ table = <<>> /\ draft = <<>>
  /\ phase = "idle"
  /\ closing = {} /\ inserting = <<>>
  /\ seen = {} /\ fed = Nothing
  /\ writes = 0 /\ runs = 1

Next ==
  \/ \E b \in Batches : Write(b)
  \/ CloseChanged \/ InsertNew \/ Commit
  \/ Flush \/ SweepMissing \/ SweepDone
  \/ Fail \/ Rerun \/ Done

Spec == Init /\ [][Next]_vars
-----------------------------------------------------------------------------
TypeOK ==
  /\ table \in Seq(Versions) /\ draft \in Seq(Versions)
  /\ phase \in Phases
  /\ closing \subseteq Keys
  /\ inserting \in Seq(Rows)
  /\ seen \subseteq Keys
  /\ DOMAIN fed \subseteq Keys /\ \A k \in DOMAIN fed : fed[k] \in Values
  /\ writes \in Nat /\ runs \in Nat

OneCurrentIn(t) ==
  \A i, j \in DOMAIN t :
    t[i].current /\ t[j].current /\ t[i].key = t[j].key /\ Matchable(t[i].key) => i = j

\* A key has at most one current version, whatever was cut off and run again before:
\* what a join on is_current = true relies on.
OneCurrent == OneCurrentIn(table)

\* What may stand as the current version after w was received last: w as it is stored.
\* (A NULL is also taken for a value the driver does not read back: it leaves that value.)
StandsFor(v, w) == v = Stored(w) \/ (w = Null /\ v \in Unread)

\* A run that ends well leaves, as the current version of every key it received, what
\* it received last, and with close_missing no other key has one ("paginated snapshots
\* work automatically"), whatever state an earlier run that broke off left behind.
SnapshotConverges ==
  phase = "finished" /\ DOMAIN fed # {} =>
    \A k \in {k \in Keys : Matchable(k)} :
      /\ k \in DOMAIN fed => \E v \in Values : CurrentVals(table, k) = {v} /\ StandsFor(v, fed[k])
      /\ CloseMissing /\ k \notin DOMAIN fed => CurrentVals(table, k) = {}

\* History is only appended to, and a version is closed only when this run received
\* another value for its key than the version reads as, or, by the sweep, none: unchanged
\* rows and, without close_missing, the rows of other keys are left untouched.  (A version
\* that does not read back is superseded by its own value.)
OnlySuperseded ==
  /\ Len(table) <= Len(table')
  /\ \A i \in DOMAIN table :
       \/ table'[i] = table[i]
       \/ /\ table'[i] = Closed(table[i])
          /\ IF table[i].key \in DOMAIN fed THEN ReadBack(table[i].val) # Stored(fed[table[i].key])
             ELSE CloseMissing /\ phase = "sweep"

UnchangedUntouched == [][OnlySuperseded]_vars

\* No reader ever finds a key without a current version because it is being replaced:
\* only the sweep takes a key's current version away.
OnlySwept == phase # "sweep" => CurrentKeys(table) \subseteq CurrentKeys(table')

KeyNeverVanishes == [][OnlySwept]_vars
-----------------------------------------------------------------------------
(* The inductive invariant behind OneCurrent and SnapshotConverges, for writes whose *)
(* keys are distinct.                                                                *)

Pending(k)    == {i \in DOMAIN inserting : inserting[i].key = k}
CurrentOf(k)  == {j \in DOMAIN draft : draft[j].current /\ draft[j].key = k}

\* Nothing is under way outside of write and flush.
Settled ==
  /\ phase \in {"idle"} \cup Over => closing = {} /\ draft = table
  /\ phase # "write" => inserting = <<>>

\* What is still to be closed in a write will be replaced; what is to be inserted has no
\* current version that stays.
Replacing ==
  /\ phase = "write" => \A k \in closing : Pending(k) # {}
  /\ \A i, j \in DOMAIN inserting : inserting[i].key = inserting[j].key => i = j
  /\ \A i \in DOMAIN inserting :
       Matchable(inserting[i].key) /\ CurrentOf(inserting[i].key) # {}
         => inserting[i].key \in closing

\* The table holds values as they are once written.
ReadsBackIn(t) == \A j \in DOMAIN t : Stored(t[j].val) = t[j].val

ReadsBack == ReadsBackIn(draft) /\ ReadsBackIn(table)

\* What was received last is current, or about to be.
Fresh ==
  phase # "failed" =>
    \A k \in DOMAIN fed : Matchable(k) =>
      /\ Pending(k) \cup CurrentOf(k) # {}
      /\ \A i \in Pending(k) : inserting[i].val = fed[k]
      /\ \A j \in CurrentOf(k) : k \in closing \/ StandsFor(draft[j].val, fed[k])

\* The sweep spares what was received and reaches everything else.
Sweeping ==
  /\ CloseMissing /\ phase \in {"idle", "write", "sweep"} => seen = DOMAIN fed
  /\ phase = "sweep" => CloseMissing /\ closing \cap DOMAIN fed = {}
  /\ CloseMissing /\ (phase = "sweep" \/ (phase = "finished" /\ DOMAIN fed # {})) =>
       \A j \in DOMAIN draft :
         draft[j].current /\ Matchable(draft[j].key) => draft[j].key \in DOMAIN fed \cup closing

IInv ==
  /\ TypeOK
  /\ Settled
  /\ OneCurrent
  /\ OneCurrentIn(draft)
  /\ Replacing
  /\ ReadsBack
  /\ Fresh
  /\ Sweeping

-----------------------------------------------------------------------------
(* The inductive invariant behind UnchangedUntouched and KeyNeverVanishes: how far the *)
(* sink's connection is ahead of what others see.                                     *)

\* Outside of a transaction others see each statement at once.
Transacted ==
  /\ phase = "write" /\ ~AtomicWrite => draft = table
  /\ phase = "sweep" /\ ~AtomicSweep => draft = table

\* A write closes a key because it received another value than the current one.
Superseding ==
  phase = "write" =>
    \A k \in closing : k \in DOMAIN fed /\ \A j \in CurrentOf(k) : ReadBack(draft[j].val) # fed[k]

\* The connection has added versions to the table, and closed some for a reason.
Ahead ==
  /\ Len(table) <= Len(draft)
  /\ \A i \in DOMAIN table :
       \/ draft[i] = table[i]
       \/ /\ draft[i] = Closed(table[i])
          /\ IF table[i].key \in DOMAIN fed THEN ReadBack(table[i].val) # fed[table[i].key]
             ELSE CloseMissing /\ phase = "sweep"

\* A key that others see as current still is, or is about to be again.
Covered ==
  phase = "write" => \A k \in CurrentKeys(table) : k \in CurrentKeys(draft) \/ Pending(k) # {}

HistoryInv ==
  /\ IInv
  /\ Transacted
  /\ Superseding
  /\ Ahead
  /\ Covered
=============================================================================
