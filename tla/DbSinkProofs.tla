----------------------------- MODULE DbSinkProofs -----------------------------
(***************************************************************************)
(* Proofs about DbSink: for every driver, table mode, strategy and chunk   *)
(* size, and with a fault at any statement, what a run of write_db leaves  *)
(* in the table.                                                           *)
(***************************************************************************)
EXTENDS DbSinkLemmas

-----------------------------------------------------------------------------
(* The first statement of a program and the rest. *)

LEMMA HeadAndTail ==
  ASSUME NEW prog \in Seq(Statements), prog # <<>>
  PROVE  /\ Head(prog) \in Statements /\ Tail(prog) \in Seq(Statements)
         /\ <<Head(prog)>> \in Seq(Statements)
         /\ prog = <<Head(prog)>> \o Tail(prog)
         /\ Of(prog) = {Head(prog)} \cup Of(Tail(prog))
         /\ Begun(prog) = (IF Head(prog).op = "begin" THEN {Head(prog).on} ELSE {}) \cup Begun(Tail(prog))
<1> DEFINE h == Head(prog)
           t == Tail(prog)
<1>1. h \in Statements /\ t \in Seq(Statements) /\ prog = <<h>> \o t
  BY HeadTailProperties
<1> HIDE DEF h, t
<1>2. <<h>> \in Seq(Statements) /\ Of(<<h>>) = {h}
  BY <1>1, OfParts
<1>3. Begun(<<h>>) = IF h.op = "begin" THEN {h.on} ELSE {}
  BY <1>2 DEF Begun
<1>4. Of(prog) = {h} \cup Of(t) /\ Begun(prog) = Begun(<<h>>) \cup Begun(t)
  BY <1>1, <1>2, OfConcat
<1> QED BY <1>1, <1>2, <1>3, <1>4 DEF h, t

LEMMA RestIndices ==
  ASSUME NEW prog \in Seq(Statements), prog # <<>>
  PROVE  /\ Len(Tail(prog)) \in Nat /\ Len(prog) = Len(Tail(prog)) + 1
         /\ DOMAIN Tail(prog) = 1 .. Len(Tail(prog)) /\ DOMAIN prog = 1 .. Len(prog)
         /\ 1 \in DOMAIN prog /\ prog[1] = Head(prog)
         /\ \A i \in DOMAIN Tail(prog) : i + 1 \in DOMAIN prog /\ prog[i + 1] = Tail(prog)[i]
         /\ \A i \in DOMAIN prog : i # 1 => i - 1 \in DOMAIN Tail(prog) /\ prog[i] = Tail(prog)[i - 1]
<1> DEFINE t == Tail(prog)
<1>1. /\ t \in Seq(Statements) /\ Len(t) = Len(prog) - 1
      /\ \A i \in 1 .. Len(t) : t[i] = prog[i + 1]
  BY HeadTailProperties
<1>2. Len(t) \in Nat /\ DOMAIN t = 1 .. Len(t) /\ Len(prog) \in Nat /\ DOMAIN prog = 1 .. Len(prog)
  BY <1>1, LenProperties
<1>3. prog[1] = Head(prog)
  OBVIOUS
<1> HIDE DEF t
<1>4. Len(prog) = Len(t) + 1 /\ 1 \in DOMAIN prog
  BY <1>1, <1>2
<1>5. \A i \in DOMAIN t : i + 1 \in DOMAIN prog /\ prog[i + 1] = t[i]
  BY <1>1, <1>2, <1>4
<1>6. ASSUME NEW i \in DOMAIN prog, i # 1 PROVE i - 1 \in DOMAIN t /\ prog[i] = t[i - 1]
  <2>1. i - 1 \in DOMAIN t /\ (i - 1) + 1 = i
    BY <1>2, <1>4, <1>6
  <2>2. prog[(i - 1) + 1] = t[i - 1]
    BY <1>5, <2>1
  <2> QED BY <2>1, <2>2
<1> QED BY <1>2, <1>3, <1>4, <1>5, <1>6 DEF t

\* The shape of the rest, and what it says of the first statement
LEMMA RestLeads ==
  ASSUME NEW prog \in Seq(Statements), prog # <<>>, DdlLeads(prog)
  PROVE  /\ DdlLeads(Tail(prog))
         /\ Changes(Head(prog)) => \A st \in Of(Tail(prog)) : Ddl(st) => Head(prog).on = st.on
<1> DEFINE t == Tail(prog)
           h == Head(prog)
<1>1. /\ Len(t) \in Nat /\ DOMAIN t = 1 .. Len(t) /\ prog[1] = h
      /\ \A i \in DOMAIN t : i + 1 \in DOMAIN prog /\ prog[i + 1] = t[i]
  BY RestIndices
<1> HIDE DEF t, h
<1>2. ASSUME NEW i \in DOMAIN t, NEW j \in 1 .. i - 1, Ddl(t[i]), Changes(t[j])
      PROVE  t[j].on = t[i].on
  <2>1. j \in DOMAIN t /\ j + 1 \in 1 .. (i + 1) - 1
    BY <1>1
  <2>2. prog[i + 1] = t[i] /\ prog[j + 1] = t[j] /\ i + 1 \in DOMAIN prog
    BY <1>1, <2>1
  <2>3. prog[j + 1].on = prog[i + 1].on
    BY <1>2, <2>1, <2>2 DEF DdlLeads
  <2> QED BY <2>2, <2>3
<1>3. ASSUME NEW i \in DOMAIN t, Ddl(t[i]), Changes(h) PROVE h.on = t[i].on
  <2>1. 1 \in 1 .. (i + 1) - 1
    BY <1>1
  <2>2. i + 1 \in DOMAIN prog /\ prog[i + 1] = t[i]
    BY <1>1
  <2>3. prog[1].on = prog[i + 1].on
    BY <1>1, <1>3, <2>1, <2>2 DEF DdlLeads
  <2> QED BY <1>1, <2>2, <2>3
<1>4. DdlLeads(t)
  BY <1>2 DEF DdlLeads
<1>5. Changes(h) => \A st \in Of(t) : Ddl(st) => h.on = st.on
  BY <1>3 DEF Of
<1> QED BY <1>4, <1>5 DEF t, h

LEMMA RestEnds ==
  ASSUME NEW prog \in Seq(Statements), prog # <<>>, NEW on, EndsIn(prog, on)
  PROVE  /\ EndsIn(Tail(prog), on)
         /\ Is(Head(prog), "begin", on) => \E st \in Of(Tail(prog)) : Is(st, "commit", on)
<1> DEFINE t == Tail(prog)
           h == Head(prog)
<1>1. /\ Len(t) \in Nat /\ DOMAIN t = 1 .. Len(t) /\ prog[1] = h /\ 1 \in DOMAIN prog
      /\ DOMAIN prog = 1 .. Len(prog) /\ Len(prog) = Len(t) + 1
      /\ \A i \in DOMAIN t : i + 1 \in DOMAIN prog /\ prog[i + 1] = t[i]
      /\ \A i \in DOMAIN prog : i # 1 => i - 1 \in DOMAIN t /\ prog[i] = t[i - 1]
  BY RestIndices
<1> HIDE DEF t, h
<1>2. ASSUME NEW i \in DOMAIN t, Is(t[i], "begin", on)
      PROVE  \E j \in DOMAIN t : j > i /\ Is(t[j], "commit", on)
  <2>1. i + 1 \in DOMAIN prog /\ Is(prog[i + 1], "begin", on)
    BY <1>1, <1>2
  <2>2. PICK j \in DOMAIN prog : j > i + 1 /\ Is(prog[j], "commit", on)
    BY <2>1 DEF EndsIn
  <2>3. j - 1 \in DOMAIN t /\ prog[j] = t[j - 1] /\ j - 1 > i
    <3>1. j \in Nat /\ i \in Nat /\ j # 1
      BY <1>1, <2>2
    <3> QED BY <1>1, <2>2, <3>1
  <2> QED BY <2>2, <2>3
<1>3. ASSUME Is(h, "begin", on) PROVE \E st \in Of(t) : Is(st, "commit", on)
  <2>1. PICK j \in DOMAIN prog : j > 1 /\ Is(prog[j], "commit", on)
    BY <1>1, <1>3 DEF EndsIn
  <2>2. j - 1 \in DOMAIN t /\ prog[j] = t[j - 1]
    BY <1>1, <2>1
  <2> QED BY <2>1, <2>2 DEF Of
<1> QED BY <1>2, <1>3 DEF EndsIn, t, h

LEMMA RestInTxn ==
  ASSUME NEW prog \in Seq(Statements), prog # <<>>, NEW o, InTxn(prog, o)
  PROVE  /\ InTxn(Tail(prog), IF Head(prog).op = "begin" THEN o \cup {Head(prog).on} ELSE o)
         /\ Changes(Head(prog)) => Head(prog).op = "create" \/ Head(prog).on \in o
<1> DEFINE t == Tail(prog)
           h == Head(prog)
           o2 == IF h.op = "begin" THEN o \cup {h.on} ELSE o
<1>1. /\ Len(t) \in Nat /\ DOMAIN t = 1 .. Len(t) /\ prog[1] = h /\ 1 \in DOMAIN prog
      /\ DOMAIN prog = 1 .. Len(prog) /\ Len(prog) = Len(t) + 1
      /\ \A i \in DOMAIN t : i + 1 \in DOMAIN prog /\ prog[i + 1] = t[i]
  BY RestIndices
<1> HIDE DEF t, h
<1>2. ASSUME NEW i \in DOMAIN t, Changes(t[i]), t[i].op # "create", t[i].on \notin o2
      PROVE  \E j \in 1 .. i - 1 : Is(t[j], "begin", t[i].on)
  <2>1. i + 1 \in DOMAIN prog /\ prog[i + 1] = t[i] /\ t[i].on \notin o
    BY <1>1, <1>2
  <2>2. PICK j \in 1 .. (i + 1) - 1 : Is(prog[j], "begin", t[i].on)
    BY <1>2, <2>1 DEF InTxn
  <2>3. j # 1
    BY <1>1, <1>2, <2>2 DEF Is
  <2>4. j - 1 \in 1 .. i - 1 /\ j - 1 \in DOMAIN t /\ (j - 1) + 1 = j
    BY <1>1, <2>3
  <2>5. prog[(j - 1) + 1] = t[j - 1]
    BY <1>1, <2>4
  <2> QED BY <2>2, <2>4, <2>5
<1>3. Changes(h) => h.op = "create" \/ h.on \in o
  <2>1. ~ \E j \in 1 .. 1 - 1 : Is(prog[j], "begin", h.on)
    OBVIOUS
  <2> QED BY <1>1, <2>1 DEF InTxn
<1>4. InTxn(t, o2)
  BY <1>2 DEF InTxn
<1> QED BY <1>3, <1>4 DEF t, h

LEMMA RestCommits ==
  ASSUME NEW prog \in Seq(Statements), prog # <<>>, CommitLast(prog)
  PROVE  CommitLast(Tail(prog)) /\ (Head(prog).op = "commit" => Tail(prog) = <<>>)
<1> DEFINE t == Tail(prog)
           h == Head(prog)
<1>1. /\ t \in Seq(Statements)
      /\ Len(t) \in Nat /\ DOMAIN t = 1 .. Len(t) /\ prog[1] = h /\ 1 \in DOMAIN prog
      /\ DOMAIN prog = 1 .. Len(prog) /\ Len(prog) = Len(t) + 1
      /\ \A i \in DOMAIN t : i + 1 \in DOMAIN prog /\ prog[i + 1] = t[i]
  BY HeadAndTail, RestIndices
<1> HIDE DEF t, h
<1>2. ASSUME NEW i \in DOMAIN t, t[i].op = "commit" PROVE i = Len(t)
  <2>1. i + 1 = Len(prog)
    BY <1>1, <1>2 DEF CommitLast
  <2> QED BY <1>1, <2>1
<1>3. h.op = "commit" => t = <<>>
  <2>1. h.op = "commit" => Len(t) = 0
    BY <1>1 DEF CommitLast
  <2> QED BY <1>1, <2>1, EmptySeq
<1> QED BY <1>2, <1>3 DEF CommitLast, t, h

-----------------------------------------------------------------------------
(* What a statement makes of the table. *)

\* A table that does not exist has no rows.
Whole(t) == t \in Tables /\ (~t.exists => t.rows = NoRows)

LEMMA EffectOfOne ==
  ASSUME NEW st \in Statements, NEW t, Whole(t), NeedsTable(st) => t.exists
  PROVE  /\ Whole(Effect(st, t))
         /\ Effect(st, t).rows = RowsAfter(st, t.rows)
         /\ ~Changes(st) \/ st.op = "bulk" => Effect(st, t) = t
<1> DEFINE u == [exists |-> TRUE, rows |-> t.rows]
<1>1. /\ t \in Tables /\ t.exists \in BOOLEAN /\ t.rows \in Contents
      /\ t = [exists |-> t.exists, rows |-> t.rows]
  BY DEF Whole, Tables, Contents
<1>2. st.op \in Ops /\ st.rows \in Seq(Rows) /\ (st.op = "insert" => st.how \in Hows)
  BY DEF Statements
<1>3. NoRows \in Contents /\ Missing \in Tables /\ NewTable \in Tables /\ ~Missing.exists /\ NewTable.exists
      /\ Missing.rows = NoRows /\ NewTable.rows = NoRows
  BY DEF NoRows, Contents, Missing, NewTable, Tables
<1>4. CASE st.op = "drop"
  <2>1. Effect(st, t) = Missing /\ Effect(st, u) = Missing
    BY <1>4 DEF Effect
  <2>2. st.op # "bulk" /\ Changes(st)
    BY <1>4 DEF Changes
  <2> QED BY <1>3, <2>1, <2>2 DEF RowsAfter, Whole
<1>5. CASE st.op = "create"
  <2>1. Effect(st, t) = (IF t.exists THEN t ELSE NewTable) /\ Effect(st, u) = u
    BY <1>5 DEF Effect
  <2>2. st.op # "bulk" /\ Changes(st)
    BY <1>5 DEF Changes
  <2> QED BY <1>1, <1>3, <2>1, <2>2 DEF RowsAfter, Whole
<1>6. CASE st.op \in {"truncate", "insert", "keep"}
  <2> DEFINE new == IF st.op = "truncate" THEN NoRows
                    ELSE IF st.op = "insert" THEN InsertEffect(t.rows, st.rows, st.how)
                    ELSE Kept(t.rows, KeysOf(st.rows))
  <2>1. Effect(st, t) = [t EXCEPT !.rows = new] /\ Effect(st, u) = [u EXCEPT !.rows = new]
    BY <1>6 DEF Effect
  <2>2. new \in Contents
    <3>1. st.op = "insert" => InsertEffect(t.rows, st.rows, st.how) \in Contents
      BY <1>1, <1>2, InsertEffectType
    <3>2. Kept(t.rows, KeysOf(st.rows)) \in Contents
      BY <1>1, <1>2, EffectTypes
    <3> QED BY <1>3, <3>1, <3>2
  <2>3. t.exists /\ st.op # "bulk" /\ Changes(st)
    BY <1>6 DEF NeedsTable, Changes
  <2> HIDE DEF new
  <2> QED BY <1>1, <2>1, <2>2, <2>3 DEF RowsAfter, Whole, Tables, Contents
<1>7. CASE st.op \in {"begin", "commit", "stage", "clone", "bulk"}
  <2>1. Effect(st, t) = t /\ Effect(st, u) = u
    BY <1>7 DEF Effect
  <2> QED BY <2>1 DEF RowsAfter
<1> QED BY <1>2, <1>4, <1>5, <1>6, <1>7 DEF Ops

\* The state before a step
LEMMA StateTypes ==
  ASSUME TypeOK, Consistent
  PROVE  /\ cfg \in Configs /\ cfg \in Plans /\ sink \in SinkStates
         /\ Whole(base) /\ Whole(table) /\ Whole(draft)
         /\ base.rows \in Contents /\ table.rows \in Contents /\ draft.rows \in Contents
         /\ todo \in Seq(Statements) /\ fed \in Seq(Batches)
<1>1. cfg \in Configs /\ base \in Tables
  BY SinkAssumption DEF TypeOK
<1> QED BY <1>1 DEF TypeOK, Consistent, Whole, SinkStates, Contents, Tables

\* A statement that changes the table sees the draft: nobody else has changed it.
LEMMA SeesDraft ==
  ASSUME Consistent, DdlFirst, todo \in Seq(Statements), todo # <<>>, Changes(Head(todo)),
         ~Blocked(Head(todo)), NeedsTable(Head(todo)) => View(Head(todo).on).exists
  PROVE  holder \in {"none", Head(todo).on} /\ View(Head(todo).on) = draft
<1> DEFINE st == Head(todo)
<1>1. st \in Of(todo)
  BY HeadAndTail
<1>2. holder \in {"none", st.on}
  <2>1. CASE Ddl(st)
    BY <1>1, <2>1 DEF DdlFirst
  <2>2. CASE ~Ddl(st)
    <3>1. NeedsTable(st)
      BY <2>2 DEF Ddl, NeedsTable, Changes
    <3>2. holder \notin {"none", st.on} => table.exists
      BY <3>1 DEF View
    <3> QED BY <3>1, <3>2 DEF Blocked
  <2> QED BY <2>1, <2>2
<1>3. holder = "none" => draft = table
  BY DEF Consistent
<1> QED BY <1>2, <1>3 DEF View

LEMMA QuietEffect ==
  ASSUME NEW st \in Statements, ~Changes(st), NEW t
  PROVE  Effect(st, t) = t
  BY DEF Effect, Changes

\* The database after a statement that is neither a commit nor a bulk load
Ran(st) ==
  /\ Whole(table') /\ Whole(draft')
  /\ draft'.rows = RowsAfter(st, draft.rows) /\ draft'.exists = Effect(st, draft).exists
  /\ ~Refused(st, draft.rows)
  /\ holder' \in {"none"} \cup open /\ (holder' = "none" => draft' = table')
  /\ holder' \in {holder, st.on}
  /\ IF ~Changes(st) THEN UNCHANGED <<table, draft, holder>>
     ELSE /\ holder \in {"none", st.on}
          /\ IF st.on \in open THEN UNCHANGED table ELSE table' = draft'

LEMMA RunResult ==
  ASSUME TypeOK, Consistent, DdlFirst, Calling, Head(todo).op \notin {"commit", "bulk"},
         ~Blocked(Head(todo)), NeedsTable(Head(todo)) => View(Head(todo).on).exists,
         ~Refused(Head(todo), View(Head(todo).on).rows), Becomes(Result(Head(todo)))
  PROVE  Ran(Head(todo))
<1> DEFINE st == Head(todo)
           new == Effect(st, View(st.on))
<1>1. st \in Statements /\ todo \in Seq(Statements) /\ todo # <<>> /\ st.on \in Sessions
  <2>1. todo \in Seq(Statements) /\ todo # <<>>
    BY DEF TypeOK, Calling
  <2> QED BY <2>1, HeadAndTail DEF Statements
<1>2. Whole(table) /\ Whole(draft) /\ table.rows \in Contents /\ draft.rows \in Contents
  BY StateTypes
<1>3. holder \in {"none"} \cup open /\ (holder = "none" => draft = table)
  BY DEF Consistent
<1>4. CASE ~Changes(st)
  <2>1. Result(st) = [table |-> table, draft |-> draft, holder |-> holder]
    BY <1>4 DEF Result
  <2>2. UNCHANGED <<table, draft, holder>>
    BY <2>1 DEF Becomes
  <2>3. RowsAfter(st, draft.rows) = draft.rows /\ ~Refused(st, draft.rows)
    <3> DEFINE t == [exists |-> TRUE, rows |-> draft.rows]
    <3>1. Whole(t)
      BY <1>2 DEF Whole, Tables, Contents
    <3>2. Effect(st, t) = t
      <4> HIDE DEF t
      <4> QED BY <1>1, <1>4, <3>1, EffectOfOne DEF t
    <3>3. st.op # "insert"
      BY <1>4 DEF Changes
    <3> QED BY <3>2, <3>3 DEF RowsAfter, Refused
  <2>4. Effect(st, draft) = draft
    BY <1>1, <1>4, QuietEffect
  <2> HIDE DEF st, new
  <2>5. Whole(table') /\ Whole(draft') /\ holder' \in {"none"} \cup open /\ (holder' = "none" => draft' = table')
    BY <1>2, <1>3, <2>2
  <2>6. draft'.rows = RowsAfter(st, draft.rows) /\ draft'.exists = Effect(st, draft).exists
    BY <2>2, <2>3, <2>4
  <2>7. Ran(st)
    BY <1>4, <2>2, <2>3, <2>5, <2>6 DEF Ran
  <2> QED BY <2>7 DEF st
<1>5. CASE Changes(st)
  <2>1. holder \in {"none", st.on} /\ View(st.on) = draft
    BY <1>1, <1>5, SeesDraft
  <2>2. /\ Whole(Effect(st, draft)) /\ Effect(st, draft).rows = RowsAfter(st, draft.rows)
        /\ ~Refused(st, draft.rows)
    <3>1. NeedsTable(st) => draft.exists
      BY <2>1
    <3>2. Whole(Effect(st, draft)) /\ Effect(st, draft).rows = RowsAfter(st, draft.rows)
      BY <1>1, <1>2, <3>1, EffectOfOne
    <3> QED BY <2>1, <3>2
  <2>3. new = Effect(st, draft)
    BY <2>1
  <2>4. st.op # "commit"
    OBVIOUS
  <2> HIDE DEF st, new
  <2>5. CASE st.on \in open
    <3>1. Result(st) = [table |-> table, draft |-> new, holder |-> st.on]
      BY <1>5, <2>4, <2>5 DEF Result, new
    <3>2. table' = table /\ draft' = new /\ holder' = st.on
      BY <3>1 DEF Becomes, st
    <3>3. st.on # "none"
      BY <1>1 DEF Sessions, st
    <3> QED BY <1>2, <1>5, <2>1, <2>2, <2>3, <2>5, <3>2, <3>3 DEF Ran, st
  <2>6. CASE st.on \notin open
    <3>1. Result(st) = [table |-> new, draft |-> new, holder |-> holder]
      BY <1>5, <2>4, <2>6 DEF Result, new
    <3>2. table' = new /\ draft' = new /\ holder' = holder
      BY <3>1 DEF Becomes, st
    <3> QED BY <1>2, <1>3, <1>5, <2>1, <2>2, <2>3, <2>6, <3>2 DEF Ran, st
  <2> QED BY <2>5, <2>6
<1> QED BY <1>4, <1>5

\* A commit makes the draft the table, if its session has changed it.
LEMMA CommitResult ==
  ASSUME TypeOK, Consistent, StepCommit
  PROVE  /\ Whole(table') /\ draft' = draft
         /\ IF holder = Head(todo).on THEN table' = draft /\ holder' = "none"
            ELSE table' = table /\ holder' = holder
         /\ holder' \in {"none"} \cup (open \ {Head(todo).on}) /\ (holder' = "none" => draft' = table')
<1> DEFINE st == Head(todo)
<1>1. st.op = "commit" /\ Becomes(Result(st)) /\ ~Changes(st)
  BY DEF StepCommit, Changes
<1>2. Whole(table) /\ Whole(draft) /\ (holder # "none" => holder \in open) /\ (holder = "none" => draft = table)
  BY StateTypes DEF Consistent
<1> HIDE DEF st
<1>3. CASE holder = st.on
  <2>1. Result(st) = [table |-> draft, draft |-> draft, holder |-> "none"]
    BY <1>1, <1>3 DEF Result
  <2> QED BY <1>1, <1>2, <1>3, <2>1 DEF Becomes, st
<1>4. CASE holder # st.on
  <2>1. Result(st) = [table |-> table, draft |-> draft, holder |-> holder]
    BY <1>1, <1>4 DEF Result
  <2> QED BY <1>1, <1>2, <1>4, <2>1 DEF Becomes, st
<1> QED BY <1>3, <1>4

-----------------------------------------------------------------------------
(* Every step keeps the shape of the state. *)

\* The sink's own state between two calls, its home aside
SameSink ==
  /\ sink'.prepared = sink.prepared /\ sink'.staged = sink.staged
  /\ sink'.buffer = sink.buffer /\ sink'.seen = sink.seen

\* The first statement of a call is done.
Moves ==
  /\ Calling
  /\ Head(todo).op # "bulk"
  /\ todo' = Tail(todo)
  /\ UNCHANGED <<cfg, base, fed, pc, why>>
  /\ SameSink
  /\ open' = (IF Head(todo).op = "begin" THEN open \cup {Head(todo).on}
              ELSE IF Head(todo).op = "commit" THEN open \ {Head(todo).on} ELSE open)
  /\ holder' \in {"none", holder} \cup (IF Changes(Head(todo)) THEN {Head(todo).on} ELSE {})

LEMMA MovesHeld == ASSUME Moves, HeldBack PROVE HeldBack'
  BY DEF Moves, SameSink, HeldBack, FedKeys

LEMMA MovesDdl ==
  ASSUME Moves, TypeOK, DdlFirst
  PROVE  DdlFirst'
<1>1. todo \in Seq(Statements) /\ todo # <<>>
  BY DEF Moves, Calling, TypeOK
<1>2. /\ DdlLeads(Tail(todo)) /\ Of(todo) = {Head(todo)} \cup Of(Tail(todo))
      /\ Changes(Head(todo)) => \A st \in Of(Tail(todo)) : Ddl(st) => Head(todo).on = st.on
  BY <1>1, RestLeads, HeadAndTail DEF DdlFirst
<1>3. todo' = Tail(todo) /\ holder' \in {"none", holder} \cup (IF Changes(Head(todo)) THEN {Head(todo).on} ELSE {})
  BY DEF Moves
<1>4. \A st \in Of(Tail(todo)) : Ddl(st) => holder' \in {"none", st.on}
  BY <1>2, <1>3 DEF DdlFirst
<1> QED BY <1>2, <1>3, <1>4 DEF DdlFirst

LEMMA MovesEnds ==
  ASSUME Moves, TypeOK, EveryTxnEnds
  PROVE  EveryTxnEnds'
<1> DEFINE h == Head(todo)
           t == Tail(todo)
<1>1. todo \in Seq(Statements) /\ todo # <<>>
  BY DEF Moves, Calling, TypeOK
<1>2. /\ Of(todo) = {h} \cup Of(t)
      /\ Begun(todo) = (IF h.op = "begin" THEN {h.on} ELSE {}) \cup Begun(t)
  BY <1>1, HeadAndTail
<1>3. \A on : EndsIn(todo, on) =>
        EndsIn(t, on) /\ (Is(h, "begin", on) => \E st \in Of(t) : Is(st, "commit", on))
  BY <1>1, RestEnds
<1>4. /\ todo' = t /\ cfg' = cfg /\ pc' = pc /\ sink'.prepared = sink.prepared
      /\ open' = (IF h.op = "begin" THEN open \cup {h.on}
                  ELSE IF h.op = "commit" THEN open \ {h.on} ELSE open)
  BY DEF Moves, SameSink
<1> HIDE DEF h, t
<1>5. sink'.prepared
  BY <1>1, <1>4 DEF EveryTxnEnds
<1>6. open' \cup Begun(t) \subseteq open \cup Begun(todo)
  BY <1>2, <1>4
<1>7. ASSUME NEW on \in Sessions, on = "batch" \/ pc = "flush"
      PROVE  EndsIn(t, on) /\ (on \in open' => \E st \in Of(t) : Is(st, "commit", on))
  <2>1. EndsIn(todo, on) /\ (on \in open => \E st \in Of(todo) : Is(st, "commit", on))
    BY <1>7 DEF EveryTxnEnds
  <2>2. CASE Is(h, "begin", on)
    BY <1>3, <2>1, <2>2
  <2>3. CASE ~Is(h, "begin", on)
    <3>1. ASSUME on \in open' PROVE on \in open /\ ~Is(h, "commit", on)
      BY <1>4, <2>3, <3>1 DEF Is
    <3> QED BY <1>2, <1>3, <2>1, <3>1
  <2> QED BY <2>2, <2>3
<1>8. \A st \in Of(t) : st.op = "bulk" => DbxOdbc(cfg) /\ st.on = "auto"
  BY <1>2 DEF EveryTxnEnds
<1>9. \A on \in open' \cup Begun(t) : on \in LongSessions(cfg) \cup {"batch"} \/ pc = "flush"
  BY <1>6 DEF EveryTxnEnds
<1> QED BY <1>4, <1>5, <1>7, <1>8, <1>9 DEF EveryTxnEnds

LEMMA MovesTxn ==
  ASSUME Moves, TypeOK, OneTxn
  PROVE  OneTxn'
<1> DEFINE h == Head(todo)
           t == Tail(todo)
<1>1. todo \in Seq(Statements) /\ todo # <<>>
  BY DEF Moves, Calling, TypeOK
<1>2. /\ Of(todo) = {h} \cup Of(t)
      /\ Begun(todo) = (IF h.op = "begin" THEN {h.on} ELSE {}) \cup Begun(t)
  BY <1>1, HeadAndTail
<1>3. /\ CommitLast(t) /\ (h.op = "commit" => t = <<>>)
      /\ InTxn(t, IF h.op = "begin" THEN open \cup {h.on} ELSE open)
  BY <1>1, RestCommits, RestInTxn DEF OneTxn
<1>4. /\ todo' = t /\ cfg' = cfg /\ pc' = pc /\ sink'.prepared = sink.prepared /\ sink'.staged = sink.staged
      /\ open' = (IF h.op = "begin" THEN open \cup {h.on}
                  ELSE IF h.op = "commit" THEN open \ {h.on} ELSE open)
  BY DEF Moves, SameSink
<1> HIDE DEF h, t
<1>5. InTxn(t, open')
  <2>1. CASE h.op = "commit"
    <3>1. Of(t) = {}
      BY <1>3, <2>1, OfParts
    <3> QED BY <3>1, TxnSimple
  <2>2. CASE h.op # "commit"
    BY <1>3, <1>4, <2>2
  <2> QED BY <2>1, <2>2
<1>6. pc # "flush" => \A st \in Of(t) : st.op # "commit"
  BY <1>2 DEF OneTxn
<1>7. pc # "flush" => open' \cup Begun(t) = open \cup Begun(todo)
  BY <1>2, <1>4 DEF OneTxn
<1> QED BY <1>3, <1>4, <1>5, <1>6, <1>7 DEF OneTxn

\* A statement that has run
LEMMA RanShape ==
  ASSUME Shape, Moves, Ran(Head(todo)), Head(todo).op # "commit",
         sink' \in SinkStates, conn' \in Conns \cup {0}
  PROVE  Shape'
<1> DEFINE st == Head(todo)
<1>1. TypeOK /\ Consistent /\ DdlFirst /\ EveryTxnEnds /\ HeldBack /\ Hidden
  BY DEF Shape
<1>2. todo \in Seq(Statements) /\ todo # <<>> /\ Tail(todo) \in Seq(Statements) /\ st \in Statements
  BY <1>1, HeadAndTail DEF Moves, Calling, TypeOK
<1>3. st.on \in Sessions
  BY <1>2 DEF Statements
<1>4. /\ todo' = Tail(todo) /\ cfg' = cfg /\ base' = base /\ pc' = pc /\ fed' = fed /\ why' = why
      /\ open \subseteq open' /\ open' \subseteq open \cup {st.on}
      /\ pc \in {"write", "flush"}
  BY DEF Moves, Calling
<1>5. /\ Whole(table') /\ Whole(draft')
      /\ holder' \in {"none"} \cup open /\ (holder' = "none" => draft' = table')
  BY DEF Ran
<1> HIDE DEF st
<1>6. TypeOK'
  <2>1. table' \in Tables /\ draft' \in Tables /\ open' \subseteq Sessions /\ holder' \in Sessions \cup {"none"}
    BY <1>1, <1>3, <1>4, <1>5 DEF Whole, TypeOK
  <2> QED BY <1>1, <1>2, <1>4, <2>1 DEF TypeOK, SinkStates
<1>7. Consistent'
  <2>1. ~base.exists => base.rows = NoRows
    BY <1>1 DEF Consistent
  <2> QED BY <1>4, <1>5, <2>1 DEF Consistent, Whole
<1>8. DdlFirst' /\ EveryTxnEnds' /\ HeldBack'
  BY <1>1, MovesDdl, MovesEnds, MovesHeld
<1>9. Hidden'
  <2>1. SUFFICES ASSUME Atomic(cfg) PROVE table'.rows = base.rows /\ OneTxn'
    BY <1>4 DEF Hidden
  <2>2. table.rows = base.rows /\ OneTxn
    BY <1>1, <1>2, <1>4, <2>1 DEF Hidden
  <2>3. Changes(st) => st.op = "create" \/ st.on \in open
    BY <1>2, <2>2, RestInTxn DEF OneTxn, st
  <2>4. CASE Changes(st) /\ st.on \notin open
    <3>1. st.op = "create" /\ table' = draft' /\ draft'.rows = RowsAfter(st, draft.rows) /\ holder \in {"none", st.on}
      BY <2>3, <2>4 DEF Ran, st
    <3>2. draft = table
      BY <1>1, <2>4, <3>1 DEF Consistent
    <3> QED BY <1>1, <2>2, <3>1, <3>2, QuietStatement, MovesTxn DEF Quiet
  <2>5. CASE ~Changes(st) \/ st.on \in open
    <3>1. table' = table
      BY <2>5 DEF Ran, st
    <3> QED BY <1>1, <2>2, <3>1, MovesTxn
  <2> QED BY <2>4, <2>5
<1> QED BY <1>6, <1>7, <1>8, <1>9 DEF Shape

\* A statement that does not touch the table
LEMMA QuietRan ==
  ASSUME TypeOK, Consistent, Calling, ~Changes(Head(todo)), UNCHANGED <<table, draft, holder>>
  PROVE  Ran(Head(todo))
<1> DEFINE st == Head(todo)
           t == [exists |-> TRUE, rows |-> draft.rows]
<1>1. Whole(table) /\ Whole(draft) /\ draft.rows \in Contents
  BY StateTypes
<1>2. st \in Statements
  <2>1. todo \in Seq(Statements) /\ todo # <<>>
    BY DEF TypeOK, Calling
  <2> QED BY <2>1, HeadAndTail
<1>3. Whole(t)
  BY <1>1 DEF Whole, Tables, Contents
<1>4. Effect(st, t) = t /\ st.op # "insert"
  <2> HIDE DEF t
  <2>1. Effect(st, t) = t
    BY <1>2, <1>3, EffectOfOne DEF t
  <2> QED BY <2>1 DEF Changes
<1>5. RowsAfter(st, draft.rows) = draft.rows /\ ~Refused(st, draft.rows)
  BY <1>4 DEF RowsAfter, Refused
<1>6. holder \in {"none"} \cup open /\ (holder = "none" => draft = table)
  BY DEF Consistent
<1>7. Effect(st, draft) = draft
  BY <1>2, QuietEffect
<1> HIDE DEF st
<1>8. Ran(st)
  <2>1. ~Changes(st)
    BY DEF st
  <2> QED BY <1>1, <1>5, <1>6, <1>7, <2>1 DEF Ran
<1> QED BY <1>8 DEF st

LEMMA BeginShape ==
  ASSUME Shape, StepBegin
  PROVE  Shape' /\ Moves /\ Ran(Head(todo))
<1>1. Moves /\ ~Changes(Head(todo)) /\ Head(todo).op # "commit"
  BY DEF StepBegin, Moves, SameSink, Changes
<1>2. Ran(Head(todo))
  BY <1>1, QuietRan DEF StepBegin, Shape
<1>3. sink' \in SinkStates /\ conn' \in Conns \cup {0}
  BY DEF StepBegin, Shape, TypeOK, SinkStates
<1> QED BY <1>1, <1>2, <1>3, RanShape

LEMMA StageShape ==
  ASSUME Shape, StepStage
  PROVE  Shape' /\ Moves /\ Ran(Head(todo))
<1>0. sink \in SinkStates /\ conn \in Conns \cup {0}
  BY DEF Shape, TypeOK, SinkStates
<1>1. Head(todo).op = "stage" /\ UNCHANGED <<table, draft, holder, open, conn>>
      /\ sink' = [sink EXCEPT !.home = IF Head(todo).on = "batch" THEN conn ELSE @]
  BY DEF StepStage, db
<1>2. SameSink /\ sink' \in SinkStates
  BY <1>0, <1>1 DEF SameSink, SinkStates
<1>3. Moves /\ ~Changes(Head(todo)) /\ Head(todo).op # "commit"
  BY <1>1, <1>2 DEF StepStage, Moves, Changes
<1>4. Ran(Head(todo))
  BY <1>1, <1>3, QuietRan DEF StepStage, Shape
<1> QED BY <1>0, <1>1, <1>2, <1>3, <1>4, RanShape

LEMMA RunShape ==
  ASSUME Shape, StepRun
  PROVE  Shape' /\ Moves /\ Ran(Head(todo))
<1>1. Ran(Head(todo))
  BY RunResult DEF StepRun, Shape
<1>2. Head(todo).op \notin {"begin", "commit", "bulk"}
  BY DEF StepRun
<1>3. holder' \in {"none", holder} \cup (IF Changes(Head(todo)) THEN {Head(todo).on} ELSE {})
  BY <1>1 DEF Ran
<1>4. Moves
  BY <1>2, <1>3 DEF StepRun, Moves, SameSink
<1>5. sink' \in SinkStates /\ conn' \in Conns \cup {0}
  BY DEF StepRun, Shape, TypeOK, SinkStates
<1> QED BY <1>1, <1>2, <1>4, <1>5, RanShape

LEMMA CommitShape ==
  ASSUME Shape, StepCommit
  PROVE  Shape' /\ Moves
<1> DEFINE st == Head(todo)
<1>1. TypeOK /\ Consistent /\ DdlFirst /\ EveryTxnEnds /\ HeldBack /\ Hidden
  BY DEF Shape
<1>2. todo \in Seq(Statements) /\ todo # <<>> /\ Tail(todo) \in Seq(Statements) /\ st \in Statements
  BY <1>1, HeadAndTail DEF StepCommit, Calling, TypeOK
<1>3. st.op = "commit" /\ todo' = Tail(todo) /\ open' = open \ {st.on} /\ Calling
      /\ UNCHANGED <<cfg, base, conn, sink, fed, pc, why>>
  BY DEF StepCommit
<1>4. /\ Whole(table') /\ draft' = draft
      /\ holder' \in {"none", holder}
      /\ holder' \in {"none"} \cup open' /\ (holder' = "none" => draft' = table')
  BY <1>1, <1>3, CommitResult
<1>5. Moves
  BY <1>3, <1>4 DEF Moves, SameSink
<1>6. TypeOK'
  BY <1>1, <1>2, <1>3, <1>4 DEF TypeOK, Whole
<1>7. Consistent'
  <2>1. ~base.exists => base.rows = NoRows
    BY <1>1 DEF Consistent
  <2>2. Whole(draft)
    BY <1>1, StateTypes
  <2>3. pc \in {"write", "flush"}
    BY <1>3 DEF Calling
  <2> QED BY <1>3, <1>4, <2>1, <2>2, <2>3 DEF Consistent, Whole
<1>8. DdlFirst' /\ EveryTxnEnds' /\ HeldBack'
  BY <1>1, <1>5, MovesDdl, MovesEnds, MovesHeld
<1>9. Hidden'
  <2>1. SUFFICES ASSUME Atomic(cfg) PROVE pc = "flush" /\ Tail(todo) = <<>> /\ OneTxn'
    BY <1>3 DEF Hidden
  <2>2. OneTxn
    BY <1>1, <1>3, <2>1 DEF Hidden, Calling
  <2>3. Tail(todo) = <<>>
    BY <1>2, <1>3, <2>2, RestCommits DEF OneTxn
  <2>4. st \in Of(todo)
    BY <1>2, HeadAndTail
  <2>5. pc = "flush"
    BY <1>3, <2>2, <2>4 DEF OneTxn
  <2> QED BY <1>1, <1>5, <2>2, <2>3, <2>5, MovesTxn
<1> QED BY <1>5, <1>6, <1>7, <1>8, <1>9 DEF Shape

\* The call or the run ends, or the run fails.
LEMMA FailShape ==
  ASSUME Shape, NEW cause \in Causes, FailWith(cause), Whole(table')
  PROVE  Shape'
<1>1. TypeOK /\ Consistent /\ HeldBack
  BY DEF Shape
<1>2. /\ pc' = "failed" /\ why' = cause /\ draft' = table' /\ holder' = "none" /\ open' = {} /\ todo' = <<>>
      /\ UNCHANGED <<cfg, base, conn, sink, fed>>
  BY DEF FailWith
<1>3. /\ <<>> \in Seq(Statements) /\ Of(<<>>) = {} /\ Begun(<<>>) = {}
      /\ DdlLeads(<<>>) /\ \A on : EndsIn(<<>>, on)
  BY EmptyProgram, LeadsSimple, EndsSimple
<1>4. TypeOK'
  BY <1>1, <1>2, <1>3 DEF TypeOK, Whole
<1>5. Consistent'
  BY <1>1, <1>2 DEF Consistent, Whole
<1>6. DdlFirst' /\ EveryTxnEnds' /\ Hidden'
  BY <1>2, <1>3 DEF DdlFirst, EveryTxnEnds, Hidden
<1>7. HeldBack'
  BY <1>1, <1>2 DEF HeldBack, FedKeys
<1> QED BY <1>4, <1>5, <1>6, <1>7 DEF Shape

LEMMA RejectShape == ASSUME Shape, Reject PROVE Shape'
<1>1. Whole(table) /\ table' = table
  BY StateTypes DEF Shape, Reject
<1>2. FailWith("missing") \/ FailWith("conflict") \/ FailWith("staging")
  BY DEF Reject
<1> QED BY <1>1, <1>2, FailShape DEF Causes

LEMMA FaultShape == ASSUME Shape, Fault PROVE Shape'
<1>1. Whole(table) /\ Whole(draft)
  BY StateTypes DEF Shape
<1>2. FailWith("fault")
  BY DEF Fault
<1>3. CASE table' = table
  BY <1>1, <1>2, <1>3, FailShape DEF Causes
<1>4. CASE table' # table
  <2> DEFINE st == Head(todo)
  <2>1. Calling /\ (NeedsTable(st) => View(st.on).exists) /\ table' = Result(st).table
    BY <1>4 DEF Fault
  <2>2. st \in Statements
    <3>1. todo \in Seq(Statements) /\ todo # <<>>
      BY <2>1 DEF Shape, TypeOK, Calling
    <3> QED BY <3>1, HeadAndTail
  <2>3. Whole(View(st.on))
    BY <1>1 DEF View
  <2>4. Whole(Effect(st, View(st.on)))
    BY <2>1, <2>2, <2>3, EffectOfOne
  <2> HIDE DEF st
  <2>5. Result(st).table \in {table, draft, Effect(st, View(st.on))}
    BY DEF Result
  <2>6. Whole(table')
    BY <1>1, <2>1, <2>4, <2>5
  <2> QED BY <1>2, <2>6, FailShape DEF Causes
<1> QED BY <1>3, <1>4

LEMMA CallEnds ==
  ASSUME Shape, WriteDone \/ FlushDone
  PROVE  Shape'
<1>1. /\ todo = <<>> /\ pc \in {"write", "flush"} /\ pc' \in {"idle", "finished"}
      /\ (pc' = "idle" <=> pc = "write")
      /\ UNCHANGED <<cfg, base, todo, sink, fed, why, table, draft, holder, open, conn>>
  BY DEF WriteDone, FlushDone, db
<1>2. TypeOK /\ Consistent /\ DdlFirst /\ EveryTxnEnds /\ HeldBack /\ Hidden
  BY DEF Shape
<1>3. Of(<<>>) = {} /\ Begun(<<>>) = {} /\ \A on : EndsIn(<<>>, on)
  BY EmptyProgram, EndsSimple
<1>4. TypeOK' /\ Consistent' /\ DdlFirst'
  BY <1>1, <1>2 DEF TypeOK, Consistent, DdlFirst
<1>5. EveryTxnEnds'
  <2>1. pc = "flush" => open = {}
    <3>1. \A on \in Sessions : pc = "flush" => on \notin open
      BY <1>1, <1>2, <1>3 DEF EveryTxnEnds
    <3> QED BY <1>2, <3>1 DEF TypeOK
  <2>2. CASE pc = "flush"
    BY <1>1, <1>2, <1>3, <2>1, <2>2 DEF EveryTxnEnds
  <2>3. CASE pc = "write"
    BY <1>1, <1>2, <1>3, <2>3 DEF EveryTxnEnds
  <2> QED BY <1>1, <2>2, <2>3
<1>6. HeldBack'
  BY <1>1, <1>2 DEF HeldBack, FedKeys
<1>7. Hidden'
  <2>1. CASE pc = "write"
    BY <1>1, <1>2, <2>1 DEF Hidden, OneTxn
  <2>2. CASE pc = "flush"
    BY <1>1, <2>2 DEF Hidden
  <2> QED BY <1>1, <2>1, <2>2
<1> QED BY <1>4, <1>5, <1>6, <1>7 DEF Shape

\* An ODBC insert, and the statements that repeat it
LEMMA BulkResult ==
  ASSUME Shape, StepBulk
  PROVE  /\ DbxOdbc(cfg) /\ ~Atomic(cfg) /\ Head(todo).on = "auto" /\ Head(todo).rows \in Seq(Rows)
         /\ Whole(table') /\ draft' = table'
         /\ table'.rows \in {table.rows, Appended(table.rows, Head(todo).rows)}
         /\ \E X \in Seq(Statements) :
              /\ todo' = X \o Tail(todo)
              /\ \A st \in Of(X) : st.op = "insert" /\ st.on = "auto" /\ Allowed(cfg, st) /\ ~Ddl(st)
<1> DEFINE h == Head(todo)
<1>1. todo \in Seq(Statements) /\ todo # <<>> /\ h \in Statements /\ h \in Of(todo) /\ h.op = "bulk"
  <2>1. todo \in Seq(Statements) /\ todo # <<>> /\ h.op = "bulk"
    BY DEF Shape, TypeOK, StepBulk, Calling
  <2> QED BY <2>1, HeadAndTail
<1>2. DbxOdbc(cfg) /\ h.on = "auto"
  BY <1>1 DEF Shape, EveryTxnEnds
<1>3. ~Atomic(cfg) /\ cfg \in Configs
  BY <1>2, StateTypes DEF Atomic, DbxOdbc, Shape
<1>4. h.rows \in Seq(Rows) /\ Whole(table) /\ table.rows \in Contents
  BY <1>1, StateTypes DEF Statements, Shape
<1> HIDE DEF h
<1>5. PICK applied \in BOOLEAN, reported \in BOOLEAN :
        /\ table' = IF applied THEN [table EXCEPT !.rows = Appended(@, h.rows)] ELSE table
        /\ draft' = table'
        /\ todo' = (IF reported THEN <<>> ELSE DbxFallback(h.rows)) \o Tail(todo)
  BY DEF StepBulk, h
<1>6. Whole(table') /\ table'.rows \in {table.rows, Appended(table.rows, h.rows)}
  <2>1. table.exists
    BY DEF StepBulk
  <2>2. Appended(table.rows, h.rows) \in Contents
    BY <1>4, EffectTypes
  <2>3. table \in Tables
    BY <1>4 DEF Whole
  <2> DEFINE new == Appended(table.rows, h.rows)
  <2>4. table' = (IF applied THEN [table EXCEPT !.rows = new] ELSE table) /\ new \in Contents
    BY <1>5, <2>2
  <2> HIDE DEF new
  <2>5. Whole(table') /\ table'.rows \in {table.rows, new}
    BY <1>4, <2>1, <2>3, <2>4 DEF Whole, Tables, Contents
  <2> QED BY <2>5 DEF new
<1> DEFINE X == IF reported THEN <<>> ELSE DbxFallback(h.rows)
<1>7. X \in Seq(Statements) /\ \A st \in Of(X) : st.op = "insert" /\ st.on = "auto" /\ Allowed(cfg, st) /\ ~Ddl(st)
  BY <1>2, <1>3, <1>4, EmptyProgram, FallbackFacts DEF Part
<1>8. todo' = X \o Tail(todo)
  BY <1>5
<1> HIDE DEF X
<1> QED BY <1>2, <1>3, <1>4, <1>5, <1>6, <1>7, <1>8 DEF h

LEMMA BulkShape == ASSUME Shape, StepBulk PROVE Shape'
<1> DEFINE t == Tail(todo)
<1>1. TypeOK /\ Consistent /\ DdlFirst /\ EveryTxnEnds /\ HeldBack /\ Hidden
  BY DEF Shape
<1>2. /\ DbxOdbc(cfg) /\ ~Atomic(cfg) /\ Head(todo).on = "auto" /\ Whole(table') /\ draft' = table'
      /\ UNCHANGED <<cfg, base, holder, open, conn, sink, fed, pc, why>>
      /\ pc \in {"write", "flush"}
  BY BulkResult DEF StepBulk, Calling
<1>3. PICK X \in Seq(Statements) :
        /\ todo' = X \o t
        /\ \A st \in Of(X) : st.op = "insert" /\ st.on = "auto" /\ Allowed(cfg, st) /\ ~Ddl(st)
  BY BulkResult
<1>4. todo \in Seq(Statements) /\ todo # <<>> /\ Head(todo).op = "bulk" /\ Changes(Head(todo))
  BY <1>1 DEF StepBulk, Calling, TypeOK, Changes
<1>5. t \in Seq(Statements) /\ Of(t) \subseteq Of(todo) /\ Begun(t) \subseteq Begun(todo) /\ Of(todo) = {Head(todo)} \cup Of(t)
  BY <1>4, HeadAndTail
<1>6. DdlLeads(t) /\ \A st \in Of(t) : Ddl(st) => st.on = "auto"
  <2>1. \A st \in Of(t) : Ddl(st) => Head(todo).on = st.on
    BY <1>1, <1>4, RestLeads DEF DdlFirst
  <2> QED BY <1>1, <1>2, <1>4, <2>1, RestLeads DEF DdlFirst
<1>7. \A on : EndsIn(todo, on) => EndsIn(t, on)
  BY <1>4, RestEnds
<1> HIDE DEF t
<1>8. Begun(X) = {}
  BY <1>3, NoneBegun
<1>9. /\ X \o t \in Seq(Statements) /\ Of(X \o t) = Of(X) \cup Of(t) /\ Begun(X \o t) = Begun(t)
      /\ DdlLeads(X \o t) /\ \A on : EndsIn(t, on) => EndsIn(X \o t, on)
  <2>1. DdlLeads(X \o t)
    BY <1>3, <1>5, <1>6, LeadsPrepend
  <2>2. \A on : EndsIn(X, on)
    BY <1>8, EndsSimple
  <2>3. X \in Seq(Statements) /\ t \in Seq(Statements)
    BY <1>3, <1>5
  <2>4. \A on : EndsIn(t, on) => EndsIn(X \o t, on)
    BY <2>2, <2>3, EndsConcat
  <2>5. X \o t \in Seq(Statements) /\ Of(X \o t) = Of(X) \cup Of(t) /\ Begun(X \o t) = Begun(X) \cup Begun(t)
    BY <2>3, OfConcat
  <2> QED BY <1>8, <2>1, <2>4, <2>5
<1>10. TypeOK'
  BY <1>1, <1>2, <1>3, <1>9 DEF TypeOK, Whole
<1>11. Consistent'
  BY <1>1, <1>2 DEF Consistent, Whole
<1>12. DdlFirst'
  BY <1>1, <1>2, <1>3, <1>5, <1>9 DEF DdlFirst
<1>13. EveryTxnEnds'
  <2>1. sink.prepared
    BY <1>1, <1>4 DEF EveryTxnEnds
  <2>2. ASSUME NEW on \in Sessions, on = "batch" \/ pc = "flush"
        PROVE  EndsIn(X \o t, on) /\ (on \in open => \E st \in Of(X \o t) : Is(st, "commit", on))
    <3>1. EndsIn(todo, on) /\ (on \in open => \E st \in Of(todo) : Is(st, "commit", on))
      BY <1>1, <2>2 DEF EveryTxnEnds
    <3>2. ~Is(Head(todo), "commit", on)
      BY <1>4 DEF Is
    <3> QED BY <1>5, <1>7, <1>9, <3>1, <3>2
  <2>3. \A st \in Of(X \o t) : st.op = "bulk" => DbxOdbc(cfg) /\ st.on = "auto"
    BY <1>1, <1>3, <1>5, <1>9 DEF EveryTxnEnds
  <2>4. \A on \in open \cup Begun(X \o t) : on \in LongSessions(cfg) \cup {"batch"} \/ pc = "flush"
    BY <1>1, <1>5, <1>9 DEF EveryTxnEnds
  <2> QED BY <1>2, <1>3, <2>1, <2>2, <2>3, <2>4 DEF EveryTxnEnds
<1>14. HeldBack'
  BY <1>1, <1>2 DEF HeldBack, FedKeys
<1>15. Hidden'
  BY <1>2 DEF Hidden
<1> QED BY <1>10, <1>11, <1>12, <1>13, <1>14, <1>15 DEF Shape

-----------------------------------------------------------------------------
(* The calls of the executor. *)

LEMMA RestOfIdle ==
  ASSUME Shape, pc = "idle"
  PROVE  /\ cfg \in Configs /\ sink \in SinkStates /\ AtRest(cfg, sink, open) /\ todo = <<>>
         /\ "batch" \notin open /\ (sink.prepared \/ (open = {} /\ holder = "none" /\ draft = table))
<1>1. TypeOK /\ Consistent /\ EveryTxnEnds /\ HeldBack /\ Hidden
  BY DEF Shape
<1>2. cfg \in Configs /\ sink \in SinkStates /\ todo = <<>> /\ Of(todo) = {} /\ Begun(todo) = {}
  BY <1>1, StateTypes, EmptyProgram DEF Consistent
<1>3. "batch" \notin open
  <2>1. "batch" \in Sessions
    BY DEF Sessions
  <2> QED BY <1>1, <1>2, <2>1 DEF EveryTxnEnds
<1>4. open \subseteq LongSessions(cfg)
  BY <1>1, <1>3 DEF EveryTxnEnds
<1>5. sink.prepared \/ (open = {} /\ holder = "none" /\ draft = table)
  BY <1>1 DEF EveryTxnEnds, Consistent
<1>6. Atomic(cfg) /\ sink.prepared /\ (RunTxn(cfg) \/ (cfg.driver = "oracle" /\ sink.staged # <<>>)) => "run" \in open
  BY <1>1, <1>2 DEF Hidden, OneTxn
<1>7. ~sink.prepared => sink.staged = <<>> /\ sink.buffer = <<>> /\ sink.seen = <<>>
  BY <1>1 DEF HeldBack
<1>8. Between(cfg, sink, open)
  BY <1>1, <1>6 DEF HeldBack, Between
<1>9. AtRest(cfg, sink, open)
  <2>1. sink.seen # <<>> => cfg.driver = "postgres" /\ cfg.strategy = "merge_delete"
    BY <1>1 DEF HeldBack
  <2>2. sink.prepared /\ cfg.driver = "postgres" /\ cfg.strategy = "merge_delete" => sink.seen # <<>>
    BY <1>1 DEF HeldBack
  <2> QED BY <1>4, <1>5, <1>6, <1>7, <1>8, <2>1, <2>2 DEF AtRest
<1> QED BY <1>2, <1>3, <1>5, <1>9

\* What flush sends
LEMMA FlushFacts ==
  ASSUME cfg \in Configs, sink \in SinkStates, AtRest(cfg, sink, open)
  PROVE  /\ FlushForm(FlushProgram, cfg, open)
         /\ ~sink.prepared => FlushProgram = <<>>
         /\ ~Deviates(cfg) /\ sink.prepared => FlushGives(FlushProgram, cfg, sink)
<1>1. cfg.driver \in Drivers
  BY ConfigTypes
<1>2. CASE cfg.driver = "postgres"
  <2>1. FlushProgram = PgFlush(cfg, sink, open)
    BY <1>2 DEF FlushProgram
  <2>2. ~sink.prepared => PgFlush(cfg, sink, open) = <<>>
    <3>1. ~sink.prepared => open = {} /\ sink.seen = <<>>
      BY DEF AtRest
    <3>2. <<>> \o <<>> = <<>>
      BY EmptySeq, ConcatEmptySeq
    <3> QED BY <3>1, <3>2 DEF PgFlush
  <2> QED BY <1>2, <2>1, <2>2, PgFlushes
<1>3. CASE cfg.driver \in {"mysql", "databricks", "databricks_odbc"}
  <2>1. FlushProgram = <<>>
    BY <1>3 DEF FlushProgram, MyFlush, DbxFlush
  <2> QED BY <1>3, <2>1, PlainFlushes
<1>4. CASE cfg.driver \in {"oracle", "oracle_direct"}
  <2>1. FlushProgram = OraFlush(sink, open)
    BY <1>4 DEF FlushProgram
  <2>2. ~sink.prepared => OraFlush(sink, open) = <<>>
    <3>1. ~sink.prepared => open = {} /\ sink.staged = <<>>
      BY DEF AtRest
    <3>2. <<>> \o <<>> = <<>>
      BY EmptySeq, ConcatEmptySeq
    <3> QED BY <3>1, <3>2 DEF OraFlush
  <2> QED BY <1>4, <2>1, <2>2, OraFlushes
<1>5. CASE cfg.driver \in {"tiberius", "odbc", "bcp"}
  <2>1. FlushProgram = MsFlush(cfg, sink)
    BY <1>5 DEF FlushProgram
  <2>2. CASE sink.prepared
    BY <1>5, <2>1, <2>2, MsFlushes
  <2>3. CASE ~sink.prepared
    <3>1. FlushProgram = <<>> /\ open = {}
      BY <2>1, <2>3 DEF MsFlush, AtRest
    <3>2. FlushForm(<<>>, cfg, open)
      BY <3>1, EmptyProgram, NoTxn
    <3> QED BY <2>3, <3>1, <3>2
  <2> QED BY <2>2, <2>3
<1> QED BY <1>1, <1>2, <1>3, <1>4, <1>5 DEF Drivers, Staging

\* What write_batch sends
LEMMA WriteFacts ==
  ASSUME cfg \in Configs, sink \in SinkStates, AtRest(cfg, sink, open), NEW b \in Batches
  PROVE  \E P, R : WriteProgram(b) = P \o R /\ Delivers(cfg, sink, AfterWrite(b), open, b, P, R)
<1>1. cfg.driver \in Drivers /\ b \in Seq(Rows) /\ Between(cfg, sink, open)
  BY ConfigTypes, BatchIsRows DEF AtRest
<1>2. CASE cfg.driver = "postgres"
  <2>1. WriteProgram(b) = PgWrite(cfg, sink, open, b) /\ AfterWrite(b) = PgAfterWrite(cfg, sink, b)
    BY <1>2 DEF WriteProgram, AfterWrite
  <2> QED BY <1>1, <1>2, <2>1, PgDelivers
<1>3. CASE cfg.driver = "mysql"
  <2>1. WriteProgram(b) = MyWrite(cfg, sink, b) /\ AfterWrite(b) = MyAfterWrite(sink)
    BY <1>3 DEF WriteProgram, AfterWrite
  <2> QED BY <1>1, <1>3, <2>1, MyDelivers
<1>4. CASE cfg.driver \in {"oracle", "oracle_direct"}
  <2>1. WriteProgram(b) = OraWrite(cfg, sink, open, b) /\ AfterWrite(b) = OraAfterWrite(cfg, sink, b)
    BY <1>4 DEF WriteProgram, AfterWrite
  <2> QED BY <1>1, <1>4, <2>1, OraDelivers
<1>5. CASE cfg.driver \in {"databricks", "databricks_odbc"}
  <2>1. WriteProgram(b) = DbxWrite(cfg, sink, b) /\ AfterWrite(b) = DbxAfterWrite(sink)
    BY <1>5 DEF WriteProgram, AfterWrite
  <2> QED BY <1>1, <1>5, <2>1, DbxDelivers
<1>6. CASE cfg.driver \in {"tiberius", "odbc", "bcp"}
  <2>1. WriteProgram(b) = MsWrite(cfg, sink, b) /\ AfterWrite(b) = MsAfterWrite(cfg, sink, b)
    BY <1>6 DEF WriteProgram, AfterWrite
  <2> QED BY <1>1, <1>6, <2>1, MsDelivers
<1> QED BY <1>1, <1>2, <1>3, <1>4, <1>5, <1>6 DEF Drivers, Staging

\* The sink after write_batch
LEMMA SinkUpdate ==
  ASSUME NEW s \in SinkStates, NEW x \in Seq(Rows)
  PROVE  /\ LET t == [s EXCEPT !.prepared = TRUE, !.seen = x]
            IN  t \in SinkStates /\ t.prepared /\ t.seen = x /\ t.buffer = s.buffer /\ t.staged = s.staged
         /\ LET t == [s EXCEPT !.prepared = TRUE, !.staged = x]
            IN  t \in SinkStates /\ t.prepared /\ t.seen = s.seen /\ t.buffer = s.buffer /\ t.staged = x
  BY DEF SinkStates

LEMMA AfterFacts ==
  ASSUME cfg \in Configs, sink \in SinkStates, AtRest(cfg, sink, open), NEW b \in Batches
  PROVE  LET s2 == AfterWrite(b)
         IN  /\ s2 \in SinkStates /\ s2.prepared
             /\ s2.buffer # <<>> => Buffers(cfg)
             /\ s2.staged # <<>> =>
                  IF cfg.driver \in {"tiberius", "odbc", "bcp"} THEN MsStaged(cfg) ELSE OraStaged(cfg)
             /\ OraStaged(cfg) => s2.staged = sink.staged \o b
             /\ s2.seen = (IF cfg.driver = "postgres" /\ cfg.strategy = "merge_delete"
                           THEN sink.seen \o b ELSE <<>>)
             /\ cfg.driver \in {"tiberius", "odbc", "bcp"} /\ MsStaged(cfg) =>
                  KeysOf(Held(s2)) = KeysOf(Held(sink)) \cup KeysOf(b)
<1> DEFINE s2 == AfterWrite(b)
           g == sink.staged
           h == sink.buffer
           v == sink.seen
<1>1. cfg.driver \in Drivers /\ b \in Seq(Rows) /\ Between(cfg, sink, open)
  BY ConfigTypes, BatchIsRows DEF AtRest
<1>2. h \in Seq(Rows) /\ g \in Seq(Rows) /\ v \in Seq(Rows)
  BY DEF SinkStates
<1>3. /\ g \o b \in Seq(Rows) /\ h \o b \in Seq(Rows) /\ v \o b \in Seq(Rows) /\ <<>> \in Seq(Rows)
      /\ g \o (h \o b) \in Seq(Rows) /\ g \o h \in Seq(Rows) /\ g \o <<>> = g
  BY <1>1, <1>2, ConcatProperties, ConcatEmptySeq, EmptySeq
<1>4. ~(cfg.driver = "postgres" /\ cfg.strategy = "merge_delete") => v = <<>>
  BY DEF AtRest
<1>5. /\ h # <<>> => Buffers(cfg)
      /\ g # <<>> => IF cfg.driver \in {"tiberius", "odbc", "bcp"} THEN MsStaged(cfg) ELSE OraStaged(cfg)
      /\ OraStaged(cfg) => cfg.driver = "oracle"
  BY <1>1 DEF Between, OraStaged
<1>6. CASE cfg.driver \in {"postgres", "mysql", "databricks", "databricks_odbc"}
  <2> DEFINE new == IF cfg.driver = "postgres" /\ cfg.strategy = "merge_delete" THEN v \o b ELSE <<>>
             t == [sink EXCEPT !.prepared = TRUE, !.seen = new]
  <2>1. new \in Seq(Rows)
    BY <1>3
  <2>2. t \in SinkStates /\ t.prepared /\ t.seen = new /\ t.buffer = h /\ t.staged = g
    <3> HIDE DEF new
    <3> QED BY <2>1, SinkUpdate
  <2>3. s2 = t
    <3>1. CASE cfg.driver = "postgres"
      <4>1. s2 = [sink EXCEPT !.prepared = TRUE, !.seen = PgSeen(cfg, sink, b)]
        BY <3>1 DEF AfterWrite, PgAfterWrite
      <4>2. PgSeen(cfg, sink, b) = new
        BY <3>1 DEF PgSeen
      <4> QED BY <4>1, <4>2
    <3>2. CASE cfg.driver # "postgres"
      <4>1. s2 = [sink EXCEPT !.prepared = TRUE]
        BY <1>6, <3>2 DEF AfterWrite, MyAfterWrite, DbxAfterWrite
      <4>2. sink.seen = new
        BY <1>4, <3>2
      <4> HIDE DEF s2, new
      <4> QED BY <4>1, <4>2 DEF SinkStates
    <3> QED BY <3>1, <3>2
  <2> HIDE DEF s2, t
  <2> QED BY <1>5, <1>6, <2>2, <2>3 DEF s2
<1>7. CASE cfg.driver \in {"oracle", "oracle_direct"}
  <2> DEFINE new == IF OraStaged(cfg) THEN g \o b ELSE g
             t == [sink EXCEPT !.prepared = TRUE, !.staged = new]
  <2>1. new \in Seq(Rows)
    BY <1>2, <1>3
  <2>2. t \in SinkStates /\ t.prepared /\ t.seen = v /\ t.buffer = h /\ t.staged = new
    <3> HIDE DEF new
    <3> QED BY <2>1, SinkUpdate
  <2>3. s2 = t
    BY <1>7 DEF AfterWrite, OraAfterWrite
  <2> HIDE DEF s2, t
  <2> QED BY <1>4, <1>5, <1>7, <2>2, <2>3 DEF s2
<1>8. CASE cfg.driver \in {"tiberius", "odbc", "bcp"}
  <2> DEFINE sent == IF ~Buffers(cfg) THEN b ELSE IF Full(cfg, sink, b) THEN h \o b ELSE <<>>
             buf == IF Buffers(cfg) /\ ~Full(cfg, sink, b) THEN h \o b ELSE <<>>
             stg == IF MsStaged(cfg) THEN g \o sent ELSE <<>>
  <2>1. s2 = [sink EXCEPT !.prepared = TRUE, !.buffer = buf, !.staged = stg]
    BY <1>8 DEF AfterWrite, MsAfterWrite
  <2>2. sent \in Seq(Rows) /\ buf \in Seq(Rows) /\ stg \in Seq(Rows) /\ (buf # <<>> => Buffers(cfg))
        /\ (stg # <<>> => MsStaged(cfg))
    <3>1. sent \in Seq(Rows) /\ buf \in Seq(Rows) /\ (buf # <<>> => Buffers(cfg)) /\ (stg # <<>> => MsStaged(cfg))
      BY <1>1, <1>3
    <3>2. g \o sent \in Seq(Rows)
      <4> HIDE DEF sent
      <4> QED BY <1>2, <3>1, ConcatProperties
    <3> QED BY <1>3, <3>1, <3>2
  <2>3. MsStaged(cfg) => KeysOf(stg \o buf) = KeysOf(g \o h) \cup KeysOf(b)
    <3>1. KeysOf(sent) \cup KeysOf(buf) = KeysOf(h) \cup KeysOf(b)
      <4>1. KeysOf(h \o b) = KeysOf(h) \cup KeysOf(b)
        BY <1>1, <1>2, ConcatRows
      <4>2. KeysOf(<<>>) = {}
        BY EmptySeq DEF KeysOf
      <4>3. ~Buffers(cfg) => h = <<>>
        BY <1>5
      <4> QED BY <4>1, <4>2, <4>3
    <3>2. KeysOf(g \o h) = KeysOf(g) \cup KeysOf(h)
      BY <1>2, ConcatRows
    <3>3. MsStaged(cfg) => stg = g \o sent
      OBVIOUS
    <3> HIDE DEF sent, buf, stg
    <3>4. KeysOf(g \o sent) = KeysOf(g) \cup KeysOf(sent)
      BY <1>2, <2>2, ConcatRows
    <3>5. KeysOf(stg \o buf) = KeysOf(stg) \cup KeysOf(buf)
      BY <2>2, ConcatRows
    <3> QED BY <3>1, <3>2, <3>3, <3>4, <3>5
  <2> HIDE DEF s2, sent, buf, stg
  <2>4. s2 \in SinkStates /\ s2.prepared /\ s2.seen = v /\ s2.buffer = buf /\ s2.staged = stg
    <3>1. buf \in Seq(Rows) /\ stg \in Seq(Rows)
      BY <2>2
    <3>2. /\ s2 \in SinkStates /\ s2.prepared
          /\ s2.seen = sink.seen /\ s2.buffer = buf /\ s2.staged = stg
      BY <2>1, <3>1 DEF SinkStates
    <3> QED BY <3>2
  <2>5. Held(s2) = stg \o buf /\ Held(sink) = g \o h
    BY <2>4 DEF Held
  <2> QED BY <1>4, <1>5, <1>8, <2>2, <2>3, <2>4, <2>5 DEF s2
<1> QED BY <1>1, <1>6, <1>7, <1>8 DEF Drivers, Staging

LEMMA FlushShape == ASSUME Shape, Flush PROVE Shape'
<1> DEFINE F == FlushProgram
<1>1. TypeOK /\ Consistent /\ DdlFirst /\ EveryTxnEnds /\ HeldBack /\ Hidden /\ pc = "idle"
  BY DEF Shape, Flush
<1>2. /\ pc' = "flush" /\ todo' = F
      /\ UNCHANGED <<cfg, base, sink, fed, why, table, draft, holder, open, conn>>
  BY DEF Flush, db
<1>3. /\ FlushForm(F, cfg, open)
      /\ sink.prepared \/ (open = {} /\ F = <<>>)
  BY <1>1, RestOfIdle, FlushFacts
<1> HIDE DEF F
<1>4. F \in Seq(Statements) /\ \A st \in Of(F) : ~Ddl(st) /\ st.op # "bulk"
  BY <1>3 DEF FlushForm, Final
<1>5. TypeOK' /\ Consistent'
  BY <1>1, <1>2, <1>4 DEF TypeOK, Consistent
<1>6. DdlFirst'
  BY <1>2, <1>4, LeadsSimple DEF DdlFirst
<1>7. EveryTxnEnds'
  BY <1>2, <1>3, <1>4 DEF EveryTxnEnds, FlushForm
<1>8. HeldBack'
  BY <1>1, <1>2 DEF HeldBack, FedKeys, FedRows
<1>9. Hidden'
  BY <1>1, <1>2, <1>3 DEF Hidden, OneTxn, FlushForm
<1> QED BY <1>5, <1>6, <1>7, <1>8, <1>9 DEF Shape

\* A staged load of Oracle begins its transaction with the first rows.
LEMMA OraStageBegins ==
  ASSUME NEW c \in Configs, c.driver = "oracle", OraStaged(c), NEW s \in SinkStates, NEW o, NEW b \in Seq(Rows)
  PROVE  "run" \in o \cup Begun(OraWrite(c, s, o, b))
<1> DEFINE N == IF s.staged = <<>> THEN <<Clone("auto")>> ELSE <<>>
           R == OraOpen(o)
           S == <<Stage("run", b)>>
           P == IF s.prepared THEN <<>> ELSE OraPrepare(c)
<1>1. <<>> \in Seq(Rows) /\ {"auto", "run"} \subseteq Sessions
  BY EmptySeq DEF Sessions
<1>2. N \in Seq(Statements)
  <2>1. OneOf(<<Clone("auto")>>, "clone", "auto")
    BY <1>1, OneStatement
  <2> QED BY <2>1, EmptyProgram DEF OneOf
<1>3. S \in Seq(Statements)
  <2>1. OneOf(<<Stage("run", b)>>, "stage", "run")
    BY <1>1, OneStatement
  <2> QED BY <2>1 DEF OneOf
<1>4. R \in Seq(Statements) /\ Begun(R) = (IF "run" \in o THEN {} ELSE {"run"})
  BY OraOpenFacts
<1>5. P \in Seq(Statements)
  BY OraPrepares, EmptyProgram DEF Prepares, Part
<1>6. OraWrite(c, s, o, b) = P \o ((N \o R) \o S)
  BY DEF OraWrite, OraStage
<1> HIDE DEF N, R, S, P
<1>7. N \o R \in Seq(Statements) /\ Begun(N \o R) = Begun(N) \cup Begun(R)
  BY <1>2, <1>4, OfConcat
<1> DEFINE M == N \o R
<1>8. M \o S \in Seq(Statements) /\ Begun(M \o S) = Begun(M) \cup Begun(S)
  <2>1. M \in Seq(Statements)
    BY <1>7
  <2> HIDE DEF M
  <2> QED BY <1>3, <2>1, OfConcat
<1> DEFINE T == M \o S
<1>9. Begun(P \o T) = Begun(P) \cup Begun(T)
  <2>1. T \in Seq(Statements)
    BY <1>8
  <2> HIDE DEF T
  <2> QED BY <1>5, <2>1, OfConcat
<1> QED BY <1>4, <1>6, <1>7, <1>8, <1>9

LEMMA WriteShape == ASSUME Shape, NEW b \in Batches, Write(b) PROVE Shape'
<1> DEFINE prog == WriteProgram(b)
           s2 == AfterWrite(b)
<1>1. TypeOK /\ Consistent /\ DdlFirst /\ EveryTxnEnds /\ HeldBack /\ Hidden /\ pc = "idle"
  BY DEF Shape, Write
<1>2. /\ pc' = "write" /\ todo' = prog /\ sink' = s2 /\ fed' = Append(fed, b) /\ Len(fed) < MaxBatches
      /\ UNCHANGED <<cfg, base, why, table, draft, holder, open, conn>>
  BY DEF Write, db
<1>3. /\ cfg \in Configs /\ sink \in SinkStates /\ AtRest(cfg, sink, open) /\ todo = <<>>
      /\ "batch" \notin open /\ (sink.prepared \/ (open = {} /\ holder = "none"))
  BY <1>1, RestOfIdle
<1>4. /\ Part(prog, cfg) /\ DdlLeads(prog) /\ EndsIn(prog, "batch")
      /\ sink.prepared => \A st \in Of(prog) : ~Ddl(st)
      /\ Atomic(cfg) => InTxn(prog, open)
      /\ ~sink.prepared /\ RunTxn(cfg) => "run" \in Begun(prog)
  <2>1. PICK P, R : prog = P \o R /\ Delivers(cfg, sink, s2, open, b, P, R)
    BY <1>3, WriteFacts
  <2> HIDE DEF prog, s2
  <2>2. /\ Part(P \o R, cfg) /\ DdlLeads(P \o R) /\ EndsIn(P \o R, "batch")
        /\ sink.prepared => \A st \in Of(P \o R) : ~Ddl(st)
        /\ Atomic(cfg) => InTxn(P \o R, open)
        /\ ~sink.prepared /\ RunTxn(cfg) => "run" \in Begun(P \o R)
    BY <1>3, <2>1, DeliversShape
  <2> QED BY <2>1, <2>2
<1>5. /\ s2 \in SinkStates /\ s2.prepared
      /\ s2.buffer # <<>> => Buffers(cfg)
      /\ s2.staged # <<>> =>
           IF cfg.driver \in {"tiberius", "odbc", "bcp"} THEN MsStaged(cfg) ELSE OraStaged(cfg)
      /\ OraStaged(cfg) => s2.staged = sink.staged \o b
      /\ s2.seen = (IF cfg.driver = "postgres" /\ cfg.strategy = "merge_delete" THEN sink.seen \o b ELSE <<>>)
      /\ cfg.driver \in {"tiberius", "odbc", "bcp"} /\ MsStaged(cfg) =>
           KeysOf(Held(s2)) = KeysOf(Held(sink)) \cup KeysOf(b)
  BY <1>3, AfterFacts
<1>6. OraStaged(cfg) => "run" \in open \cup Begun(prog)
  <2>1. cfg.driver = "oracle" => prog = OraWrite(cfg, sink, open, b)
    BY DEF WriteProgram
  <2>2. b \in Seq(Rows)
    BY BatchIsRows
  <2>3. OraStaged(cfg) => cfg.driver = "oracle"
    BY DEF OraStaged
  <2> HIDE DEF prog
  <2> QED BY <1>3, <2>1, <2>2, <2>3, OraStageBegins
<1> HIDE DEF prog, s2
<1>7. b \in Seq(Rows) /\ b # <<>> /\ fed \in Seq(Batches) /\ fed' \in Seq(Batches) /\ Len(fed') = Len(fed) + 1
      /\ fed' # <<>> /\ FedKeys(fed') = FedKeys(fed) \cup KeysOf(b)
  <2>1. fed \in Seq(Batches)
    BY <1>1 DEF TypeOK
  <2> QED BY <1>2, <2>1, BatchIsRows, FedKeysSteps, AppendProperties, EmptySeq
<1>8. TypeOK'
  <2>1. Len(fed) \in Nat /\ MaxBatches \in Nat
    BY <1>7, LenProperties, SinkAssumption
  <2>2. prog \in Seq(Statements)
    BY <1>4 DEF Part
  <2>3. Len(fed') <= MaxBatches
    BY <1>2, <1>7, <2>1
  <2> QED BY <1>1, <1>2, <1>5, <1>7, <2>2, <2>3 DEF TypeOK, SinkStates
<1>9. Consistent'
  BY <1>1, <1>2 DEF Consistent
<1>10. DdlFirst'
  BY <1>2, <1>3, <1>4 DEF DdlFirst
<1>11. EveryTxnEnds'
  <2>1. \A st \in Of(prog) : /\ st.op = "begin" => st.on \in LongSessions(cfg) \cup {"batch"}
                             /\ st.op = "bulk" => DbxOdbc(cfg) /\ st.on = "auto"
    BY <1>4 DEF Part, Allowed
  <2>2. \A on \in Begun(prog) : on \in LongSessions(cfg) \cup {"batch"}
    BY <2>1 DEF Begun
  <2>3. open \subseteq LongSessions(cfg)
    BY <1>3 DEF AtRest
  <2> QED BY <1>2, <1>3, <1>4, <1>5, <2>1, <2>2, <2>3 DEF EveryTxnEnds
<1>12. HeldBack'
  <2>1. KeysOf(sink.seen \o b) = KeysOf(sink.seen) \cup KeysOf(b) /\ (sink.seen \o b # <<>>)
    <3>1. sink.seen \in Seq(Rows)
      BY <1>3 DEF SinkStates
    <3>2. KeysOf(sink.seen \o b) = KeysOf(sink.seen) \cup KeysOf(b)
      BY <1>7, <3>1, ConcatRows
    <3>3. sink.seen \o b # <<>>
      <4>1. Len(sink.seen \o b) = Len(sink.seen) + Len(b) /\ Len(sink.seen) \in Nat /\ Len(b) \in Nat
        BY <1>7, <3>1, ConcatProperties, LenProperties
      <4>2. Len(b) # 0
        BY <1>7, EmptySeq
      <4>3. Len(<<>>) = 0
        BY EmptySeq
      <4> QED BY <4>1, <4>2, <4>3
    <3> QED BY <3>2, <3>3
  <2>2. cfg.driver = "postgres" /\ cfg.strategy = "merge_delete" => KeysOf(sink.seen) = FedKeys(fed)
    BY <1>1 DEF HeldBack
  <2>3. cfg.driver \in {"tiberius", "odbc", "bcp"} /\ MsStaged(cfg) => KeysOf(Held(sink)) = FedKeys(fed)
    BY <1>1 DEF HeldBack, Held
  <2>4. OraStaged(cfg) => RowsOf(s2.staged) = FedRows(fed')
    <3> SUFFICES ASSUME OraStaged(cfg) PROVE RowsOf(s2.staged) = FedRows(fed')
      OBVIOUS
    <3>1. sink.staged \in Seq(Rows)
      BY <1>3 DEF SinkStates
    <3>2. RowsOf(s2.staged) = RowsOf(sink.staged) \cup RowsOf(b)
      BY <1>5, <1>7, <3>1, ConcatRows
    <3>3. FedRows(fed') = FedRows(fed) \cup RowsOf(b)
      BY <1>2, <1>7, FedRowsSteps
    <3>4. RowsOf(sink.staged) = FedRows(fed)
      BY <1>1 DEF HeldBack
    <3> QED BY <3>2, <3>3, <3>4
  <2> QED BY <1>2, <1>5, <1>7, <2>1, <2>2, <2>3, <2>4 DEF HeldBack, Held
<1>13. Hidden'
  <2>1. SUFFICES ASSUME Atomic(cfg) PROVE table'.rows = base'.rows /\ OneTxn'
    BY <1>2 DEF Hidden
  <2>2. \A st \in Of(prog) : st.op # "commit"
    BY <1>4, <2>1 DEF Part, Allowed
  <2>3. table.rows = base.rows /\ OneTxn
    BY <1>1, <2>1 DEF Hidden
  <2>4. RunTxn(cfg) => "run" \in open \cup Begun(prog)
    <3>1. Begun(<<>>) = {}
      BY EmptyProgram
    <3>2. sink.prepared /\ RunTxn(cfg) => "run" \in open
      BY <1>1, <1>3, <2>3, <3>1 DEF OneTxn
    <3> QED BY <1>4, <3>2
  <2>5. cfg.driver = "oracle" /\ s2.staged # <<>> => "run" \in open \cup Begun(prog)
    BY <1>5, <1>6 DEF OraStaged
  <2>6. InTxn(prog, open) /\ CommitLast(prog)
    BY <1>4, <2>1, <2>2, CommitSimple
  <2> QED BY <1>2, <2>2, <2>3, <2>4, <2>5, <2>6 DEF OneTxn
<1> QED BY <1>8, <1>9, <1>10, <1>11, <1>12, <1>13 DEF Shape

LEMMA InitShape == ASSUME Init PROVE Shape
<1>1. /\ cfg \in Plans /\ base \in Bases /\ table = base /\ draft = base /\ holder = "none" /\ open = {}
      /\ conn = 0 /\ todo = <<>> /\ sink = Idle /\ fed = <<>> /\ pc = "idle" /\ why = "none"
  BY DEF Init
<1>2. Whole(base) /\ base \in Tables
  BY <1>1, SinkAssumption DEF Whole, Missing
<1>3. /\ <<>> \in Seq(Statements) /\ <<>> \in Seq(Batches) /\ <<>> \in Seq(Rows) /\ Len(<<>>) = 0
      /\ Of(<<>>) = {} /\ Begun(<<>>) = {} /\ \A on : EndsIn(<<>>, on)
      /\ DdlLeads(<<>>) /\ CommitLast(<<>>) /\ InTxn(<<>>, open)
  BY EmptySeq, EmptyProgram, EndsSimple, LeadsSimple, CommitSimple, TxnSimple
<1>4. Idle \in SinkStates /\ ~Idle.prepared /\ Idle.buffer = <<>> /\ Idle.staged = <<>> /\ Idle.seen = <<>>
  BY <1>3 DEF Idle, SinkStates
<1>5. TypeOK
  BY <1>1, <1>2, <1>3, <1>4, SinkAssumption DEF TypeOK, SinkStates, Causes
<1>6. Consistent
  BY <1>1, <1>2 DEF Consistent, Whole
<1>7. DdlFirst /\ EveryTxnEnds
  BY <1>1, <1>3, <1>4 DEF DdlFirst, EveryTxnEnds
<1>8. HeldBack
  <2>1. /\ FedKeys(<<>>) = {} /\ KeysOf(<<>>) = {} /\ <<>> \o <<>> = <<>>
        /\ FedRows(<<>>) = {} /\ RowsOf(<<>>) = {}
    BY EmptySeq, ConcatEmptySeq DEF FedKeys, KeysOf, FedRows, RowsOf
  <2>2. /\ sink.prepared <=> fed # <<>>
        /\ sink.buffer = <<>> /\ sink.staged = <<>> /\ sink.seen = <<>>
    BY <1>1, <1>4
  <2> QED BY <1>1, <2>1, <2>2 DEF HeldBack
<1>9. Hidden
  BY <1>1, <1>3, <1>4 DEF Hidden, OneTxn
<1> QED BY <1>5, <1>6, <1>7, <1>8, <1>9 DEF Shape

LEMMA StutterShape == ASSUME Shape, UNCHANGED vars PROVE Shape'
  BY DEF vars, Shape, TypeOK, Consistent, DdlFirst, EveryTxnEnds, HeldBack, FedKeys, FedRows, Hidden, OneTxn

LEMMA StepShape == ASSUME Shape, [Next]_vars PROVE Shape'
<1>1. ASSUME NEW b \in Batches, Write(b) PROVE Shape'
  BY <1>1, WriteShape
<1>2. CASE WriteDone
  BY <1>2, CallEnds
<1>3. CASE Flush
  BY <1>3, FlushShape
<1>4. CASE FlushDone
  BY <1>4, CallEnds
<1>5. CASE StepBegin
  BY <1>5, BeginShape
<1>6. CASE StepCommit
  BY <1>6, CommitShape
<1>7. CASE StepRun
  BY <1>7, RunShape
<1>8. CASE StepStage
  BY <1>8, StageShape
<1>9. CASE StepBulk
  BY <1>9, BulkShape
<1>10. CASE Reject
  BY <1>10, RejectShape
<1>11. CASE Fault
  BY <1>11, FaultShape
<1>12. CASE UNCHANGED vars
  BY <1>12, StutterShape
<1> QED BY <1>1, <1>2, <1>3, <1>4, <1>5, <1>6, <1>7, <1>8, <1>9, <1>10, <1>11, <1>12 DEF Next, Run, Done

\* The state of a sink keeps its shape: every transaction that begins also ends, DDL comes
\* before the rows, the sink holds back what its options make it hold back, and with one
\* transaction around the run nothing of it is visible before the commit of flush.  This is
\* ensure_table, write_impl and flush_impl of all nine ways of loading.
THEOREM SinkShape == Spec => []Shape
<1>1. Init => Shape
  BY InitShape
<1>2. Shape /\ [Next]_vars => Shape'
  BY StepShape
<1> QED BY <1>1, <1>2, PTL DEF Spec

-----------------------------------------------------------------------------
(* What a run does not take away. *)

KeepsRows(c, old, rows) ==
  c.mode # "drop_and_replace" =>
    /\ c.strategy \in {"append", "insert_ignore"} => \A r \in Rows : rows[r] >= old[r]
    /\ c.strategy = "upsert" => \A k \in Keys : Has(old, k) => Has(rows, k)

BaseInv ==
  /\ Shape
  /\ KeepsRows(cfg, base.rows, table.rows) /\ KeepsRows(cfg, base.rows, draft.rows)
  /\ \A st \in Of(todo) : Gentle(cfg, st)

LEMMA InsertAdds ==
  ASSUME NEW rows \in Contents, NEW b \in Seq(Rows), NEW how \in {"append", "unique", "ignore"}, NEW r \in Rows
  PROVE  InsertEffect(rows, b, how)[r] >= rows[r]
<1>1. rows[r] \in Nat /\ Occurs(b, r) \in Nat
  BY OccursType DEF Contents
<1>2. Appended(rows, b)[r] >= rows[r]
  BY <1>1 DEF Appended
<1>3. Ignored(rows, b)[r] >= rows[r]
  <2>1. CASE r \in RowsOf(b) /\ ~Has(rows, r.key)
    <3>1. r.key \in Keys /\ r.val \in Values /\ r = [key |-> r.key, val |-> r.val]
      BY DEF Rows
    <3>2. ~(rows[[key |-> r.key, val |-> r.val]] > 0)
      BY <2>1, <3>1 DEF Has
    <3>3. rows[r] = 0
      BY <1>1, <3>1, <3>2
    <3> QED BY <2>1, <3>3 DEF Ignored
  <2>2. CASE ~(r \in RowsOf(b) /\ ~Has(rows, r.key))
    BY <1>1, <2>2 DEF Ignored
  <2> QED BY <2>1, <2>2
<1> QED BY <1>2, <1>3 DEF InsertEffect

LEMMA GentleKeeps ==
  ASSUME NEW c \in Configs, NEW old \in Contents, NEW rows \in Contents, NEW st \in Statements,
         Gentle(c, st), KeepsRows(c, old, rows)
  PROVE  KeepsRows(c, old, RowsAfter(st, rows))
<1>1. SUFFICES ASSUME c.mode # "drop_and_replace", c.strategy \in {"append", "insert_ignore", "upsert"}
               PROVE  KeepsRows(c, old, RowsAfter(st, rows))
  BY DEF KeepsRows
<1>2. st.rows \in Seq(Rows) /\ st.op \in Ops /\ st.op \notin {"drop", "truncate", "keep"}
  BY <1>1 DEF Statements, Gentle
<1>3. CASE st.op # "insert"
  <2>1. RowsAfter(st, rows) = rows
    BY <1>2, <1>3 DEF RowsAfter, Effect
  <2> QED BY <2>1
<1>4. CASE st.op = "insert"
  <2>1. RowsAfter(st, rows) = InsertEffect(rows, st.rows, st.how)
    BY <1>4 DEF RowsAfter, Effect
  <2>2. CASE c.strategy = "upsert"
    <3>1. st.how \in Adding
      BY <1>1, <1>4, <2>2 DEF Gentle
    <3>2. \A k \in Keys : Has(InsertEffect(rows, st.rows, st.how), k) <=> Has(rows, k) \/ k \in KeysOf(st.rows)
      BY <1>2, <3>1, HasAfterInsert
    <3> QED BY <1>1, <2>1, <2>2, <3>2 DEF KeepsRows
  <2>3. CASE c.strategy # "upsert"
    <3>1. st.how \in {"append", "unique", "ignore"}
      BY <1>1, <1>4, <2>3 DEF Gentle
    <3>2. InsertEffect(rows, st.rows, st.how) \in Contents
      BY <1>2, <3>1, InsertEffectType DEF Hows
    <3> DEFINE new == InsertEffect(rows, st.rows, st.how)
    <3>3. \A r \in Rows : new[r] >= rows[r]
      BY <1>2, <3>1, InsertAdds
    <3> HIDE DEF new
    <3>4. \A r \in Rows : rows[r] \in Nat /\ new[r] \in Nat /\ old[r] \in Nat
      BY <3>2 DEF Contents, new
    <3>5. \A r \in Rows : rows[r] >= old[r]
      BY <1>1, <2>3 DEF KeepsRows
    <3>6. \A r \in Rows : new[r] >= old[r]
      BY <3>3, <3>4, <3>5
    <3>7. RowsAfter(st, rows) = new
      BY <2>1 DEF new
    <3> QED BY <1>1, <2>3, <3>6, <3>7 DEF KeepsRows
  <2> QED BY <2>2, <2>3
<1> QED BY <1>3, <1>4

LEMMA KeepsNothingNew ==
  ASSUME NEW c \in Configs, NEW old \in Contents
  PROVE  KeepsRows(c, old, old)
BY DEF KeepsRows, Contents

\* A statement that has run keeps the rows of both tables.
LEMMA RanKeeps ==
  ASSUME BaseInv, Moves, Ran(Head(todo)), Shape'
  PROVE  BaseInv'
<1> DEFINE st == Head(todo)
<1>1. TypeOK /\ Consistent /\ todo # <<>> /\ todo' = Tail(todo) /\ cfg' = cfg /\ base' = base
  BY DEF BaseInv, Shape, Moves, Calling
<1>2. cfg \in Configs /\ base.rows \in Contents /\ draft.rows \in Contents /\ todo \in Seq(Statements)
  BY <1>1, StateTypes
<1>3. st \in Statements /\ Of(todo) = {st} \cup Of(todo')
  BY <1>1, <1>2, HeadAndTail
<1>4. KeepsRows(cfg, base.rows, draft'.rows)
  <2>1. Gentle(cfg, st) /\ KeepsRows(cfg, base.rows, draft.rows)
    BY <1>3 DEF BaseInv
  <2>2. draft'.rows = RowsAfter(st, draft.rows)
    BY DEF Ran
  <2> HIDE DEF st
  <2> QED BY <1>2, <1>3, <2>1, <2>2, GentleKeeps
<1>5. KeepsRows(cfg, base.rows, table'.rows)
  <2>1. table' = table \/ table' = draft'
    BY DEF Ran
  <2> QED BY <1>4, <2>1 DEF BaseInv
<1> QED BY <1>1, <1>3, <1>4, <1>5 DEF BaseInv

LEMMA CommitKeeps == ASSUME BaseInv, StepCommit PROVE BaseInv'
<1> DEFINE st == Head(todo)
<1>1. TypeOK /\ Consistent /\ todo # <<>> /\ todo \in Seq(Statements) /\ todo' = Tail(todo) /\ cfg' = cfg /\ base' = base
  BY DEF BaseInv, Shape, StepCommit, Calling, TypeOK
<1>2. Shape'
  BY CommitShape DEF BaseInv
<1>3. draft' = draft /\ table' \in {table, draft}
  BY <1>1, CommitResult
<1>4. Of(todo) = {st} \cup Of(todo')
  BY <1>1, HeadAndTail
<1> QED BY <1>1, <1>2, <1>3, <1>4 DEF BaseInv

LEMMA BulkKeeps == ASSUME BaseInv, StepBulk PROVE BaseInv'
<1> DEFINE b == Head(todo).rows
<1>1. Shape /\ Shape' /\ cfg' = cfg /\ base' = base
  BY BulkShape DEF BaseInv, StepBulk
<1>2. cfg \in Configs /\ base.rows \in Contents /\ table.rows \in Contents /\ todo \in Seq(Statements) /\ todo # <<>>
  BY <1>1, StateTypes DEF Shape, StepBulk, Calling
<1>3. b \in Seq(Rows) /\ draft' = table' /\ table'.rows \in {table.rows, Appended(table.rows, b)} /\ DbxOdbc(cfg)
  BY <1>1, BulkResult
<1>4. PICK X \in Seq(Statements) :
        /\ todo' = X \o Tail(todo)
        /\ \A st \in Of(X) : st.op = "insert" /\ st.on = "auto" /\ Allowed(cfg, st) /\ ~Ddl(st)
  BY <1>1, BulkResult
<1>5. Tail(todo) \in Seq(Statements) /\ Of(todo) = {Head(todo)} \cup Of(Tail(todo))
  BY <1>2, HeadAndTail
<1>6. \A st \in Of(todo') : Gentle(cfg, st)
  <2>1. Of(todo') = Of(X) \cup Of(Tail(todo))
    BY <1>4, <1>5, OfConcat
  <2> QED BY <1>4, <1>5, <2>1 DEF Allowed, BaseInv
<1>7. KeepsRows(cfg, base.rows, table'.rows)
  <2> HIDE DEF b
  <2>1. KeepsRows(cfg, base.rows, table.rows)
    BY DEF BaseInv
  <2>2. CASE table'.rows = table.rows
    BY <2>1, <2>2
  <2>3. CASE table'.rows = Appended(table.rows, b)
    <3> DEFINE new == Appended(table.rows, b)
    <3>1. new \in Contents /\ new = InsertEffect(table.rows, b, "append")
      BY <1>2, <1>3, EffectTypes DEF InsertEffect
    <3>2. \A r \in Rows : new[r] >= table.rows[r]
      <4>1. \A r \in Rows : InsertEffect(table.rows, b, "append")[r] >= table.rows[r]
        BY <1>2, <1>3, InsertAdds
      <4> HIDE DEF new
      <4> QED BY <3>1, <4>1
    <3>3. cfg.strategy # "upsert"
      BY <1>3 DEF DbxOdbc
    <3> HIDE DEF new
    <3>4. ASSUME cfg.mode # "drop_and_replace", cfg.strategy \in {"append", "insert_ignore"}, NEW r \in Rows
          PROVE  new[r] >= base.rows[r]
      <4>1. table.rows[r] >= base.rows[r]
        BY <2>1, <3>4 DEF KeepsRows
      <4>2. new[r] \in Nat /\ table.rows[r] \in Nat /\ base.rows[r] \in Nat
        BY <1>2, <3>1, <3>4 DEF Contents
      <4>3. new[r] >= table.rows[r]
        BY <3>2, <3>4
      <4> QED BY <4>1, <4>2, <4>3
    <3> QED BY <2>3, <3>3, <3>4 DEF KeepsRows, new
  <2> QED BY <1>3, <2>2, <2>3
<1> QED BY <1>1, <1>3, <1>6, <1>7 DEF BaseInv

LEMMA FailKeeps == ASSUME BaseInv, Reject \/ Fault PROVE BaseInv'
<1>1. Shape /\ Shape'
  BY RejectShape, FaultShape DEF BaseInv
<1>2. cfg' = cfg /\ base' = base /\ draft' = table' /\ todo' = <<>>
  BY DEF Reject, Fault, FailWith
<1>3. KeepsRows(cfg, base.rows, table'.rows)
  <2>1. CASE table' = table
    BY <2>1 DEF BaseInv
  <2>2. CASE table' # table
    <3> DEFINE st == Head(todo)
    <3>1. /\ Calling /\ ~Blocked(st) /\ ~Refused(st, View(st.on).rows) /\ (NeedsTable(st) => View(st.on).exists)
          /\ table' = Result(st).table
      BY <2>2 DEF Fault, Reject
    <3>2. cfg \in Configs /\ base.rows \in Contents /\ Whole(table) /\ Whole(draft)
          /\ todo # <<>> /\ todo \in Seq(Statements)
      BY <1>1, <3>1, StateTypes DEF Shape, Calling
    <3>3. st \in Statements /\ st \in Of(todo)
      BY <3>2, HeadAndTail
    <3>4. Gentle(cfg, st)
      BY <3>3 DEF BaseInv
    <3> HIDE DEF st
    <3>5. Whole(View(st.on)) /\ View(st.on).rows \in Contents /\ KeepsRows(cfg, base.rows, View(st.on).rows)
      BY <3>2 DEF View, BaseInv, Whole, Tables, Contents
    <3>6. Effect(st, View(st.on)).rows = RowsAfter(st, View(st.on).rows)
      BY <3>1, <3>3, <3>5, EffectOfOne
    <3>7. KeepsRows(cfg, base.rows, Effect(st, View(st.on)).rows)
      BY <3>2, <3>3, <3>4, <3>5, <3>6, GentleKeeps
    <3>8. Result(st).table \in {table, draft, Effect(st, View(st.on))}
      BY DEF Result
    <3> QED BY <3>1, <3>7, <3>8 DEF BaseInv
  <2> QED BY <2>1, <2>2
<1> QED BY <1>1, <1>2, <1>3, EmptyProgram DEF BaseInv

LEMMA CallKeeps ==
  ASSUME BaseInv, Flush \/ \E b \in Batches : Write(b)
  PROVE  BaseInv'
<1>1. Shape /\ pc = "idle" /\ UNCHANGED <<cfg, base, table, draft>>
  BY DEF BaseInv, Flush, Write, db
<1>2. Shape'
  BY <1>1, FlushShape, WriteShape
<1>3. cfg \in Configs /\ sink \in SinkStates /\ AtRest(cfg, sink, open) /\ (sink.prepared \/ open = {})
  BY <1>1, RestOfIdle
<1>4. \A st \in Of(todo') : Gentle(cfg, st)
  <2>1. CASE Flush
    <3>1. todo' = FlushProgram /\ FlushForm(FlushProgram, cfg, open)
      BY <1>3, <2>1, FlushFacts DEF Flush
    <3> QED BY <3>1 DEF FlushForm, Final
  <2>2. ASSUME NEW b \in Batches, Write(b) PROVE \A st \in Of(todo') : Gentle(cfg, st)
    <3>1. todo' = WriteProgram(b)
      BY <2>2 DEF Write
    <3>2. PICK P, R : WriteProgram(b) = P \o R /\ Delivers(cfg, sink, AfterWrite(b), open, b, P, R)
      BY <1>3, WriteFacts
    <3> DEFINE s2 == AfterWrite(b)
    <3> HIDE DEF s2
    <3>3. Part(P \o R, cfg)
      BY <1>3, <3>2, DeliversShape DEF s2
    <3> QED BY <3>1, <3>2, <3>3 DEF Part, Allowed
  <2> QED BY <2>1, <2>2
<1> QED BY <1>1, <1>2, <1>4 DEF BaseInv

LEMMA StepKeeps == ASSUME BaseInv, [Next]_vars PROVE BaseInv'
<1>0. Shape
  BY DEF BaseInv
<1>1. CASE Flush \/ \E b \in Batches : Write(b)
  BY <1>1, CallKeeps
<1>2. CASE WriteDone \/ FlushDone
  <2>1. Shape' /\ UNCHANGED <<cfg, base, table, draft, todo>>
    BY <1>0, <1>2, CallEnds DEF WriteDone, FlushDone, db
  <2> QED BY <2>1 DEF BaseInv
<1>3. CASE StepBegin
  BY <1>0, <1>3, BeginShape, RanKeeps
<1>4. CASE StepCommit
  BY <1>4, CommitKeeps
<1>5. CASE StepRun
  BY <1>0, <1>5, RunShape, RanKeeps
<1>6. CASE StepStage
  BY <1>0, <1>6, StageShape, RanKeeps
<1>7. CASE StepBulk
  BY <1>7, BulkKeeps
<1>8. CASE Reject \/ Fault
  BY <1>8, FailKeeps
<1>9. CASE UNCHANGED vars
  <2>1. Shape' /\ UNCHANGED <<cfg, base, table, draft, todo>>
    BY <1>0, <1>9, StutterShape DEF vars
  <2> QED BY <2>1 DEF BaseInv
<1> QED BY <1>1, <1>2, <1>3, <1>4, <1>5, <1>6, <1>7, <1>8, <1>9 DEF Next, Run, Done

\* Without drop_and_replace, a strategy that only adds rows never loses one, and upsert
\* never loses a key: at no statement of any driver, and not when a statement, a commit or
\* the connection fails.
THEOREM BaseIsKept == Spec => []BaseKept
<1>1. Init => BaseInv
  <2> SUFFICES ASSUME Init PROVE BaseInv
    OBVIOUS
  <2>1. Shape /\ table = base /\ draft = base /\ todo = <<>>
    BY InitShape DEF Init
  <2>2. cfg \in Configs /\ base.rows \in Contents
    BY <2>1, StateTypes DEF Shape
  <2> QED BY <2>1, <2>2, KeepsNothingNew, EmptyProgram DEF BaseInv
<1>2. BaseInv /\ [Next]_vars => BaseInv'
  BY StepKeeps
<1>3. BaseInv => BaseKept
  BY DEF BaseInv, KeepsRows, BaseKept
<1> QED BY <1>1, <1>2, <1>3, PTL DEF Spec

-----------------------------------------------------------------------------
(* What a run delivers, where no key comes twice in a batch. *)

\* The rest of a call leads where the call led.
LEMMA RestOutcomes ==
  ASSUME NEW prog \in Seq(Statements), prog # <<>>, NEW last \in Seq(Statements), NEW r, NEW r2,
         ~Refused(Head(prog), r), r2 = RowsAfter(Head(prog), r)
  PROVE  /\ Outcomes(prog, r) = Outcomes(Tail(prog), r2)
         /\ Outcomes(prog \o last, r) = Outcomes(Tail(prog) \o last, r2)
<1> DEFINE h == Head(prog)
           t == Tail(prog)
           q == <<h>>
<1>1. h \in Statements /\ t \in Seq(Statements) /\ q \in Seq(Statements) /\ prog = q \o t
  BY HeadAndTail
<1>2. \A p \in Seq(Statements) : Outcomes(q \o p, r) = Outcomes(p, r2)
  BY <1>1, OutcomesStep
<1> HIDE DEF h, t, q
<1>3. t \o last \in Seq(Statements) /\ prog \o last = q \o (t \o last)
  <2>1. (q \o t) \o last = q \o (t \o last)
    BY <1>1, ConcatAssociative
  <2> QED BY <1>1, <2>1, ConcatProperties
<1>4. Outcomes(prog, r) = Outcomes(t, r2) /\ Outcomes(prog \o last, r) = Outcomes(t \o last, r2)
  BY <1>1, <1>2, <1>3
<1> QED BY <1>4 DEF t

LEMMA GatheredIs ==
  ASSUME TypeOK
  PROVE  /\ Gathered = Flushed(cfg, sink) /\ <<Gathered>> \in Seq(Statements)
         /\ Gathered' = Insert("run", sink'.staged \o sink'.buffer, GathersBy(cfg'))
<1>1. Gathered = Flushed(cfg, sink)
  BY DEF Gathered, Flushed, Held
<1>2. cfg \in Configs /\ sink \in SinkStates
  BY SinkAssumption DEF TypeOK, SinkStates
<1> QED BY <1>1, <1>2, FlushedFacts DEF Gathered

\* A statement that has run, or a commit
LEMMA MovesDeliver ==
  ASSUME Shape, Delivering, Moves,
         ~Refused(Head(todo), draft.rows), draft'.rows = RowsAfter(Head(todo), draft.rows)
  PROVE  Delivering'
<1> DEFINE last == <<Gathered>>
           last2 == <<Gathered>>'
<1>1. TypeOK /\ todo \in Seq(Statements) /\ todo # <<>> /\ todo' = Tail(todo)
      /\ UNCHANGED <<cfg, base, fed, pc>> /\ pc \in {"write", "flush"}
  BY DEF Shape, TypeOK, Moves, Calling
<1>2. last \in Seq(Statements) /\ last2 = last
  <2>1. Gathered' = Gathered
    BY <1>1 DEF Gathered, Moves, SameSink
  <2> QED BY <1>1, <2>1, GatheredIs
<1>3. fed # <<>>
  BY <1>1 DEF Shape, EveryTxnEnds, HeldBack
<1> HIDE DEF last, last2
<1>4. /\ Outcomes(todo, draft.rows) = Outcomes(todo', draft'.rows)
      /\ Outcomes(todo \o last, draft.rows) = Outcomes(todo' \o last, draft'.rows)
  BY <1>1, <1>2, RestOutcomes
<1>5. SUFFICES ASSUME ~Deviates(cfg)
               PROVE  /\ pc = "write" =>
                           IF OraStaged(cfg) THEN Outcomes(todo', draft'.rows) \subseteq {Start(cfg, base.rows)}
                           ELSE Outcomes(todo' \o last2, draft'.rows) \subseteq {Loaded(cfg, base.rows, fed)}
                      /\ pc = "flush" => Outcomes(todo', draft'.rows) \subseteq {Expected(cfg, base.rows, fed)}
  BY <1>1, <1>3 DEF Delivering, last2
<1>6. /\ pc = "write" =>
           IF OraStaged(cfg) THEN Outcomes(todo, draft.rows) \subseteq {Start(cfg, base.rows)}
           ELSE Outcomes(todo \o last, draft.rows) \subseteq {Loaded(cfg, base.rows, fed)}
      /\ pc = "flush" => Outcomes(todo, draft.rows) \subseteq {Expected(cfg, base.rows, fed)}
  BY <1>3, <1>5 DEF Delivering, last
<1> QED BY <1>2, <1>4, <1>6

LEMMA WriteDelivers ==
  ASSUME Shape, Delivering, DistinctInBatch, NEW b \in Batches, Write(b)
  PROVE  Delivering'
<1> DEFINE s2 == AfterWrite(b)
           r == draft.rows
           z == Loaded(cfg, base.rows, fed)
<1>1. /\ pc = "idle" /\ pc' = "write" /\ todo' = WriteProgram(b) /\ sink' = s2 /\ fed' = Append(fed, b)
      /\ UNCHANGED <<cfg, base, draft>>
  BY DEF Write, db
<1>2. SUFFICES ASSUME ~Deviates(cfg) PROVE Delivering'
  BY <1>1 DEF Delivering
<1>3. TypeOK /\ cfg \in Configs /\ cfg \in Plans /\ sink \in SinkStates /\ r \in Contents /\ fed \in Seq(Batches)
      /\ b \in Seq(Rows) /\ AtRest(cfg, sink, open) /\ todo = <<>>
  BY <1>1, RestOfIdle, StateTypes, BatchIsRows DEF Shape
<1>4. s2 \in SinkStates
  BY <1>3, AfterFacts
<1>5. PICK P, R : WriteProgram(b) = P \o R /\ Delivers(cfg, sink, s2, open, b, P, R)
  BY <1>3, WriteFacts
<1> HIDE DEF s2
<1>6. cfg.strategy \in Keyed => Repeated(b) = {}
  BY <1>3 DEF DistinctInBatch
<1>7. fed' # <<>>
  BY <1>1, <1>3, AppendProperties, EmptySeq
<1>8. CASE OraStaged(cfg)
  <2>1. (IF sink.prepared THEN r ELSE Start(cfg, r)) = Start(cfg, base.rows)
    <3>1. CASE sink.prepared
      <4>1. fed # <<>>
        BY <3>1 DEF Shape, HeldBack
      <4>2. Outcomes(<<>>, r) \subseteq {Start(cfg, base.rows)}
        BY <1>1, <1>2, <1>3, <1>8, <4>1 DEF Delivering
      <4> QED BY <3>1, <4>2, EmptyProgram
    <3>2. CASE ~sink.prepared
      <4>1. fed = <<>>
        BY <3>2 DEF Shape, HeldBack
      <4> QED BY <1>1, <1>2, <3>2, <4>1 DEF Delivering
    <3> QED BY <3>1, <3>2
  <2>2. Outcomes(P \o R, r) \subseteq {IF sink.prepared THEN r ELSE Start(cfg, r)}
    <3> HIDE DEF r
    <3> QED BY <1>2, <1>3, <1>5, <1>6, <1>8, StagedOutcome
  <2>3. Outcomes(todo', draft'.rows) \subseteq {Start(cfg, base.rows)}
    BY <1>1, <1>5, <2>1, <2>2
  <2> QED BY <1>1, <1>7, <1>8, <2>3 DEF Delivering
<1>9. CASE ~OraStaged(cfg)
  <2>1. IF sink.prepared THEN Outcomes(<<Flushed(cfg, sink)>>, r) \subseteq {z}
        ELSE Start(cfg, r) = z /\ Held(sink) = <<>>
    <3>1. CASE sink.prepared
      <4>1. fed # <<>>
        BY <3>1 DEF Shape, HeldBack
      <4>2. Outcomes(<<>> \o <<Gathered>>, r) \subseteq {z}
        BY <1>1, <1>2, <1>3, <1>9, <4>1 DEF Delivering
      <4>3. <<>> \o <<Gathered>> = <<Gathered>> /\ Gathered = Flushed(cfg, sink)
        BY <1>3, GatheredIs, ConcatEmptySeq
      <4> QED BY <3>1, <4>2, <4>3
    <3>2. CASE ~sink.prepared
      <4>1. fed = <<>> /\ sink.staged = <<>> /\ sink.buffer = <<>>
        BY <3>2 DEF Shape, HeldBack
      <4>2. r = base.rows
        BY <1>1, <1>2, <4>1 DEF Delivering
      <4>3. z = Start(cfg, base.rows)
        BY <1>9, <4>1, LoadedSteps
      <4>4. Held(sink) = <<>>
        BY <4>1, ConcatEmptySeq, EmptySeq DEF Held
      <4> QED BY <3>2, <4>2, <4>3, <4>4
    <3> QED BY <3>1, <3>2
  <2>2. Outcomes((P \o R) \o <<Flushed(cfg, s2)>>, r) \subseteq {OneBatch(cfg, z, b)}
    <3> HIDE DEF r, z
    <3> QED BY <1>2, <1>3, <1>4, <1>5, <1>6, <1>9, <2>1, DeliversOutcome
  <2>3. OneBatch(cfg, z, b) = Loaded(cfg, base.rows, fed')
    BY <1>1, <1>3, <1>9, LoadedSteps
  <2>4. Gathered' = Flushed(cfg, s2)
    BY <1>1 DEF Gathered, Flushed, Held
  <2>5. Outcomes(todo' \o <<Gathered'>>, draft'.rows) \subseteq {Loaded(cfg, base.rows, fed')}
    BY <1>1, <1>5, <2>2, <2>3, <2>4
  <2> QED BY <1>1, <1>7, <1>9, <2>5 DEF Delivering
<1> QED BY <1>8, <1>9

LEMMA FlushDelivers ==
  ASSUME Shape, Delivering, Flush
  PROVE  Delivering'
<1> DEFINE F == FlushProgram
           r == draft.rows
           z == Loaded(cfg, base.rows, fed)
<1>1. pc = "idle" /\ pc' = "flush" /\ todo' = F /\ UNCHANGED <<cfg, base, draft, fed>>
  BY DEF Flush, db
<1>2. SUFFICES ASSUME ~Deviates(cfg) PROVE Outcomes(F, r) \subseteq {Expected(cfg, base.rows, fed)}
  BY <1>1 DEF Delivering
<1>3. TypeOK /\ HeldBack /\ cfg \in Configs /\ sink \in SinkStates /\ r \in Contents /\ AtRest(cfg, sink, open) /\ todo = <<>>
  BY <1>1, RestOfIdle, StateTypes DEF Shape
<1>4. CASE ~sink.prepared
  <2>1. fed = <<>> /\ F = <<>>
    BY <1>3, <1>4, FlushFacts DEF HeldBack
  <2>2. r = base.rows
    BY <1>1, <1>2, <2>1 DEF Delivering
  <2> QED BY <2>1, <2>2, EmptyProgram DEF Expected
<1>5. CASE sink.prepared
  <2>1. FlushGives(F, cfg, sink)
    BY <1>2, <1>3, <1>5, FlushFacts
  <2>2. fed # <<>>
    BY <1>3, <1>5 DEF HeldBack
  <2>3. Outcomes(<<Flushed(cfg, sink)>>, r) \subseteq {z}
    <3>1. CASE ~OraStaged(cfg)
      <4>1. Outcomes(<<>> \o <<Gathered>>, r) \subseteq {z}
        BY <1>1, <1>2, <1>3, <2>2, <3>1 DEF Delivering
      <4>2. <<>> \o <<Gathered>> = <<Gathered>> /\ Gathered = Flushed(cfg, sink)
        BY <1>3, GatheredIs, ConcatEmptySeq
      <4> QED BY <4>1, <4>2
    <3>2. CASE OraStaged(cfg)
      <4>1. r = Start(cfg, base.rows)
        <5>1. Outcomes(<<>>, r) \subseteq {Start(cfg, base.rows)}
          BY <1>1, <1>2, <1>3, <2>2, <3>2 DEF Delivering
        <5> QED BY <5>1, EmptyProgram
      <4>2. Held(sink) = sink.staged /\ RowsOf(sink.staged) = FedRows(fed)
        <5>1. sink.buffer = <<>>
          BY <1>3, <3>2 DEF HeldBack, OraStaged, Buffers
        <5>2. sink.staged \in Seq(Rows)
          BY <1>3 DEF SinkStates
        <5> QED BY <1>3, <3>2, <5>1, <5>2, ConcatEmptySeq DEF Held, HeldBack
      <4>3. GathersBy(cfg) = "changed"
        BY <3>2 DEF GathersBy, OraStaged
      <4>4. InsertEffect(r, Held(sink), GathersBy(cfg)) = z
        <5> HIDE DEF r
        <5> QED BY <3>2, <4>1, <4>2, <4>3 DEF InsertEffect, Loaded
      <4>5. Outcomes(<<Flushed(cfg, sink)>>, r) \subseteq {InsertEffect(r, Held(sink), GathersBy(cfg))}
        <5> HIDE DEF r
        <5> QED BY <1>3, FlushedFacts
      <4> QED BY <4>4, <4>5
    <3> QED BY <3>1, <3>2
  <2>4. cfg.strategy = "merge_delete" => Mirrored(cfg, sink) = FedKeys(fed)
    <3>1. CASE cfg.driver = "postgres"
      BY <1>3, <3>1 DEF HeldBack, Mirrored
    <3>2. CASE cfg.driver # "postgres"
      <4> SUFFICES ASSUME cfg.strategy = "merge_delete" PROVE KeysOf(Held(sink)) = FedKeys(fed)
        BY <3>2 DEF Mirrored
      <4>1. cfg.driver \in {"tiberius", "odbc", "bcp"} /\ cfg.staged
        BY <1>2, <3>2 DEF Deviates
      <4>2. MsStaged(cfg)
        BY <4>1 DEF MsStaged, MsHow, MsDirect
      <4> QED BY <1>3, <4>1, <4>2 DEF HeldBack, Held
    <3> QED BY <3>1, <3>2
  <2> HIDE DEF F, r, z
  <2>5. ASSUME NEW x \in Outcomes(F, r) PROVE x = Expected(cfg, base.rows, fed)
    <3>1. PICK m \in Outcomes(<<Flushed(cfg, sink)>>, r) :
            x = IF cfg.strategy = "merge_delete" THEN Kept(m, Mirrored(cfg, sink)) ELSE m
      BY <1>3, <2>1, <2>5 DEF FlushGives
    <3>2. m = z
      BY <2>3, <3>1
    <3> QED BY <2>2, <2>4, <3>1, <3>2 DEF Expected, z
  <2> QED BY <2>5
<1> QED BY <1>4, <1>5

DInv == Shape /\ Delivering

LEMMA InitDelivers == ASSUME Init PROVE DInv
  BY InitShape DEF Init, DInv, Delivering

LEMMA StepDelivers == ASSUME DInv, DistinctInBatch, [Next]_vars PROVE DInv'
<1>0. Shape /\ Delivering /\ Shape'
  BY StepShape DEF DInv
<1>1. CASE \E b \in Batches : Write(b)
  BY <1>0, <1>1, WriteDelivers DEF DInv
<1>2. CASE Flush
  BY <1>0, <1>2, FlushDelivers DEF DInv
<1>3. CASE StepBegin \/ StepRun \/ StepStage
  <2>1. Moves /\ Ran(Head(todo))
    BY <1>0, <1>3, BeginShape, RunShape, StageShape
  <2> QED BY <1>0, <2>1, MovesDeliver DEF Ran, DInv
<1>4. CASE StepCommit
  <2>1. Moves /\ draft' = draft
    BY <1>0, <1>4, CommitShape, CommitResult DEF Shape
  <2>2. ~Refused(Head(todo), draft.rows) /\ RowsAfter(Head(todo), draft.rows) = draft.rows
    BY <1>4, QuietStatement DEF StepCommit, Quiet
  <2> QED BY <1>0, <2>1, <2>2, MovesDeliver DEF DInv
<1>5. CASE StepBulk
  <2>1. Deviates(cfg) /\ cfg' = cfg
    BY <1>0, <1>5, BulkResult DEF Deviates, StepBulk
  <2> QED BY <1>0, <2>1 DEF DInv, Delivering
<1>6. CASE WriteDone
  <2>1. todo' = todo /\ pc = "write" /\ pc' = "idle" /\ UNCHANGED <<cfg, base, draft, sink, fed>>
    BY <1>6 DEF WriteDone, db
  <2>2. Gathered' = Gathered
    BY <2>1 DEF Gathered
  <2> QED BY <1>0, <2>1, <2>2 DEF DInv, Delivering
<1>7. CASE FlushDone \/ Reject \/ Fault
  <2>1. pc' \in {"finished", "failed"}
    BY <1>7 DEF FlushDone, Reject, Fault, FailWith
  <2> QED BY <1>0, <2>1 DEF DInv, Delivering
<1>8. CASE UNCHANGED vars
  BY <1>0, <1>8 DEF DInv, Delivering, Gathered, vars
<1> QED BY <1>1, <1>2, <1>3, <1>4, <1>5, <1>6, <1>7, <1>8 DEF Next, Run, Done

\* When nothing is left to send and no transaction is open, the table holds what the options
\* ask for.
LEMMA EndsDelivered ==
  ASSUME DInv, pc = "flush", todo = <<>>, ~Deviates(cfg)
  PROVE  table.rows = Expected(cfg, base.rows, fed)
<1>1. TypeOK /\ Consistent /\ EveryTxnEnds
  BY DEF DInv, Shape
<1>2. open = {}
  <2>1. Of(todo) = {}
    BY EmptyProgram
  <2>2. \A on \in Sessions : on \notin open
    BY <1>1, <2>1 DEF EveryTxnEnds
  <2> QED BY <1>1, <2>2 DEF TypeOK
<1>3. draft = table
  BY <1>1, <1>2 DEF Consistent
<1>4. Outcomes(todo, draft.rows) \subseteq {Expected(cfg, base.rows, fed)}
  BY DEF DInv, Delivering
<1> QED BY <1>3, <1>4, EmptyProgram

\* With one transaction around the run, what an interrupted statement leaves in the table is
\* the old rows, or after the commit all of the new ones.
LEMMA FaultHides ==
  ASSUME DInv, Fault, Atomic(cfg), ~Deviates(cfg)
  PROVE  table'.rows \in {table.rows, Expected(cfg, base.rows, fed)}
<1> DEFINE st == Head(todo)
<1>1. CASE table' = table
  BY <1>1
<1>2. CASE table' # table
  <2>1. /\ Calling /\ ~Blocked(st) /\ ~Refused(st, View(st.on).rows) /\ (NeedsTable(st) => View(st.on).exists)
        /\ table' = Result(st).table /\ todo # <<>>
    BY <1>2 DEF Fault, Calling
  <2>2. /\ TypeOK /\ Consistent /\ DdlFirst /\ OneTxn /\ EveryTxnEnds
        /\ pc \in {"write", "flush"}
    BY <2>1 DEF DInv, Shape, Hidden, Calling
  <2>3. todo \in Seq(Statements) /\ st \in Statements /\ st \in Of(todo) /\ todo = <<st>> \o Tail(todo)
    BY <2>1, <2>2, HeadAndTail DEF TypeOK
  <2>4. CASE st.op = "commit"
    <3>1. Tail(todo) = <<>> /\ pc = "flush"
      BY <2>1, <2>2, <2>3, <2>4, RestCommits DEF OneTxn
    <3>2. table' = draft
      <4> HIDE DEF st
      <4> QED BY <1>2, <2>1, <2>4 DEF Result, Changes
    <3>3. ~Refused(st, draft.rows) /\ RowsAfter(st, draft.rows) = draft.rows
      BY <2>4, QuietStatement DEF Quiet
    <3>4. Outcomes(todo, draft.rows) = Outcomes(Tail(todo), draft.rows)
      BY <2>1, <2>3, <3>3, EmptyProgram, RestOutcomes
    <3>5. draft.rows \in Outcomes(todo, draft.rows)
      BY <3>1, <3>4, EmptyProgram
    <3>6. Outcomes(todo, draft.rows) \subseteq {Expected(cfg, base.rows, fed)}
      BY <3>1 DEF DInv, Delivering
    <3> QED BY <3>2, <3>5, <3>6
  <2>5. CASE st.op # "commit"
    <3>1. Changes(st) => st.op = "create" \/ st.on \in open
      BY <2>1, <2>2, <2>3, RestInTxn DEF OneTxn
    <3> HIDE DEF st
    <3>2. Changes(st) /\ st.on \notin open
      BY <1>2, <2>1, <2>5 DEF Result
    <3>3. st.op = "create"
      BY <3>1, <3>2
    <3>4. holder = "none"
      <4>1. holder \in {"none", st.on}
        BY <2>2, <2>3, <3>3 DEF DdlFirst, Ddl
      <4> QED BY <2>2, <3>2, <4>1 DEF Consistent
    <3>5. View(st.on) = table
      BY <2>2, <3>4 DEF View, Consistent
    <3>6. table' = Effect(st, table)
      BY <2>1, <2>5, <3>2, <3>5 DEF Result
    <3>7. Effect(st, table).rows = RowsAfter(st, table.rows)
      <4>1. Whole(table)
        BY <2>2, StateTypes
      <4> QED BY <2>3, <3>3, <4>1, EffectOfOne DEF NeedsTable
    <3> QED BY <3>3, <3>6, <3>7, QuietStatement DEF Quiet
  <2> QED BY <2>4, <2>5
<1> QED BY <1>1, <1>2

-----------------------------------------------------------------------------
(* The sinks keep the contract. *)

Promise == IF Deviates(cfg) THEN "none" ELSE IF Atomic(cfg) THEN "atomic" ELSE "eventual"
Wanted  == Expected(cfg, base.rows, fed)
Phase   == CASE pc = "finished"               -> "ok"
             [] pc = "failed"                 -> "failed"
             [] pc = "flush" /\ todo = <<>>   -> "delivered"
             [] OTHER                         -> "accepting"

ContractStep ==
  \/ /\ Phase = "accepting" /\ Phase' = "accepting" /\ Promise' = Promise
     /\ Promise = "atomic" => table'.rows = table.rows
  \/ /\ Phase = "accepting" /\ Phase' = "delivered" /\ Promise' = Promise /\ Wanted' = Wanted
     /\ Promise # "none" => table'.rows = Wanted
  \/ /\ Phase = "delivered" /\ Phase' = "ok" /\ Promise' = Promise /\ Wanted' = Wanted
     /\ table'.rows = table.rows
  \/ /\ Phase \in {"accepting", "delivered"} /\ Phase' = "failed" /\ Promise' = Promise /\ Wanted' = Wanted
     /\ Promise = "atomic" => table'.rows \in {table.rows, Wanted}

LEMMA ContractSteps == ASSUME ContractStep PROVE Contract!Next
  BY DEF ContractStep, Promise, Wanted, Phase,
         Contract!Next, Contract!Accept, Contract!Deliver, Contract!Acknowledge, Contract!Fail

\* A statement of a call: the rows move when they may, and the last one of flush delivers.
LEMMA StatementKeeps ==
  ASSUME DInv, DInv', Calling, UNCHANGED <<cfg, base, fed, pc>>
  PROVE  ContractStep
<1>1. Phase = "accepting" /\ pc \in {"write", "flush"} /\ Promise' = Promise /\ Wanted' = Wanted
  BY DEF Calling, Phase, Promise, Wanted
<1>2. CASE pc = "flush" /\ todo' = <<>>
  <2>1. Phase' = "delivered"
    BY <1>2 DEF Phase
  <2>2. Promise # "none" => table'.rows = Wanted
    <3>1. ASSUME ~Deviates(cfg') PROVE table'.rows = Expected(cfg', base'.rows, fed')
      <4>1. (DInv /\ pc = "flush" /\ todo = <<>> /\ ~Deviates(cfg) => table.rows = Expected(cfg, base.rows, fed))'
        BY EndsDelivered, PTL
      <4> QED BY <1>2, <3>1, <4>1
    <3> QED BY <3>1 DEF Promise, Wanted
  <2> QED BY <1>1, <2>1, <2>2 DEF ContractStep
<1>3. CASE ~(pc = "flush" /\ todo' = <<>>)
  <2>1. Phase' = "accepting"
    BY <1>1, <1>3 DEF Phase
  <2>2. Promise = "atomic" => table'.rows = table.rows
    BY <1>1, <1>3 DEF Promise, DInv, Shape, Hidden, Calling
  <2> QED BY <1>1, <2>1, <2>2 DEF ContractStep
<1> QED BY <1>2, <1>3

LEMMA StepContract ==
  ASSUME DInv, DInv', [Next]_vars
  PROVE  [Contract!Next]_(Contract!vars)
<1>1. CASE StepBegin \/ StepCommit \/ StepRun \/ StepStage \/ StepBulk
  <2>1. Calling /\ UNCHANGED <<cfg, base, fed, pc>>
    BY <1>1 DEF StepBegin, StepCommit, StepRun, StepStage, StepBulk
  <2> QED BY <2>1, StatementKeeps, ContractSteps
<1>2. CASE WriteDone \/ \E b \in Batches : Write(b)
  <2>1. pc \in {"idle", "write"} /\ pc' \in {"idle", "write"} /\ cfg' = cfg /\ table' = table
    BY <1>2 DEF WriteDone, Write, db
  <2>2. ContractStep
    BY <2>1 DEF ContractStep, Phase, Promise
  <2> QED BY <2>2, ContractSteps
<1>3. CASE Flush
  <2>1. pc = "idle" /\ pc' = "flush" /\ UNCHANGED <<cfg, base, fed, table>>
    BY <1>3 DEF Flush, db
  <2>2. Phase = "accepting" /\ Promise' = Promise /\ Wanted' = Wanted
    BY <2>1 DEF Phase, Promise, Wanted
  <2>3. CASE todo' = <<>>
    <3>1. Phase' = "delivered"
      BY <2>1, <2>3 DEF Phase
    <3>2. (DInv /\ pc = "flush" /\ todo = <<>> /\ ~Deviates(cfg) => table.rows = Expected(cfg, base.rows, fed))'
      BY EndsDelivered, PTL
    <3>3. Promise # "none" => table'.rows = Wanted
      BY <2>1, <2>3, <3>2 DEF Promise, Wanted
    <3> QED BY <2>2, <3>1, <3>3, ContractSteps DEF ContractStep
  <2>4. CASE todo' # <<>>
    <3>1. Phase' = "accepting"
      BY <2>1, <2>4 DEF Phase
    <3> QED BY <2>1, <2>2, <3>1, ContractSteps DEF ContractStep
  <2> QED BY <2>3, <2>4
<1>4. CASE FlushDone
  <2>1. pc = "flush" /\ todo = <<>> /\ pc' = "finished" /\ UNCHANGED <<cfg, base, fed, table>>
    BY <1>4 DEF FlushDone, db
  <2>2. ContractStep
    BY <2>1 DEF ContractStep, Phase, Promise, Wanted
  <2> QED BY <2>2, ContractSteps
<1>5. CASE Reject \/ Fault
  <2>1. ~Over /\ pc' = "failed" /\ UNCHANGED <<cfg, base, fed>>
    BY <1>5 DEF Reject, Fault, FailWith, Calling, Over
  <2>2. Phase \in {"accepting", "delivered"} /\ Phase' = "failed" /\ Promise' = Promise /\ Wanted' = Wanted
    BY <2>1 DEF Phase, Promise, Wanted, Over
  <2>3. Promise = "atomic" => table'.rows \in {table.rows, Wanted}
    <3>1. CASE Reject
      BY <3>1 DEF Reject
    <3>2. CASE Fault
      BY <3>2, FaultHides DEF Promise, Wanted
    <3> QED BY <1>5, <3>1, <3>2
  <2> QED BY <2>2, <2>3, ContractSteps DEF ContractStep
<1>6. CASE UNCHANGED vars
  BY <1>6 DEF vars, Contract!vars
<1> QED BY <1>1, <1>2, <1>3, <1>4, <1>5, <1>6 DEF Next, Run, Done

\* What the sinks promise, they keep: with one transaction around the run the target changes
\* once, at the commit of flush, to exactly the rows that mode and strategy ask for, and a
\* failed run leaves the old rows or, when the answer to the commit is lost, the new ones;
\* without it the run at least ends there.  This holds for every way of loading whose
\* options are meant to do that, any chunk size and threshold, and any table.  A batch may
\* not hold a key twice with a strategy that needs a key: its chunks would take both rows.
\* (The rows Oracle's staging table leads to are those its MERGE makes: what differs from the
\* row that was there in no column the MERGE compares, a LOB say, is not written.)
THEOREM SinkKeepsContract == ASSUME DistinctInBatch PROVE Spec => KeepsContract
<1>1. Init => Contract!Init
  BY DEF Init, Contract!Init, Expected
<1>2. Init => DInv
  BY InitDelivers
<1>3. DInv /\ [Next]_vars => DInv'
  BY DistinctInBatch, StepDelivers
<1>4. DInv /\ DInv' /\ [Next]_vars => [Contract!Next]_(Contract!vars)
  BY StepContract
<1> QED BY <1>1, <1>2, <1>3, <1>4, PTL DEF Spec, KeepsContract, Contract!Spec

-----------------------------------------------------------------------------
(* A Postgres strategy that needs a key: whole batches. *)

ByBatch(c) == c.driver = "postgres" /\ c.strategy \in Keyed /\ ~SelfLocks(c)

\* The shape of one write: creation, BEGIN, the rows, COMMIT
LEMMA BatchProgram ==
  ASSUME NEW D \in Seq(Statements), NEW M \in Seq(Statements),
         \A st \in Of(D) : st.op = "create",
         \A st \in Of(M) : st.on = "batch" /\ st.op \notin {"begin", "commit"}
  PROVE  LET prog == D \o ((<<Begin("batch")>> \o M) \o <<Commit("batch")>>)
         IN  InTxn(prog, {}) /\ CommitLast(prog) /\ Begun(prog) \subseteq {"batch"}
<1> DEFINE B == <<Begin("batch")>>
           cm == Commit("batch")
           C == <<cm>>
<1>1. "batch" \in Sessions
  BY DEF Sessions
<1>2. B \in Seq(Statements) /\ Begun(B) = {"batch"} /\ \A st \in Of(B) : st.op = "begin"
  BY <1>1, BeginFacts
<1>3. C \in Seq(Statements) /\ Of(C) = {cm} /\ cm.op = "commit" /\ Begun(C) = {} /\ ~Changes(cm) /\ cm \in Statements
  BY <1>1, CommitFinal, StatementTypes DEF Commit, Stmt, Final
<1> HIDE DEF B, C, cm
<1>4. Begun(D) = {} /\ Begun(M) = {}
  BY NoneBegun
<1> DEFINE DB == D \o B
<1>5. /\ DB \in Seq(Statements) /\ Of(DB) = Of(D) \cup Of(B) /\ Begun(DB) = {"batch"}
      /\ InTxn(DB, {}) /\ \A st \in Of(DB) : st.op # "commit"
  <2>1. InTxn(D, {})
    BY TxnSimple
  <2>2. InTxn(B, {} \cup Begun(D))
    BY <1>2, TxnSimple DEF Changes
  <2>3. InTxn(DB, {})
    BY <1>2, <2>1, <2>2, TxnConcat
  <2> QED BY <1>2, <1>4, <2>3, OfConcat
<1> HIDE DEF DB
<1> DEFINE N == DB \o M
<1>6. /\ N \in Seq(Statements) /\ Begun(N) = {"batch"}
      /\ InTxn(N, {}) /\ \A st \in Of(N) : st.op # "commit"
  <2>1. InTxn(M, {} \cup Begun(DB))
    BY <1>5, TxnSimple
  <2>2. InTxn(N, {})
    BY <1>5, <2>1, TxnConcat
  <2> QED BY <1>4, <1>5, <2>2, OfConcat
<1> HIDE DEF N
<1>7. InTxn(N \o C, {}) /\ Begun(N \o C) = {"batch"}
  <2>1. InTxn(C, {} \cup Begun(N))
    BY <1>3, TxnSimple
  <2>2. InTxn(N \o C, {})
    BY <1>3, <1>6, <2>1, TxnConcat
  <2> QED BY <1>3, <1>6, <2>2, OfConcat
<1>8. CommitLast(N \o C)
  BY <1>3, <1>6, CommitAtEnd DEF C
<1>9. D \o ((B \o M) \o C) = N \o C
  <2>1. (B \o M) \o C = B \o (M \o C)
    BY <1>2, <1>3, ConcatAssociative
  <2>0. M \o C \in Seq(Statements)
    BY <1>3, ConcatProperties
  <2>2. D \o (B \o (M \o C)) = (D \o B) \o (M \o C)
    <3> DEFINE MC == M \o C
    <3> HIDE DEF MC
    <3>1. MC \in Seq(Statements)
      BY <2>0 DEF MC
    <3>2. D \o (B \o MC) = (D \o B) \o MC
      BY <1>2, <3>1, ConcatAssociative
    <3> QED BY <3>2 DEF MC
  <2>3. (D \o B) \o (M \o C) = ((D \o B) \o M) \o C
    <3>1. DB \o (M \o C) = (DB \o M) \o C
      <4>1. DB \in Seq(Statements) /\ C \in Seq(Statements)
        BY <1>3, <1>5
      <4> QED BY <4>1, ConcatAssociative
    <3> QED BY <3>1 DEF DB
  <2>4. N \o C = ((D \o B) \o M) \o C
    BY DEF N, DB
  <2> DEFINE BM == (B \o M) \o C
             MC == M \o C
             BMC == B \o MC
  <2>5. BM = BMC
    BY <2>1
  <2>6. D \o BMC = (D \o B) \o MC /\ (D \o B) \o MC = N \o C
    BY <2>2, <2>3, <2>4
  <2> HIDE DEF BM, BMC, MC
  <2>7. D \o BM = N \o C
    BY <2>5, <2>6
  <2> QED BY <2>7 DEF BM
<1> QED BY <1>7, <1>8, <1>9 DEF B, C, cm

OneAs(p)           == <<p>>
FourAs(p, q, r, v) == <<p, q, r, v>>
FourJoin(p, q, r, v) == FourAs(p, q, r, v) = (OneAs(p) \o (OneAs(q) \o OneAs(r))) \o OneAs(v)

LEMMA FourParts ==
  \A p, q, r, v \in Statements : FourJoin(p, q, r, v)
<1> SUFFICES ASSUME NEW p \in Statements, NEW q \in Statements, NEW r \in Statements, NEW v \in Statements
             PROVE  FourAs(p, q, r, v) = (OneAs(p) \o (OneAs(q) \o OneAs(r))) \o OneAs(v)
  BY DEF FourJoin
<1>1. <<p, q, r, v>> = ((<<p>> \o <<q>>) \o <<r>>) \o <<v>>
  BY Quadruples
<1>2. OneAs(p) \in Seq(Statements) /\ OneAs(q) \in Seq(Statements) /\ OneAs(r) \in Seq(Statements)
  BY DEF OneAs
<1>3. FourAs(p, q, r, v) = ((OneAs(p) \o OneAs(q)) \o OneAs(r)) \o OneAs(v)
  BY <1>1 DEF OneAs, FourAs
<1>4. (OneAs(p) \o OneAs(q)) \o OneAs(r) = OneAs(p) \o (OneAs(q) \o OneAs(r))
  BY <1>2, ConcatAssociative
<1> QED BY <1>3, <1>4

LEMMA PgBatches ==
  ASSUME NEW c \in Configs, ByBatch(c), NEW s, NEW o, NEW b \in Seq(Rows)
  PROVE  LET prog == PgWrite(c, s, o, b)
         IN  InTxn(prog, {}) /\ CommitLast(prog) /\ Begun(prog) \subseteq {"batch"}
<1> DEFINE how == PgHow(c)
           x == Stage("batch", b)
           y == Insert("batch", b, how)
           D == IF s.prepared THEN <<>> ELSE PgPrepare(c)
           M == IF c.staged THEN <<x>> \o <<y>> ELSE InsertEach("batch", b, Chunk, how)
           B == <<Begin("batch")>>
           C == <<Commit("batch")>>
<1>1. /\ "batch" \in Sessions /\ "auto" \in Sessions /\ how \in Hows
      /\ Fits(c.strategy, how) /\ Chunk \in Nat \ {0}
      /\ c.mode # "drop_and_replace" /\ c.strategy # "truncate" /\ c.strategy \in Keyed
  BY TargetAssumption DEF Sessions, Hows, PgHow, ByBatch, SelfLocks, Keyed, Fits
<1>2. D \in Seq(Statements) /\ \A st \in Of(D) : st.op = "create"
  <2>1. PgPrepare(c) = ModeDdl(c.mode, "auto") \o <<>>
    BY <1>1 DEF PgPrepare, Truncates
  <2>2. /\ ModeDdl(c.mode, "auto") \in Seq(Statements)
        /\ \A st \in Of(ModeDdl(c.mode, "auto")) : st.op = "create"
    BY <1>1, ModeDdlFacts
  <2>3. PgPrepare(c) = ModeDdl(c.mode, "auto")
    BY <2>1, <2>2, ConcatEmptySeq
  <2> QED BY <2>2, <2>3, EmptyProgram
<1> HIDE DEF how
<1>3. M \in Seq(Statements) /\ \A st \in Of(M) : st.on = "batch" /\ st.op \notin {"begin", "commit"}
  <2>1. OneOf(<<x>>, "stage", "batch")
    BY <1>1, OneStatement
  <2>2. <<y>> \in Seq(Statements) /\ Of(<<y>>) = {y} /\ y.op = "insert" /\ y.on = "batch"
    BY <1>1, InsertFacts
  <2> HIDE DEF x, y
  <2>3. <<x>> \o <<y>> \in Seq(Statements) /\ Of(<<x>> \o <<y>>) = Of(<<x>>) \cup {y}
    BY <2>1, <2>2, OfConcat DEF OneOf
  <2>4. /\ InsertEach("batch", b, Chunk, how) \in Seq(Statements)
        /\ \A st \in Of(InsertEach("batch", b, Chunk, how)) : st.op = "insert" /\ st.on = "batch"
    BY <1>1, EachFacts
  <2> QED BY <2>1, <2>2, <2>3, <2>4 DEF OneOf
<1>4. PgWrite(c, s, o, b) = D \o ((B \o M) \o C)
  <2>1. CASE c.staged
    <3> DEFINE w == Begin("batch")
               z == Commit("batch")
    <3>1. PgWrite(c, s, o, b) = D \o <<w, x, y, z>>
      BY <1>1, <2>1 DEF PgWrite, PgStagedMerge, how
    <3>2. M = <<x>> \o <<y>> /\ B = <<w>> /\ C = <<z>>
      BY <2>1
    <3>3. w \in Statements /\ x \in Statements /\ y \in Statements /\ z \in Statements
      BY <1>1, StatementTypes
    <3>4. PgWrite(c, s, o, b) = D \o FourAs(w, x, y, z) /\ M = OneAs(x) \o OneAs(y) /\ B = OneAs(w) /\ C = OneAs(z)
      BY <3>1, <3>2 DEF FourAs, OneAs
    <3> HIDE DEF w, x, y, z, B, C, M, D
    <3>5. FourAs(w, x, y, z) = (OneAs(w) \o (OneAs(x) \o OneAs(y))) \o OneAs(z)
      <4>1. FourJoin(w, x, y, z)
        BY <3>3, FourParts, Zenon
      <4> QED BY <4>1 DEF FourJoin
    <3> QED BY <3>4, <3>5
  <2>2. CASE ~c.staged
    BY <1>1, <2>2 DEF PgWrite, PgInsertPlan, how
  <2> QED BY <2>1, <2>2
<1> HIDE DEF D, M
<1>5. LET prog == D \o ((B \o M) \o C)
      IN  InTxn(prog, {}) /\ CommitLast(prog) /\ Begun(prog) \subseteq {"batch"}
  BY <1>2, <1>3, BatchProgram
<1> QED BY <1>4, <1>5

\* Between two calls no transaction is open, and the table holds every batch.
LEMMA BatchesIn ==
  ASSUME IInv, ByBatch(cfg), todo = <<>>, pc \in {"idle", "write"}
  PROVE  open = {} /\ table.rows = Loaded(cfg, base.rows, fed)
<1>1. TypeOK /\ Consistent /\ EveryTxnEnds /\ HeldBack /\ Delivering /\ HiddenBatch
  BY DEF IInv, Shape
<1>2. /\ cfg \in Configs /\ sink \in SinkStates /\ draft.rows \in Contents /\ fed \in Seq(Batches)
      /\ ~Deviates(cfg) /\ ~OraStaged(cfg)
  BY <1>1, StateTypes DEF Deviates, DbxOdbc, OraStaged, ByBatch
<1>3. open = {}
  <2>1. "batch" \notin open
    <3>1. Of(todo) = {} /\ "batch" \in Sessions
      BY EmptyProgram DEF Sessions
    <3> QED BY <1>1, <3>1 DEF EveryTxnEnds
  <2> QED BY <1>1, <2>1 DEF HiddenBatch, ByBatch
<1>4. draft = table
  BY <1>1, <1>3 DEF Consistent
<1>5. Held(sink) = <<>>
  <2>1. sink.buffer = <<>> /\ sink.staged = <<>>
    BY <1>1, <1>2 DEF HeldBack, ByBatch, Buffers
  <2> QED BY <2>1, ConcatEmptySeq, EmptySeq DEF Held
<1>6. CASE fed = <<>>
  <2>1. draft.rows = base.rows
    BY <1>1, <1>2, <1>6 DEF Delivering
  <2>2. Loaded(cfg, base.rows, fed) = base.rows
    BY <1>2, <1>6, LoadedSteps DEF Start, ByBatch, SelfLocks, Keyed
  <2> QED BY <1>3, <1>4, <2>1, <2>2
<1>7. CASE fed # <<>>
  <2>1. Outcomes(<<>> \o <<Gathered>>, draft.rows) \subseteq {Loaded(cfg, base.rows, fed)}
    BY <1>1, <1>2, <1>7 DEF Delivering
  <2>2. <<>> \o <<Gathered>> = <<Gathered>> /\ Gathered = Flushed(cfg, sink)
    BY <1>1, GatheredIs, ConcatEmptySeq
  <2>3. Outcomes(<<Flushed(cfg, sink)>>, draft.rows) = {draft.rows}
    BY <1>2, <1>5, FlushedFacts
  <2>4. Outcomes(<<Flushed(cfg, sink)>>, draft.rows) \subseteq {Loaded(cfg, base.rows, fed)}
    BY <2>1, <2>2
  <2> QED BY <1>3, <1>4, <2>3, <2>4
<1> QED BY <1>6, <1>7

LEMMA WriteHides ==
  ASSUME IInv, NEW b \in Batches, Write(b)
  PROVE  HiddenBatch'
<1>1. /\ pc = "idle" /\ pc' = "write" /\ todo' = WriteProgram(b) /\ fed' = Append(fed, b)
      /\ UNCHANGED <<cfg, base, table, open>>
  BY DEF Write, db
<1>2. SUFFICES ASSUME ByBatch(cfg) PROVE HiddenBatch'
  BY <1>1 DEF HiddenBatch, ByBatch
<1>3. /\ cfg \in Configs /\ todo = <<>> /\ fed \in Seq(Batches) /\ b \in Seq(Rows)
  BY <1>1, RestOfIdle, StateTypes, BatchIsRows DEF IInv, Shape
<1>4. open = {} /\ table.rows = Loaded(cfg, base.rows, fed)
  BY <1>1, <1>2, <1>3, BatchesIn
<1>5. InTxn(todo', {}) /\ CommitLast(todo') /\ Begun(todo') \subseteq {"batch"}
  <2>1. todo' = PgWrite(cfg, sink, open, b)
    BY <1>1, <1>2 DEF WriteProgram, ByBatch
  <2> QED BY <1>2, <1>3, <2>1, PgBatches
<1>6. SubSeq(fed', 1, Len(fed') - 1) = fed
  <2>1. SubSeq(Append(fed, b), 1, Len(Append(fed, b)) - 1) = fed
    BY <1>3, AppendProperties
  <2> QED BY <1>1, <2>1
<1> QED BY <1>1, <1>4, <1>5, <1>6 DEF HiddenBatch

LEMMA FlushHides ==
  ASSUME IInv, Flush
  PROVE  HiddenBatch'
<1>1. pc = "idle" /\ pc' = "flush" /\ todo' = FlushProgram /\ UNCHANGED <<cfg, base, table, open, fed, sink>>
  BY DEF Flush, db
<1>2. SUFFICES ASSUME ByBatch(cfg) PROVE HiddenBatch'
  BY <1>1 DEF HiddenBatch, ByBatch
<1>3. todo = <<>> /\ sink \in SinkStates
  BY <1>1, RestOfIdle DEF IInv
<1>4. open = {} /\ table.rows = Loaded(cfg, base.rows, fed)
  BY <1>1, <1>2, <1>3, BatchesIn
<1> DEFINE K == IF sink.seen # <<>> THEN <<Keep("auto", sink.seen)>> ELSE <<>>
<1>5. sink.seen \in Seq(Rows) /\ "auto" \in Sessions
  BY <1>3 DEF SinkStates, Sessions
<1>6. Keep("auto", sink.seen) \in Statements /\ Keep("auto", sink.seen).op = "keep"
  <2>1. Keep("auto", sink.seen) \in Statements
    <3>1. "append" \in Hows
      BY DEF Hows
    <3> QED BY <1>5, <3>1, StatementTypes
  <2> QED BY <2>1 DEF Keep, Stmt
<1>7. K \in Seq(Statements) /\ Begun(K) = {} /\ (K # <<>> => K = <<Keep("auto", sink.seen)>>)
  <2> DEFINE st == Keep("auto", sink.seen)
  <2>1. <<st>> \in Seq(Statements) /\ Of(<<st>>) = {st}
    BY <1>6, OfParts
  <2>2. Begun(<<st>>) = {}
    BY <1>6, <2>1, NoneBegun
  <2> QED BY <2>1, <2>2, EmptyProgram
<1>8. todo' = K
  <2>1. todo' = (<<>> \o K) \o <<>>
    BY <1>1, <1>2, <1>4 DEF FlushProgram, PgFlush, ByBatch
  <2> HIDE DEF K
  <2> QED BY <1>7, <2>1, ConcatEmptySeq
<1> HIDE DEF K
<1> QED BY <1>1, <1>4, <1>7, <1>8 DEF HiddenBatch

LEMMA RanHides ==
  ASSUME IInv, Moves, Ran(Head(todo)), Head(todo).op # "commit"
  PROVE  HiddenBatch'
<1> DEFINE st == Head(todo)
<1>1. /\ TypeOK /\ Consistent /\ DdlFirst /\ HiddenBatch
      /\ todo \in Seq(Statements) /\ todo # <<>> /\ todo' = Tail(todo) /\ pc \in {"write", "flush"}
      /\ UNCHANGED <<cfg, base, fed, pc>> /\ sink'.seen = sink.seen
      /\ open' = IF st.op = "begin" THEN open \cup {st.on} ELSE open
  BY DEF IInv, Shape, TypeOK, Moves, Calling, SameSink
<1>2. SUFFICES ASSUME ByBatch(cfg) PROVE HiddenBatch'
  BY <1>1 DEF HiddenBatch, ByBatch
<1>3. /\ st \in Statements /\ st \in Of(todo)
      /\ Begun(todo) = (IF st.op = "begin" THEN {st.on} ELSE {}) \cup Begun(todo')
  BY <1>1, HeadAndTail
<1>4. open \cup Begun(todo) \subseteq {"batch"}
  BY <1>1, <1>2 DEF HiddenBatch, ByBatch
<1>5. open' \cup Begun(todo') \subseteq {"batch"}
  BY <1>1, <1>3, <1>4
<1>6. CASE pc = "flush"
  <2>1. todo = <<Keep("auto", sink.seen)>>
    BY <1>1, <1>2, <1>6 DEF HiddenBatch, ByBatch
  <2>2. todo' = <<>>
    BY <1>1, <2>1
  <2> QED BY <1>1, <1>5, <1>6, <2>2 DEF HiddenBatch
<1>7. CASE pc = "write"
  <2>1. /\ InTxn(todo, open) /\ CommitLast(todo)
        /\ table.rows = Loaded(cfg, base.rows, SubSeq(fed, 1, Len(fed) - 1))
    BY <1>1, <1>2, <1>7 DEF HiddenBatch, ByBatch
  <2>2. InTxn(todo', open') /\ CommitLast(todo') /\ (Changes(st) => st.op = "create" \/ st.on \in open)
    BY <1>1, <2>1, RestInTxn, RestCommits
  <2> HIDE DEF st
  <2>3. table'.rows = table.rows
    <3>1. CASE ~Changes(st) \/ st.on \in open
      BY <3>1 DEF Ran, st
    <3>2. CASE Changes(st) /\ st.on \notin open
      <4>1. st.op = "create" /\ table' = draft' /\ draft'.rows = RowsAfter(st, draft.rows) /\ holder \in {"none", st.on}
        BY <2>2, <3>2 DEF Ran, st
      <4>2. draft = table
        BY <1>1, <3>2, <4>1 DEF Consistent
      <4> QED BY <4>1, <4>2, QuietStatement DEF Quiet
    <3> QED BY <3>1, <3>2
  <2> QED BY <1>1, <1>5, <1>7, <2>1, <2>2, <2>3 DEF HiddenBatch
<1> QED BY <1>1, <1>6, <1>7

LEMMA CommitHides ==
  ASSUME IInv, StepCommit
  PROVE  HiddenBatch'
<1> DEFINE st == Head(todo)
<1>1. /\ HiddenBatch /\ st.op = "commit"
      /\ todo \in Seq(Statements) /\ todo # <<>> /\ todo' = Tail(todo) /\ pc \in {"write", "flush"}
      /\ UNCHANGED <<cfg, base, fed, pc, sink>> /\ open' \subseteq open
  BY DEF IInv, Shape, TypeOK, StepCommit, Calling
<1>2. SUFFICES ASSUME ByBatch(cfg) PROVE HiddenBatch'
  BY <1>1 DEF HiddenBatch, ByBatch
<1>3. pc = "write"
  <2>1. SUFFICES ASSUME pc = "flush" PROVE FALSE
    BY <1>1
  <2>2. todo = <<Keep("auto", sink.seen)>>
    BY <1>1, <1>2, <2>1 DEF HiddenBatch, ByBatch
  <2>3. st.op = "keep"
    <3> DEFINE k == Keep("auto", sink.seen)
    <3>1. k.op = "keep"
      BY DEF Keep, Stmt
    <3>2. todo = <<k>>
      BY <2>2
    <3> HIDE DEF k
    <3> QED BY <3>1, <3>2
  <2> QED BY <1>1, <2>3
<1>4. todo' = <<>>
  BY <1>1, <1>2, <1>3, RestCommits DEF HiddenBatch, ByBatch
<1>5. open \cup Begun(todo) \subseteq {"batch"}
  BY <1>1, <1>2 DEF HiddenBatch, ByBatch
<1>6. InTxn(<<>>, open') /\ CommitLast(<<>>) /\ Begun(<<>>) = {}
  BY EmptyProgram, TxnSimple, CommitSimple
<1> QED BY <1>1, <1>3, <1>4, <1>5, <1>6 DEF HiddenBatch

LEMMA StepHides == ASSUME IInv, [Next]_vars PROVE HiddenBatch'
<1>0. Shape /\ HiddenBatch
  BY DEF IInv
<1>1. CASE \E b \in Batches : Write(b)
  BY <1>1, WriteHides
<1>2. CASE Flush
  BY <1>2, FlushHides
<1>3. CASE StepBegin \/ StepRun \/ StepStage
  <2>1. Moves /\ Ran(Head(todo)) /\ Head(todo).op # "commit"
    BY <1>0, <1>3, BeginShape, RunShape, StageShape DEF StepBegin, StepRun, StepStage
  <2> QED BY <2>1, RanHides
<1>4. CASE StepCommit
  BY <1>4, CommitHides
<1>5. CASE StepBulk
  <2>1. cfg.driver # "postgres" /\ cfg' = cfg
    BY <1>0, <1>5, BulkResult DEF DbxOdbc, StepBulk
  <2> QED BY <2>1 DEF HiddenBatch
<1>6. CASE WriteDone \/ FlushDone
  <2>1. pc' \in {"idle", "finished"} /\ UNCHANGED <<cfg, base, open, todo, table, fed, sink>>
    BY <1>6 DEF WriteDone, FlushDone, db
  <2> QED BY <1>0, <2>1 DEF HiddenBatch
<1>7. CASE Reject \/ Fault
  <2>1. pc' = "failed" /\ open' = {} /\ todo' = <<>>
    BY <1>7 DEF Reject, Fault, FailWith
  <2> QED BY <2>1, EmptyProgram DEF HiddenBatch
<1>8. CASE UNCHANGED vars
  BY <1>0, <1>8 DEF HiddenBatch, vars
<1> QED BY <1>1, <1>2, <1>3, <1>4, <1>5, <1>6, <1>7, <1>8 DEF Next, Run, Done

\* While the run goes on, the rows are those of a whole number of batches.
LEMMA WholeNow ==
  ASSUME IInv, ~SelfLocks(cfg), ~Over
  PROVE  WholeBatches
<1>1. SUFFICES ASSUME ByBatch(cfg) PROVE WholeBatches
  BY DEF WholeBatches, ByBatch
<1>2. /\ TypeOK /\ HiddenBatch /\ fed \in Seq(Batches) /\ Len(fed) \in Nat /\ pc \in {"idle", "write", "flush"}
      /\ pc = "idle" => todo = <<>>
  <2>1. TypeOK /\ HiddenBatch /\ Consistent
    BY DEF IInv, Shape
  <2> QED BY <2>1, LenProperties DEF TypeOK, Consistent, Over
<1>3. ASSUME table.rows = Loaded(cfg, base.rows, fed) PROVE WholeBatches
  <2>1. SubSeq(fed, 1, Len(fed)) = fed /\ Len(fed) \in 0 .. Len(fed)
    BY <1>2
  <2> QED BY <1>3, <2>1 DEF WholeBatches
<1>4. CASE todo = <<>> /\ pc \in {"idle", "write"}
  BY <1>1, <1>3, <1>4, BatchesIn
<1>5. CASE pc = "write" /\ todo # <<>>
  <2>1. table.rows = Loaded(cfg, base.rows, SubSeq(fed, 1, Len(fed) - 1))
    BY <1>1, <1>2, <1>5 DEF HiddenBatch, ByBatch
  <2>2. Len(fed) - 1 \in 0 .. Len(fed)
    <3>1. fed # <<>>
      BY <1>5 DEF IInv, Shape, EveryTxnEnds, HeldBack
    <3> QED BY <1>2, <3>1
  <2> QED BY <2>1, <2>2 DEF WholeBatches
<1>6. CASE pc = "flush" /\ todo # <<>>
  BY <1>1, <1>2, <1>3, <1>6 DEF HiddenBatch, ByBatch
<1>7. CASE pc = "flush" /\ todo = <<>>
  <2>1. ~Deviates(cfg)
    BY <1>1 DEF Deviates, DbxOdbc, ByBatch
  <2>2. table.rows = Expected(cfg, base.rows, fed)
    BY <1>7, <2>1, EndsDelivered DEF IInv, DInv
  <2> QED BY <1>7, <2>2 DEF WholeBatches
<1> QED BY <1>2, <1>4, <1>5, <1>6, <1>7

\* An interrupted statement leaves a whole number of batches as well.
LEMMA FaultWhole ==
  ASSUME IInv, ~SelfLocks(cfg), Fault
  PROVE  WholeBatches'
<1> DEFINE st == Head(todo)
<1>1. pc' = "failed" /\ UNCHANGED <<cfg, base, fed>> /\ ~Over
  BY DEF Fault, FailWith
<1>2. SUFFICES ASSUME ByBatch(cfg) PROVE WholeBatches'
  BY <1>1 DEF WholeBatches, ByBatch
<1>3. WholeBatches
  BY <1>1, WholeNow
<1>4. CASE table'.rows = table.rows
  BY <1>1, <1>3, <1>4 DEF WholeBatches
<1>5. CASE table'.rows # table.rows
  <2>1. /\ Calling /\ ~Blocked(st) /\ ~Refused(st, View(st.on).rows) /\ (NeedsTable(st) => View(st.on).exists)
        /\ table' = Result(st).table /\ todo # <<>>
    BY <1>5 DEF Fault, Calling
  <2>2. /\ TypeOK /\ Consistent /\ DdlFirst /\ Delivering /\ HiddenBatch /\ HeldBack /\ EveryTxnEnds
        /\ pc \in {"write", "flush"} /\ ~Deviates(cfg) /\ ~OraStaged(cfg)
    BY <1>2, <2>1 DEF IInv, Shape, Calling, Deviates, DbxOdbc, OraStaged, ByBatch
  <2>3. /\ todo \in Seq(Statements) /\ st \in Statements /\ st \in Of(todo) /\ Tail(todo) \in Seq(Statements)
        /\ todo = <<st>> \o Tail(todo) /\ <<st>> \in Seq(Statements)
    BY <2>1, <2>2, HeadAndTail DEF TypeOK
  <2>4. /\ cfg \in Configs /\ sink \in SinkStates /\ Whole(table) /\ Whole(draft)
        /\ draft.rows \in Contents /\ fed \in Seq(Batches) /\ fed # <<>>
    BY <2>1, <2>2, StateTypes DEF EveryTxnEnds, HeldBack
  <2>5. CASE pc = "flush"
    <3>1. todo = <<Keep("auto", sink.seen)>>
      BY <1>2, <2>1, <2>2, <2>5 DEF HiddenBatch, ByBatch
    <3>2. st.op = "keep" /\ st.on = "auto" /\ Tail(todo) = <<>>
      <4> DEFINE k == Keep("auto", sink.seen)
      <4>1. k.op = "keep" /\ k.on = "auto"
        BY DEF Keep, Stmt
      <4>2. todo = <<k>>
        BY <3>1
      <4> HIDE DEF k
      <4> QED BY <4>1, <4>2
    <3> HIDE DEF st
    <3>3. "auto" \notin open /\ Changes(st) /\ st.op # "commit"
      BY <1>2, <2>2, <3>2 DEF HiddenBatch, ByBatch, Changes
    <3>4. View(st.on) = draft
      BY <2>1, <2>2, <2>3, <3>3, SeesDraft DEF st
    <3>5. table' = Effect(st, draft)
      BY <2>1, <3>2, <3>3, <3>4 DEF Result
    <3>6. Effect(st, draft).rows = RowsAfter(st, draft.rows)
      BY <2>1, <2>3, <2>4, <3>4, EffectOfOne
    <3>7. ~Refused(st, draft.rows)
      BY <3>2 DEF Refused
    <3>8. Outcomes(todo, draft.rows) = {table'.rows}
      <4>1. Outcomes(todo, draft.rows) = Outcomes(Tail(todo), RowsAfter(st, draft.rows))
        BY <2>1, <2>3, <3>7, EmptyProgram, RestOutcomes DEF st
      <4> QED BY <3>2, <3>5, <3>6, <4>1, EmptyProgram
    <3>9. table'.rows = Expected(cfg, base.rows, fed)
      BY <2>2, <2>5, <3>8 DEF Delivering
    <3> QED BY <1>1, <3>9 DEF WholeBatches
  <2>6. CASE pc = "write"
    <3>1. InTxn(todo, open) /\ CommitLast(todo)
      BY <1>2, <2>2, <2>6 DEF HiddenBatch, ByBatch
    <3>2. Changes(st) => st.op = "create" \/ st.on \in open
      BY <2>1, <2>3, <3>1, RestInTxn
    <3>3. CASE st.op # "commit"
      <4> HIDE DEF st
      <4>1. Changes(st) /\ st.on \notin open /\ table' = Effect(st, View(st.on))
        BY <1>5, <2>1, <3>3 DEF Result
      <4>2. st.op = "create"
        BY <3>2, <4>1
      <4>3. holder = "none"
        <5>1. holder \in {"none", st.on}
          BY <2>2, <2>3, <4>2 DEF DdlFirst, Ddl
        <5> QED BY <2>2, <4>1, <5>1 DEF Consistent
      <4>4. View(st.on) = table
        BY <2>2, <4>3 DEF View, Consistent
      <4>5. Effect(st, table).rows = RowsAfter(st, table.rows)
        BY <2>3, <2>4, <4>2, EffectOfOne DEF NeedsTable
      <4> QED BY <1>5, <4>1, <4>2, <4>4, <4>5, QuietStatement DEF Quiet
    <3>4. CASE st.op = "commit"
      <4>1. Tail(todo) = <<>>
        BY <2>1, <2>3, <3>1, <3>4, RestCommits
      <4>2. table' = draft
        <5> HIDE DEF st
        <5> QED BY <1>5, <2>1, <3>4 DEF Result, Changes
      <4>3. ~Refused(st, draft.rows) /\ RowsAfter(st, draft.rows) = draft.rows
        BY <3>4, QuietStatement DEF Quiet
      <4>4. Outcomes(todo \o <<Gathered>>, draft.rows) = {draft.rows}
        <5> DEFINE G == <<Gathered>>
        <5>1. G \in Seq(Statements) /\ <<>> \o G = G /\ Gathered = Flushed(cfg, sink)
          BY <2>2, GatheredIs, ConcatEmptySeq
        <5>2. Held(sink) = <<>>
          <6>1. sink.buffer = <<>> /\ sink.staged = <<>>
            BY <1>2, <2>2 DEF HeldBack, ByBatch, Buffers
          <6> QED BY <6>1, ConcatEmptySeq, EmptySeq DEF Held
        <5>3. Outcomes(<<Flushed(cfg, sink)>>, draft.rows) = {draft.rows}
          BY <2>4, <5>2, FlushedFacts
        <5>4. Outcomes(G, draft.rows) = {draft.rows}
          BY <5>1, <5>3
        <5> HIDE DEF G, st
        <5>5. Outcomes(todo \o G, draft.rows) = Outcomes(Tail(todo) \o G, draft.rows)
          BY <2>1, <2>3, <4>3, <5>1, RestOutcomes DEF st
        <5> QED BY <4>1, <5>1, <5>4, <5>5 DEF G
      <4>5. table'.rows = Loaded(cfg, base.rows, fed)
        BY <2>2, <2>4, <2>6, <4>2, <4>4 DEF Delivering
      <4>6. SubSeq(fed, 1, Len(fed)) = fed /\ Len(fed) \in 0 .. Len(fed)
        BY <2>4
      <4> QED BY <1>1, <4>5, <4>6 DEF WholeBatches
    <3> QED BY <3>3, <3>4
  <2> QED BY <2>2, <2>5, <2>6
<1> QED BY <1>4, <1>5

LEMMA StepWhole ==
  ASSUME IInv, IInv', WholeBatches, ~SelfLocks(cfg), [Next]_vars
  PROVE  WholeBatches'
<1>1. cfg' = cfg
  BY DEF Next, Run, Done, vars, db, Write, WriteDone, Flush, FlushDone, StepBegin, StepCommit, StepRun, StepStage,
         StepBulk, Reject, Fault, FailWith
<1>2. CASE ~Over'
  <2>1. (IInv /\ ~SelfLocks(cfg) /\ ~Over => WholeBatches)'
    BY WholeNow, PTL
  <2> QED BY <1>1, <1>2, <2>1
<1>3. CASE Over'
  <2>1. CASE Fault
    BY <2>1, FaultWhole
  <2>2. CASE Reject \/ FlushDone
    <3>1. UNCHANGED <<cfg, base, fed, table>> /\ pc' \in {"finished", "failed"} /\ pc \in {"write", "flush"}
      BY <2>2 DEF Reject, FlushDone, FailWith, db, Calling
    <3> QED BY <3>1 DEF WholeBatches
  <2>3. CASE UNCHANGED vars
    BY <2>3 DEF vars, WholeBatches
  <2>4. CASE ~Fault /\ ~Reject /\ ~FlushDone /\ ~(UNCHANGED vars)
    <3>1. pc' \notin {"finished", "failed"}
      BY <2>4 DEF Next, Run, Done, Write, WriteDone, Flush, StepBegin, StepCommit, StepRun, StepStage, StepBulk, Calling
    <3> QED BY <1>3, <3>1 DEF Over
  <2> QED BY <2>1, <2>2, <2>3, <2>4
<1> QED BY <1>2, <1>3

\* The inductive invariant: the shape, what is still to be delivered, and for a Postgres
\* strategy that needs a key the batch that is hidden until its commit.
THEOREM SinkInvariance == ASSUME DistinctInBatch PROVE Spec => []IInv
<1>1. Init => IInv
  <2> SUFFICES ASSUME Init PROVE IInv
    OBVIOUS
  <2>1. HiddenBatch
    BY EmptyProgram DEF Init, HiddenBatch
  <2> QED BY <2>1, InitDelivers DEF IInv, DInv
<1>2. IInv /\ [Next]_vars => IInv'
  BY StepDelivers, StepHides DEF IInv, DInv
<1> QED BY <1>1, <1>2, PTL DEF Spec

\* With a Postgres strategy that needs a key the table holds a whole number of batches at
\* any time, also after a fault at any statement or at a commit: PgInsertPlan and the staged
\* merge are one transaction for each batch.  The hypotheses leave out a key that comes
\* twice in one batch and the configurations that wait for their own lock.
THEOREM WholeBatchesOnly ==
  ASSUME DistinctInBatch, \A c \in Plans : ~SelfLocks(c)
  PROVE  Spec => []WholeBatches
<1>1. Init => IInv /\ WholeBatches
  <2> SUFFICES ASSUME Init PROVE IInv /\ WholeBatches
    OBVIOUS
  <2>1. DInv
    BY InitDelivers
  <2>2. HiddenBatch
    BY EmptyProgram DEF Init, HiddenBatch
  <2>3. IInv /\ ~Over /\ ~SelfLocks(cfg)
    BY <2>1, <2>2 DEF IInv, DInv, Over, Init
  <2> QED BY <2>3, WholeNow
<1>2. IInv /\ WholeBatches /\ [Next]_vars => IInv' /\ WholeBatches'
  <2> SUFFICES ASSUME IInv, WholeBatches, [Next]_vars PROVE IInv' /\ WholeBatches'
    OBVIOUS
  <2>1. IInv'
    BY StepDelivers, StepHides DEF IInv, DInv
  <2>2. ~SelfLocks(cfg)
    BY StateTypes DEF IInv, Shape
  <2> QED BY <2>1, <2>2, StepWhole
<1> QED BY <1>1, <1>2, PTL DEF Spec

-----------------------------------------------------------------------------
(* Why a database refuses a statement. *)

LEMMA CreatesAfter ==
  ASSUME NEW a \in Seq(Statements), NEW b \in Seq(Statements),
         Creates(a), \A st \in Of(b) : ~Ddl(st)
  PROVE  Creates(a \o b)
<1>1. PICK i \in DOMAIN a : /\ a[i].op = "create"
                            /\ \A j \in 1 .. i - 1 : ~NeedsTable(a[j])
                            /\ \A j \in i + 1 .. Len(a) : ~Ddl(a[j])
  BY DEF Creates
<1> DEFINE p == a \o b
<1>2. /\ Len(a) \in Nat /\ DOMAIN a = 1 .. Len(a) /\ Len(b) \in Nat /\ DOMAIN b = 1 .. Len(b)
      /\ Len(p) = Len(a) + Len(b) /\ DOMAIN p = 1 .. Len(a) + Len(b)
      /\ \A j \in DOMAIN a : p[j] = a[j]
      /\ \A j \in DOMAIN p : j \in DOMAIN a \/ (j - Len(a) \in DOMAIN b /\ p[j] = b[j - Len(a)])
  BY ConcatIndices
<1> HIDE DEF p
<1>3. i \in DOMAIN p /\ p[i] = a[i]
  BY <1>2
<1>4. ASSUME NEW j \in 1 .. i - 1 PROVE ~NeedsTable(p[j])
  <2>1. j \in DOMAIN a
    BY <1>2
  <2> QED BY <1>1, <1>2, <2>1
<1>5. ASSUME NEW j \in i + 1 .. Len(p) PROVE ~Ddl(p[j])
  <2>1. j \in DOMAIN p /\ j \in Nat /\ i \in Nat
    BY <1>2
  <2>2. CASE j \in DOMAIN a
    <3>1. j \in i + 1 .. Len(a) /\ p[j] = a[j]
      BY <1>2, <2>1, <2>2
    <3> QED BY <1>1, <3>1
  <2>3. CASE j - Len(a) \in DOMAIN b /\ p[j] = b[j - Len(a)]
    <3>1. p[j] \in Of(b)
      BY <2>3 DEF Of
    <3> QED BY <3>1
  <2> QED BY <1>2, <2>1, <2>2, <2>3
<1>6. Creates(p)
  BY <1>1, <1>3, <1>4, <1>5 DEF Creates
<1> QED BY <1>6 DEF p

LEMMA CreatesBefore ==
  ASSUME NEW a \in Seq(Statements), NEW b \in Seq(Statements),
         \A st \in Of(a) : ~NeedsTable(st), Creates(b)
  PROVE  Creates(a \o b)
<1>1. PICK i \in DOMAIN b : /\ b[i].op = "create"
                            /\ \A j \in 1 .. i - 1 : ~NeedsTable(b[j])
                            /\ \A j \in i + 1 .. Len(b) : ~Ddl(b[j])
  BY DEF Creates
<1> DEFINE p == a \o b
           n == Len(a)
<1>2. /\ n \in Nat /\ DOMAIN a = 1 .. n /\ Len(b) \in Nat /\ DOMAIN b = 1 .. Len(b)
      /\ Len(p) = n + Len(b) /\ DOMAIN p = 1 .. n + Len(b)
      /\ \A j \in DOMAIN a : p[j] = a[j]
      /\ \A j \in DOMAIN b : n + j \in DOMAIN p /\ p[n + j] = b[j]
      /\ \A j \in DOMAIN p : j \in DOMAIN a \/ (j - n \in DOMAIN b /\ p[j] = b[j - n])
  BY ConcatIndices
<1> HIDE DEF p, n
<1>3. n + i \in DOMAIN p /\ p[n + i] = b[i] /\ i \in Nat
  BY <1>2
<1>4. ASSUME NEW j \in 1 .. (n + i) - 1 PROVE ~NeedsTable(p[j])
  <2>1. j \in DOMAIN p
    BY <1>2, <1>3
  <2>2. CASE j \in DOMAIN a
    <3>1. p[j] \in Of(a)
      BY <1>2, <2>2 DEF Of
    <3> QED BY <3>1
  <2>3. CASE j - n \in DOMAIN b /\ p[j] = b[j - n]
    <3>1. j - n \in 1 .. i - 1
      BY <1>2, <1>3, <2>3
    <3> QED BY <1>1, <2>3, <3>1
  <2> QED BY <1>2, <2>1, <2>2, <2>3
<1>5. ASSUME NEW j \in (n + i) + 1 .. Len(p) PROVE ~Ddl(p[j])
  <2>1. j \in DOMAIN p /\ j \notin DOMAIN a
    BY <1>2, <1>3
  <2>2. p[j] = b[j - n] /\ j - n \in i + 1 .. Len(b)
    BY <1>2, <1>3, <2>1
  <2> QED BY <1>1, <2>2
<1>6. Creates(p)
  BY <1>1, <1>3, <1>4, <1>5 DEF Creates
<1> QED BY <1>6 DEF p

LEMMA CreatesRest ==
  ASSUME NEW prog \in Seq(Statements), prog # <<>>, Creates(prog)
  PROVE  \/ Head(prog).op = "create" /\ \A st \in Of(Tail(prog)) : ~Ddl(st)
         \/ ~NeedsTable(Head(prog)) /\ Creates(Tail(prog))
<1>1. PICK i \in DOMAIN prog : /\ prog[i].op = "create"
                               /\ \A j \in 1 .. i - 1 : ~NeedsTable(prog[j])
                               /\ \A j \in i + 1 .. Len(prog) : ~Ddl(prog[j])
  BY DEF Creates
<1> DEFINE t == Tail(prog)
           h == Head(prog)
<1>2. /\ Len(t) \in Nat /\ DOMAIN t = 1 .. Len(t) /\ Len(prog) = Len(t) + 1 /\ DOMAIN prog = 1 .. Len(prog)
      /\ prog[1] = h
      /\ \A j \in DOMAIN t : j + 1 \in DOMAIN prog /\ prog[j + 1] = t[j]
      /\ \A j \in DOMAIN prog : j # 1 => j - 1 \in DOMAIN t /\ prog[j] = t[j - 1]
  BY RestIndices
<1> HIDE DEF t, h
<1>3. CASE i = 1
  <2>1. ASSUME NEW j \in DOMAIN t PROVE ~Ddl(t[j])
    <3>1. j + 1 \in i + 1 .. Len(prog) /\ prog[j + 1] = t[j]
      BY <1>2, <1>3
    <3> QED BY <1>1, <3>1
  <2>2. \A st \in Of(t) : ~Ddl(st)
    BY <2>1 DEF Of
  <2> QED BY <1>1, <1>2, <1>3, <2>2 DEF t, h
<1>4. CASE i # 1
  <2>1. i - 1 \in DOMAIN t /\ prog[i] = t[i - 1] /\ i \in Nat /\ 1 \in 1 .. i - 1
    BY <1>2, <1>4
  <2>2. ASSUME NEW j \in 1 .. (i - 1) - 1 PROVE ~NeedsTable(t[j])
    <3>1. j \in DOMAIN t /\ j + 1 \in 1 .. i - 1
      BY <1>2, <2>1
    <3> QED BY <1>1, <1>2, <3>1
  <2>3. ASSUME NEW j \in (i - 1) + 1 .. Len(t) PROVE ~Ddl(t[j])
    <3>1. j \in DOMAIN t /\ j + 1 \in i + 1 .. Len(prog)
      BY <1>2, <2>1
    <3> QED BY <1>1, <1>2, <3>1
  <2>4. Creates(t)
    BY <1>1, <2>1, <2>2, <2>3 DEF Creates
  <2> QED BY <1>1, <1>2, <2>1, <2>4 DEF t, h
<1> QED BY <1>3, <1>4

\* A program that creates something has a statement.
LEMMA CreatesSome == ~Creates(<<>>)
  BY EmptySeq DEF Creates

-----------------------------------------------------------------------------
\* A program is carried out, and leaves no keys but those that were there and these.
Lets(prog, rows, ks) ==
  \E x \in Outcomes(prog, rows) : x \in Contents /\ \A k \in Keys : Has(x, k) => Has(rows, k) \/ k \in ks

\* The same of one statement
LetsOne(st, rows, ks) ==
  /\ ~Refused(st, rows)
  /\ RowsAfter(st, rows) \in Contents
  /\ \A k \in Keys : Has(RowsAfter(st, rows), k) => Has(rows, k) \/ k \in ks

LEMMA NoRowsHaveNoKeys == NoRows \in Contents /\ \A k \in Keys : ~Has(NoRows, k)
<1>1. \A k \in Keys, v \in Values : NoRows[[key |-> k, val |-> v]] = 0
  BY DEF NoRows, Rows
<1>2. NoRows \in Contents
  BY DEF NoRows, Contents
<1>3. ~(0 > 0)
  OBVIOUS
<1> HIDE DEF NoRows
<1> QED BY <1>1, <1>2, <1>3 DEF Has

LEMMA KeptKeys ==
  ASSUME NEW rows \in Contents, NEW ks, NEW k \in Keys, Has(Kept(rows, ks), k)
  PROVE  Has(rows, k)
<1>1. PICK v \in Values : Kept(rows, ks)[[key |-> k, val |-> v]] > 0
  BY DEF Has
<1>2. [key |-> k, val |-> v] \in Rows
  BY DEF Rows
<1>3. rows[[key |-> k, val |-> v]] > 0
  BY <1>1, <1>2 DEF Kept
<1> QED BY <1>3 DEF Has

LEMMA OtherLets ==
  ASSUME NEW st \in Statements, st.op # "insert", NEW rows \in Contents
  PROVE  LetsOne(st, rows, {})
<1>1. ~Refused(st, rows)
  BY DEF Refused
<1>2. st.op \in Ops /\ st.rows \in Seq(Rows)
  BY DEF Statements
<1>3. RowsAfter(st, rows) = CASE st.op \in {"drop", "truncate"} -> NoRows
                              [] st.op = "keep" -> Kept(rows, KeysOf(st.rows))
                              [] OTHER -> rows
  BY <1>2 DEF RowsAfter, Effect, Ops, Missing
<1>4. CASE st.op \in {"drop", "truncate"}
  <2>1. RowsAfter(st, rows) = NoRows
    BY <1>3, <1>4
  <2> QED BY <1>1, <2>1, NoRowsHaveNoKeys DEF LetsOne
<1>5. CASE st.op = "keep"
  <2>1. RowsAfter(st, rows) = Kept(rows, KeysOf(st.rows))
    BY <1>3, <1>5
  <2>2. Kept(rows, KeysOf(st.rows)) \in Contents
    BY <1>2, EffectTypes
  <2> QED BY <1>1, <2>1, <2>2, KeptKeys DEF LetsOne
<1>6. CASE st.op \notin {"drop", "truncate", "keep"}
  <2>1. RowsAfter(st, rows) = rows
    BY <1>3, <1>6
  <2> QED BY <1>1, <2>1 DEF LetsOne
<1> QED BY <1>4, <1>5, <1>6

\* New keys
Fresh(rows, b) == Repeated(b) = {} /\ \A k \in KeysOf(b) : ~Has(rows, k)

LEMMA InsertLets ==
  ASSUME NEW on \in Sessions, NEW b \in Seq(Rows), NEW how \in Hows, NEW rows \in Contents, Fresh(rows, b)
  PROVE  LetsOne(Insert(on, b, how), rows, KeysOf(b))
<1>1. (Refused(Insert(on, b, how), rows) <=> ~Takes(rows, b, how))
      /\ RowsAfter(Insert(on, b, how), rows) = InsertEffect(rows, b, how)
  BY StatementEffects
<1>2. Takes(rows, b, how)
  <2>1. Repeated(b) = {} /\ \A k \in KeysOf(b) : ~Has(rows, k)
    BY DEF Fresh
  <2>2. \A i, j \in DOMAIN b : i # j => b[i].key # b[j].key
    BY <2>1, BatchDomain DEF Repeated
  <2> QED BY <2>1, <2>2, TakesDef
<1>3. InsertEffect(rows, b, how) \in Contents
  BY InsertEffectType
<1>4. ASSUME NEW k \in Keys, Has(InsertEffect(rows, b, how), k) PROVE Has(rows, k) \/ k \in KeysOf(b)
  <2>1. CASE how \in Adding
    BY <1>4, <2>1, HasAfterInsert
  <2>2. CASE how = "mirror"
    <3>1. InsertEffect(rows, b, how) = Kept(Updated(rows, b), KeysOf(b))
      BY <2>2 DEF InsertEffect
    <3>2. Updated(rows, b) \in Contents
      BY EffectTypes
    <3>3. Has(Updated(rows, b), k)
      BY <1>4, <3>1, <3>2, KeptKeys
    <3> QED BY <3>3, HasAfter
  <2> QED BY <2>1, <2>2 DEF Hows, Adding, Inserts
<1> QED BY <1>1, <1>2, <1>3, <1>4 DEF LetsOne

\* A program of statements that are carried out one after the other, each after the keys at[n]
LEMMA LetsSteps ==
  ASSUME NEW prog \in Seq(Statements), NEW rows \in Contents, NEW at,
         \A n \in 1 .. Len(prog) :
           /\ at[n - 1] \subseteq at[n]
           /\ \A x \in Contents : (\A k \in Keys : Has(x, k) => Has(rows, k) \/ k \in at[n - 1]) =>
                LetsOne(prog[n], x, at[n])
  PROVE  Lets(prog, rows, at[Len(prog)])
<1> DEFINE N == Len(prog)
           Left(x, n) == x \in Contents /\ \A k \in Keys : Has(x, k) => Has(rows, k) \/ k \in at[n]
<1>1. N \in Nat
  BY LenProperties
<1>2. PICK f : StepByStep(f, prog, rows)
  BY OutcomesDef
<1>3. Outcomes(prog, rows) = f[N] /\ f[0] = {rows} /\ \A n \in 1 .. N : f[n] = AfterEach(prog[n], f[n - 1])
  BY <1>2 DEF StepByStep
<1>4. \A n \in 1 .. N : at[n - 1] \subseteq at[n] /\ \A x : Left(x, n - 1) => LetsOne(prog[n], x, at[n])
  OBVIOUS
<1> DEFINE S == {n \in 0 .. N : \E x \in f[n] : Left(x, n)}
<1>5. 0 \in S
  BY <1>1, <1>3
<1> HIDE DEF N
<1>6. ASSUME NEW n \in 0 .. N, n < N, n \in S PROVE n + 1 \in S
  <2>1. n + 1 \in 1 .. N /\ (n + 1) - 1 = n /\ n + 1 \in 0 .. N
    BY <1>1, <1>6
  <2>2. PICK x \in f[n] : Left(x, n)
    BY <1>6
  <2> DEFINE y == RowsAfter(prog[n + 1], x)
  <2>3. LetsOne(prog[n + 1], x, at[n + 1]) /\ at[n] \subseteq at[n + 1]
    BY <1>4, <2>1, <2>2
  <2>4. y \in f[n + 1]
    <3>1. f[n + 1] = AfterEach(prog[n + 1], f[n])
      BY <1>3, <2>1
    <3> QED BY <2>2, <2>3, <3>1 DEF AfterEach, LetsOne
  <2>5. Left(y, n + 1)
    <3> HIDE DEF y
    <3>1. y \in Contents /\ \A k \in Keys : Has(y, k) => Has(x, k) \/ k \in at[n + 1]
      BY <2>3 DEF LetsOne, y
    <3> QED BY <2>2, <2>3, <3>1
  <2> QED BY <2>1, <2>4, <2>5
<1>7. 0 .. N \subseteq S
  <2>1. \A n \in 0 .. N : n < N /\ n \in S => n + 1 \in S
    BY <1>6
  <2> HIDE DEF S
  <2> QED BY <1>1, <1>5, <2>1, UpTo
<1>8. \E x \in f[N] : Left(x, N)
  BY <1>1, <1>7
<1> QED BY <1>3, <1>8 DEF Lets, N

LEMMA OthersLet ==
  ASSUME NEW prog \in Seq(Statements), \A st \in Of(prog) : st.op # "insert", NEW rows \in Contents
  PROVE  Lets(prog, rows, {})
<1> DEFINE at == [n \in 0 .. Len(prog) |-> {}]
<1>1. Len(prog) \in Nat /\ DOMAIN prog = 1 .. Len(prog)
  BY LenProperties
<1>2. ASSUME NEW n \in 1 .. Len(prog), NEW x \in Contents PROVE LetsOne(prog[n], x, {})
  <2>1. prog[n] \in Of(prog) /\ prog[n] \in Statements
    BY <1>1, OfSeq DEF Of
  <2> QED BY <2>1, OtherLets
<1>3. \A n \in 1 .. Len(prog) : at[n - 1] = {} /\ at[n] = {}
  BY <1>1
<1>4. at[Len(prog)] = {}
  BY <1>1
<1> HIDE DEF at
<1>5. Lets(prog, rows, at[Len(prog)])
  BY <1>2, <1>3, LetsSteps
<1> QED BY <1>4, <1>5

\* One insert for each piece of a batch
LEMMA PieceFresh ==
  ASSUME NEW b \in Seq(Rows), NEW m \in 0 .. Len(b), NEW n \in 0 .. Len(b), m < n,
         NEW rows, Fresh(rows, b), NEW x,
         \A k \in Keys : Has(x, k) => Has(rows, k) \/ k \in KeysOf(SubSeq(b, 1, m))
  PROVE  /\ SubSeq(b, m + 1, n) \in Seq(Rows) /\ Fresh(x, SubSeq(b, m + 1, n))
         /\ KeysOf(SubSeq(b, 1, m)) \subseteq KeysOf(SubSeq(b, 1, n))
         /\ KeysOf(SubSeq(b, m + 1, n)) \subseteq KeysOf(SubSeq(b, 1, n))
<1> DEFINE p == SubSeq(b, m + 1, n)
           a == SubSeq(b, 1, m)
           c == SubSeq(b, 1, n)
<1>1. Len(b) \in Nat /\ DOMAIN b = 1 .. Len(b) /\ \A i \in DOMAIN b : b[i].key \in Keys
  BY BatchDomain
<1>2. m \in Nat /\ n \in Nat /\ n <= Len(b) /\ m <= n /\ 0 + 1 = 1
  BY <1>1
<1>3. p \in Seq(Rows) /\ Len(p) = n - m /\ \A i \in 1 .. n - m : p[i] = b[m + i]
  BY <1>2, StretchType
<1>4. a \in Seq(Rows) /\ Len(a) = m /\ \A i \in 1 .. m : a[i] = b[i]
  BY <1>1, <1>2
<1>5. c \in Seq(Rows) /\ Len(c) = n /\ \A i \in 1 .. n : c[i] = b[i]
  BY <1>1, <1>2
<1>6. DOMAIN p = 1 .. n - m /\ DOMAIN a = 1 .. m /\ DOMAIN c = 1 .. n
  BY <1>3, <1>4, <1>5, LenProperties
<1> HIDE DEF p, a, c
<1>7. KeysOf(a) \subseteq KeysOf(c)
  <2> SUFFICES ASSUME NEW i \in 1 .. m PROVE a[i].key \in KeysOf(c)
    BY <1>6 DEF KeysOf
  <2>1. i \in 1 .. n /\ a[i] = c[i]
    BY <1>2, <1>4, <1>5
  <2> QED BY <1>6, <2>1 DEF KeysOf
<1>8. ASSUME NEW i \in 1 .. n - m PROVE m + i \in 1 .. n /\ m + i \in DOMAIN b /\ p[i] = b[m + i]
  BY <1>1, <1>2, <1>3
<1>9. KeysOf(p) \subseteq KeysOf(c) /\ KeysOf(p) \subseteq KeysOf(b)
  <2> SUFFICES ASSUME NEW i \in 1 .. n - m PROVE p[i].key \in KeysOf(c) /\ p[i].key \in KeysOf(b)
    BY <1>6 DEF KeysOf
  <2>1. p[i] = c[m + i]
    BY <1>5, <1>8
  <2> QED BY <1>6, <1>8, <2>1 DEF KeysOf
<1>10. \A i, j \in DOMAIN b : i # j => b[i].key # b[j].key
  BY <1>1 DEF Fresh, Repeated
<1>11. Repeated(p) = {}
  <2> SUFFICES ASSUME NEW i \in 1 .. n - m, NEW j \in 1 .. n - m, i # j PROVE p[i].key # p[j].key
    BY <1>6 DEF Repeated
  <2>1. m + i # m + j
    BY <1>2
  <2> QED BY <1>8, <1>10, <2>1
<1>12. ASSUME NEW k \in KeysOf(p) PROVE ~Has(x, k)
  <2>1. k \in KeysOf(b) /\ k \in Keys
    BY <1>3, <1>9, KeysAreKeys
  <2>2. k \notin KeysOf(a)
    <3> SUFFICES ASSUME NEW j \in 1 .. m, a[j].key = k PROVE FALSE
      BY <1>6 DEF KeysOf
    <3>1. PICK i \in 1 .. n - m : p[i].key = k
      BY <1>6 DEF KeysOf
    <3>2. j \in DOMAIN b /\ j # m + i
      BY <1>1, <1>2
    <3> QED BY <1>4, <1>8, <1>10, <3>1, <3>2
  <2> QED BY <2>1, <2>2 DEF Fresh, a
<1>13. Fresh(x, p)
  BY <1>11, <1>12 DEF Fresh
<1> QED BY <1>3, <1>7, <1>9, <1>13 DEF p, a, c

LEMMA EachLets ==
  ASSUME NEW on \in Sessions, NEW b \in Seq(Rows), NEW n \in Nat \ {0}, NEW how \in Hows,
         NEW rows \in Contents, Fresh(rows, b)
  PROVE  Lets(InsertEach(on, b, n, how), rows, KeysOf(b))
<1> DEFINE prog == InsertEach(on, b, n, how)
           pieces == Pieces(b, n)
<1>1. PICK l \in Nat : \E cut \in [0 .. l -> 0 .. Len(b)] :
           /\ pieces \in Seq(Seq(Rows)) /\ DOMAIN pieces = 1 .. l
           /\ cut[0] = 0 /\ cut[l] = Len(b)
           /\ \A m \in 1 .. l : cut[m - 1] < cut[m] /\ pieces[m] = SubSeq(b, cut[m - 1] + 1, cut[m])
  BY PiecesCut
<1>2. PICK cut \in [0 .. l -> 0 .. Len(b)] :
           /\ pieces \in Seq(Seq(Rows)) /\ DOMAIN pieces = 1 .. l
           /\ cut[0] = 0 /\ cut[l] = Len(b)
           /\ \A m \in 1 .. l : cut[m - 1] < cut[m] /\ pieces[m] = SubSeq(b, cut[m - 1] + 1, cut[m])
  BY <1>1
<1>3. prog \in Seq(Statements)
  BY EachTypes
<1>4. prog = [i \in DOMAIN pieces |-> Insert(on, pieces[i], how)]
  BY DEF InsertEach
<1>5. Len(prog) = l /\ \A m \in 1 .. l : prog[m] = Insert(on, pieces[m], how)
  <2>1. DOMAIN prog = 1 .. l
    BY <1>2, <1>4
  <2>2. Len(prog) \in Nat /\ DOMAIN prog = 1 .. Len(prog)
    BY <1>3, LenProperties
  <2> HIDE DEF prog, pieces
  <2>3. Len(prog) = l
    BY <2>1, <2>2
  <2> QED BY <1>2, <1>4, <2>3
<1> DEFINE at == [m \in 0 .. l |-> KeysOf(SubSeq(b, 1, cut[m]))]
<1> HIDE DEF prog, pieces
<1>6. ASSUME NEW m \in 1 .. l
      PROVE  /\ at[m - 1] \subseteq at[m]
             /\ \A x \in Contents : (\A k \in Keys : Has(x, k) => Has(rows, k) \/ k \in at[m - 1]) =>
                  LetsOne(prog[m], x, at[m])
  <2> DEFINE u == cut[m - 1]
             v == cut[m]
             p == SubSeq(b, u + 1, v)
  <2>1. m - 1 \in 0 .. l /\ m \in 0 .. l
    OBVIOUS
  <2>2. u \in 0 .. Len(b) /\ v \in 0 .. Len(b) /\ u < v /\ pieces[m] = p
    BY <1>2, <2>1
  <2>3. at[m - 1] = KeysOf(SubSeq(b, 1, u)) /\ at[m] = KeysOf(SubSeq(b, 1, v))
    BY <2>1
  <2> HIDE DEF u, v, at
  <2>4. /\ p \in Seq(Rows)
        /\ KeysOf(SubSeq(b, 1, u)) \subseteq KeysOf(SubSeq(b, 1, v))
        /\ KeysOf(p) \subseteq KeysOf(SubSeq(b, 1, v))
    <3>1. \A k \in Keys : Has(rows, k) => Has(rows, k) \/ k \in KeysOf(SubSeq(b, 1, u))
      OBVIOUS
    <3>2. /\ SubSeq(b, u + 1, v) \in Seq(Rows)
          /\ KeysOf(SubSeq(b, 1, u)) \subseteq KeysOf(SubSeq(b, 1, v))
          /\ KeysOf(SubSeq(b, u + 1, v)) \subseteq KeysOf(SubSeq(b, 1, v))
      BY ONLY <2>2, <3>1, PieceFresh, b \in Seq(Rows), Fresh(rows, b)
    <3> QED BY <3>2
  <2>5. ASSUME NEW x \in Contents, \A k \in Keys : Has(x, k) => Has(rows, k) \/ k \in at[m - 1]
        PROVE  LetsOne(prog[m], x, at[m])
    <3>0. \A k \in Keys : Has(x, k) => Has(rows, k) \/ k \in KeysOf(SubSeq(b, 1, u))
      BY <2>3, <2>5
    <3> HIDE DEF p
    <3>a. u \in 0 .. Len(b) /\ v \in 0 .. Len(b) /\ u < v
      BY <2>2
    <3>b. SubSeq(b, u + 1, v) \in Seq(Rows) /\ Fresh(x, SubSeq(b, u + 1, v))
      BY ONLY <3>a, <3>0, PieceFresh, b \in Seq(Rows), Fresh(rows, b), x \in Contents
    <3>1. Fresh(x, p)
      BY <3>b DEF p
    <3>2. LetsOne(Insert(on, p, how), x, KeysOf(p))
      BY <2>4, <3>1, InsertLets
    <3>3. prog[m] = Insert(on, p, how)
      BY <1>5, <2>2
    <3>4. KeysOf(p) \subseteq at[m]
      BY <2>3, <2>4
    <3> QED BY <3>2, <3>3, <3>4 DEF LetsOne
  <2> QED BY <2>3, <2>4, <2>5
<1>7. at[Len(prog)] = KeysOf(b)
  <2>1. SubSeq(b, 1, Len(b)) = b
    <3>1. Len(b) \in Nat /\ Len(SubSeq(b, 1, Len(b))) = Len(b) /\ SubSeq(b, 1, Len(b)) \in Seq(Rows)
      BY LenProperties
    <3>2. \A i \in 1 .. Len(b) : SubSeq(b, 1, Len(b))[i] = b[i]
      BY <3>1
    <3> QED BY <3>1, <3>2, SeqEqual
  <2>2. l \in 0 .. l
    OBVIOUS
  <2>3. at[l] = KeysOf(SubSeq(b, 1, cut[l]))
    BY <2>2
  <2> HIDE DEF at
  <2> QED BY <1>2, <1>5, <2>1, <2>3
<1> HIDE DEF at
<1>8. Lets(prog, rows, at[Len(prog)])
  BY <1>3, <1>5, <1>6, LetsSteps
<1> QED BY <1>7, <1>8 DEF prog

-----------------------------------------------------------------------------
\* A program that is carried out wherever the keys of b are new
Accepts(prog, b) == \A y \in Contents : Fresh(y, b) => Lets(prog, y, KeysOf(b))

\* What a program does to a table, apart from inserts; and those that stage no batch, or one
Calm(prog, c) ==
  /\ prog \in Seq(Statements)
  /\ \A st \in Of(prog) : Proper(c, st) /\ ~Ddl(st) /\ st.op # "insert"

NoStage(prog) == \A st \in Of(prog) : ~Is(st, "stage", "batch")

OneStage(prog) ==
  \A i, j \in DOMAIN prog : Is(prog[i], "stage", "batch") /\ Is(prog[j], "stage", "batch") => i = j

\* A program that sends the rows b
Sending(prog, c, b) ==
  /\ prog \in Seq(Statements)
  /\ \A st \in Of(prog) : Proper(c, st) /\ ~Ddl(st)
  /\ OneStage(prog)
  /\ Accepts(prog, b)

LEMMA CalmAccepts ==
  ASSUME NEW c, NEW prog, Calm(prog, c), NEW b
  PROVE  Accepts(prog, b)
<1>1. \A y \in Contents : Lets(prog, y, {})
  BY OthersLet DEF Calm
<1> QED BY <1>1 DEF Accepts, Lets

LEMMA AcceptsAround ==
  ASSUME NEW p \in Seq(Statements), NEW q \in Seq(Statements), NEW b \in Seq(Rows),
         \A st \in Of(p) : st.op # "insert", Accepts(q, b)
  PROVE  Accepts(p \o q, b) /\ Accepts(q \o p, b)
<1>1. ASSUME NEW y \in Contents, Fresh(y, b) PROVE Lets(p \o q, y, KeysOf(b))
  <2>1. Lets(p, y, {})
    BY OthersLet
  <2>2. PICK x \in Outcomes(p, y) : x \in Contents /\ \A k \in Keys : Has(x, k) => Has(y, k)
    BY <2>1 DEF Lets
  <2>3. KeysOf(b) \subseteq Keys
    BY KeysAreKeys
  <2>4. Fresh(x, b)
    BY <1>1, <2>2, <2>3 DEF Fresh
  <2>5. PICK z \in Outcomes(q, x) : z \in Contents /\ \A k \in Keys : Has(z, k) => Has(x, k) \/ k \in KeysOf(b)
    BY <2>2, <2>4 DEF Accepts, Lets
  <2>6. z \in Outcomes(p \o q, y)
    BY <2>2, <2>5, OutcomesConcat
  <2> QED BY <2>2, <2>5, <2>6 DEF Lets
<1>2. ASSUME NEW y \in Contents, Fresh(y, b) PROVE Lets(q \o p, y, KeysOf(b))
  <2>1. PICK x \in Outcomes(q, y) : x \in Contents /\ \A k \in Keys : Has(x, k) => Has(y, k) \/ k \in KeysOf(b)
    BY <1>2 DEF Accepts, Lets
  <2>2. Lets(p, x, {})
    BY <2>1, OthersLet
  <2>3. PICK z \in Outcomes(p, x) : z \in Contents /\ \A k \in Keys : Has(z, k) => Has(x, k)
    BY <2>2 DEF Lets
  <2>4. z \in Outcomes(q \o p, y)
    BY <2>1, <2>3, OutcomesConcat
  <2> QED BY <2>1, <2>3, <2>4 DEF Lets
<1> QED BY <1>1, <1>2 DEF Accepts

LEMMA OneStageConcat ==
  ASSUME NEW p \in Seq(Statements), NEW q \in Seq(Statements), OneStage(p), OneStage(q),
         NoStage(p) \/ NoStage(q)
  PROVE  OneStage(p \o q)
<1> DEFINE r == p \o q
           n == Len(p)
<1>1. /\ n \in Nat /\ DOMAIN p = 1 .. n /\ DOMAIN q = 1 .. Len(q) /\ Len(q) \in Nat /\ DOMAIN r = 1 .. n + Len(q)
      /\ \A i \in DOMAIN r : (i \in DOMAIN p /\ r[i] = p[i]) \/ (i - n \in DOMAIN q /\ r[i] = q[i - n])
  BY ConcatIndices
<1> HIDE DEF r, n
<1>2. \A i \in DOMAIN p : p[i] \in Of(p)
  BY DEF Of
<1>3. \A i \in DOMAIN q : q[i] \in Of(q)
  BY DEF Of
<1> SUFFICES ASSUME NEW i \in DOMAIN r, NEW j \in DOMAIN r,
                    Is(r[i], "stage", "batch"), Is(r[j], "stage", "batch")
             PROVE  i = j
  BY DEF OneStage, r
<1>4. i \in Nat /\ j \in Nat
  BY <1>1
<1>5. CASE NoStage(p)
  <2>1. i - n \in DOMAIN q /\ r[i] = q[i - n]
    BY <1>1, <1>2, <1>5 DEF NoStage
  <2>2. j - n \in DOMAIN q /\ r[j] = q[j - n]
    BY <1>1, <1>2, <1>5 DEF NoStage
  <2>3. i - n = j - n
    BY <2>1, <2>2 DEF OneStage
  <2> QED BY <1>1, <1>4, <2>3
<1>6. CASE NoStage(q)
  <2>1. i \in DOMAIN p /\ r[i] = p[i]
    BY <1>1, <1>3, <1>6 DEF NoStage
  <2>2. j \in DOMAIN p /\ r[j] = p[j]
    BY <1>1, <1>3, <1>6 DEF NoStage
  <2> QED BY <2>1, <2>2 DEF OneStage
<1> QED BY <1>5, <1>6

LEMMA SendingAround ==
  ASSUME NEW c, NEW b \in Seq(Rows), NEW p, Calm(p, c), OneStage(p), NEW q, Sending(q, c, b),
         NoStage(p) \/ NoStage(q)
  PROVE  Sending(p \o q, c, b) /\ Sending(q \o p, c, b)
<1>1. p \in Seq(Statements) /\ q \in Seq(Statements)
  BY DEF Calm, Sending
<1>2. Accepts(p \o q, b) /\ Accepts(q \o p, b)
  BY <1>1, AcceptsAround DEF Calm, Sending
<1>3. OneStage(p \o q) /\ OneStage(q \o p)
  BY <1>1, OneStageConcat DEF Sending
<1>4. Of(p \o q) = Of(p) \cup Of(q) /\ Of(q \o p) = Of(p) \cup Of(q)
      /\ p \o q \in Seq(Statements) /\ q \o p \in Seq(Statements)
  BY <1>1, OfConcat
<1>5. \A st \in Of(p) \cup Of(q) : Proper(c, st) /\ ~Ddl(st)
  BY DEF Calm, Sending
<1> QED BY <1>2, <1>3, <1>4, <1>5 DEF Sending

LEMMA CalmConcat ==
  ASSUME NEW c, NEW p, Calm(p, c), NEW q, Calm(q, c)
  PROVE  Calm(p \o q, c) /\ (NoStage(p) /\ NoStage(q) => NoStage(p \o q))
<1>1. Of(p \o q) = Of(p) \cup Of(q) /\ p \o q \in Seq(Statements)
  BY OfConcat DEF Calm
<1> QED BY <1>1 DEF Calm, NoStage

LEMMA NoStageOne == ASSUME NEW p, NoStage(p) PROVE OneStage(p)
  BY DEF NoStage, OneStage, Of

LEMMA CalmSends ==
  ASSUME NEW c, NEW p, Calm(p, c), OneStage(p), NEW b
  PROVE  Sending(p, c, b)
  BY CalmAccepts DEF Sending, Calm

\* Where a program sends the statements that read or change the table
InSession(c, on) == DdlInRun(c) /\ ~SelfLocks(c) => on = "run"

LEMMA CalmOne ==
  ASSUME NEW c, NEW on \in Sessions, NEW b \in Seq(Rows)
  PROVE  /\ on # "auto" => Calm(<<Begin(on)>>, c)
         /\ Calm(<<Commit(on)>>, c) /\ Calm(<<Stage(on, b)>>, c)
         /\ InSession(c, on) => /\ Calm(<<Truncate(on)>>, c) /\ Calm(<<Keep(on, b)>>, c)
                                /\ Calm(<<Clone(on)>>, c) /\ Calm(<<Bulk(on, b)>>, c)
         /\ \A st \in {Begin(on), Commit(on), Truncate(on), Keep(on, b), Clone(on), Bulk(on, b)} : NoStage(<<st>>)
         /\ on # "batch" => NoStage(<<Stage(on, b)>>)
         /\ OneStage(<<Stage(on, b)>>)
         /\ \A st \in {Begin(on), Commit(on), Stage(on, b)} : ~NeedsTable(st)
<1> DEFINE all == {Begin(on), Commit(on), Truncate(on), Keep(on, b), Clone(on), Bulk(on, b), Stage(on, b)}
<1>1. all \subseteq Statements
  BY StatementTypes DEF Hows
<1>2. \A st \in all : Of(<<st>>) = {st}
  BY OfParts
<1>3. \A st \in all : <<st>> \in Seq(Statements)
  BY <1>1
<1>0. /\ Begin(on).op = "begin" /\ Commit(on).op = "commit" /\ Truncate(on).op = "truncate"
      /\ Keep(on, b).op = "keep" /\ Clone(on).op = "clone" /\ Bulk(on, b).op = "bulk" /\ Stage(on, b).op = "stage"
  BY DEF Begin, Commit, Truncate, Keep, Clone, Bulk, Stage, Stmt
<1>a. /\ Begin(on).on = on /\ Commit(on).on = on /\ Truncate(on).on = on
      /\ Keep(on, b).on = on /\ Clone(on).on = on /\ Bulk(on, b).on = on /\ Stage(on, b).on = on
  BY DEF Begin, Commit, Truncate, Keep, Clone, Bulk, Stage, Stmt
<1>4. \A st \in all : st.on = on /\ ~Ddl(st) /\ st.op # "insert"
  BY <1>0, <1>a DEF Ddl
<1>5. \A st \in all : st.op # "begin" /\ (InSession(c, on) \/ (~NeedsTable(st) /\ ~Changes(st))) => Proper(c, st)
  <2> HIDE DEF all
  <2> QED BY <1>4 DEF Proper, InSession
<1>6. on # "auto" => Proper(c, Begin(on))
  BY <1>0, <1>a DEF Proper, Ddl, NeedsTable, Changes
<1>7. \A st \in {Commit(on), Stage(on, b)} : st.op # "begin" /\ ~NeedsTable(st) /\ ~Changes(st)
  BY <1>0 DEF NeedsTable, Changes
<1>8. \A st \in {Truncate(on), Keep(on, b), Clone(on), Bulk(on, b)} : st.op # "begin" /\ st.op # "stage"
  BY <1>0
<1>9. Begin(on).op # "stage" /\ Commit(on).op # "stage" /\ ~NeedsTable(Begin(on))
  BY <1>0 DEF NeedsTable
<1>10. Begin(on) \in all /\ Commit(on) \in all /\ Truncate(on) \in all /\ Keep(on, b) \in all
       /\ Clone(on) \in all /\ Bulk(on, b) \in all /\ Stage(on, b) \in all
  OBVIOUS
<1>11. OneStage(<<Stage(on, b)>>)
  <2>1. DOMAIN <<Stage(on, b)>> = {1}
    OBVIOUS
  <2> QED BY <2>1 DEF OneStage
<1> HIDE DEF all
<1>12. \A st \in all : Proper(c, st) => Calm(<<st>>, c)
  BY <1>2, <1>3, <1>4 DEF Calm
<1>13. \A st \in all : st.op # "stage" \/ on # "batch" => NoStage(<<st>>)
  BY <1>2, <1>4 DEF NoStage, Is
<1>14. on # "auto" => Calm(<<Begin(on)>>, c)
  BY <1>6, <1>10, <1>12
<1>15. Calm(<<Commit(on)>>, c) /\ Calm(<<Stage(on, b)>>, c)
  BY <1>5, <1>7, <1>10, <1>12
<1>16. InSession(c, on) => /\ Calm(<<Truncate(on)>>, c) /\ Calm(<<Keep(on, b)>>, c)
                           /\ Calm(<<Clone(on)>>, c) /\ Calm(<<Bulk(on, b)>>, c)
  BY <1>5, <1>8, <1>10, <1>12
<1>17. \A st \in {Begin(on), Commit(on), Truncate(on), Keep(on, b), Clone(on), Bulk(on, b)} : NoStage(<<st>>)
  BY <1>8, <1>9, <1>10, <1>13
<1> QED BY <1>7, <1>9, <1>10, <1>11, <1>13, <1>14, <1>15, <1>16, <1>17

LEMMA CalmEmpty == ASSUME NEW c PROVE Calm(<<>>, c) /\ NoStage(<<>>) /\ OneStage(<<>>)
  BY OfParts, NoStageOne, EmptySeq DEF Calm, NoStage

\* How a program inserts: append, where no key can fail
Inserting(c, how) == how \in Hows /\ (~c.pk => how = "append")

LEMMA HowsInsert ==
  ASSUME NEW c \in Configs
  PROVE  /\ Inserting(c, PlainHow(c)) /\ Inserting(c, "append")
         /\ c.strategy \in Keyed => \A how \in Hows : Inserting(c, how)
<1>1. c.strategy \in Keyed => c.pk
  BY ConfigTypes
<1>2. "append" \in Hows /\ "unique" \in Hows
  BY DEF Hows
<1> QED BY <1>1, <1>2 DEF Inserting, PlainHow

LEMMA SendingInsert ==
  ASSUME NEW c, NEW on \in Sessions, InSession(c, on), NEW b \in Seq(Rows), NEW how, Inserting(c, how)
  PROVE  /\ Sending(<<Insert(on, b, how)>>, c, b) /\ NoStage(<<Insert(on, b, how)>>)
         /\ \A n \in Nat \ {0} : Sending(InsertEach(on, b, n, how), c, b) /\ NoStage(InsertEach(on, b, n, how))
<1>1. ASSUME NEW x \in Seq(Rows)
      PROVE  LET st == Insert(on, x, how)
             IN  st \in Statements /\ Proper(c, st) /\ ~Ddl(st) /\ ~Is(st, "stage", "batch")
  <2>1. Insert(on, x, how) \in Statements
    BY <1>1, StatementTypes DEF Inserting
  <2> QED BY <2>1 DEF Inserting, InSession, Proper, Insert, Stmt, Ddl, Is
<1>2. ASSUME NEW prog \in Seq(Statements), Accepts(prog, b),
             \A st \in Of(prog) : \E x \in Seq(Rows) : st = Insert(on, x, how)
      PROVE  Sending(prog, c, b) /\ NoStage(prog)
  <2>1. \A st \in Of(prog) : Proper(c, st) /\ ~Ddl(st) /\ ~Is(st, "stage", "batch")
    BY <1>1, <1>2
  <2>2. NoStage(prog)
    BY <2>1 DEF NoStage
  <2> QED BY <1>2, <2>1, <2>2, NoStageOne DEF Sending
<1>3. Sending(<<Insert(on, b, how)>>, c, b) /\ NoStage(<<Insert(on, b, how)>>)
  <2> DEFINE st == Insert(on, b, how)
  <2>1. st \in Statements
    BY <1>1
  <2>2. \A y \in Contents : Fresh(y, b) => LetsOne(st, y, KeysOf(b))
    BY InsertLets DEF Inserting
  <2> HIDE DEF st
  <2>3. \A y \in Contents : LetsOne(st, y, KeysOf(b)) => Lets(<<st>>, y, KeysOf(b))
    <3> SUFFICES ASSUME NEW y \in Contents, LetsOne(st, y, KeysOf(b)) PROVE Lets(<<st>>, y, KeysOf(b))
      OBVIOUS
    <3>1. Outcomes(<<st>>, y) = {RowsAfter(st, y)}
      BY <2>1, OutcomesOne DEF LetsOne
    <3> QED BY <3>1 DEF Lets, LetsOne
  <2>4. Accepts(<<st>>, b)
    BY <2>2, <2>3 DEF Accepts
  <2>5. Of(<<st>>) = {st} /\ <<st>> \in Seq(Statements)
    BY <2>1, OfParts
  <2>6. \A x \in Of(<<st>>) : \E r \in Seq(Rows) : x = Insert(on, r, how)
    BY <2>5 DEF st
  <2> QED BY <1>2, <2>4, <2>5, <2>6 DEF st
<1>4. ASSUME NEW n \in Nat \ {0}
      PROVE  Sending(InsertEach(on, b, n, how), c, b) /\ NoStage(InsertEach(on, b, n, how))
  <2> DEFINE prog == InsertEach(on, b, n, how)
  <2>1. prog \in Seq(Statements) /\ \A i \in DOMAIN prog : \E x \in Seq(Rows) : prog[i] = Insert(on, x, how)
    BY EachTypes DEF Inserting
  <2>2. Accepts(prog, b)
    BY EachLets DEF Accepts, Inserting
  <2> HIDE DEF prog
  <2>3. \A st \in Of(prog) : \E x \in Seq(Rows) : st = Insert(on, x, how)
    BY <2>1 DEF Of
  <2> QED BY <1>2, <2>1, <2>2, <2>3 DEF prog
<1> QED BY <1>3, <1>4

LEMMA CalmKeeps ==
  ASSUME NEW c, NEW on \in Sessions, InSession(c, on), NEW b \in Seq(Rows), NEW n \in Nat \ {0}
  PROVE  Calm(KeepEach(on, b, n), c) /\ NoStage(KeepEach(on, b, n))
<1> DEFINE prog == KeepEach(on, b, n)
<1>1. prog \in Seq(Statements) /\ \A i \in DOMAIN prog : \E x \in Seq(Rows) : prog[i] = Keep(on, x)
  <2>1. "append" \in Hows
    BY DEF Hows
  <2> QED BY <2>1, EachTypes
<1> HIDE DEF prog
<1>2. ASSUME NEW st \in Of(prog) PROVE Proper(c, st) /\ ~Ddl(st) /\ st.op # "insert" /\ ~Is(st, "stage", "batch")
  <2>1. PICK x \in Seq(Rows) : st = Keep(on, x)
    BY <1>1 DEF Of
  <2> QED BY <2>1 DEF InSession, Proper, Keep, Stmt, Ddl, Is
<1> QED BY <1>1, <1>2 DEF Calm, NoStage, prog

\* A program that leaves a table, unless it is to use the one there is
Readies(prog, c) ==
  /\ prog \in Seq(Statements)
  /\ \A st \in Of(prog) : Proper(c, st) /\ st.op # "insert"
  /\ NoStage(prog)
  /\ IF c.mode = "use_existing" THEN \A st \in Of(prog) : ~Ddl(st) ELSE Creates(prog)

LEMMA ReadiesAround ==
  ASSUME NEW c, NEW m, Readies(m, c), NEW p, Calm(p, c), NoStage(p)
  PROVE  /\ Readies(m \o p, c)
         /\ (\A st \in Of(p) : ~NeedsTable(st)) => Readies(p \o m, c)
<1>1. m \in Seq(Statements) /\ p \in Seq(Statements)
  BY DEF Calm, Readies
<1>2. Of(p \o m) = Of(p) \cup Of(m) /\ Of(m \o p) = Of(p) \cup Of(m)
      /\ p \o m \in Seq(Statements) /\ m \o p \in Seq(Statements)
  BY <1>1, OfConcat
<1>3. Creates(m) => Creates(m \o p)
  BY <1>1, CreatesAfter DEF Calm
<1>4. (\A st \in Of(p) : ~NeedsTable(st)) /\ Creates(m) => Creates(p \o m)
  BY <1>1, CreatesBefore
<1>5. Readies(m \o p, c)
  BY <1>2, <1>3 DEF Readies, Calm, NoStage
<1>6. (\A st \in Of(p) : ~NeedsTable(st)) => Readies(p \o m, c)
  BY <1>2, <1>4 DEF Readies, Calm, NoStage
<1> QED BY <1>5, <1>6

LEMMA ReadiesMode ==
  ASSUME NEW c \in Configs, NEW on \in Sessions, InSession(c, on), ~DdlInRun(c) => on = "auto"
  PROVE  Readies(ModeDdl(c.mode, on), c)
<1> DEFINE prog == ModeDdl(c.mode, on)
<1>1. prog \in Seq(Statements) /\ \A st \in Of(prog) : st.on = on /\ st.op \in {"drop", "create"}
  BY ModeDdlFacts
<1>2. c.mode = "use_existing" => Of(prog) = {}
  BY OfParts DEF ModeDdl
<1>3. c.mode # "use_existing" => Creates(prog)
  <2> DEFINE d == Drop(on)
             e == Create(on)
  <2>1. d.op = "drop" /\ e.op = "create"
    BY DEF Drop, Create, Stmt
  <2>2. c.mode \in Modes
    BY ConfigTypes
  <2>3. CASE c.mode = "create_if_not_exists"
    <3>1. prog = <<e>>
      BY <2>3 DEF ModeDdl
    <3> HIDE DEF prog, e
    <3>2. DOMAIN prog = {1} /\ prog[1] = e /\ Len(prog) = 1
      BY <3>1
    <3>3. 1 \in DOMAIN prog /\ 1 .. 1 - 1 = {} /\ 1 + 1 .. Len(prog) = {}
      BY <3>2
    <3> QED BY <2>1, <3>2, <3>3 DEF Creates
  <2>4. CASE c.mode = "drop_and_replace"
    <3>1. prog = <<d, e>>
      BY <2>4 DEF ModeDdl
    <3> HIDE DEF prog, d, e
    <3>2. DOMAIN prog = 1 .. 2 /\ prog[2] = e /\ prog[1] = d /\ Len(prog) = 2
      BY <3>1
    <3>3. 2 \in DOMAIN prog /\ 1 .. 2 - 1 = {1} /\ 2 + 1 .. Len(prog) = {}
      BY <3>2
    <3>4. ~NeedsTable(d)
      BY <2>1 DEF NeedsTable
    <3> QED BY <2>1, <3>2, <3>3, <3>4 DEF Creates
  <2> QED BY <2>2, <2>3, <2>4 DEF Modes
<1> HIDE DEF prog
<1>4. ASSUME NEW st \in Of(prog) PROVE Proper(c, st) /\ st.op # "insert" /\ ~Is(st, "stage", "batch")
  BY <1>1 DEF Proper, InSession, Is, NeedsTable
<1> QED BY <1>1, <1>2, <1>3, <1>4 DEF Readies, NoStage, prog

LEMMA ReadiesTruncate ==
  ASSUME NEW c \in Configs, NEW m, Readies(m, c), NEW on \in Sessions, InSession(c, on), NEW cond \in BOOLEAN
  PROVE  Readies(m \o (IF cond THEN <<Truncate(on)>> ELSE <<>>), c)
<1> DEFINE t == IF cond THEN <<Truncate(on)>> ELSE <<>>
<1>1. <<>> \in Seq(Rows)
  BY EmptySeq
<1>2. Calm(<<Truncate(on)>>, c) /\ NoStage(<<Truncate(on)>>) /\ Calm(<<>>, c) /\ NoStage(<<>>)
  BY <1>1, CalmOne, CalmEmpty
<1>3. Calm(t, c) /\ NoStage(t)
  BY <1>2
<1> HIDE DEF t
<1>4. Readies(m \o t, c)
  BY <1>3, ReadiesAround
<1> QED BY <1>4 DEF t

LEMMA ReadiesBegin ==
  ASSUME NEW c \in Configs, NEW m, Readies(m, c)
  PROVE  Readies(m \o <<Begin("run")>>, c) /\ Readies(<<Begin("run")>> \o m, c)
<1>1. <<>> \in Seq(Rows) /\ "run" \in Sessions /\ "run" # "auto"
  BY EmptySeq DEF Sessions
<1> DEFINE p == <<Begin("run")>>
<1>2. Calm(p, c) /\ NoStage(p) /\ ~NeedsTable(Begin("run"))
  BY <1>1, CalmOne
<1>3. Of(p) = {Begin("run")}
  BY OfParts
<1> HIDE DEF p
<1>4. Readies(m \o p, c) /\ Readies(p \o m, c)
  BY <1>2, <1>3, ReadiesAround
<1> QED BY <1>4 DEF p

\* The DDL in autocommit mode and a TRUNCATE after it
LEMMA ReadiesPlain ==
  ASSUME NEW c \in Configs, ~DdlInRun(c), NEW cond \in BOOLEAN
  PROVE  Readies(ModeDdl(c.mode, "auto") \o (IF cond THEN <<Truncate("auto")>> ELSE <<>>), c)
<1> DEFINE m == ModeDdl(c.mode, "auto")
<1>1. InSession(c, "auto") /\ "auto" \in Sessions
  BY DEF InSession, Sessions
<1>2. Readies(m, c)
  BY <1>1, ReadiesMode
<1> HIDE DEF m
<1>3. Readies(m \o (IF cond THEN <<Truncate("auto")>> ELSE <<>>), c)
  BY <1>1, <1>2, ReadiesTruncate
<1> QED BY <1>3 DEF m

\* The preparations of MySQL, Oracle and Databricks
LEMMA PlainReadies ==
  ASSUME NEW c \in Configs, c.driver \notin {"postgres", "tiberius"}
  PROVE  Readies(MyPrepare(c), c) /\ Readies(OraPrepare(c), c) /\ Readies(DbxPrepare(c), c)
<1>1. ~DdlInRun(c) /\ Truncates(c) \in BOOLEAN
  BY DEF DdlInRun, Truncates
<1> QED BY <1>1, ReadiesPlain DEF MyPrepare, OraPrepare, DbxPrepare

LEMMA PgReadies == ASSUME NEW c \in Configs, c.driver = "postgres" PROVE Readies(PgPrepare(c), c)
<1>1. "run" \in Sessions /\ InSession(c, "run")
  BY DEF Sessions, InSession
<1>2. CASE c.mode = "drop_and_replace"
  <2> DEFINE m == ModeDdl(c.mode, "run")
             p == <<Begin("run")>> \o m
  <2>1. DdlInRun(c)
    BY <1>2 DEF DdlInRun
  <2>2. Readies(m, c)
    BY <1>1, <2>1, ReadiesMode
  <2> HIDE DEF m
  <2>3. Readies(p, c)
    BY <2>2, ReadiesBegin
  <2>4. PgPrepare(c) = p \o <<>>
    BY <1>2 DEF PgPrepare, Truncates, m
  <2>5. p \o <<>> = p
    BY <2>3, ConcatEmptySeq DEF Readies
  <2> HIDE DEF p
  <2> QED BY <2>3, <2>4, <2>5
<1>3. CASE c.mode # "drop_and_replace"
  <2> DEFINE m == ModeDdl(c.mode, "auto")
             p == <<Begin("run")>>
             q == <<Truncate("run")>>
  <2>1. ~DdlInRun(c)
    BY <1>3 DEF DdlInRun
  <2>2. "auto" \in Sessions /\ InSession(c, "auto") /\ <<>> \in Seq(Rows)
    BY <2>1, EmptySeq DEF InSession, Sessions
  <2>3. Readies(m, c)
    BY <2>1, <2>2, ReadiesMode
  <2>4. Calm(p, c) /\ NoStage(p) /\ Calm(q, c) /\ NoStage(q)
    BY <1>1, <2>2, CalmOne
  <2>5. <<Begin("run"), Truncate("run")>> = p \o q
    BY Pairs
  <2>6. PgPrepare(c) = m \o (IF Truncates(c) THEN p \o q ELSE <<>>)
    BY <1>3, <2>5 DEF PgPrepare
  <2> HIDE DEF m, p, q
  <2>7. Calm(p \o q, c) /\ NoStage(p \o q)
    BY <2>4, CalmConcat
  <2>8. Readies(m \o (p \o q), c) /\ Readies(m \o <<>>, c)
    BY <2>3, <2>7, CalmEmpty, ReadiesAround
  <2> QED BY <2>6, <2>8
<1> QED BY <1>2, <1>3

LEMMA MsReadies ==
  ASSUME NEW c \in Configs, c.driver \in {"tiberius", "odbc", "bcp"} PROVE Readies(MsPrepare(c), c)
<1>1. CASE c.driver = "tiberius"
  <2> DEFINE m == ModeDdl(c.mode, "run")
             p == <<Begin("run")>> \o m
  <2>1. "run" \in Sessions /\ InSession(c, "run") /\ DdlInRun(c) /\ Truncates(c) \in BOOLEAN
    BY <1>1 DEF Sessions, InSession, DdlInRun, Truncates
  <2>2. Readies(m, c)
    BY <2>1, ReadiesMode
  <2> HIDE DEF m
  <2>3. Readies(p, c)
    BY <2>2, ReadiesBegin
  <2>4. MsPrepare(c) = p \o (IF Truncates(c) THEN <<Truncate("run")>> ELSE <<>>)
    BY <1>1 DEF MsPrepare, TibPrepare, m
  <2> HIDE DEF p
  <2>5. Readies(p \o (IF Truncates(c) THEN <<Truncate("run")>> ELSE <<>>), c)
    BY <2>1, <2>3, ReadiesTruncate
  <2> QED BY <2>4, <2>5
<1>2. CASE c.driver = "odbc"
  <2> DEFINE p == ModeDdl(c.mode, "auto") \o (IF Truncates(c) THEN <<Truncate("auto")>> ELSE <<>>)
  <2>1. ~DdlInRun(c) /\ Truncates(c) \in BOOLEAN
    BY <1>2 DEF DdlInRun, Truncates
  <2>2. Readies(p, c)
    BY <2>1, ReadiesPlain
  <2>3. MsPrepare(c) = p \o <<Begin("run")>>
    BY <1>2 DEF MsPrepare, OdbcPrepare
  <2> HIDE DEF p
  <2> QED BY <2>2, <2>3, ReadiesBegin
<1>3. CASE c.driver = "bcp"
  <2> DEFINE cond == c.strategy = "truncate" /\ ~MsStaged(c)
             p == ModeDdl(c.mode, "auto") \o (IF cond THEN <<Truncate("auto")>> ELSE <<>>)
             q == IF MsStaged(c) THEN <<Stage("auto", <<>>)>> ELSE <<>>
  <2>1. ~DdlInRun(c) /\ cond \in BOOLEAN
    BY <1>3 DEF DdlInRun
  <2> HIDE DEF cond
  <2>2. Readies(p, c)
    BY <2>1, ReadiesPlain
  <2>3. Calm(q, c) /\ NoStage(q)
    <3>1. "auto" \in Sessions /\ "auto" # "batch" /\ <<>> \in Seq(Rows)
      BY EmptySeq DEF Sessions
    <3>2. Calm(<<Stage("auto", <<>>)>>, c) /\ NoStage(<<Stage("auto", <<>>)>>)
      BY <3>1, CalmOne
    <3> QED BY <3>2, CalmEmpty
  <2>4. MsPrepare(c) = p \o q
    BY <1>3 DEF MsPrepare, BcpPrepare, cond
  <2> HIDE DEF p, q
  <2> QED BY <2>2, <2>3, <2>4, ReadiesAround
<1> QED BY <1>1, <1>2, <1>3

-----------------------------------------------------------------------------
\* A write leaves a table if it is the first one, and then sends what was held back and the
\* batch, or holds the batch back as well.
Welcomes(c, s, s2, b, P, R) ==
  /\ IF s.prepared THEN P = <<>> ELSE Readies(P, c) /\ Prepares(P, c)
  /\ \/ Held(s2) = <<>> /\ Sending(R, c, Held(s) \o b)
     \/ Held(s2) = Held(s) \o b /\ Calm(R, c) /\ OneStage(R)

LEMMA PgSends ==
  ASSUME NEW c \in Configs, c.driver = "postgres", NEW o, NEW b \in Seq(Rows)
  PROVE  Sending(IF c.strategy \notin Keyed THEN PgCopy(c, o, b)
                 ELSE IF c.staged THEN PgStagedMerge(c, b) ELSE PgInsertPlan(c, b), c, b)
<1>1. "run" \in Sessions /\ "stream" \in Sessions /\ "batch" \in Sessions /\ "batch" # "auto" /\ "stream" # "auto"
  BY DEF Sessions
<1>2. CASE c.strategy \notin Keyed
  <2>1. Inserting(c, PlainHow(c))
    BY HowsInsert
  <2>2. CASE PgRunTxn(c)
    <3>1. InSession(c, "run")
      BY DEF InSession
    <3>2. Sending(<<Insert("run", b, PlainHow(c))>>, c, b)
      BY <1>1, <2>1, <3>1, SendingInsert
    <3> QED BY <1>2, <2>2, <3>2 DEF PgCopy
  <2>3. CASE ~PgRunTxn(c)
    <3> DEFINE p == IF "stream" \in o THEN <<>> ELSE <<Begin("stream")>>
               q == <<Insert("stream", b, PlainHow(c))>>
    <3>1. InSession(c, "stream")
      BY <2>3 DEF InSession, DdlInRun, PgRunTxn
    <3>2. Sending(q, c, b) /\ NoStage(q)
      BY <1>1, <2>1, <3>1, SendingInsert
    <3>3. Calm(<<Begin("stream")>>, c) /\ NoStage(<<Begin("stream")>>)
      BY <1>1, CalmOne
    <3>4. Calm(p, c) /\ NoStage(p)
      BY <3>3, CalmEmpty
    <3>5. PgCopy(c, o, b) = p \o q
      BY <2>3 DEF PgCopy
    <3> HIDE DEF p, q
    <3>6. Sending(p \o q, c, b)
      BY <3>2, <3>4, NoStageOne, SendingAround
    <3> QED BY <1>2, <3>5, <3>6
  <2> QED BY <2>2, <2>3
<1>3. CASE c.strategy \in Keyed
  <2>1. InSession(c, "batch")
    BY <1>3 DEF InSession, DdlInRun, SelfLocks
  <2>2. Inserting(c, PgHow(c))
    BY <1>3, HowsInsert DEF Hows, PgHow
  <2> DEFINE x == <<Begin("batch")>>
             y == <<Stage("batch", b)>>
             z == <<Insert("batch", b, PgHow(c))>>
             e == InsertEach("batch", b, Chunk, PgHow(c))
             w == <<Commit("batch")>>
  <2>3. Calm(x, c) /\ NoStage(x) /\ Calm(w, c) /\ NoStage(w) /\ Calm(y, c) /\ OneStage(y)
    BY <1>1, CalmOne
  <2>4. Sending(z, c, b) /\ NoStage(z) /\ Sending(e, c, b) /\ NoStage(e)
    BY <1>1, <2>1, <2>2, SendingInsert, TargetAssumption
  <2>5. PgStagedMerge(c, b) = ((x \o y) \o z) \o w
    <3> DEFINE bb == Begin("batch")
               ss == Stage("batch", b)
               ii == Insert("batch", b, PgHow(c))
               cc == Commit("batch")
    <3>1. PgStagedMerge(c, b) = <<bb, ss, ii, cc>>
      BY DEF PgStagedMerge
    <3>2. x = <<bb>> /\ y = <<ss>> /\ z = <<ii>> /\ w = <<cc>>
      OBVIOUS
    <3> HIDE DEF x, y, z, w, bb, ss, ii, cc
    <3>3. <<bb, ss, ii, cc>> = ((<<bb>> \o <<ss>>) \o <<ii>>) \o <<cc>>
      BY Quadruples
    <3> QED BY <3>1, <3>2, <3>3
  <2>6. PgInsertPlan(c, b) = (x \o e) \o w
    BY DEF PgInsertPlan
  <2> HIDE DEF x, y, z, e, w
  <2>7. OneStage(x) /\ OneStage(w)
    BY <2>3, NoStageOne
  <2>8. Calm(x \o y, c) /\ OneStage(x \o y)
    BY <2>3, <2>7, CalmConcat, OneStageConcat DEF Calm
  <2>9. Sending((x \o y) \o z, c, b)
    BY <2>4, <2>8, SendingAround
  <2>10. Sending(((x \o y) \o z) \o w, c, b)
    BY <2>3, <2>7, <2>9, SendingAround
  <2>11. Sending(x \o e, c, b)
    BY <2>3, <2>4, <2>7, SendingAround
  <2>12. Sending((x \o e) \o w, c, b)
    BY <2>3, <2>7, <2>11, SendingAround
  <2> QED BY <1>3, <2>5, <2>6, <2>10, <2>12
<1> QED BY <1>2, <1>3

LEMMA MySends ==
  ASSUME NEW c \in Configs, c.driver = "mysql", NEW b \in Seq(Rows)
  PROVE  Sending(MyRows(c, b), c, b)
<1>1. "auto" \in Sessions /\ InSession(c, "auto")
  BY DEF Sessions, InSession, DdlInRun
<1>2. Inserting(c, MyHow(c))
  <2>1. c.strategy \in Strategies
    BY ConfigTypes
  <2>2. CASE c.strategy \in Keyed
    BY <2>1, <2>2, HowsInsert DEF MyHow, Keyed, Hows
  <2>3. CASE c.strategy \notin Keyed
    BY <2>1, <2>3, HowsInsert DEF MyHow, Strategies, Keyed
  <2> QED BY <2>2, <2>3
<1> DEFINE e == InsertEach("auto", b, Chunk, MyHow(c))
           k == KeepEach("auto", b, Chunk)
           m == IF c.strategy = "merge_delete" THEN k ELSE <<>>
<1>3. Sending(e, c, b)
  BY <1>1, <1>2, SendingInsert, TargetAssumption
<1>4. Calm(k, c) /\ NoStage(k)
  BY <1>1, CalmKeeps, TargetAssumption
<1>5. Calm(m, c) /\ NoStage(m)
  BY <1>4, CalmEmpty
<1>6. MyRows(c, b) = e \o m
  BY DEF MyRows
<1> HIDE DEF e, m
<1> QED BY <1>3, <1>5, <1>6, NoStageOne, SendingAround

LEMMA DbxSends ==
  ASSUME NEW c \in Configs, c.driver \in {"databricks", "databricks_odbc"}, NEW b \in Seq(Rows)
  PROVE  Sending(IF DbxOdbc(c) THEN <<Bulk("auto", b)>> ELSE DbxRows(c, b), c, b)
<1>1. "auto" \in Sessions /\ InSession(c, "auto")
  BY DEF Sessions, InSession, DdlInRun
<1>2. Inserting(c, DbxHow(c))
  <2>1. c.strategy \in Strategies
    BY ConfigTypes
  <2>2. CASE c.strategy \in Keyed
    BY <2>1, <2>2, HowsInsert DEF DbxHow, Keyed, Hows
  <2>3. CASE c.strategy \notin Keyed
    BY <2>1, <2>3, HowsInsert DEF DbxHow, Strategies, Keyed
  <2> QED BY <2>2, <2>3
<1>3. Sending(DbxRows(c, b), c, b)
  BY <1>1, <1>2, SendingInsert, TargetAssumption DEF DbxRows
<1>4. Calm(<<Bulk("auto", b)>>, c) /\ NoStage(<<Bulk("auto", b)>>)
  BY <1>1, CalmOne
<1>5. Sending(<<Bulk("auto", b)>>, c, b)
  BY <1>4, NoStageOne, CalmSends
<1> QED BY <1>3, <1>5

LEMMA OraSends ==
  ASSUME NEW c \in Configs, c.driver \in {"oracle", "oracle_direct"}, NEW s, NEW o, NEW b \in Seq(Rows)
  PROVE  /\ Calm(OraStage(s, o, b), c) /\ NoStage(OraStage(s, o, b))
         /\ Sending(OraRows(c, o, b), c, b)
<1>1. "auto" \in Sessions /\ InSession(c, "auto") /\ "run" \in Sessions /\ InSession(c, "run")
      /\ "run" # "auto" /\ "run" # "batch"
  BY DEF Sessions, InSession, DdlInRun
<1> DEFINE op == OraOpen(o)
<1>2. Calm(op, c) /\ NoStage(op)
  <2>1. Calm(<<Begin("run")>>, c) /\ NoStage(<<Begin("run")>>)
    BY <1>1, CalmOne
  <2> QED BY <2>1, CalmEmpty DEF OraOpen
<1>3. Calm(OraStage(s, o, b), c) /\ NoStage(OraStage(s, o, b))
  <2> DEFINE p == IF s.staged = <<>> THEN <<Clone("auto")>> ELSE <<>>
             q == <<Stage("run", b)>>
  <2>1. Calm(<<Clone("auto")>>, c) /\ NoStage(<<Clone("auto")>>)
    BY <1>1, CalmOne
  <2>2. Calm(p, c) /\ NoStage(p)
    BY <2>1, CalmEmpty
  <2>3. Calm(q, c) /\ NoStage(q)
    BY <1>1, CalmOne
  <2>4. OraStage(s, o, b) = (p \o op) \o q
    BY DEF OraStage
  <2> HIDE DEF p, q, op
  <2>5. Calm(p \o op, c) /\ NoStage(p \o op)
    BY <1>2, <2>2, CalmConcat
  <2>6. Calm((p \o op) \o q, c) /\ NoStage((p \o op) \o q)
    BY <2>3, <2>5, CalmConcat
  <2> QED BY <2>4, <2>6
<1>4. Sending(OraRows(c, o, b), c, b)
  <2> DEFINE d == InsertEach("auto", b, Chunk, PlainHow(c))
             u == InsertEach("run", b, Chunk, "update")
             g == InsertEach("run", b, Chunk, "ignore")
             a == InsertEach("run", b, Chunk, PlainHow(c))
             k == KeepEach("run", b, Chunk)
  <2>1. Inserting(c, PlainHow(c)) /\ (c.strategy \in Keyed => Inserting(c, "update") /\ Inserting(c, "ignore"))
    BY HowsInsert DEF Hows
  <2>2. Sending(d, c, b) /\ Sending(a, c, b) /\ (c.strategy \in Keyed => Sending(u, c, b) /\ Sending(g, c, b))
    BY <1>1, <2>1, SendingInsert, TargetAssumption
  <2>3. Calm(k, c) /\ NoStage(k)
    BY <1>1, CalmKeeps, TargetAssumption
  <2>4. OraRows(c, o, b) =
          CASE OraDirect(c)                  -> d
            [] c.strategy = "merge_delete"   -> (op \o u) \o k
            [] c.strategy = "upsert"         -> op \o u
            [] c.strategy = "insert_ignore"  -> op \o g
            [] OTHER                         -> op \o a
    BY DEF OraRows
  <2>5. OneStage(op) /\ OneStage(k)
    BY <1>2, <2>3, NoStageOne
  <2> HIDE DEF d, u, g, a, k, op
  <2>6. \A x : Sending(x, c, b) => Sending(op \o x, c, b)
    BY <1>2, <2>5, SendingAround
  <2>7. c.strategy \in Keyed => Sending((op \o u) \o k, c, b)
    BY <2>2, <2>3, <2>5, <2>6, SendingAround
  <2> QED BY <2>2, <2>4, <2>6, <2>7 DEF Keyed, OraDirect
<1> QED BY <1>3, <1>4

LEMMA MsSends ==
  ASSUME NEW c \in Configs, c.driver \in {"tiberius", "odbc", "bcp"}, NEW rows \in Seq(Rows)
  PROVE  /\ NoStage(MsDrain(c, rows))
         /\ IF MsStaged(c) THEN Calm(MsDrain(c, rows), c) ELSE Sending(MsDrain(c, rows), c, rows)
<1>1. "auto" \in Sessions /\ "run" \in Sessions /\ InSession(c, "run") /\ (c.driver = "bcp" => InSession(c, "auto"))
      /\ "run" # "batch" /\ "auto" # "batch"
  BY DEF Sessions, InSession, DdlInRun
<1>2. Inserting(c, MsDirect(c))
  BY HowsInsert DEF MsDirect
<1>3. Calm(<<>>, c) /\ NoStage(<<>>) /\ Sending(<<>>, c, rows)
  BY CalmEmpty, CalmSends
<1>4. \A on \in {"run", "auto"} : Calm(<<Stage(on, rows)>>, c) /\ NoStage(<<Stage(on, rows)>>)
  BY <1>1, CalmOne
<1>5. /\ Sending(<<Insert("run", rows, MsDirect(c))>>, c, rows) /\ NoStage(<<Insert("run", rows, MsDirect(c))>>)
      /\ Sending(InsertEach("run", rows, Threshold, MsDirect(c)), c, rows)
      /\ NoStage(InsertEach("run", rows, Threshold, MsDirect(c)))
      /\ c.driver = "bcp" => /\ Sending(InsertEach("auto", rows, Threshold, MsDirect(c)), c, rows)
                             /\ NoStage(InsertEach("auto", rows, Threshold, MsDirect(c)))
  BY <1>1, <1>2, SendingInsert, TargetAssumption
<1>6. CASE c.driver = "tiberius"
  BY <1>3, <1>4, <1>5, <1>6 DEF MsDrain, TibDrain
<1>7. CASE c.driver = "odbc"
  BY <1>3, <1>4, <1>5, <1>7 DEF MsDrain, OdbcInsert
<1>8. CASE c.driver = "bcp"
  BY <1>3, <1>4, <1>5, <1>8 DEF MsDrain, BcpInvoke
<1> QED BY <1>6, <1>7, <1>8

LEMMA WelcomesNow ==
  ASSUME NEW c, NEW s, NEW s2, NEW b \in Seq(Rows), NEW P, NEW R,
         IF s.prepared THEN P = <<>> ELSE Readies(P, c) /\ Prepares(P, c),
         Held(s) = <<>>, Held(s2) = <<>>, Sending(R, c, b)
  PROVE  Welcomes(c, s, s2, b, P, R)
<1>1. <<>> \o b = b
  BY ConcatEmptySeq
<1> QED BY <1>1 DEF Welcomes

LEMMA PgWelcomes ==
  ASSUME NEW c \in Configs, c.driver = "postgres", NEW s \in SinkStates, NEW o, NEW b \in Seq(Rows),
         Between(c, s, o)
  PROVE  \E P, R : PgWrite(c, s, o, b) = P \o R /\ Welcomes(c, s, PgAfterWrite(c, s, b), b, P, R)
<1> DEFINE P == IF s.prepared THEN <<>> ELSE PgPrepare(c)
           R == IF c.strategy \notin Keyed THEN PgCopy(c, o, b)
                ELSE IF c.staged THEN PgStagedMerge(c, b) ELSE PgInsertPlan(c, b)
           s2 == PgAfterWrite(c, s, b)
<1>1. IF s.prepared THEN P = <<>> ELSE Readies(P, c) /\ Prepares(P, c)
  BY PgPrepares, PgReadies
<1>2. Held(s) = <<>> /\ Held(s2) = <<>>
  <2>1. s.staged = <<>> /\ s.buffer = <<>> /\ s2.staged = s.staged /\ s2.buffer = s.buffer
    BY DEF Between, Buffers, OraStaged, PgAfterWrite, SinkStates
  <2> HIDE DEF s2
  <2> QED BY <2>1, EmptySeq, ConcatEmptySeq DEF Held
<1>3. Sending(R, c, b)
  BY PgSends
<1>4. PgWrite(c, s, o, b) = P \o R
  BY DEF PgWrite
<1> HIDE DEF P, R, s2
<1>5. Welcomes(c, s, s2, b, P, R)
  BY <1>1, <1>2, <1>3, WelcomesNow
<1> QED BY <1>4, <1>5 DEF s2

LEMMA MyWelcomes ==
  ASSUME NEW c \in Configs, c.driver = "mysql", NEW s \in SinkStates, NEW o, NEW b \in Seq(Rows),
         Between(c, s, o)
  PROVE  \E P, R : MyWrite(c, s, b) = P \o R /\ Welcomes(c, s, MyAfterWrite(s), b, P, R)
<1> DEFINE P == IF s.prepared THEN <<>> ELSE MyPrepare(c)
           R == MyRows(c, b)
           s2 == MyAfterWrite(s)
<1>1. IF s.prepared THEN P = <<>> ELSE Readies(P, c) /\ Prepares(P, c)
  BY MyPrepares, PlainReadies
<1>2. Held(s) = <<>> /\ Held(s2) = <<>>
  <2>1. s.staged = <<>> /\ s.buffer = <<>> /\ s2.staged = s.staged /\ s2.buffer = s.buffer
    BY DEF Between, Buffers, OraStaged, MyAfterWrite, SinkStates
  <2> HIDE DEF s2
  <2> QED BY <2>1, EmptySeq, ConcatEmptySeq DEF Held
<1>3. Sending(R, c, b)
  BY MySends
<1>4. MyWrite(c, s, b) = P \o R
  BY DEF MyWrite
<1> HIDE DEF P, R, s2
<1>5. Welcomes(c, s, s2, b, P, R)
  BY <1>1, <1>2, <1>3, WelcomesNow
<1> QED BY <1>4, <1>5 DEF s2

LEMMA DbxWelcomes ==
  ASSUME NEW c \in Configs, c.driver \in {"databricks", "databricks_odbc"}, NEW s \in SinkStates, NEW o,
         NEW b \in Seq(Rows), Between(c, s, o)
  PROVE  \E P, R : DbxWrite(c, s, b) = P \o R /\ Welcomes(c, s, DbxAfterWrite(s), b, P, R)
<1> DEFINE P == IF s.prepared THEN <<>> ELSE DbxPrepare(c)
           R == IF DbxOdbc(c) THEN <<Bulk("auto", b)>> ELSE DbxRows(c, b)
           s2 == DbxAfterWrite(s)
<1>1. IF s.prepared THEN P = <<>> ELSE Readies(P, c) /\ Prepares(P, c)
  BY DbxPrepares, PlainReadies
<1>2. Held(s) = <<>> /\ Held(s2) = <<>>
  <2>1. s.staged = <<>> /\ s.buffer = <<>> /\ s2.staged = s.staged /\ s2.buffer = s.buffer
    BY DEF Between, Buffers, OraStaged, DbxAfterWrite, SinkStates
  <2> HIDE DEF s2
  <2> QED BY <2>1, EmptySeq, ConcatEmptySeq DEF Held
<1>3. Sending(R, c, b)
  BY DbxSends
<1>4. DbxWrite(c, s, b) = P \o R
  BY DEF DbxWrite
<1> HIDE DEF P, R, s2
<1>5. Welcomes(c, s, s2, b, P, R)
  BY <1>1, <1>2, <1>3, WelcomesNow
<1> QED BY <1>4, <1>5 DEF s2

LEMMA OraWelcomes ==
  ASSUME NEW c \in Configs, c.driver \in {"oracle", "oracle_direct"}, NEW s \in SinkStates, NEW o,
         NEW b \in Seq(Rows), Between(c, s, o)
  PROVE  \E P, R : OraWrite(c, s, o, b) = P \o R /\ Welcomes(c, s, OraAfterWrite(c, s, b), b, P, R)
<1> DEFINE P == IF s.prepared THEN <<>> ELSE OraPrepare(c)
           R == IF OraStaged(c) THEN OraStage(s, o, b) ELSE OraRows(c, o, b)
           s2 == OraAfterWrite(c, s, b)
<1>1. IF s.prepared THEN P = <<>> ELSE Readies(P, c) /\ Prepares(P, c)
  BY OraPrepares, PlainReadies
<1>2. OraWrite(c, s, o, b) = P \o R
  BY DEF OraWrite
<1>3. /\ s.buffer = <<>> /\ s2.buffer = <<>> /\ s.staged \in Seq(Rows)
      /\ s2.staged = (IF OraStaged(c) THEN s.staged \o b ELSE s.staged)
      /\ ~OraStaged(c) => s.staged = <<>>
  BY DEF Between, Buffers, OraAfterWrite, SinkStates
<1> HIDE DEF P, s2
<1>4. Held(s) = s.staged /\ Held(s2) = s2.staged
  <2>1. s2.staged \in Seq(Rows)
    BY <1>3, ConcatProperties
  <2> QED BY <1>3, <2>1, ConcatEmptySeq DEF Held
<1>5. IF OraStaged(c) THEN Calm(R, c) /\ NoStage(R) ELSE Sending(R, c, b)
  BY OraSends
<1> HIDE DEF R
<1>6. CASE OraStaged(c)
  <2>1. Held(s2) = Held(s) \o b
    BY <1>3, <1>4, <1>6
  <2>2. Welcomes(c, s, s2, b, P, R)
    BY <1>1, <1>5, <1>6, <2>1, NoStageOne DEF Welcomes
  <2> QED BY <1>2, <2>2 DEF s2
<1>7. CASE ~OraStaged(c)
  <2>1. Held(s) = <<>> /\ Held(s2) = <<>>
    BY <1>3, <1>4, <1>7
  <2>2. Welcomes(c, s, s2, b, P, R)
    BY <1>1, <1>5, <1>7, <2>1, WelcomesNow
  <2> QED BY <1>2, <2>2 DEF s2
<1> QED BY <1>6, <1>7

LEMMA MsWelcomes ==
  ASSUME NEW c \in Configs, c.driver \in {"tiberius", "odbc", "bcp"}, NEW s \in SinkStates, NEW o,
         NEW b \in Seq(Rows), Between(c, s, o)
  PROVE  \E P, R : MsWrite(c, s, b) = P \o R /\ Welcomes(c, s, MsAfterWrite(c, s, b), b, P, R)
<1> DEFINE P == IF s.prepared THEN <<>> ELSE MsPrepare(c)
           all == s.buffer \o b
           hold == Buffers(c) /\ ~Full(c, s, b)
           sent == IF ~Buffers(c) THEN b ELSE IF Full(c, s, b) THEN all ELSE <<>>
           R == IF hold THEN <<>> ELSE MsDrain(c, sent)
           s2 == MsAfterWrite(c, s, b)
<1>1. IF s.prepared THEN P = <<>> ELSE Readies(P, c) /\ Prepares(P, c)
  BY MsPrepares, MsReadies
<1>2. MsWrite(c, s, b) = P \o R
  BY DEF MsWrite
<1>3. /\ s.buffer \in Seq(Rows) /\ s.staged \in Seq(Rows)
      /\ ~Buffers(c) => s.buffer = <<>>
      /\ ~MsStaged(c) => s.staged = <<>>
      /\ s2.buffer = (IF hold THEN s.buffer \o b ELSE <<>>)
      /\ s2.staged = (IF MsStaged(c) THEN s.staged \o sent ELSE <<>>)
  BY DEF Between, MsAfterWrite, SinkStates
<1>4. all \in Seq(Rows) /\ (~Buffers(c) => all = b)
  <2>1. s.buffer \o b \in Seq(Rows) /\ <<>> \o b = b
    BY <1>3, ConcatProperties, ConcatEmptySeq
  <2> QED BY <1>3, <2>1
<1>5. sent = IF hold THEN <<>> ELSE all
  BY <1>4
<1>6. Held(s) \o b = s.staged \o all
  <2> DEFINE x == s.staged
             y == s.buffer
  <2>1. x \in Seq(Rows) /\ y \in Seq(Rows)
    BY <1>3
  <2> HIDE DEF x, y
  <2>2. (x \o y) \o b = x \o (y \o b)
    BY <2>1, ConcatAssociative
  <2> QED BY <2>2 DEF x, y, Held
<1> HIDE DEF P, sent, s2, all, hold
<1>7. Held(s2) = IF hold \/ MsStaged(c) THEN Held(s) \o b ELSE <<>>
  <2>1. CASE hold
    <3>1. s2.staged = s.staged /\ s2.buffer = all
      BY <1>3, <1>5, <2>1, ConcatEmptySeq DEF all
    <3> QED BY <1>6, <2>1, <3>1 DEF Held
  <2>2. CASE ~hold /\ MsStaged(c)
    <3>1. s2.staged = s.staged \o all /\ s2.buffer = <<>>
      BY <1>3, <1>5, <2>2
    <3>2. s.staged \o all \in Seq(Rows)
      BY <1>3, <1>4, ConcatProperties
    <3> QED BY <1>6, <2>2, <3>1, <3>2, ConcatEmptySeq DEF Held
  <2>3. CASE ~hold /\ ~MsStaged(c)
    <3>1. s2.staged = <<>> /\ s2.buffer = <<>> /\ <<>> \in Seq(Rows)
      BY <1>3, <2>3, EmptySeq
    <3> QED BY <2>3, <3>1, ConcatEmptySeq DEF Held
  <2> QED BY <2>1, <2>2, <2>3
<1>8. CASE hold \/ MsStaged(c)
  <2>1. Calm(R, c) /\ OneStage(R)
    <3>1. CASE hold
      BY <3>1, CalmEmpty
    <3>2. CASE ~hold /\ MsStaged(c)
      <4>1. R = MsDrain(c, all)
        BY <1>5, <3>2
      <4> QED BY <1>4, <3>2, <4>1, MsSends, NoStageOne
    <3> QED BY <1>8, <3>1, <3>2
  <2> HIDE DEF R
  <2>2. Welcomes(c, s, s2, b, P, R)
    BY <1>1, <1>7, <1>8, <2>1 DEF Welcomes
  <2> QED BY <1>2, <2>2 DEF s2, R
<1>9. CASE ~hold /\ ~MsStaged(c)
  <2>1. R = MsDrain(c, all)
    BY <1>5, <1>9
  <2>2. Held(s) \o b = all
    BY <1>3, <1>4, <1>6, <1>9, ConcatEmptySeq
  <2> HIDE DEF R
  <2>3. Sending(R, c, Held(s) \o b)
    BY <1>4, <1>9, <2>1, <2>2, MsSends
  <2>4. Welcomes(c, s, s2, b, P, R)
    BY <1>1, <1>7, <1>9, <2>3 DEF Welcomes
  <2> QED BY <1>2, <2>4 DEF s2, R
<1> QED BY <1>8, <1>9

LEMMA WriteWelcomes ==
  ASSUME cfg \in Configs, sink \in SinkStates, AtRest(cfg, sink, open), NEW b \in Batches
  PROVE  \E P, R : WriteProgram(b) = P \o R /\ Welcomes(cfg, sink, AfterWrite(b), b, P, R)
<1>1. b \in Seq(Rows) /\ Between(cfg, sink, open) /\ cfg.driver \in Drivers
  BY BatchIsRows, ConfigTypes DEF AtRest
<1>2. CASE cfg.driver = "postgres"
  <2>1. WriteProgram(b) = PgWrite(cfg, sink, open, b) /\ AfterWrite(b) = PgAfterWrite(cfg, sink, b)
    BY <1>2 DEF WriteProgram, AfterWrite
  <2> QED BY <1>1, <1>2, <2>1, PgWelcomes
<1>3. CASE cfg.driver = "mysql"
  <2>1. WriteProgram(b) = MyWrite(cfg, sink, b) /\ AfterWrite(b) = MyAfterWrite(sink)
    BY <1>3 DEF WriteProgram, AfterWrite
  <2> QED BY <1>1, <1>3, <2>1, MyWelcomes
<1>4. CASE cfg.driver \in {"oracle", "oracle_direct"}
  <2>1. WriteProgram(b) = OraWrite(cfg, sink, open, b) /\ AfterWrite(b) = OraAfterWrite(cfg, sink, b)
    BY <1>4 DEF WriteProgram, AfterWrite
  <2> QED BY <1>1, <1>4, <2>1, OraWelcomes
<1>5. CASE cfg.driver \in {"databricks", "databricks_odbc"}
  <2>1. WriteProgram(b) = DbxWrite(cfg, sink, b) /\ AfterWrite(b) = DbxAfterWrite(sink)
    BY <1>5 DEF WriteProgram, AfterWrite
  <2> QED BY <1>1, <1>5, <2>1, DbxWelcomes
<1>6. CASE cfg.driver \in {"tiberius", "odbc", "bcp"}
  <2>1. WriteProgram(b) = MsWrite(cfg, sink, b) /\ AfterWrite(b) = MsAfterWrite(cfg, sink, b)
    BY <1>6 DEF WriteProgram, AfterWrite
  <2> QED BY <1>1, <1>6, <2>1, MsWelcomes
<1> QED BY <1>1, <1>2, <1>3, <1>4, <1>5, <1>6 DEF Drivers, Staging

LEMMA SendingConcat ==
  ASSUME NEW c, NEW b \in Seq(Rows), NEW p, Calm(p, c), NoStage(p), NEW q, Sending(q, c, b), NoStage(q)
  PROVE  /\ Sending(p \o q, c, b) /\ NoStage(p \o q)
         /\ Sending(q \o p, c, b) /\ NoStage(q \o p)
<1>1. Of(p \o q) = Of(p) \cup Of(q) /\ Of(q \o p) = Of(p) \cup Of(q)
  BY OfConcat DEF Calm, Sending
<1>2. NoStage(p \o q) /\ NoStage(q \o p)
  BY <1>1 DEF NoStage
<1> QED BY <1>2, NoStageOne, SendingAround

LEMMA PgFlushSends ==
  ASSUME NEW c \in Configs, c.driver = "postgres", NEW s \in SinkStates, NEW o, AtRest(c, s, o), NEW b
  PROVE  Sending(PgFlush(c, s, o), c, b) /\ NoStage(PgFlush(c, s, o))
<1> DEFINE x == IF "stream" \in o THEN <<Commit("stream")>> ELSE <<>>
           y == IF s.seen # <<>> THEN <<Keep("auto", s.seen)>> ELSE <<>>
           z == IF "run" \in o THEN <<Commit("run")>> ELSE <<>>
<1>1. "auto" \in Sessions /\ "run" \in Sessions /\ "stream" \in Sessions /\ s.seen \in Seq(Rows)
  BY DEF Sessions, SinkStates
<1>2. s.seen # <<>> => InSession(c, "auto")
  BY DEF AtRest, InSession, DdlInRun, SelfLocks, Keyed
<1>3. /\ Calm(<<Commit("stream")>>, c) /\ NoStage(<<Commit("stream")>>)
      /\ Calm(<<Commit("run")>>, c) /\ NoStage(<<Commit("run")>>)
      /\ s.seen # <<>> => Calm(<<Keep("auto", s.seen)>>, c) /\ NoStage(<<Keep("auto", s.seen)>>)
  BY <1>1, <1>2, CalmOne
<1>4. Calm(x, c) /\ NoStage(x) /\ Calm(y, c) /\ NoStage(y) /\ Calm(z, c) /\ NoStage(z)
  BY <1>3, CalmEmpty
<1>5. PgFlush(c, s, o) = (x \o y) \o z
  BY DEF PgFlush
<1> HIDE DEF x, y, z
<1>6. Calm(x \o y, c) /\ NoStage(x \o y)
  BY <1>4, CalmConcat
<1>7. Calm((x \o y) \o z, c) /\ NoStage((x \o y) \o z)
  BY <1>4, <1>6, CalmConcat
<1> QED BY <1>5, <1>7, NoStageOne, CalmSends

LEMMA OraFlushSends ==
  ASSUME NEW c \in Configs, c.driver \in {"oracle", "oracle_direct"}, NEW s \in SinkStates, NEW o, AtRest(c, s, o)
  PROVE  Sending(OraFlush(s, o), c, Held(s)) /\ NoStage(OraFlush(s, o))
<1> DEFINE x == IF s.staged # <<>> THEN <<Insert("run", s.staged, "changed")>> ELSE <<>>
           y == IF "run" \in o THEN <<Commit("run")>> ELSE <<>>
<1>1. s.staged \in Seq(Rows) /\ s.buffer = <<>>
  BY DEF SinkStates, AtRest, Between, Buffers
<1>2. Held(s) = s.staged
  BY <1>1, ConcatEmptySeq DEF Held
<1>3. "run" \in Sessions /\ InSession(c, "run") /\ <<>> \in Seq(Rows)
  BY EmptySeq DEF Sessions, InSession
<1>4. Sending(x, c, s.staged) /\ NoStage(x)
  <2>1. s.staged # <<>> => Inserting(c, "changed")
    BY HowsInsert DEF AtRest, Between, OraStaged, Hows, Keyed
  <2>2. s.staged # <<>> => Sending(<<Insert("run", s.staged, "changed")>>, c, s.staged)
                           /\ NoStage(<<Insert("run", s.staged, "changed")>>)
    BY <1>1, <1>3, <2>1, SendingInsert
  <2> QED BY <2>2, CalmEmpty, CalmSends
<1>5. Calm(y, c) /\ NoStage(y)
  <2>1. Calm(<<Commit("run")>>, c) /\ NoStage(<<Commit("run")>>)
    BY <1>3, CalmOne
  <2> QED BY <2>1, CalmEmpty
<1>6. OraFlush(s, o) = x \o y
  BY DEF OraFlush
<1> HIDE DEF x, y
<1> QED BY <1>1, <1>2, <1>4, <1>5, <1>6, SendingConcat

LEMMA MsFlushSends ==
  ASSUME NEW c \in Configs, c.driver \in {"tiberius", "odbc", "bcp"}, NEW s \in SinkStates, NEW o,
         AtRest(c, s, o), s.prepared
  PROVE  Sending(MsFlush(c, s), c, Held(s)) /\ NoStage(MsFlush(c, s))
<1> DEFINE x == IF Buffers(c) THEN MsDrain(c, s.buffer) ELSE <<>>
           y == IF c.driver = "bcp" /\ MsStaged(c) THEN <<Begin("run")>> ELSE <<>>
           z == IF MsStaged(c) THEN <<Insert("run", s.staged \o s.buffer, MsHow(c))>> ELSE <<>>
           w == IF c.driver # "bcp" \/ MsStaged(c) THEN <<Commit("run")>> ELSE <<>>
<1>1. s.staged \in Seq(Rows) /\ s.buffer \in Seq(Rows) /\ Held(s) \in Seq(Rows)
  BY HeldType
<1>2. "run" \in Sessions /\ InSession(c, "run") /\ "run" # "auto" /\ <<>> \in Seq(Rows)
  BY EmptySeq DEF Sessions, InSession
<1>3. MsFlush(c, s) = ((x \o y) \o z) \o w
  BY DEF MsFlush
<1>4. Calm(y, c) /\ NoStage(y) /\ Calm(w, c) /\ NoStage(w)
  <2>1. /\ Calm(<<Commit("run")>>, c) /\ NoStage(<<Commit("run")>>)
        /\ Calm(<<Begin("run")>>, c) /\ NoStage(<<Begin("run")>>)
    BY <1>2, CalmOne
  <2> QED BY <2>1, CalmEmpty
<1>5. CASE MsStaged(c)
  <2>1. Calm(x, c) /\ NoStage(x)
    BY <1>1, <1>5, MsSends, CalmEmpty
  <2>2. Inserting(c, MsHow(c))
    BY HowsInsert DEF MsHow, Hows, Keyed
  <2>3. z = <<Insert("run", Held(s), MsHow(c))>>
    BY <1>5 DEF Held
  <2>4. Sending(z, c, Held(s)) /\ NoStage(z)
    BY <1>1, <1>2, <2>2, <2>3, SendingInsert
  <2> HIDE DEF x, y, z, w
  <2>5. Calm(x \o y, c) /\ NoStage(x \o y)
    BY <1>4, <2>1, CalmConcat
  <2>6. Sending((x \o y) \o z, c, Held(s)) /\ NoStage((x \o y) \o z)
    BY <1>1, <2>4, <2>5, SendingConcat
  <2>7. Sending(((x \o y) \o z) \o w, c, Held(s)) /\ NoStage(((x \o y) \o z) \o w)
    BY <1>1, <1>4, <2>6, SendingConcat
  <2> QED BY <1>3, <2>7
<1>6. CASE ~MsStaged(c)
  <2>1. s.staged = <<>>
    BY <1>6 DEF AtRest, Between
  <2>2. Held(s) = s.buffer
    BY <1>1, <2>1, ConcatEmptySeq DEF Held
  <2>3. Sending(x, c, s.buffer) /\ NoStage(x)
    BY <1>1, <1>6, MsSends, CalmEmpty, CalmSends
  <2>4. y = <<>> /\ z = <<>>
    BY <1>6
  <2> HIDE DEF x, y, z, w
  <2>5. (x \o y) \o z = x
    BY <2>3, <2>4, ConcatEmptySeq DEF Sending
  <2>6. Sending(x \o w, c, s.buffer) /\ NoStage(x \o w)
    BY <1>1, <1>4, <2>3, SendingConcat
  <2> QED BY <1>3, <2>2, <2>5, <2>6
<1> QED BY <1>5, <1>6

LEMMA FlushSends ==
  ASSUME cfg \in Configs, sink \in SinkStates, AtRest(cfg, sink, open)
  PROVE  Sending(FlushProgram, cfg, Held(sink)) /\ NoStage(FlushProgram)
<1>1. cfg.driver \in Drivers
  BY ConfigTypes
<1>2. CASE cfg.driver = "postgres"
  BY <1>2, PgFlushSends DEF FlushProgram
<1>3. CASE cfg.driver \in {"mysql", "databricks", "databricks_odbc"}
  <2>1. FlushProgram = <<>>
    BY <1>3 DEF FlushProgram, MyFlush, DbxFlush
  <2> QED BY <2>1, CalmEmpty, CalmSends
<1>4. CASE cfg.driver \in {"oracle", "oracle_direct"}
  <2>1. FlushProgram = OraFlush(sink, open)
    BY <1>4 DEF FlushProgram
  <2> QED BY <1>4, <2>1, OraFlushSends
<1>5. CASE cfg.driver \in {"tiberius", "odbc", "bcp"}
  <2>1. FlushProgram = MsFlush(cfg, sink)
    BY <1>5 DEF FlushProgram
  <2>2. CASE sink.prepared
    BY <1>5, <2>1, <2>2, MsFlushSends
  <2>3. CASE ~sink.prepared
    <3>1. FlushProgram = <<>>
      BY <2>1, <2>3 DEF MsFlush
    <3> QED BY <3>1, CalmEmpty, CalmSends
  <2> QED BY <2>2, <2>3
<1> QED BY <1>1, <1>2, <1>3, <1>4, <1>5 DEF Drivers, Staging

-----------------------------------------------------------------------------
\* A program leaves the keys there were and the new ones, and none of those held back.
Leaves(prog, rows, start, held, new) ==
  \E x \in Outcomes(prog, rows) :
    \A k \in Keys : Has(x, k) => k \notin KeysOf(held) /\ (Has(start, k) \/ k \in KeysOf(new))

\* What a write makes of the rows when all keys are new
LEMMA WelcomesOutcome ==
  ASSUME NEW c \in Configs, NEW s \in SinkStates, NEW s2, NEW b \in Seq(Rows),
         NEW P, NEW R, Welcomes(c, s, s2, b, P, R), NEW rows \in Contents, NEW start,
         start = (IF s.prepared THEN rows ELSE Met(c, rows)), Fresh(start, Held(s) \o b)
  PROVE  Leaves(P \o R, rows, start, Held(s2), Held(s) \o b)
<1> DEFINE h == Held(s) \o b
<1>1. h \in Seq(Rows)
  BY HeldType, ConcatProperties
<1>2. P \in Seq(Statements) /\ R \in Seq(Statements)
  BY EmptySeq DEF Welcomes, Readies, Sending, Calm
<1>3. start \in Contents
  BY NoRowsHaveNoKeys DEF Met, Start
<1>4. start \in Outcomes(P, rows)
  <2>1. CASE s.prepared
    BY <2>1, EmptyProgram DEF Welcomes
  <2>2. CASE ~s.prepared
    <3>1. Readies(P, c) /\ Prepares(P, c) /\ start = Met(c, rows)
      BY <2>2 DEF Welcomes
    <3>2. Outcomes(P, rows) \subseteq {start}
      BY <3>1 DEF Prepares
    <3>3. Lets(P, rows, {})
      BY <1>2, <3>1, OthersLet DEF Readies
    <3> QED BY <3>2, <3>3 DEF Lets
  <2> QED BY <2>1, <2>2
<1> HIDE DEF h
<1>5. Fresh(start, h)
  BY DEF h
<1>6. CASE Held(s2) = <<>> /\ Sending(R, c, h)
  <2>1. PICK x \in Outcomes(R, start) : \A k \in Keys : Has(x, k) => Has(start, k) \/ k \in KeysOf(h)
    BY <1>3, <1>5, <1>6 DEF Sending, Accepts, Lets
  <2>2. x \in Outcomes(P \o R, rows)
    BY <1>2, <1>4, <2>1, OutcomesConcat
  <2>3. KeysOf(Held(s2)) = {}
    BY <1>6 DEF KeysOf
  <2> QED BY <2>1, <2>2, <2>3 DEF h, Leaves
<1>7. CASE Held(s2) = h /\ Calm(R, c)
  <2>1. Lets(R, start, {})
    BY <1>3, <1>7, OthersLet DEF Calm
  <2>2. PICK x \in Outcomes(R, start) : \A k \in Keys : Has(x, k) => Has(start, k)
    BY <2>1 DEF Lets
  <2>3. x \in Outcomes(P \o R, rows)
    BY <1>2, <1>4, <2>2, OutcomesConcat
  <2>4. \A k \in Keys : Has(x, k) => k \notin KeysOf(Held(s2))
    BY <1>5, <1>7, <2>2 DEF Fresh
  <2> QED BY <2>2, <2>3, <2>4 DEF Leaves, h
<1> QED BY <1>6, <1>7 DEF Welcomes, h

LEMMA AfterHome == ASSUME sink \in SinkStates, cfg.driver \in Drivers, NEW b PROVE AfterWrite(b).home = sink.home
  BY DEF AfterWrite, PgAfterWrite, MyAfterWrite, OraAfterWrite, DbxAfterWrite, MsAfterWrite, SinkStates,
         Drivers, Staging

LEMMA InitCauses == ASSUME Init PROVE CauseInv
<1>1. todo = <<>> /\ fed = <<>> /\ why = "none" /\ pc = "idle" /\ open = {} /\ holder = "none"
      /\ draft = base /\ table = base /\ sink = Idle
  BY DEF Init
<1>2. sink.prepared = FALSE /\ sink.staged = <<>> /\ sink.buffer = <<>> /\ sink.home = 0
  BY <1>1 DEF Idle
<1>3. Of(todo) = {} /\ DOMAIN todo = {}
  BY <1>1, OfParts
<1>4. sink.staged \o sink.buffer = <<>>
  BY <1>2, EmptySeq, ConcatEmptySeq
<1>5. Repeated(<<>>) = {} /\ KeysOf(<<>>) = {}
  BY DEF Repeated, KeysOf
<1>6. TableThere
  BY <1>1, <1>2 DEF TableThere
<1>7. TableSeen
  BY <1>1, <1>3 DEF TableSeen
<1>8. StagedOnce
  BY <1>2, <1>3 DEF StagedOnce
<1>9. KeysWelcome
  BY <1>1, <1>4, <1>5 DEF KeysWelcome
<1> QED BY <1>1, <1>6, <1>7, <1>8, <1>9 DEF CauseInv

\* The keys of the next batch
LEMMA NewKeys ==
  ASSUME NEW b \in Batches, fed \in Seq(Batches), fed' = Append(fed, b), cfg' = cfg, base' = base, AllNew'
  PROVE  /\ AllNew
         /\ Repeated(b) = {}
         /\ \A k \in KeysOf(b) : ~Has(Met(cfg, base.rows), k) /\ k \notin FedKeys(fed)
<1> DEFINE n == Len(fed) + 1
<1>1. /\ Len(fed) \in Nat /\ DOMAIN fed = 1 .. Len(fed) /\ DOMAIN fed' = 1 .. n
      /\ fed'[n] = b /\ \A i \in 1 .. Len(fed) : fed'[i] = fed[i]
  BY AppendProperties
<1>2. \A i \in DOMAIN fed' : \A k \in KeysOf(fed'[i]) :
        /\ ~Has(Met(cfg, base.rows), k)
        /\ k \notin Repeated(fed'[i])
        /\ \A j \in DOMAIN fed' \ {i} : k \notin KeysOf(fed'[j])
  BY DEF AllNew
<1>3. n \in DOMAIN fed' /\ n \notin DOMAIN fed /\ \A i \in DOMAIN fed : i \in DOMAIN fed' /\ i # n
  BY <1>1
<1> HIDE DEF n
<1>4. AllNew
  BY <1>1, <1>2, <1>3 DEF AllNew
<1>5. \A k \in KeysOf(b) : ~Has(Met(cfg, base.rows), k) /\ k \notin Repeated(b)
                           /\ \A j \in DOMAIN fed : k \notin KeysOf(fed[j])
  BY <1>1, <1>2, <1>3
<1>6. Repeated(b) \subseteq KeysOf(b)
  BY BatchIsRows, KeysAreKeys
<1>7. \A k \in KeysOf(b) : k \notin FedKeys(fed)
  BY <1>5 DEF FedKeys
<1> QED BY <1>4, <1>5, <1>6, <1>7

LEMMA WriteCauses == ASSUME Shape, CauseInv, NEW b \in Batches, Write(b) PROVE CauseInv'
<1> DEFINE prog == WriteProgram(b)
           s2 == AfterWrite(b)
<1>1. /\ TypeOK /\ Consistent /\ HeldBack /\ pc = "idle" /\ why = "none"
      /\ TableThere /\ TableSeen /\ StagedOnce /\ KeysWelcome
  BY DEF Shape, Write, CauseInv
<1>2. /\ pc' = "write" /\ todo' = prog /\ sink' = s2 /\ fed' = Append(fed, b)
      /\ UNCHANGED <<cfg, base, why, table, draft, holder, open, conn>>
  BY DEF Write, db
<1>3. /\ cfg \in Configs /\ sink \in SinkStates /\ AtRest(cfg, sink, open) /\ todo = <<>>
  BY RestOfIdle, <1>1
<1>4. cfg.driver \in Drivers /\ b \in Seq(Rows) /\ fed \in Seq(Batches) /\ draft.rows \in Contents
  BY <1>1, <1>3, ConfigTypes, BatchIsRows, StateTypes
<1>5. s2.prepared /\ s2.home = sink.home
  BY <1>3, <1>4, AfterFacts, AfterHome
<1>6. PICK P, R : prog = P \o R /\ Welcomes(cfg, sink, s2, b, P, R)
  BY <1>3, WriteWelcomes
<1> HIDE DEF prog, s2
<1>7. P \in Seq(Statements) /\ R \in Seq(Statements) /\ Of(prog) = Of(P) \cup Of(R)
  <2>1. P \in Seq(Statements) /\ R \in Seq(Statements)
    BY <1>6, EmptySeq DEF Welcomes, Readies, Sending, Calm
  <2> QED BY <1>6, <2>1, OfConcat
<1>8. OneStage(R) /\ \A st \in Of(R) : Proper(cfg, st) /\ ~Ddl(st)
  BY <1>6 DEF Welcomes, Sending, Calm
<1>9. IF sink.prepared THEN P = <<>> ELSE Readies(P, cfg)
  BY <1>6 DEF Welcomes
<1>10. Of(<<>>) = {} /\ NoStage(<<>>) /\ ~Creates(<<>>)
  BY OfParts, CalmEmpty, CreatesSome
<1>11. TableThere'
  <2>1. SUFFICES ASSUME cfg.mode = "use_existing" => base.exists
                 PROVE  Creates(prog) \/ (draft.exists /\ \A st \in Of(prog) : ~Ddl(st))
    BY <1>2, <1>5 DEF TableThere
  <2>2. CASE sink.prepared
    BY <1>1, <1>3, <1>7, <1>8, <1>9, <1>10, <2>1, <2>2 DEF TableThere
  <2>3. CASE ~sink.prepared
    <3>1. draft = base
      BY <1>1, <2>3 DEF TableThere
    <3>2. CASE cfg.mode = "use_existing"
      BY <1>7, <1>8, <1>9, <2>1, <2>3, <3>1, <3>2 DEF Readies
    <3>3. CASE cfg.mode # "use_existing"
      <4>1. Creates(P)
        BY <1>9, <2>3, <3>3 DEF Readies
      <4>2. Creates(P \o R)
        BY <1>7, <1>8, <4>1, CreatesAfter
      <4> QED BY <1>6, <4>2
    <3> QED BY <3>2, <3>3
  <2> QED BY <2>2, <2>3
<1>12. TableSeen'
  <2>1. \A st \in Of(prog) : Proper(cfg, st)
    BY <1>7, <1>8, <1>9, <1>10 DEF Readies
  <2> QED BY <1>1, <1>2, <2>1 DEF TableSeen
<1>13. Len(fed') = Len(fed) + 1 /\ Len(fed) \in Nat /\ fed' # <<>> /\ (fed # <<>> => Len(fed) # 0)
  <2>1. Len(fed') = Len(fed) + 1 /\ Len(fed) \in Nat
    BY <1>2, <1>4, AppendProperties, LenProperties
  <2>2. Len(<<>>) = 0 /\ (fed # <<>> => Len(fed) # 0)
    BY <1>4, EmptySeq
  <2> QED BY <2>1, <2>2
<1>14. StagedOnce'
  <2>1. OneStage(prog)
    <3>1. NoStage(P)
      BY <1>9, <1>10 DEF Readies
    <3> QED BY <1>6, <1>7, <1>8, <3>1, NoStageOne, OneStageConcat
  <2>2. \A i, j \in DOMAIN prog : Is(prog[i], "stage", "batch") /\ Is(prog[j], "stage", "batch") => i = j
    BY <2>1 DEF OneStage
  <2>3. sink'.home = sink.home
    BY <1>2, <1>5
  <2> QED BY <1>1, <1>2, <1>13, <2>2, <2>3 DEF StagedOnce
<1>15. KeysWelcome'
  <2>1. SUFFICES ASSUME cfg.pk, AllNew'
                 PROVE  /\ Repeated(Held(s2)) = {} /\ KeysOf(Held(s2)) \subseteq FedKeys(fed')
                        /\ \E rows \in Outcomes(prog, draft.rows) : \A k \in Keys : Has(rows, k) =>
                             k \notin KeysOf(Held(s2)) /\ (Has(Met(cfg, base.rows), k) \/ k \in FedKeys(fed'))
    BY <1>2 DEF KeysWelcome, Held
  <2>2. AllNew /\ Repeated(b) = {} /\ \A k \in KeysOf(b) : ~Has(Met(cfg, base.rows), k) /\ k \notin FedKeys(fed)
    BY <1>2, <1>4, <2>1, NewKeys
  <2>3. FedKeys(fed') = FedKeys(fed) \cup KeysOf(b)
    BY <1>2, <1>4, FedKeysSteps
  <2> DEFINE h == Held(sink)
             hb == h \o b
             start == IF sink.prepared THEN draft.rows ELSE Met(cfg, draft.rows)
  <2>4. h \in Seq(Rows)
    BY <1>3, HeldType
  <2>5. Repeated(h) = {} /\ KeysOf(h) \subseteq FedKeys(fed)
    BY <1>1, <2>1, <2>2 DEF KeysWelcome, Held
  <2>6. hb \in Seq(Rows) /\ KeysOf(hb) = KeysOf(h) \cup KeysOf(b) /\ Repeated(hb) = {}
    <3> HIDE DEF h
    <3>1. /\ h \o b \in Seq(Rows) /\ KeysOf(h \o b) = KeysOf(h) \cup KeysOf(b)
          /\ \A k : k \in Repeated(h \o b) <=> k \in Repeated(h) \/ k \in Repeated(b) \/ k \in KeysOf(h) \cap KeysOf(b)
      BY <1>4, <2>4, ConcatRows
    <3>2. KeysOf(h) \cap KeysOf(b) = {}
      BY <2>2, <2>5
    <3> QED BY <2>2, <2>5, <3>1, <3>2
  <2>7. \A k \in Keys : Has(start, k) => k \notin KeysOf(h) /\ (Has(Met(cfg, base.rows), k) \/ k \in FedKeys(fed))
    <3>1. CASE sink.prepared
      <4>1. fed # <<>>
        BY <1>1, <3>1 DEF HeldBack
      <4>2. PICK rows \in Outcomes(todo, draft.rows) : \A k \in Keys : Has(rows, k) =>
              k \notin KeysOf(sink.staged \o sink.buffer) /\ (Has(Met(cfg, base.rows), k) \/ k \in FedKeys(fed))
        BY <1>1, <2>1, <2>2, <4>1 DEF KeysWelcome
      <4>3. rows = draft.rows
        BY <1>3, <4>2, EmptyProgram
      <4> QED BY <3>1, <4>2, <4>3 DEF Held
    <3>2. CASE ~sink.prepared
      <4>1. draft = base
        BY <1>1, <3>2 DEF TableThere
      <4>2. sink.staged = <<>> /\ sink.buffer = <<>>
        BY <1>1, <3>2 DEF HeldBack
      <4>3. h = <<>>
        BY <4>2, EmptySeq, ConcatEmptySeq DEF Held
      <4>4. KeysOf(h) = {}
        BY <4>3 DEF KeysOf
      <4> QED BY <3>2, <4>1, <4>4
    <3> QED BY <3>1, <3>2
  <2> HIDE DEF start, h
  <2>8. Fresh(start, hb)
    <3>1. KeysOf(hb) \subseteq Keys
      BY <2>6, KeysAreKeys
    <3> QED BY <2>2, <2>6, <2>7, <3>1 DEF Fresh
  <2>9. PICK x \in Outcomes(P \o R, draft.rows) :
           \A k \in Keys : Has(x, k) => k \notin KeysOf(Held(s2)) /\ (Has(start, k) \/ k \in KeysOf(hb))
    <3>1. Fresh(start, Held(sink) \o b)
      BY <2>8 DEF h
    <3>2. start = (IF sink.prepared THEN draft.rows ELSE Met(cfg, draft.rows))
      BY DEF start
    <3>3. KeysOf(hb) = KeysOf(Held(sink) \o b)
      BY DEF h
    <3> DEFINE r == draft.rows
    <3>4. r \in Contents /\ start = (IF sink.prepared THEN r ELSE Met(cfg, r))
      BY <1>4, <3>2
    <3> HIDE DEF hb, r
    <3>5. Leaves(P \o R, r, start, Held(s2), Held(sink) \o b)
      BY <1>3, <1>4, <1>6, <3>1, <3>4, WelcomesOutcome
    <3> QED BY <3>3, <3>5 DEF r, Leaves
  <2>10. Held(s2) \in {<<>>, hb}
    BY <1>6 DEF Welcomes, h
  <2>11. Repeated(Held(s2)) = {} /\ KeysOf(Held(s2)) \subseteq FedKeys(fed')
    <3>1. Repeated(<<>>) = {} /\ KeysOf(<<>>) = {}
      BY DEF Repeated, KeysOf
    <3> QED BY <2>3, <2>5, <2>6, <2>10, <3>1
  <2>12. \A k \in Keys : Has(x, k) => k \notin KeysOf(Held(s2)) /\ (Has(Met(cfg, base.rows), k) \/ k \in FedKeys(fed'))
    BY <2>3, <2>5, <2>6, <2>7, <2>9
  <2> QED BY <1>6, <2>9, <2>11, <2>12
<1> QED BY <1>1, <1>2, <1>11, <1>12, <1>14, <1>15 DEF CauseInv

LEMMA FlushCauses == ASSUME Shape, CauseInv, Flush PROVE CauseInv'
<1> DEFINE prog == FlushProgram
<1>1. /\ TypeOK /\ Consistent /\ HeldBack /\ pc = "idle" /\ why = "none"
      /\ TableThere /\ TableSeen /\ StagedOnce /\ KeysWelcome
  BY DEF Shape, Flush, CauseInv
<1>2. /\ pc' = "flush" /\ todo' = prog
      /\ UNCHANGED <<cfg, base, sink, fed, why, table, draft, holder, open, conn>>
  BY DEF Flush, db
<1>3. /\ cfg \in Configs /\ sink \in SinkStates /\ AtRest(cfg, sink, open) /\ todo = <<>>
      /\ draft.rows \in Contents /\ fed \in Seq(Batches)
  BY RestOfIdle, StateTypes, <1>1
<1>4. Sending(prog, cfg, Held(sink)) /\ NoStage(prog)
  BY <1>3, FlushSends
<1> HIDE DEF prog
<1>5. /\ prog \in Seq(Statements) /\ OneStage(prog) /\ Accepts(prog, Held(sink))
      /\ \A st \in Of(prog) : Proper(cfg, st) /\ ~Ddl(st)
  BY <1>4 DEF Sending
<1>6. ~Creates(todo)
  BY <1>3, CreatesSome
<1>7. TableThere'
  BY <1>1, <1>2, <1>5, <1>6 DEF TableThere
<1>8. TableSeen'
  BY <1>1, <1>2, <1>5 DEF TableSeen
<1>9. StagedOnce'
  <2>1. \A i, j \in DOMAIN prog : Is(prog[i], "stage", "batch") /\ Is(prog[j], "stage", "batch") => i = j
    BY <1>5 DEF OneStage
  <2>2. ~\E st \in Of(prog) : Is(st, "stage", "batch")
    BY <1>4 DEF NoStage
  <2> QED BY <1>1, <1>2, <2>1, <2>2 DEF StagedOnce
<1>10. KeysWelcome'
  <2>1. SUFFICES ASSUME cfg.pk, AllNew' PROVE Outcomes(prog, draft.rows) # {}
    BY <1>2 DEF KeysWelcome
  <2>2. AllNew
    BY <1>2, <2>1 DEF AllNew
  <2>3. Repeated(Held(sink)) = {}
    BY <1>1, <2>1, <2>2 DEF KeysWelcome, Held
  <2>4. \A k \in KeysOf(Held(sink)) : ~Has(draft.rows, k)
    <3>1. CASE fed = <<>>
      <4>1. Held(sink) = <<>>
        BY <1>1, <3>1, EmptySeq, ConcatEmptySeq DEF HeldBack, Held
      <4> QED BY <4>1 DEF KeysOf
    <3>2. CASE fed # <<>>
      <4>1. PICK rows \in Outcomes(todo, draft.rows) :
              \A k \in Keys : Has(rows, k) => k \notin KeysOf(sink.staged \o sink.buffer)
        BY <1>1, <2>1, <2>2, <3>2 DEF KeysWelcome
      <4>2. rows = draft.rows
        BY <1>3, <4>1, EmptyProgram
      <4>3. KeysOf(Held(sink)) \subseteq Keys
        BY <1>3, HeldType, KeysAreKeys
      <4> QED BY <4>1, <4>2, <4>3 DEF Held
    <3> QED BY <3>1, <3>2
  <2> DEFINE r == draft.rows
  <2>5. r \in Contents /\ Fresh(r, Held(sink))
    BY <1>3, <2>3, <2>4 DEF Fresh
  <2> HIDE DEF r
  <2>6. Lets(prog, r, KeysOf(Held(sink)))
    BY <1>5, <2>5 DEF Accepts
  <2> QED BY <2>6 DEF Lets, r
<1> QED BY <1>1, <1>2, <1>7, <1>8, <1>9, <1>10 DEF CauseInv

\* The end of a call
LEMMA CallEndsCauses ==
  ASSUME Shape, CauseInv, WriteDone \/ FlushDone
  PROVE  CauseInv'
<1>1. /\ pc \in {"write", "flush"} /\ pc' \in {"idle", "finished"}
      /\ pc' = "idle" => pc = "write"
      /\ UNCHANGED <<cfg, base, todo, sink, fed, why, table, draft, holder, open, conn>>
  BY DEF WriteDone, FlushDone, db
<1>2. why = "none" /\ TableThere /\ TableSeen /\ StagedOnce /\ KeysWelcome
  BY <1>1 DEF CauseInv
<1>3. TableThere' /\ TableSeen' /\ StagedOnce'
  BY <1>1, <1>2 DEF TableThere, TableSeen, StagedOnce
<1>4. KeysWelcome'
  BY <1>1, <1>2 DEF KeysWelcome, AllNew
<1> QED BY <1>1, <1>2, <1>3, <1>4 DEF CauseInv

LEMMA StutterCauses == ASSUME CauseInv, UNCHANGED vars PROVE CauseInv'
<1>1. UNCHANGED <<cfg, base, table, draft, holder, open, conn, todo, sink, fed, pc, why>>
  BY DEF vars
<1>2. TableThere => TableThere'
  BY <1>1 DEF TableThere
<1>3. TableSeen => TableSeen'
  BY <1>1 DEF TableSeen
<1>4. StagedOnce => StagedOnce'
  BY <1>1 DEF StagedOnce
<1>5. KeysWelcome => KeysWelcome'
  BY <1>1 DEF KeysWelcome, AllNew
<1> QED BY <1>1, <1>2, <1>3, <1>4, <1>5 DEF CauseInv

LEMMA FailCauses == ASSUME Reject \/ Fault PROVE CauseInv'
<1>1. pc' = "failed"
  BY DEF Reject, Fault, FailWith
<1> QED BY <1>1 DEF CauseInv

\* A statement other than DDL leaves a table where there is one.
LEMMA EffectExists ==
  ASSUME NEW st \in Statements, NEW t \in Tables
  PROVE  /\ ~Ddl(st) => Effect(st, t).exists = t.exists
         /\ st.op = "create" => Effect(st, t).exists
<1>1. DOMAIN t = {"exists", "rows"} /\ t.exists \in BOOLEAN
  BY DEF Tables
<1>2. st.op \in Ops
  BY DEF Statements
<1>3. CASE st.op = "create"
  BY <1>3 DEF Effect, NewTable, Ddl
<1>4. CASE st.op \in {"truncate", "insert", "keep"}
  BY <1>1, <1>4 DEF Effect, Ddl
<1>5. CASE st.op \in {"begin", "commit", "stage", "clone", "bulk"}
  BY <1>5 DEF Effect, Ddl
<1> QED BY <1>2, <1>3, <1>4, <1>5 DEF Ops, Ddl

\* A statement that has run, or a commit
LEMMA MovesCauses ==
  ASSUME Shape, CauseInv, Moves,
         ~Refused(Head(todo), draft.rows), draft'.rows = RowsAfter(Head(todo), draft.rows),
         draft'.exists = Effect(Head(todo), draft).exists,
         ~SelfLocks(cfg) /\ ~DdlInRun(cfg) => draft'.exists = table'.exists,
         StagedOnce'
  PROVE  CauseInv'
<1> DEFINE st == Head(todo)
           rest == Tail(todo)
<1>1. /\ pc \in {"write", "flush"} /\ todo # <<>> /\ todo' = rest /\ UNCHANGED <<cfg, base, fed, pc, why>>
      /\ SameSink
      /\ open' = (IF st.op = "begin" THEN open \cup {st.on} ELSE IF st.op = "commit" THEN open \ {st.on} ELSE open)
      /\ holder' \in {"none", holder} \cup (IF Changes(st) THEN {st.on} ELSE {})
  BY DEF Moves, Calling
<1>2. /\ TypeOK /\ Consistent /\ EveryTxnEnds /\ HeldBack /\ why = "none"
      /\ TableThere /\ TableSeen /\ StagedOnce /\ KeysWelcome
  BY <1>1 DEF Shape, CauseInv
<1>3. todo \in Seq(Statements) /\ draft \in Tables
  BY <1>2 DEF TypeOK
<1>4. st \in Statements /\ rest \in Seq(Statements) /\ Of(todo) = {st} \cup Of(rest)
  BY <1>1, <1>3, HeadAndTail
<1> DEFINE r == draft.rows
           r2 == draft'.rows
<1>5. Outcomes(todo, r) = Outcomes(rest, r2)
  <2>1. ~Refused(Head(todo), r) /\ r2 = RowsAfter(Head(todo), r)
    OBVIOUS
  <2>2. <<>> \in Seq(Statements)
    BY EmptySeq
  <2> HIDE DEF r, r2
  <2> QED BY <1>1, <1>3, <2>1, <2>2, RestOutcomes
<1>6. sink.prepared /\ sink'.prepared
  BY <1>1, <1>2 DEF EveryTxnEnds, SameSink
<1>7. /\ ~Ddl(st) => draft'.exists = draft.exists
      /\ st.op = "create" => draft'.exists
  BY <1>3, <1>4, EffectExists
<1>8. TableThere'
  <2>1. SUFFICES ASSUME cfg.mode = "use_existing" => base.exists
                 PROVE  Creates(rest) \/ (draft'.exists /\ \A s \in Of(rest) : ~Ddl(s))
    BY <1>1, <1>6 DEF TableThere
  <2>2. Creates(todo) \/ (draft.exists /\ \A s \in Of(todo) : ~Ddl(s))
    BY <1>2, <1>6, <2>1 DEF TableThere
  <2>3. CASE Creates(todo)
    <3>1. (st.op = "create" /\ \A s \in Of(rest) : ~Ddl(s)) \/ Creates(rest)
      BY <1>1, <1>3, <2>3, CreatesRest
    <3> QED BY <1>7, <3>1
  <2>4. CASE draft.exists /\ \A s \in Of(todo) : ~Ddl(s)
    BY <1>4, <1>7, <2>4
  <2> QED BY <2>2, <2>3, <2>4
<1>9. TableSeen'
  <2>1. Proper(cfg, st) /\ \A s \in Of(rest) : Proper(cfg, s)
    BY <1>2, <1>4 DEF TableSeen
  <2>2. "auto" \notin open'
    BY <1>1, <1>2, <2>1 DEF TableSeen, Proper
  <2>3. ~SelfLocks(cfg) => IF DdlInRun(cfg) THEN holder' \in {"none", "run"} ELSE draft'.exists = table'.exists
    BY <1>1, <1>2, <2>1 DEF TableSeen, Proper
  <2> QED BY <1>1, <2>1, <2>2, <2>3 DEF TableSeen
<1>10. KeysWelcome'
  BY <1>1, <1>2, <1>5 DEF KeysWelcome, AllNew, SameSink
<1> QED BY <1>1, <1>2, <1>8, <1>9, <1>10 DEF CauseInv

\* What is left of a call after a statement that keeps the staging table where it is
LEMMA RestStagedOnce ==
  ASSUME todo \in Seq(Statements), todo # <<>>, todo' = Tail(todo), fed' = fed, sink'.home = sink.home,
         conn' = conn \/ conn' \in Conns, StagedOnce
  PROVE  StagedOnce'
<1>1. /\ DOMAIN Tail(todo) = 1 .. Len(Tail(todo)) /\ Len(Tail(todo)) \in Nat
      /\ \A i \in DOMAIN Tail(todo) : i + 1 \in DOMAIN todo /\ todo[i + 1] = Tail(todo)[i]
  BY RestIndices
<1>2. Of(Tail(todo)) \subseteq Of(todo)
  BY HeadAndTail
<1>3. \A i, j \in DOMAIN Tail(todo) : Is(Tail(todo)[i], "stage", "batch") /\ Is(Tail(todo)[j], "stage", "batch") => i = j
  <2>1. SUFFICES ASSUME NEW i \in DOMAIN Tail(todo), NEW j \in DOMAIN Tail(todo),
                        Is(Tail(todo)[i], "stage", "batch"), Is(Tail(todo)[j], "stage", "batch")
                 PROVE  i = j
    OBVIOUS
  <2>2. i + 1 = j + 1
    BY <1>1, <2>1 DEF StagedOnce
  <2> QED BY <1>1, <2>2
<1>4. conn # 0 => conn' # 0
  BY SinkAssumption
<1> QED BY <1>2, <1>3, <1>4 DEF StagedOnce

\* A statement in a transaction changes the draft, and DDL is not in one; another one
\* changes both tables.
LEMMA RanCauses ==
  ASSUME Shape, CauseInv, Moves, Ran(Head(todo)), StagedOnce'
  PROVE  CauseInv'
<1> DEFINE st == Head(todo)
<1>1. pc \in {"write", "flush"} /\ todo # <<>>
  BY DEF Moves, Calling
<1>2. todo \in Seq(Statements) /\ draft \in Tables /\ TableSeen
  BY <1>1 DEF Shape, TypeOK, CauseInv
<1>3. st \in Statements /\ st \in Of(todo)
  BY <1>1, <1>2, HeadAndTail
<1>4. /\ draft'.rows = RowsAfter(st, draft.rows) /\ draft'.exists = Effect(st, draft).exists
      /\ ~Refused(st, draft.rows)
      /\ IF ~Changes(st) THEN UNCHANGED <<table, draft, holder>>
         ELSE IF st.on \in open THEN UNCHANGED table ELSE table' = draft'
  BY DEF Ran
<1>5. Proper(cfg, st)
  BY <1>2, <1>3 DEF TableSeen
<1> HIDE DEF st
<1>6. ASSUME ~SelfLocks(cfg), ~DdlInRun(cfg) PROVE draft'.exists = table'.exists
  <2>1. draft.exists = table.exists /\ "auto" \notin open
    BY <1>2, <1>6 DEF TableSeen
  <2>2. CASE ~Changes(st)
    BY <1>4, <2>1, <2>2
  <2>3. CASE Changes(st) /\ st.on \in open
    <3>1. ~Ddl(st)
      BY <1>5, <1>6, <2>1, <2>3 DEF Proper
    <3>2. draft'.exists = draft.exists
      BY <1>2, <1>3, <1>4, <3>1, EffectExists
    <3> QED BY <1>4, <2>1, <2>3, <3>2
  <2>4. CASE Changes(st) /\ st.on \notin open
    BY <1>4, <2>4
  <2> QED BY <2>2, <2>3, <2>4
<1>7. ~Refused(Head(todo), draft.rows) /\ draft'.rows = RowsAfter(Head(todo), draft.rows)
      /\ draft'.exists = Effect(Head(todo), draft).exists
  BY <1>4 DEF st
<1> QED BY <1>6, <1>7, MovesCauses

LEMMA BeginCauses == ASSUME Shape, CauseInv, StepBegin PROVE CauseInv'
<1>1. /\ pc \in {"write", "flush"} /\ todo # <<>> /\ todo' = Tail(todo) /\ UNCHANGED <<fed, sink>>
      /\ conn' = conn \/ conn' \in Conns
  BY DEF StepBegin, Calling
<1>2. todo \in Seq(Statements) /\ StagedOnce
  BY <1>1 DEF Shape, TypeOK, CauseInv
<1> QED BY <1>1, <1>2, BeginShape, RestStagedOnce, RanCauses

LEMMA RunCauses == ASSUME Shape, CauseInv, StepRun PROVE CauseInv'
<1>1. /\ pc \in {"write", "flush"} /\ todo # <<>> /\ todo' = Tail(todo) /\ UNCHANGED <<fed, sink, conn>>
  BY DEF StepRun, Calling
<1>2. todo \in Seq(Statements) /\ StagedOnce
  BY <1>1 DEF Shape, TypeOK, CauseInv
<1> QED BY <1>1, <1>2, RunShape, RestStagedOnce, RanCauses

\* The one statement that stages a batch chooses the connection, and none is left.
LEMMA StageCauses == ASSUME Shape, CauseInv, StepStage PROVE CauseInv'
<1>1. /\ pc \in {"write", "flush"} /\ todo # <<>> /\ todo' = Tail(todo) /\ UNCHANGED <<fed, conn>>
      /\ Head(todo).op = "stage"
      /\ sink' = [sink EXCEPT !.home = IF Head(todo).on = "batch" THEN conn ELSE @]
  BY DEF StepStage, Calling, db
<1>2. todo \in Seq(Statements) /\ sink \in SinkStates /\ StagedOnce /\ EveryTxnEnds /\ HeldBack
  BY <1>1, StateTypes DEF Shape, TypeOK, CauseInv
<1>3. StagedOnce'
  <2>1. CASE Head(todo).on # "batch"
    <3>1. sink'.home = sink.home
      BY <1>1, <1>2, <2>1 DEF SinkStates
    <3> QED BY <1>1, <1>2, <3>1, RestStagedOnce
  <2>2. CASE Head(todo).on = "batch"
    <3>1. sink'.home = conn
      BY <1>1, <1>2, <2>2 DEF SinkStates
    <3>2. fed # <<>>
      BY <1>1, <1>2 DEF EveryTxnEnds, HeldBack
    <3>3. /\ DOMAIN Tail(todo) = 1 .. Len(Tail(todo)) /\ Len(Tail(todo)) \in Nat
          /\ 1 \in DOMAIN todo /\ todo[1] = Head(todo)
          /\ \A i \in DOMAIN Tail(todo) : i + 1 \in DOMAIN todo /\ todo[i + 1] = Tail(todo)[i]
      BY <1>1, <1>2, RestIndices
    <3>4. \A i \in DOMAIN Tail(todo) : ~Is(Tail(todo)[i], "stage", "batch")
      <4>1. SUFFICES ASSUME NEW i \in DOMAIN Tail(todo), Is(Tail(todo)[i], "stage", "batch") PROVE FALSE
        OBVIOUS
      <4>2. Is(todo[1], "stage", "batch") /\ Is(todo[i + 1], "stage", "batch")
        BY <1>1, <2>2, <3>3, <4>1 DEF Is
      <4>3. 1 = i + 1
        BY <1>2, <3>3, <4>2 DEF StagedOnce
      <4> QED BY <3>3, <4>3
    <3>5. \A st \in Of(Tail(todo)) : ~Is(st, "stage", "batch")
      BY <3>4 DEF Of
    <3> QED BY <1>1, <3>1, <3>2, <3>4, <3>5 DEF StagedOnce
  <2> QED BY <2>1, <2>2
<1> QED BY <1>3, StageShape, RanCauses

LEMMA CommitCauses == ASSUME Shape, CauseInv, StepCommit PROVE CauseInv'
<1>1. /\ pc \in {"write", "flush"} /\ todo # <<>> /\ todo' = Tail(todo) /\ UNCHANGED <<fed, sink, conn, cfg>>
      /\ Head(todo).op = "commit"
  BY DEF StepCommit, Calling
<1>2. TypeOK /\ Consistent /\ todo \in Seq(Statements) /\ StagedOnce /\ TableSeen
  BY <1>1 DEF Shape, TypeOK, CauseInv
<1>3. draft' = draft /\ table' \in {table, draft}
  BY <1>2, CommitResult
<1>4. ~Refused(Head(todo), draft.rows) /\ RowsAfter(Head(todo), draft.rows) = draft.rows
  BY <1>1, QuietStatement DEF Quiet
<1>5. Effect(Head(todo), draft) = draft
  BY <1>1 DEF Effect
<1>6. ~SelfLocks(cfg) /\ ~DdlInRun(cfg) => draft'.exists = table'.exists
  BY <1>2, <1>3 DEF TableSeen
<1>7. StagedOnce' /\ Moves
  BY <1>1, <1>2, CommitShape, RestStagedOnce
<1> QED BY <1>3, <1>4, <1>5, <1>6, <1>7, MovesCauses

\* The statements that repeat an ODBC insert
LEMMA FallbackCauses ==
  ASSUME NEW c \in Configs, DbxOdbc(c), NEW b \in Seq(Rows)
  PROVE  /\ DbxFallback(b) \in Seq(Statements) /\ NoStage(DbxFallback(b))
         /\ \A st \in Of(DbxFallback(b)) : Proper(c, st) /\ ~Ddl(st)
<1>1. c.strategy \notin Keyed /\ ~DdlInRun(c) /\ "auto" \in Sessions /\ Chunk \in Nat \ {0} /\ "append" \in Hows
  BY TargetAssumption DEF DbxOdbc, Keyed, DdlInRun, Sessions, Hows
<1>2. InSession(c, "auto") /\ Inserting(c, "append")
  BY <1>1, HowsInsert DEF InSession
<1>3. Sending(InsertEach("auto", b, Chunk, "append"), c, b) /\ NoStage(InsertEach("auto", b, Chunk, "append"))
  BY <1>1, <1>2, SendingInsert
<1> QED BY <1>3 DEF DbxFallback, Sending

LEMMA BulkCauses == ASSUME Shape, CauseInv, StepBulk PROVE CauseInv'
<1> DEFINE h == Head(todo)
           t == Tail(todo)
<1>1. /\ pc \in {"write", "flush"} /\ todo # <<>> /\ h.op = "bulk" /\ table.exists
      /\ UNCHANGED <<cfg, base, holder, open, conn, sink, fed, pc, why>>
  BY DEF StepBulk, Calling
<1>2. /\ TypeOK /\ Consistent /\ EveryTxnEnds /\ why = "none" /\ todo \in Seq(Statements)
      /\ TableThere /\ TableSeen /\ StagedOnce
  BY <1>1 DEF Shape, CauseInv, TypeOK
<1>3. DbxOdbc(cfg) /\ h.rows \in Seq(Rows) /\ draft' = table' /\ cfg \in Configs
  BY <1>2, BulkResult, StateTypes
<1>4. h \in Statements /\ t \in Seq(Statements) /\ Of(todo) = {h} \cup Of(t)
  BY <1>1, <1>2, HeadAndTail
<1>5. table \in Tables
  BY <1>2 DEF TypeOK
<1> HIDE DEF h
<1>6. PICK applied \in BOOLEAN, reported \in BOOLEAN :
        /\ table' = IF applied THEN [table EXCEPT !.rows = Appended(@, h.rows)] ELSE table
        /\ todo' = (IF reported THEN <<>> ELSE DbxFallback(h.rows)) \o t
  BY DEF StepBulk, h
<1>7. table'.exists
  BY <1>1, <1>5, <1>6 DEF Tables
<1> DEFINE X == IF reported THEN <<>> ELSE DbxFallback(h.rows)
<1>8. X \in Seq(Statements) /\ NoStage(X) /\ \A st \in Of(X) : Proper(cfg, st) /\ ~Ddl(st)
  <2>1. <<>> \in Seq(Statements) /\ Of(<<>>) = {} /\ NoStage(<<>>)
    BY EmptyProgram, CalmEmpty
  <2> QED BY <1>3, <2>1, FallbackCauses
<1>9. todo' = X \o t
  BY <1>6
<1> HIDE DEF X, t
<1>10. Of(todo') = Of(X) \cup Of(t)
  BY <1>4, <1>8, <1>9, OfConcat
<1>11. TableThere'
  <2>1. SUFFICES ASSUME cfg.mode = "use_existing" => base.exists
                 PROVE  draft'.exists /\ \A st \in Of(todo') : ~Ddl(st)
    BY <1>1, <1>2 DEF TableThere, EveryTxnEnds
  <2>2. ~Creates(todo)
    <3>1. h.op # "create" /\ NeedsTable(h)
      BY <1>1 DEF NeedsTable
    <3> QED BY <1>1, <1>2, <3>1, CreatesRest DEF h
  <2>3. \A st \in Of(todo) : ~Ddl(st)
    BY <1>1, <1>2, <2>1, <2>2 DEF TableThere, EveryTxnEnds
  <2> QED BY <1>3, <1>4, <1>7, <1>8, <1>10, <2>3
<1>12. TableSeen'
  <2>1. \A st \in Of(todo') : Proper(cfg, st)
    BY <1>2, <1>4, <1>8, <1>10 DEF TableSeen
  <2>2. ~DdlInRun(cfg)
    BY <1>3 DEF DdlInRun, DbxOdbc
  <2> QED BY <1>1, <1>2, <1>3, <2>1, <2>2 DEF TableSeen
<1>13. StagedOnce'
  <2>1. OneStage(t)
    <3>1. /\ DOMAIN t = 1 .. Len(t) /\ Len(t) \in Nat
          /\ \A i \in DOMAIN t : i + 1 \in DOMAIN todo /\ todo[i + 1] = t[i]
      BY <1>1, <1>2, RestIndices DEF t
    <3>2. SUFFICES ASSUME NEW i \in DOMAIN t, NEW j \in DOMAIN t,
                          Is(t[i], "stage", "batch"), Is(t[j], "stage", "batch")
                   PROVE  i = j
      BY DEF OneStage
    <3>3. i + 1 = j + 1
      BY <1>2, <3>1, <3>2 DEF StagedOnce
    <3> QED BY <3>1, <3>3
  <2>2. OneStage(X \o t)
    BY <1>4, <1>8, <2>1, NoStageOne, OneStageConcat
  <2>3. \A i, j \in DOMAIN todo' : Is(todo'[i], "stage", "batch") /\ Is(todo'[j], "stage", "batch") => i = j
    BY <1>9, <2>2 DEF OneStage
  <2>4. (\E st \in Of(todo') : Is(st, "stage", "batch")) => \E st \in Of(todo) : Is(st, "stage", "batch")
    BY <1>4, <1>8, <1>10 DEF NoStage
  <2> QED BY <1>1, <1>2, <2>3, <2>4 DEF StagedOnce
<1>14. KeysWelcome'
  <2>1. ~cfg.pk
    BY <1>3 DEF DbxOdbc, Keyed, Configs
  <2> QED BY <1>1, <2>1 DEF KeysWelcome
<1> QED BY <1>1, <1>2, <1>11, <1>12, <1>13, <1>14 DEF CauseInv

LEMMA StepCauses == ASSUME Shape, CauseInv, [Next]_vars PROVE CauseInv'
<1>1. CASE \E b \in Batches : Write(b)
  BY <1>1, WriteCauses
<1>2. CASE Flush
  BY <1>2, FlushCauses
<1>3. CASE WriteDone \/ FlushDone
  BY <1>3, CallEndsCauses
<1>4. CASE StepBegin \/ StepRun \/ StepStage \/ StepCommit
  BY <1>4, BeginCauses, RunCauses, StageCauses, CommitCauses
<1>5. CASE StepBulk
  BY <1>5, BulkCauses
<1>6. CASE Reject \/ Fault
  BY <1>6, FailCauses
<1>7. CASE UNCHANGED vars
  BY <1>7, StutterCauses
<1> QED BY <1>1, <1>2, <1>3, <1>4, <1>5, <1>6, <1>7 DEF Next, Run, Done

LEMMA RejectCaused == ASSUME Shape, CauseInv, Reject PROVE Caused'
<1> DEFINE st == Head(todo)
<1>1. /\ pc \in {"write", "flush"} /\ todo # <<>> /\ ~Blocked(st)
      /\ UNCHANGED <<cfg, base, fed, table>>
  BY DEF Reject, Calling, FailWith
<1>2. /\ TypeOK /\ Consistent /\ DdlFirst /\ EveryTxnEnds /\ HeldBack /\ todo \in Seq(Statements)
      /\ TableThere /\ TableSeen /\ StagedOnce /\ KeysWelcome
  BY <1>1 DEF Shape, CauseInv, TypeOK
<1>3. st \in Statements /\ Tail(todo) \in Seq(Statements) /\ todo = <<st>> \o Tail(todo) /\ Of(todo) = {st} \cup Of(Tail(todo))
  BY <1>1, <1>2, HeadAndTail
<1>4. Proper(cfg, st)
  BY <1>2, <1>3 DEF TableSeen
<1>5. sink.prepared /\ fed # <<>>
  BY <1>1, <1>2 DEF EveryTxnEnds, HeldBack
<1>6. AllNew' = AllNew
  BY <1>1 DEF AllNew
<1>7. CASE Refused(st, View(st.on).rows) /\ (NeedsTable(st) => View(st.on).exists) /\ FailWith("conflict")
  <2>1. st.op = "insert" /\ Changes(st) /\ (st.how = "append" => FALSE)
    BY <1>7 DEF Refused, Changes
  <2>2. cfg.pk
    BY <1>4, <2>1 DEF Proper
  <2>3. ASSUME AllNew PROVE FALSE
    <3>1. Outcomes(todo, draft.rows) # {}
      BY <1>1, <1>2, <1>5, <2>2, <2>3 DEF KeysWelcome
    <3> DEFINE r == draft.rows
               t == Tail(todo)
    <3>2. Outcomes(<<st>> \o t, r) # {}
      BY <1>3, <3>1
    <3>3. st \in Statements /\ t \in Seq(Statements)
      BY <1>3
    <3> HIDE DEF st, r, t
    <3>4. ~Refused(st, r)
      BY <3>2, <3>3, OutcomesStep
    <3>5. View(st.on) = draft
      BY <1>1, <1>2, <1>7, <2>1, SeesDraft DEF st
    <3> QED BY <1>7, <3>4, <3>5 DEF r
  <2> QED BY <1>1, <1>6, <1>7, <2>2, <2>3 DEF FailWith, Caused
<1>8. CASE NeedsTable(st) /\ ~View(st.on).exists /\ FailWith("missing")
  <2>1. ASSUME ~SelfLocks(cfg), cfg.mode = "use_existing" => base.exists PROVE FALSE
    <3>1. ~Creates(todo)
      <4>1. st.op # "create" /\ NeedsTable(st)
        BY <1>8 DEF NeedsTable
      <4> QED BY <1>1, <1>2, <4>1, CreatesRest
    <3>2. draft.exists
      BY <1>2, <1>5, <2>1, <3>1 DEF TableThere
    <3>3. CASE DdlInRun(cfg)
      <4>1. st.on = "run" /\ holder \in {"none", "run"}
        BY <1>2, <1>4, <1>8, <2>1, <3>3 DEF Proper, TableSeen
      <4>2. View(st.on) = draft
        BY <1>2, <4>1 DEF View, Consistent
      <4> QED BY <1>8, <3>2, <4>2
    <3>4. CASE ~DdlInRun(cfg)
      <4>1. draft.exists = table.exists
        BY <1>2, <2>1, <3>4 DEF TableSeen
      <4> QED BY <1>8, <3>2, <4>1 DEF View
    <3> QED BY <3>3, <3>4
  <2>2. SelfLocks(cfg') \/ (cfg'.mode = "use_existing" /\ ~base'.exists)
    <3>1. SelfLocks(cfg) \/ (cfg.mode = "use_existing" /\ ~base.exists)
      BY <2>1
    <3> QED BY <1>1, <3>1
  <2>3. why' = "missing"
    BY <1>8 DEF FailWith
  <2> QED BY <2>2, <2>3 DEF Caused
<1>9. CASE st.op = "stage" /\ st.on = "batch" /\ sink.home \notin {0, conn} /\ FailWith("staging")
  <2>1. sink.home \in Conns \cup {0} /\ conn \in Conns \cup {0}
    BY <1>2 DEF TypeOK
  <2>2. conn # 0
    BY <1>2, <1>9 DEF StagedOnce
  <2>3. sink.home \in Conns /\ conn \in Conns /\ sink.home # conn
    BY <1>9, <2>1, <2>2
  <2>4. \E s \in Of(todo) : Is(s, "stage", "batch")
    BY <1>3, <1>9 DEF Is
  <2>5. Len(fed) > 1
    BY <1>2, <1>9, <2>4 DEF StagedOnce
  <2> QED BY <1>1, <1>9, <2>3, <2>5 DEF FailWith, Caused
<1> QED BY <1>7, <1>8, <1>9 DEF Reject

LEMMA StepCaused == ASSUME Shape, CauseInv, Caused, [Next]_vars PROVE Caused'
<1>1. CASE Reject
  BY <1>1, RejectCaused
<1>2. CASE Fault
  <2>1. why' = "fault"
    BY <1>2 DEF Fault, FailWith
  <2> QED BY <2>1 DEF Caused
<1>3. CASE UNCHANGED vars
  BY <1>3 DEF vars, Caused, AllNew
<1>4. CASE ~(Reject \/ Fault \/ UNCHANGED vars)
  <2>1. pc # "failed" /\ why' = why
    BY <1>4 DEF Next, Run, Done, Write, WriteDone, Flush, FlushDone, StepBegin, StepCommit, StepRun, StepStage,
                StepBulk, Calling
  <2>2. why = "none"
    BY <2>1 DEF CauseInv
  <2> QED BY <2>1, <2>2 DEF Caused
<1> QED BY <1>1, <1>2, <1>3, <1>4

LEMMA InitIInv == ASSUME Init PROVE IInv
<1>1. HiddenBatch
  BY EmptyProgram DEF Init, HiddenBatch
<1> QED BY <1>1, InitDelivers DEF IInv, DInv

\* A database refuses a statement for a reason only: a table with a primary key, whatever the
\* strategy, and a key that was there already or came twice, a table that use_existing did not
\* find, Postgres' lock on its own table, or a second batch on another connection.
THEOREM RefusalsHaveCauses == ASSUME DistinctInBatch PROVE Spec => []RefusedForCause
<1> DEFINE Inv == IInv /\ CauseInv /\ Caused
<1>1. Init => Inv
  <2>1. SUFFICES ASSUME Init PROVE Inv
    OBVIOUS
  <2>2. why = "none"
    BY <2>1 DEF Init
  <2> QED BY <2>1, <2>2, InitIInv, InitCauses DEF Caused
<1>2. Inv /\ [Next]_vars => Inv'
  <2>1. SUFFICES ASSUME IInv, CauseInv, Caused, [Next]_vars PROVE Inv'
    OBVIOUS
  <2>2. Shape /\ DInv
    BY <2>1 DEF IInv, DInv
  <2>3. IInv'
    BY <2>1, <2>2, StepDelivers, StepHides DEF IInv, DInv
  <2> QED BY <2>1, <2>2, <2>3, StepCauses, StepCaused
<1>3. Inv => RefusedForCause
  BY DEF RefusedForCause
<1> QED BY <1>1, <1>2, <1>3, PTL DEF Spec
=============================================================================
