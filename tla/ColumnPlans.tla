------------------------------ MODULE ColumnPlans ------------------------------
(***************************************************************************)
(* What a step's schema settings do to the columns of its batches          *)
(* (src/common/src/schema/apply.rs, SourceSchemaApplicator and             *)
(* SinkSchemaApplicator of src/runtime/src/dag/mod.rs), and how a sink     *)
(* lays a batch over the columns of its table (db/common/alignment.rs).    *)
(* Casts and stamps are compiled on the first batch and applied to the     *)
(* rest by position.  A name is a pair of a word and its case; a column    *)
(* carries in "from" where its data came from.                             *)
(***************************************************************************)
EXTENDS Integers, Sequences, FiniteSets, SequencesExt

CONSTANT None        \* Option's None, and an error in place of a batch

NoBatch == None
SameName(n, m) == n[1] = m[1]
Lower(n) == <<n[1], "lower">>

\* A HashMap's entries come as a sequence of [key, value] in its order; find takes the first.
EntryFor(entries, name) ==
  IF \E e \in Range(entries) : SameName(e.key, name)
  THEN SelectSeq(entries, LAMBDA e : SameName(e.key, name))[1].value
  ELSE None

\* A map from the lower-case names of a batch to positions keeps the last of two.
LastNamed(batch, name) ==
  LET at == {i \in DOMAIN batch : SameName(batch[i].name, name)}
  IN  IF at = {} THEN 0 ELSE CHOOSE i \in at : \A j \in at : j <= i

\* RecordBatch::try_new: as many columns as fields, of their types, NULLs where allowed.
TryNew(fields, columns) ==
  IF /\ columns # NoBatch
     /\ Len(fields) = Len(columns)
     /\ \A i \in DOMAIN fields : /\ fields[i].type = columns[i].type
                                 /\ columns[i].nulls => fields[i].nullable
  THEN [i \in DOMAIN fields |-> [fields[i] EXCEPT !.from = columns[i].from, !.nulls = columns[i].nulls]]
  ELSE NoBatch

Castable(t, u) == t = u \/ "list" \notin {t, u}

\* cast of the columns that have a type in wanted, nothing elsewhere.
CastAll(columns, wanted) ==
  IF \E i \in DOMAIN wanted : wanted[i] # None
                               /\ (i \notin DOMAIN columns \/ ~Castable(columns[i].type, wanted[i]))
  THEN NoBatch
  ELSE [i \in DOMAIN columns |->
          IF i \in DOMAIN wanted /\ wanted[i] # None THEN [columns[i] EXCEPT !.type = wanted[i]]
                                                        ELSE columns[i]]

-----------------------------------------------------------------------------
(* The two compiled plans, and the functions that do the same batch by      *)
(* batch.                                                                   *)

Overridden(schema, overrides) == [i \in DOMAIN schema |-> EntryFor(overrides, schema[i].name)]

ApplyArrowTypeOverrides(batch, overrides) == CastAll(batch, Overridden(batch, overrides))

CompileArrowTypeOverrides(schema, overrides) ==
  LET wanted  == Overridden(schema, overrides)
      actions == [i \in DOMAIN schema |-> IF wanted[i] = schema[i].type THEN None ELSE wanted[i]]
  IN  IF \A i \in DOMAIN actions : actions[i] = None THEN None
      ELSE [actions |-> actions,
            fields  |-> [i \in DOMAIN schema |->
                           IF wanted[i] = None THEN schema[i] ELSE [schema[i] EXCEPT !.type = wanted[i]]]]

ApplyArrowTypeOverridesPlan(batch, plan) ==
  LET columns == CastAll(batch, plan.actions)
  IN  IF columns = NoBatch THEN NoBatch ELSE TryNew(plan.fields, columns)

\* A ColumnOption: what it stamps, the nullability it sets, a new name, or to drop it.
Stamped(field, option) ==
  IF option = None THEN field
  ELSE [field EXCEPT !.tags = @ \cup option.tags,
                     !.nullable = IF option.nullable = None THEN @ ELSE option.nullable]

StampedFields(schema, options) ==
  IF schema = NoBatch THEN NoBatch ELSE [i \in DOMAIN schema |-> Stamped(schema[i], EntryFor(options, schema[i].name))]

ApplyDatabaseColumns(batch, options) == TryNew(StampedFields(batch, options), batch)

CompileMetadataStamps(schema, options) == IF options = <<>> THEN None ELSE StampedFields(schema, options)

ApplyMetadataStampPlan(batch, plan) == TryNew(plan, batch)

-----------------------------------------------------------------------------
(* Value injections, in the order of a HashMap.                             *)

\* The array an injection puts into its column: a plain reference takes what the column
\* holds by now, an expression what it held before the first injection.
Resolved(snapshot, arrays, injection) ==
  LET at == LastNamed(snapshot, injection.ref) IN
  CASE injection.value = "null"    -> [type |-> IF injection.type = None THEN "utf8" ELSE injection.type,
                                       from |-> {"null"}, nulls |-> TRUE]
    [] injection.value = "literal" -> [type |-> "utf8", from |-> {"literal"}, nulls |-> FALSE]
    [] injection.value \in {"column", "expr"} /\ at = 0 -> NoBatch
    [] injection.value = "column"  -> [type |-> arrays[at].type, from |-> arrays[at].from, nulls |-> arrays[at].nulls]
    [] injection.value = "expr"    -> [type |-> snapshot[at].type, from |-> {"expr"} \cup snapshot[at].from,
                                       nulls |-> snapshot[at].nulls]

\* A computed column may hold NULL on a later batch, a constant will not.
InjectedNullable(injection, nulls) ==
  IF injection.nullable # None THEN injection.nullable ELSE injection.value \in {"column", "expr"} \/ nulls

\* The injected field, which loses the metadata of the one it replaces.
Inject(snapshot, columns, name, injection) ==
  LET array == Resolved(snapshot, columns, injection)
      type  == IF injection.type = None THEN array.type ELSE injection.type
      field == [name |-> name, type |-> type, from |-> array.from, nulls |-> array.nulls, tags |-> {},
                nullable |-> InjectedNullable(injection, array.nulls)]
      at    == LastNamed(snapshot, name)
  IN  CASE columns = NoBatch -> NoBatch
        [] array = NoBatch -> NoBatch
        [] ~Castable(array.type, type) -> NoBatch
        [] at # 0 -> [columns EXCEPT ![at] = field]
        [] OTHER  -> Append(columns, field)

ApplyValueInjections(batch, injections) ==
  LET columns == FoldLeft(LAMBDA cs, e : IF cs = NoBatch THEN NoBatch ELSE Inject(batch, cs, e.key, e.value),
                          batch, injections)
  IN  TryNew(columns, columns)

-----------------------------------------------------------------------------
(* The column list.                                                         *)

ApplyExcludeColumns(batch, exclude) ==
  SelectSeq(batch, LAMBDA c : \A n \in exclude : ~SameName(n, c.name))

\* Drop wins over rename; a rename writes the name as it is given.
ApplyDatabaseStructural(batch, options) ==
  IF batch = NoBatch THEN NoBatch ELSE
  LET drops(name)  == \E e \in Range(options) : SameName(e.key, name) /\ e.value.drop
      to(name)     == SelectSeq(options, LAMBDA e : SameName(e.key, name) /\ e.value.rename # None)
      renamed(c)   == IF to(c.name) = <<>> THEN c ELSE [c EXCEPT !.name = Last(to(c.name)).value.rename]
      kept         == SelectSeq(batch, LAMBDA c : ~drops(c.name))
  IN  [i \in DOMAIN kept |-> renamed(kept[i])]

ApplyNormalizeColumns(batch) ==
  IF batch = NoBatch THEN NoBatch ELSE [i \in DOMAIN batch |-> [batch[i] EXCEPT !.name = Lower(@)]]

-----------------------------------------------------------------------------
(* SourceSchemaApplicator::apply; the sink's is the same without exclude    *)
(* and normalize. plans is what the batches before have left.               *)

NotCompiled == [compiled |-> FALSE, overrides |-> None, stamps |-> None]

\* What both paths end with.
Restructured(settings, batch) ==
  LET shaped == ApplyDatabaseStructural(batch, settings.options)
  IN  IF settings.normalize THEN ApplyNormalizeColumns(shaped) ELSE shaped

\* A mutant: the stamps are put on before the injections, which then take them off again.
ApplySchemaStampedFirst(settings, plans, batch) ==
  LET stamped  == ApplyDatabaseColumns(ApplyExcludeColumns(batch, settings.exclude), settings.options)
      cast     == ApplyArrowTypeOverrides(stamped, settings.overrides)
  IN  [plans |-> plans, batch |-> Restructured(settings, ApplyValueInjections(cast, settings.injections))]

\* A step that is refused (NoBatch) leaves the others out.
ApplySchema(settings, plans, batch) ==
  LET kept      == ApplyExcludeColumns(batch, settings.exclude)
      overrides == IF plans.compiled THEN plans.overrides
                   ELSE CompileArrowTypeOverrides(kept, settings.overrides)
      cast      == IF overrides = None THEN kept ELSE ApplyArrowTypeOverridesPlan(kept, overrides)
      injected  == ApplyValueInjections(cast, settings.injections)
      stamps    == IF plans.compiled THEN plans.stamps ELSE CompileMetadataStamps(injected, settings.options)
      stamped   == IF stamps = None THEN injected ELSE ApplyMetadataStampPlan(injected, stamps)
  IN  [plans |-> [compiled |-> TRUE, overrides |-> overrides, stamps |-> stamps],
       batch |-> Restructured(settings, stamped)]

-----------------------------------------------------------------------------
(* The table's columns: [name, type, nullable, default].                    *)

\* compute_alignment: for each column of the table its position in the batch.
ComputeAlignment(batch, table, missing, renames) ==
  LET found   == SelectSeq(table, LAMBDA t : LastNamed(batch, t.name) # 0)
      mapping == [i \in DOMAIN found |-> LastNamed(batch, found[i].name)]
      moved   == \E i \in DOMAIN table : LastNamed(batch, table[i].name) \notin {0, i}
      dropped == {i \in DOMAIN batch : \A t \in Range(table) : ~SameName(t.name, batch[i].name)}
  IN  IF \/ table = <<>>
         \/ missing = "error" /\ \E t \in Range(table) : /\ LastNamed(batch, t.name) = 0
                                                         /\ ~t.nullable /\ ~t.default
         \/ \E i \in dropped, n \in renames : SameName(n, batch[i].name)
      THEN NoBatch
      ELSE [mapping  |-> mapping,
            identity |-> /\ ~moved /\ dropped = {} /\ Len(found) = Len(table)
                         /\ Len(mapping) = Len(batch)]

ApplyAlignment(batch, alignment) ==
  IF alignment.identity THEN batch ELSE [i \in DOMAIN alignment.mapping |-> batch[alignment.mapping[i]]]

-----------------------------------------------------------------------------
(* Inputs.                                                                  *)

ColA == <<"a", "lower">>
ColB == <<"b", "lower">>
ColC == <<"c", "lower">>
Upper(n) == <<n[1], "upper">>

SourceColumn(name, type, nulls) ==
  [name |-> name, type |-> type, from |-> {name[1]}, tags |-> {}, nullable |-> TRUE, nulls |-> nulls]

SourceBatches ==
  {<<SourceColumn(n, "utf8", nulls), SourceColumn(m, type, FALSE)>> :
     n \in {ColA, ColC}, m \in {ColB, Upper(ColA)}, type \in {"utf8", "int64", "list"}, nulls \in BOOLEAN}

Swapped(batch) == <<batch[2], batch[1]>>
LaterBatches   == SourceBatches \cup {Swapped(batch) : batch \in SourceBatches}

Entry(key, value) == [key |-> key, value |-> value]

InjectedAs(value, ref, type, nullable) == [value |-> value, ref |-> ref, type |-> type, nullable |-> nullable]
Injections ==
  {Entry(ColB, InjectedAs("column", ColA, None, None)), Entry(Upper(ColA), InjectedAs("literal", ColA, "int64", None)),
   Entry(ColC, InjectedAs("expr", ColB, None, FALSE)),      Entry(ColA, InjectedAs("expr", ColB, None, None)),
   Entry(ColC, InjectedAs("column", Upper(ColB), "utf8", None)),  Entry(ColB, InjectedAs("null", ColB, None, FALSE))}

Option(tags, nullable, rename, drop) == [tags |-> tags, nullable |-> nullable, rename |-> rename, drop |-> drop]

Settings ==
  [overrides  : {<<>>, <<Entry(Upper(ColB), "utf8")>>, <<Entry(ColB, "int64"), Entry(ColA, "int64")>>},
   injections : {<<>>} \cup {<<e>> : e \in Injections},
   options    : {<<>>, <<Entry(Upper(ColB), Option({"key"}, FALSE, ColC, FALSE))>>,
                 <<Entry(ColA, Option({}, FALSE, None, FALSE)), Entry(ColC, Option({}, None, None, TRUE))>>},
   exclude    : {{}, {Upper(ColC)}},
   normalize  : BOOLEAN]

SchemaCases == [algo : {"schema"}, settings : Settings, first : SourceBatches, second : LaterBatches]

InjectCases == [algo : {"inject"}, batch : SourceBatches,
                injections : UNION {SetToSeqs(s) : s \in {t \in SUBSET Injections : Cardinality(t) \in 2..3}}]

TableColumn(name, nullable, default) == [name |-> name, nullable |-> nullable, default |-> default]
Tables ==
  {<<>>} \cup {<<TableColumn(n, FALSE, default), TableColumn(m, nullable, FALSE)>> :
               n \in {Upper(ColA), ColB, ColC}, m \in {ColB, Upper(ColC)}, nullable \in BOOLEAN, default \in BOOLEAN}
         \cup {<<TableColumn(n, TRUE, FALSE)>> : n \in {ColA, Upper(ColB)}}

AlignCases == [algo : {"align"}, batch : LaterBatches, table : Tables, missing : {"error", "skip"},
               renames : {{}, {Upper(ColB)}, {ColA}}]

-----------------------------------------------------------------------------
(* Properties.                                                              *)

\* The settings applied to one batch by itself: the types, then the injections, then the
\* stamps, then the names, whatever other batches there are.
Direct(settings, batch) ==
  LET cast     == ApplyArrowTypeOverrides(ApplyExcludeColumns(batch, settings.exclude), settings.overrides)
      injected == ApplyValueInjections(cast, settings.injections)
  IN  Restructured(settings, ApplyDatabaseColumns(injected, settings.options))

ColumnNames(batch) == [i \in DOMAIN batch |-> batch[i].name]
Types(batch) == [i \in DOMAIN batch |-> batch[i].type]
Origins(batch) == [i \in DOMAIN batch |-> batch[i].from]

\* A batch gets what its own columns call for: the first always, a later one when it has
\* the first one's names and types, and with its names alone no data under another name.
PlanIsDirect(case) ==
  \A one \in {ApplySchema(case.settings, NotCompiled, case.first)},
     direct \in {Direct(case.settings, case.second)} :
    \A two \in {ApplySchema(case.settings, one.plans, case.second).batch} :
      /\ one.batch = Direct(case.settings, case.first)
      /\ one.batch # NoBatch /\ ColumnNames(case.first) = ColumnNames(case.second) =>
           /\ Types(case.first) = Types(case.second) => two = direct
           /\ two # NoBatch /\ direct # NoBatch => ColumnNames(two) = ColumnNames(direct) /\ Origins(two) = Origins(direct)

\* An injection that copies a column another one replaces, or that has a target of its own
\* name, depends on which comes first.
OrderMatters(case) ==
  \E e, f \in Range(case.injections) :
    /\ e # f
    /\ \/ e.value.value = "column" /\ SameName(e.value.ref, f.key) /\ LastNamed(case.batch, f.key) # 0
       \/ SameName(e.key, f.key)

\* Otherwise the HashMap's order decides nothing.
InAnyOrder(case) ==
  OrderMatters(case) \/
    LET inOrder == ApplyValueInjections(case.batch, case.injections)
        turned  == ApplyValueInjections(case.batch, Reverse(case.injections))
    IN  IF inOrder = NoBatch THEN turned = NoBatch
        ELSE turned # NoBatch /\ ToSet(inOrder) = ToSet(turned)

\* An aligned batch has the table's columns in the table's order, each with its own data;
\* only columns the table has not, and the first of two of one name, are left behind; a
\* renamed column never is, and under "error" no column the table cannot do without.
AlignsByName(case) ==
  LET alignment == ComputeAlignment(case.batch, case.table, case.missing, case.renames)
      aligned   == ApplyAlignment(case.batch, alignment)
      has(n)    == \E i \in DOMAIN aligned : SameName(aligned[i].name, n)
  IN  alignment # NoBatch =>
        /\ \A i \in DOMAIN aligned : aligned[i].from = {aligned[i].name[1]}
        /\ \E place \in [DOMAIN aligned -> DOMAIN case.table] :
             \A i, j \in DOMAIN aligned : /\ SameName(case.table[place[i]].name, aligned[i].name)
                                          /\ i < j => place[i] < place[j]
        /\ \A i \in DOMAIN case.batch :
             \/ case.batch[i] \in Range(aligned)
             \/ \E j \in DOMAIN case.batch : j > i /\ SameName(case.batch[i].name, case.batch[j].name)
             \/ \A n \in case.renames \cup {t.name : t \in Range(case.table)} : ~SameName(n, case.batch[i].name)
        /\ case.missing = "error" =>
             \A t \in Range(case.table) : t.nullable \/ t.default \/ has(t.name)
=============================================================================
