-------------------------------- MODULE TableDdl --------------------------------
(***************************************************************************)
(* The statements a sink sends to create its table (generate_ddl and       *)
(* generate_ddl_with_schema of src/common/src/schema/ddl) and what the     *)
(* sinks do about those that fail.  A field has a name, marks taken from   *)
(* its etl.* metadata, and the values of an enum; the step's own settings  *)
(* name indexes and constraints.  A catalog holds the tables of one schema *)
(* of the server and what belongs to them.                                 *)
(***************************************************************************)
EXTENDS SqlTypes, SequencesExt

Sql(do, on, name, columns) == [do |-> do, on |-> on, name |-> name, columns |-> columns]

SystemColumns == {"scd_id", "valid_from", "valid_to", "is_current"}

\* The names generate_ddl makes up. An enum's type is named for its column alone.
EnumTypeName(column)    == <<"enum", column>>
CurrentIndex(on, key)   == <<"current", on, key>>
ColumnIndex(on, column) == <<"idx", on, column>>

UserFields(fields, scd2) == SelectSeq(fields, LAMBDA f : ~scd2 \/ f.name \notin SystemColumns)
Marked(fields, mark) == {f.name : f \in {g \in ToSet(fields) : mark \in g.marks}}

\* CREATE TABLE: its keys come as a set of them, and the SCD2 columns bring one.
CreateTable(on, fields, dialect, scd2) ==
  LET keys == {Marked(fields, "key")} \ {{}}
  IN  [do |-> "table", on |-> on, name |-> on,
       columns |-> {f.name : f \in ToSet(fields)} \cup IF scd2 THEN SystemColumns ELSE {},
       keys    |-> keys \cup IF scd2 /\ dialect # "databricks" THEN {{"scd_id"}} ELSE {},
       uniques |-> {{n} : n \in Marked(fields, "unique") \ Marked(fields, "key")},
       enums   |-> [n \in IF dialect \in {"postgres", "mysql"} THEN Marked(fields, "enum") ELSE {} |->
                      IF dialect = "postgres" THEN EnumTypeName(n)
                      ELSE (CHOOSE f \in ToSet(fields) : f.name = n).values]]

\* make_on_update_trigger: the trigger is replaced where there is one, by OR REPLACE or by
\* dropping it first; MySQL's ON UPDATE is in the column, and Databricks has none.
MakeOnUpdateTrigger(on, column, dialect) ==
  IF dialect \in {"postgres", "mssql", "oracle"}
  THEN <<Sql("trigger", on, <<"trigger", on, column>>, {column})>> ELSE <<>>

\* What follows a field: its index, its trigger, its comment, its enum's CHECK.
PostCreateOf(on, f, dialect) ==
     (IF "index" \in f.marks THEN <<Sql("index", on, ColumnIndex(on, f.name), {f.name})>> ELSE <<>>)
  \o (IF "update" \in f.marks THEN MakeOnUpdateTrigger(on, f.name, dialect) ELSE <<>>)
  \o (IF "described" \in f.marks /\ dialect \in {"postgres", "oracle"}
      THEN <<Sql("comment", on, f.name, {f.name})>> ELSE <<>>)
  \o (IF "enum" \in f.marks /\ dialect \in {"mssql", "oracle", "databricks"}
      THEN <<Sql("check", on, f.values, {f.name})>> ELSE <<>>)

\* scd2 is FALSE, or else the table gets its system columns and an index on key.
GenerateDdl(on, fields, dialect, scd2, key) ==
  LET users == UserFields(fields, scd2)
      enums == SelectSeq(users, LAMBDA f : "enum" \in f.marks)
  IN  [pre   |-> IF dialect = "postgres"
                 THEN [i \in DOMAIN enums |-> Sql("type", on, EnumTypeName(enums[i].name), enums[i].values)]
                 ELSE <<>>,
       table |-> CreateTable(on, users, dialect, scd2),
       post  |-> (IF scd2 THEN <<Sql("index", on, CurrentIndex(on, key), {key, "is_current"})>> ELSE <<>>)
                 \o FlattenSeq([i \in DOMAIN users |-> PostCreateOf(on, users[i], dialect)])]

MakeCreateIndex(on, index) ==
  Sql(IF index.unique THEN "unique" ELSE "index", on, <<"own", index.name>>, index.columns)

NamedConstraints(on, constraints) ==
  LET names == SetToSeq(constraints) IN [i \in DOMAIN names |-> Sql("constraint", on, names[i], {})]

\* A primary index is left out where CREATE TABLE has a key already.
GenerateDdlWithSchema(on, fields, dialect, scd2, key, db) ==
  LET ddl     == GenerateDdl(on, fields, dialect, scd2, key)
      wanted  == SelectSeq(db.indexes, LAMBDA x : ~x.primary \/ ddl.table.keys = {})
      indexes == [i \in DOMAIN wanted |->
                    IF wanted[i].primary THEN Sql("primary", on, wanted[i].name, wanted[i].columns)
                    ELSE MakeCreateIndex(on, wanted[i])]
  IN  [ddl EXCEPT !.post = @ \o indexes \o NamedConstraints(on, db.constraints)]

\* Databricks has a CREATE TABLE of its own, with columns only.
DatabricksTable(on, fields) ==
  [CreateTable(on, fields, "databricks", FALSE) EXCEPT !.keys = {}, !.uniques = {}]

NamedDdlPostCreate(on, db) ==
  [i \in DOMAIN db.indexes |->
     IF db.indexes[i].primary THEN Sql("primary", on, db.indexes[i].name, db.indexes[i].columns)
     ELSE MakeCreateIndex(on, db.indexes[i])]
  \o NamedConstraints(on, db.constraints)

-----------------------------------------------------------------------------
(* The server.                                                              *)

NoTables == [tables |-> <<>>, indexes |-> {}, types |-> <<>>]
EmptyTable == [columns |-> {}, keys |-> {}, uniques |-> {}, enums |-> <<>>, triggers |-> {},
               checks |-> <<>>, constraints |-> {}]

With(f, key, value) == [x \in DOMAIN f \cup {key} |-> IF x = key THEN value ELSE f[x]]
Put(cat, on, table) == [cat EXCEPT !.tables = With(@, on, table)]
Done(cat)    == [ok |-> TRUE, cat |-> cat]
Broken(cat)  == [ok |-> FALSE, cat |-> cat]

\* An index of that name stands in the way: on any table of the schema, or on its own.
NameTaken(cat, sql, dialect) ==
  \E x \in cat.indexes : x.name = sql.name /\ (dialect = "mysql" => x.on = sql.on)

\* CREATE INDEX as make_create_index guards it: Postgres by IF NOT EXISTS, MSSQL by its
\* name on any table, Oracle by the error for columns that have an index; Delta has none.
TakeIndex(cat, sql, dialect) ==
  LET index == [name |-> sql.name, on |-> sql.on, columns |-> sql.columns, unique |-> sql.do = "unique"]
  IN  CASE dialect = "databricks" -> Broken(cat)
        [] dialect \in {"postgres", "mssql"} /\ NameTaken(cat, sql, dialect) -> Done(cat)
        [] dialect = "oracle" /\ \E x \in cat.indexes : x.on = sql.on /\ x.columns = sql.columns -> Done(cat)
        [] dialect \in {"oracle", "mysql"} /\ NameTaken(cat, sql, dialect) -> Broken(cat)
        [] OTHER -> Done([cat EXCEPT !.indexes = @ \cup {index}])

\* CREATE TABLE, by IF NOT EXISTS or a block that ignores that it exists.
TakeTable(cat, sql) ==
  IF sql.on \in DOMAIN cat.tables THEN Done(cat)
  ELSE IF Cardinality(sql.keys) > 1 THEN Broken(cat)
  ELSE Done(Put(cat, sql.on,
                [EmptyTable EXCEPT !.columns = sql.columns, !.keys = sql.keys, !.uniques = sql.uniques,
                                   !.enums = [n \in DOMAIN sql.enums |->
                                                IF sql.enums[n] \in DOMAIN cat.types
                                                THEN cat.types[sql.enums[n]] ELSE sql.enums[n]]]))

Take(cat, sql, dialect) ==
  CASE sql.do = "type"  -> Done(IF sql.name \in DOMAIN cat.types THEN cat
                                ELSE [cat EXCEPT !.types = With(@, sql.name, sql.columns)])
    [] sql.do = "table" -> TakeTable(cat, sql)
    [] sql.on \notin DOMAIN cat.tables -> Broken(cat)
    [] sql.do \in {"index", "unique"} -> TakeIndex(cat, sql, dialect)
    [] sql.do = "trigger" -> Done([cat EXCEPT !.tables[sql.on].triggers = @ \cup sql.columns])
    [] sql.do = "comment" -> Done(cat)
    [] sql.do = "check"   -> Done([cat EXCEPT !.tables[sql.on].checks = Append(@, <<sql.columns, sql.name>>)])
    [] sql.do = "constraint" -> IF sql.name \in cat.tables[sql.on].constraints THEN Broken(cat)
                                ELSE Done([cat EXCEPT !.tables[sql.on].constraints = @ \cup {sql.name}])
    [] sql.do = "primary" -> IF cat.tables[sql.on].keys # {} THEN Broken(cat)
                             ELSE Done([cat EXCEPT !.tables[sql.on].keys = {sql.columns}])

-----------------------------------------------------------------------------
(* The sinks.                                                               *)

\* Statements one after another: the first strict one that fails is the end.
Execute(cat, statements, dialect) ==
  FoldLeft(LAMBDA s, statement : IF ~s.ok THEN s
                                 ELSE LET t == Take(s.cat, statement.sql, dialect)
                                      IN  [ok |-> t.ok \/ ~statement.strict, cat |-> t.cat],
           Done(cat), statements)

All(sqls, strict) == [i \in DOMAIN sqls |-> [sql |-> sqls[i], strict |-> strict]]

\* A mutant: nobody looks whether there is a table.
PrepareTableBlindly(cat, on, plan) ==
  LET ddl == GenerateDdlWithSchema(on, plan.fields, plan.dialect, plan.scd2, plan.key, plan.db)
  IN  Execute(cat, All(ddl.pre \o <<ddl.table>>, TRUE) \o All(ddl.post, plan.dialect = "postgres"), plan.dialect)

\* What the five sinks and the SCD2 sinks' ensure_table send to make a table. Only the
\* Postgres sink stops at an index or constraint that fails.
Statements(on, plan) ==
  LET ddl == GenerateDdlWithSchema(on, plan.fields, plan.dialect, plan.scd2, plan.key, plan.db)
  IN  CASE plan.scd2 -> All(ddl.pre, FALSE) \o All(<<ddl.table>>, TRUE) \o All(ddl.post, FALSE)
        [] ~plan.scd2 /\ plan.dialect = "databricks" ->
             All(<<DatabricksTable(on, plan.fields)>>
                 \o GenerateDdl(on, plan.fields, "databricks", FALSE, plan.key).post, TRUE)
             \o All(NamedDdlPostCreate(on, plan.db), FALSE)
        [] OTHER -> All(ddl.pre \o <<ddl.table>>, TRUE) \o All(ddl.post, plan.dialect = "postgres")

\* CreateIfNotExists. The sinks of SQL Server and Oracle first look whether there is a
\* table, and then leave it as it is.
PrepareTable(cat, on, plan) ==
  IF ~plan.scd2 /\ plan.dialect \in {"mssql", "oracle"} /\ on \in DOMAIN cat.tables THEN Done(cat)
  ELSE Execute(cat, Statements(on, plan), plan.dialect)

-----------------------------------------------------------------------------
(* Inputs: one plan for a table, and another for a second one beside it.    *)

TableField(name, marks, values) == [name |-> name, marks |-> marks, values |-> values]
TableFields ==
  {<<TableField("id", {"key"}, {}), TableField("state", {"enum", "described"}, {"open", "shut"})>>,
   <<TableField("id", {"unique"}, {}), TableField("state", {"update", "index"}, {})>>,
   <<TableField("id", {}, {}), TableField("state", {"enum"}, {"on", "off"})>>,
   <<TableField("id", {}, {}), TableField("scd_id", {"key"}, {})>>}

NamedIndex(name, columns, unique, primary) ==
  [name |-> name, columns |-> columns, unique |-> unique, primary |-> primary]
Databases ==
  {[indexes |-> <<>>, constraints |-> {}],
   [indexes |-> <<NamedIndex("by_id", {"id"}, FALSE, FALSE)>>, constraints |-> {"positive"}],
   [indexes |-> <<NamedIndex("pk", {"id"}, FALSE, TRUE), NamedIndex("by_id", {"id"}, TRUE, FALSE)>>,
    constraints |-> {}]}

TablePlans == [dialect : Dialects, scd2 : BOOLEAN, key : {"id"}, fields : TableFields, db : Databases]

DdlCases == {x \in [algo : {"ddl"}, first : TablePlans, second : TablePlans] :
               x.first.dialect = x.second.dialect}

-----------------------------------------------------------------------------
(* Properties.                                                              *)

HasEnum(plan)    == Marked(plan.fields, "enum") # {}
HasPrimary(plan) == \E x \in ToSet(plan.db.indexes) : x.primary

\* Postgres adds what has a name without a guard, and stops at the error of the second time.
StopsAgain(plan) ==
  /\ plan.dialect = "postgres" /\ ~plan.scd2
  /\ \/ plan.db.constraints # {}
     \/ HasPrimary(plan) /\ Marked(plan.fields, "key") = {}

\* An enum's CHECK has no name, and where nobody looks for the table it is added again.
AddsChecks(plan) ==
  /\ HasEnum(plan)
  /\ \/ plan.dialect = "databricks"
     \/ plan.scd2 /\ plan.dialect \in {"mssql", "oracle"}

\* The same run over the table it has made changes nothing and fails nowhere, but for the
\* plans that stop and, as to the checks, those that add some again.
RunsAgain(case) ==
  \A once \in {PrepareTable(NoTables, "t", case.first)} :
    \A twice \in {PrepareTable(once.cat, "t", case.first)} :
      once.ok /\ ~StopsAgain(case.first) =>
        /\ twice.ok
        /\ IF AddsChecks(case.first)
           THEN [twice.cat EXCEPT !.tables["t"].checks = once.cat.tables["t"].checks] = once.cat
           ELSE twice.cat = once.cat

\* What docs/universal-schema-options.md 549 says of if_not_exists, of the sinks alone: where
\* there is the table, nothing happens.
NothingHappens(case) ==
  ~case.first.scd2 =>
    \A once \in {PrepareTable(NoTables, "t", case.first)} :
      once.ok => PrepareTable(once.cat, "t", case.first) = once

\* A name of the second plan that the first table has taken.
Shadowed(case) ==
  \/ /\ case.first.dialect # "mysql"
     /\ \E x \in ToSet(case.first.db.indexes), y \in ToSet(case.second.db.indexes) : x.name = y.name
  \/ /\ case.first.dialect = "postgres"
     /\ \E f \in ToSet(case.first.fields), g \in ToSet(case.second.fields) :
          f.name = g.name /\ "enum" \in f.marks \cap g.marks /\ f.values # g.values

LimitedTo(cat, on, field) ==
  \/ field.name \in DOMAIN cat.tables[on].enums /\ cat.tables[on].enums[field.name] = field.values
  \/ <<{field.name}, field.values>> \in ToSet(cat.tables[on].checks)

\* A second table beside a first gets all that its plan names, but from Databricks, which
\* takes neither keys nor indexes, and but for the names the first one has.
TableIsAsDeclared(case) ==
  \A once \in {PrepareTable(NoTables, "t", case.first)} :
    \A made \in {PrepareTable(once.cat, "u", case.second)} :
      LET plan == case.second
          own  == UserFields(plan.fields, plan.scd2)
      IN  once.ok /\ made.ok /\ plan.dialect # "databricks" /\ ~Shadowed(case) =>
        /\ {f.name : f \in ToSet(own)} \subseteq made.cat.tables["u"].columns
        /\ \A f \in ToSet(own) :
             /\ "enum" \in f.marks   => LimitedTo(made.cat, "u", f)
             /\ "unique" \in f.marks => {f.name} \in made.cat.tables["u"].uniques
             /\ "update" \in f.marks =>
                  (plan.dialect = "mysql" \/ f.name \in made.cat.tables["u"].triggers)
             /\ "index" \in f.marks =>
                  \E y \in made.cat.indexes : y.on = "u" /\ y.columns = {f.name}
        /\ plan.db.constraints \subseteq made.cat.tables["u"].constraints
        /\ (Marked(own, "key") # {} \/ HasPrimary(plan)) => made.cat.tables["u"].keys # {}
        /\ \A x \in ToSet(plan.db.indexes) :
             x.primary \/ \E y \in made.cat.indexes : y.on = "u" /\ y.columns = x.columns

\* Two closed versions of a row differ in these columns only.
VersionColumns == {"scd_id", "valid_from", "valid_to"}

\* What may not be repeated in the table: its keys, its uniques and its unique indexes.
Unrepeated(cat, on) ==
  cat.tables[on].keys \cup cat.tables[on].uniques
    \cup {x.columns : x \in {y \in cat.indexes : y.on = on /\ y.unique}}

\* A table of versions holds two of one row, unless the plan itself wants a column unique;
\* a field that is a key of its own makes a second key, and there is no table.
TableHoldsVersions(case) ==
  \A plan \in {case.first} : \A made \in {PrepareTable(NoTables, "t", plan)} :
      plan.scd2 /\ plan.dialect # "databricks" =>
        /\ made.ok <=> Marked(UserFields(plan.fields, TRUE), "key") = {}
        /\ \/ ~made.ok
           \/ Marked(plan.fields, "unique") # {} \/ \E x \in ToSet(plan.db.indexes) : x.unique
           \/ \A columns \in Unrepeated(made.cat, "t") : columns \cap VersionColumns # {}
=============================================================================
