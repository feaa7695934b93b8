----------------------------- MODULE MCAlgorithms -----------------------------
(***************************************************************************)
(* The pure parts of the program, each called once with each of the inputs *)
(* its module enumerates. The invariants compare what a call returns with  *)
(* a definition of the answer that does not follow the code.               *)
(***************************************************************************)
EXTENDS RowJoin, RowGroups, Expressions, ExprParser, GlobMatch, Reshape,
        SecretRefs, PgTypes, ColumnPlans, TableDdl, Coercions

VARIABLE call

NoCall == [algo |-> "none"]
Init   == call = NoCall

Joins      == call = NoCall /\ call' \in JoinCases
Aggregates == call = NoCall /\ call' \in GroupCases
Evaluates  == call = NoCall /\ call' \in EvalCases
Maps       == call = NoCall /\ call' \in MapCases
Parses     == call = NoCall /\ call' \in ParseCases
Globs      == call = NoCall /\ call' \in GlobCases
Resolves   == call = NoCall /\ call' \in ResolveCases
Unnests    == call = NoCall /\ call' \in UnnestCases
Objects    == call = NoCall /\ call' \in ObjectCases
Secrets    == call = NoCall /\ call' \in SecretCases
ReadsTypes == call = NoCall /\ call' \in ReadCases
Creates    == call = NoCall /\ call' \in CreateCases
Stores     == call = NoCall /\ call' \in StoreCases
Shapes     == call = NoCall /\ call' \in SchemaCases
Injects    == call = NoCall /\ call' \in InjectCases
Aligns     == call = NoCall /\ call' \in AlignCases
Prepares   == call = NoCall /\ call' \in DdlCases
Coerces    == call = NoCall /\ call' \in CoerceCases

Next == \/ Joins \/ Aggregates \/ Evaluates \/ Maps \/ Parses
        \/ Globs \/ Resolves \/ Unnests \/ Objects \/ Secrets
        \/ ReadsTypes \/ Creates \/ Stores \/ Shapes \/ Injects \/ Aligns \/ Prepares \/ Coerces

Spec == Init /\ [][Next]_call

Of(algo, Right(_)) == call.algo = algo => Right(call)

\* However the inputs are cut into batches, a join's rows are those of SQL but for those it
\* lists, and an aggregate's groups and metrics are those of its rows (of the sum of nothing,
\* the bounds of decimals and the count of no batch the code has an idea of its own).
RowsAreSql == Of("join", JoinIsSql) /\ Of("aggregate", GroupsAreOfTheirRows)

\* Every expression that can be written is read back as the tree it was written from; a
\* filter passes what three-valued logic makes true and its negation the rest; the type
\* of a computed column does not depend on the values in the rows; and the columns a map
\* adds agree with each other whatever their order, or it fails.
ExpressionsAreSound ==
  /\ Of("parse", ReadsBack)
  /\ Of("eval", LogicIsKleene) /\ Of("eval", TypeIsStatic)
  /\ Of("map", MapFits)

\* The matcher's single bookmark loses no match, and invents none within one directory; a
\* path with wildcards selects the files of its directory it means, and with ** all of
\* those below it.
PathsMatch == Of("glob", ScanIsComplete) /\ Of("resolve", SelectsWhatIsThere)

\* Unnested parents and children, built in separate columns, stay beside each other, and
\* objects built of renamed columns give each value back at its path.
NestedValuesKept == Of("unnest", RowsLineUp) /\ Of("objects", ObjectsReadBack)

\* A document's references are all replaced, each by its own value, or it is refused; one
\* inside an expanded secret is replaced if it is one of the document's own, too.
SecretsReplaceTheirReferences == Of("secrets", ReferencesResolved)

\* Source columns are read with every value they can have, and created columns hold what
\* is sent to them, or a warning or the lists of the known losses say they may not.
ColumnsHoldTheirValues == Of("read", ReadsWhole) /\ Of("create", ColumnFits)

\* A value written to Postgres is stored, rounded or refused, but for the listed mistakes,
\* and COPY takes what a Postgres source has read into a table made of it, but for some texts.
PostgresStores == Of("store", NothingMistaken) /\ Of("store", CopiesPostgres)

\* A value bent to a column of the other databases is kept, rounded or refused, but for the
\* listed silent losses, and one that fits arrives, but for the types the sink cannot send.
ValuesKeptOrRefused == Of("coerce", KeptOrRefused) /\ Of("coerce", FittingArrives)

\* Later batches are shaped as the first was, with no data under another's name; the order
\* of the injections' map decides nothing but for the chains it is known to; and a sink's
\* columns get the data of their own name, none that matters missing.
BatchesKeepTheirShape ==
  Of("schema", PlanIsDirect) /\ Of("inject", InAnyOrder) /\ Of("align", AlignsByName)

\* A sink's statements for its table can be sent again, but for the plans that are listed;
\* the table has the keys, indexes and constraints its settings name, and if it is an SCD2
\* table, room for the versions it is for.
TablesRunAgain ==
  Of("ddl", RunsAgain) /\ Of("ddl", TableIsAsDeclared) /\ Of("ddl", TableHoldsVersions)

\* if_not_exists does nothing where the table exists, as its documentation says.
IfNotExistsIsNoOp == Of("ddl", NothingHappens)
=============================================================================
