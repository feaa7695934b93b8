-------------------------------- MODULE Reshape --------------------------------
(***************************************************************************)
(* Steps that change the shape of a batch: unnest makes a row of each      *)
(* element of an array, build_objects a JSON object of each row, flatten   *)
(* takes values back out of one by their paths, rename renames columns.    *)
(* A JSON value is a kind and what belongs to it; a path is a sequence of  *)
(* names and, for arrays, indexes from 0.                                  *)
(***************************************************************************)
EXTENDS Integers, Sequences, FiniteSets, SequencesExt

CONSTANT Nothing        \* no value at all, as Option's None

JNull      == <<"null">>
JText(s)   == <<"text", s>>
JArray(s)  == <<"array", s>>
JObject(f) == <<"object", f>>
KindOf(j)  == j[1]

\* The text of a value: JSON's null has the text "null".
Serialized(j) == IF KindOf(j) = "null" THEN "null" ELSE j[2]

\* Value::get of a name or an index.
Get(j, segment) ==
  IF j = Nothing THEN Nothing
  ELSE CASE KindOf(j) = "object" /\ segment \in DOMAIN j[2] -> j[2][segment]
         [] OTHER -> Nothing

\* json_path_get: a missing segment gives nothing, and so does a null at the end.
JsonPathGet(j, path) ==
  LET value == FoldLeft(Get, j, path)
  IN  IF value = Nothing \/ value = JNull THEN Nothing ELSE value

-----------------------------------------------------------------------------
(* unnest: rows are [parent, elements] with the array column already read. *)

\* extract_elements: NULL and JSON's null have no elements, anything but an array is an
\* error, and with it the batch.
ExtractElements(cell) ==
  IF cell = Nothing \/ cell = JNull THEN <<>> ELSE cell[2]

Readable(cell) == cell = Nothing \/ KindOf(cell) \in {"null", "array"}

\* A name without dots is looked up by itself, and then a null becomes the text "null";
\* a dotted path is walked.
ExtractField(element, path) ==
  IF Len(path) = 1
  THEN LET value == Get(element, path[1]) IN IF value = Nothing THEN Nothing ELSE Serialized(value)
  ELSE LET value == JsonPathGet(element, path) IN IF value = Nothing THEN Nothing ELSE Serialized(value)

\* The columns are built apart: the parents' values repeated once per element, the
\* children's taken from the elements of all rows.
ParentColumn(rows, name) ==
  FlattenSeq([r \in DOMAIN rows |->
    [n \in DOMAIN ExtractElements(rows[r].cell) |-> rows[r].parent[name]]])

ChildColumn(rows, Take(_)) ==
  FlattenSeq([r \in DOMAIN rows |->
    [n \in DOMAIN ExtractElements(rows[r].cell) |-> Take(ExtractElements(rows[r].cell)[n])]])

\* parents and fields map the output's names to a parent's column and to a path. A batch
\* whose columns have several lengths is refused by RecordBatch::try_new.
ApplyUnnest(rows, parents, fields) ==
  LET columns == [c \in DOMAIN parents \cup DOMAIN fields |->
                    IF c \in DOMAIN fields
                    THEN ChildColumn(rows, LAMBDA e : ExtractField(e, fields[c]))
                    ELSE ParentColumn(rows, parents[c])]
  IN  IF \A r \in DOMAIN rows : Readable(rows[r].cell)
      THEN [ok |-> \A c, d \in DOMAIN columns : Len(columns[c]) = Len(columns[d]), columns |-> columns]
      ELSE [ok |-> FALSE, columns |-> <<>>]

-----------------------------------------------------------------------------
(* rename and build_objects.                                               *)

RenameAll(columns, from, to) ==
  [i \in DOMAIN columns |-> [columns[i] EXCEPT !.name = IF @ = from THEN to ELSE @]]

ApplyRenameInTurn(columns, renames) ==
  FoldLeft(LAMBDA cols, from : RenameAll(cols, from, renames[from]), columns,
           SetToSeq(DOMAIN renames))

\* apply_rename: all columns at once, each by its old name.
ApplyRename(columns, renames) ==
  [i \in DOMAIN columns |->
     [columns[i] EXCEPT !.name = IF @ \in DOMAIN renames THEN renames[@] ELSE @]]

\* column_by_name: the first of that name.
ColumnByName(columns, name) ==
  columns[CHOOSE i \in DOMAIN columns :
            columns[i].name = name /\ \A j \in 1..(i - 1) : columns[j].name # name].value

\* set_nested_value: objects are made on the way, and what is no object is replaced.
SetNestedValue(object, path, value) ==
  LET child(f)  == IF path[1] \in DOMAIN f THEN f[path[1]] ELSE JObject([x \in {} |-> JNull])
      into(c)   == IF KindOf(c) = "object" THEN c[2] ELSE [x \in {} |-> JNull]
      put(f, k, v) == [x \in DOMAIN f \cup {k} |-> IF x = k THEN v ELSE f[x]]
  IN  IF Len(path) = 1 THEN put(object, path[1], value)
      ELSE put(object, path[1], JObject(put(into(child(object)), path[2], value)))

\* One row's object. The order in which a HashMap gives its entries is anyone's guess; a
\* column that is not in the batch is an error, and there is no object.
BuildObject(columns, field_map, order) ==
  IF \E name \in DOMAIN field_map : \A i \in DOMAIN columns : columns[i].name # name THEN Nothing
  ELSE JObject(FoldLeft(LAMBDA object, name :
                          SetNestedValue(object, field_map[name], ColumnByName(columns, name)),
                        [x \in {} |-> JNull], order))

-----------------------------------------------------------------------------
Element(n) == JObject([x \in {"id", "sub"} |->
                         IF x = "id" THEN JText(n) ELSE JObject([y \in {"id"} |-> JText(n)])])
Arrays == {Nothing, JNull, JText("oops"), JArray(<<>>), JArray(<<Element("e1")>>),
           JArray(<<Element("e2"), JNull, Element("e3")>>)}

UnnestCases ==
  [algo : {"unnest"}, cells : UNION {[1..n -> Arrays] : n \in 0..3},
   path : {<<"id">>, <<"sub", "id">>, <<"id", "id">>}]

\* Where every row holds an array or nothing, each element gives one row, with the parent it
\* was found in: the columns, built one by one, line up. A row without elements gives none.
\* (No claim is made of a batch with a row that holds something else: the code refuses the
\* whole batch, unnest.rs 240, where docs/steps/unnest.md 179 has that row skipped.)
RowsLineUp(c) ==
  LET rows == [r \in DOMAIN c.cells |-> [parent |-> [x \in {"key"} |-> <<"p1", "p2", "p3">>[r]],
                                         cell |-> c.cells[r]]]
      out  == ApplyUnnest(rows, [x \in {"parent"} |-> "key"], [x \in {"child"} |-> c.path])
      want(r) == IF c.cells[r] = Nothing \/ KindOf(c.cells[r]) # "array" THEN <<>> ELSE c.cells[r][2]
      all  == {p \in (DOMAIN c.cells) \X (1..3) : p[2] \in DOMAIN want(p[1])}
      place(p) == Cardinality({q \in all : q[1] < p[1] \/ (q[1] = p[1] /\ q[2] <= p[2])})
  IN  JText("oops") \notin ToSet(c.cells) =>
        /\ out.ok
        /\ Len(out.columns["parent"]) = Cardinality(all)
        /\ \A p \in all :
             /\ out.columns["parent"][place(p)] = rows[p[1]].parent["key"]
             /\ out.columns["child"][place(p)] =
                  LET value == JsonPathGet(want(p[1])[p[2]], c.path)
                  IN  IF value = Nothing THEN Nothing ELSE value[2]

Paths == {<<"x">>, <<"y">>, <<"x", "u">>, <<"x", "v">>, <<"y", "u">>}
ObjectCases ==
  [algo : {"objects"}, paths : [{"a", "b", "c"} -> Paths], renames : [{"a", "b"} -> {"a", "b"}],
   null : SUBSET {"a", "b", "c"}]

\* When no path of the field map is the beginning of another, the object is the same in
\* whatever order the map is walked, and reading a path gives the value of the column that
\* was renamed to it, or nothing for a NULL; also when two columns swap names.
ObjectsReadBack(c) ==
  LET columns == <<[name |-> "a", value |-> IF "a" \in c.null THEN JNull ELSE JText("va")],
                   [name |-> "b", value |-> IF "b" \in c.null THEN JNull ELSE JText("vb")],
                   [name |-> "c", value |-> IF "c" \in c.null THEN JNull ELSE JText("vc")]>>
      renamed == ApplyRename(columns, c.renames)
      apart   == \A n, m \in {"a", "b", "c"} : n # m => ~IsPrefix(c.paths[n], c.paths[m])
      built(order) == BuildObject(renamed, c.paths, order)
  IN  apart /\ c.renames["a"] # c.renames["b"] =>
        \A order \in SetToSeqs({"a", "b", "c"}) : \A i \in 1..3 :
          LET old == columns[i].name
              new == IF old = "c" THEN "c" ELSE c.renames[old]
          IN  JsonPathGet(built(order), c.paths[new]) =
                IF old \in c.null THEN Nothing ELSE columns[i].value
=============================================================================
