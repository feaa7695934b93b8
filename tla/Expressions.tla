------------------------------ MODULE Expressions ------------------------------
(***************************************************************************)
(* The expressions of map and filter steps, evaluated for one row: every   *)
(* operator and function works cell by cell, the casts decided by the      *)
(* types of the columns. A row is a function from column names to cells.   *)
(***************************************************************************)
EXTENDS ArrowValues, SequencesExt

Lit(c)            == [k |-> "lit", cell |-> c]
Col(name)         == [k |-> "col", name |-> name]
BinOp(op, l, r)   == [k |-> "bin", op |-> op, l |-> l, r |-> r]
Unary(op, e)      == [k |-> "unary", op |-> op, e |-> e]
Call(f, args)     == [k |-> "call", f |-> f, args |-> args]

RECURSIVE References(_)
\* The columns an expression reads. All of them are looked up before anything else.
References(e) ==
  CASE e.k = "lit"   -> {}
    [] e.k = "col"   -> {e.name}
    [] e.k = "bin"   -> References(e.l) \cup References(e.r)
    [] e.k = "unary" -> References(e.e)
    [] e.k = "call"  -> UNION {References(e.args[i]) : i \in DOMAIN e.args}

Compare(op, a, b) ==
  CASE op = "==" -> a = b   [] op = "!=" -> a # b
    [] op = "<"  -> a < b   [] op = "<=" -> a <= b
    [] op = ">"  -> a > b   [] op = ">=" -> a >= b

\* A comparison with NULL is false, never NULL; so is one of a number with a text that is
\* no number. Two texts compare as texts, everything else through Float64.
EvalComparison(op, l, r) ==
  LET texts == TypeOf(l) = "text" /\ TypeOf(r) = "text"
      a == IF texts THEN ToText(l) ELSE ToFloat64(l)
      b == IF texts THEN ToText(r) ELSE ToFloat64(r)
  IN  Cell("bool", /\ a # Null /\ b # Null
                   /\ Compare(op, IF texts THEN Rank(a) ELSE a, IF texts THEN Rank(b) ELSE b))

EvalLogicStrict(op, l, r) ==
  LET a == ToBoolean(l)   b == ToBoolean(r)   decides == (op = "or")
  IN  Cell("bool", IF a = Null \/ b = Null THEN Null
                   ELSE IF a = decides \/ b = decides THEN decides ELSE ~decides)

EvalLogic(op, l, r) ==
  LET a == ToBoolean(l)   b == ToBoolean(r)   decides == (op = "or")
  IN  Cell("bool", IF a = decides \/ b = decides THEN decides
                   ELSE IF a = Null \/ b = Null THEN Null
                   ELSE ~decides)

\* A division by zero is NULL. Numbers stay within those of the model.
EvalArithmetic(op, l, r) ==
  LET a == ToFloat64(l)   b == ToFloat64(r)
  IN  Cell("num", IF a = Null \/ b = Null THEN Null
                  ELSE CASE op = "+" -> a + b [] op = "-" -> a - b [] op = "*" -> a * b
                         [] op = "/" -> IF b = 0 THEN Null ELSE a \div b)

EvalBinOp(op, l, r) ==
  IF op \in {"and", "or"} THEN EvalLogic(op, l, r)
  ELSE IF op \in {"+", "-", "*", "/"} THEN EvalArithmetic(op, l, r)
  ELSE EvalComparison(op, l, r)

EvalUnary(op, a) ==
  IF op = "not"
  THEN Cell("bool", IF ToBoolean(a) = Null THEN Null ELSE ~ToBoolean(a))
  ELSE Cell("num", IF ToFloat64(a) = Null THEN Null ELSE 0 - ToFloat64(a))

\* Values of several types become texts, whichever of them is taken.
Choice(args, taken) ==
  IF \A i \in DOMAIN args : TypeOf(args[i]) = TypeOf(args[1]) THEN taken
  ELSE Cell("text", ToText(taken))

FirstNonNull(args) ==
  IF \A i \in DOMAIN args : IsNull(args[i]) THEN args[Len(args)]
  ELSE args[CHOOSE i \in DOMAIN args : ~IsNull(args[i]) /\ \A j \in 1..(i - 1) : IsNull(args[j])]

EvalCall(f, args) ==
  CASE f = "coalesce"    -> Choice(args, FirstNonNull(args))
    [] f = "if_null"     -> Choice(args, IF IsNull(args[1]) THEN args[2] ELSE args[1])
    [] f = "if"          -> Choice(Tail(args), IF ToBoolean(args[1]) = TRUE THEN args[2] ELSE args[3])
    [] f = "is_null"     -> Cell("bool", IsNull(args[1]))
    [] f = "is_not_null" -> Cell("bool", ~IsNull(args[1]))

RECURSIVE Eval(_, _)
Eval(e, row) ==
  CASE e.k = "lit"   -> e.cell
    [] e.k = "col"   -> row[e.name]
    [] e.k = "bin"   -> EvalBinOp(e.op, Eval(e.l, row), Eval(e.r, row))
    [] e.k = "unary" -> EvalUnary(e.op, Eval(e.e, row))
    [] e.k = "call"  -> EvalCall(e.f, [i \in DOMAIN e.args |-> Eval(e.args[i], row)])

\* apply_condition: a row passes when its mask is true, not when it is NULL.
Passes(condition, row) == ToBoolean(Eval(condition, row)) = TRUE

-----------------------------------------------------------------------------
(* The map step: columns are computed in their order, each over the batch   *)
(* as it is by then; one that reads a column not there yet is tried once    *)
(* more after the others. Result: the row, or the empty one for an error.   *)

Failed == [c \in {} |-> Null]

ReplaceOrAdd(row, name, cell) ==
  [c \in DOMAIN row \cup {name} |-> IF c = name THEN cell ELSE row[c]]

\* One column, [name, expr]. st.row is the batch, st.pending the columns put off.
MapColumn(st, column, pass) ==
  IF References(column.expr) \subseteq DOMAIN st.row
  THEN [st EXCEPT !.row = ReplaceOrAdd(st.row, column.name, Eval(column.expr, st.row))]
  ELSE IF pass = 1 THEN [st EXCEPT !.pending = Append(@, column)]
  ELSE [st EXCEPT !.ok = FALSE]

MapPass(row, columns, pass) ==
  FoldLeft(LAMBDA st, column : IF st.ok THEN MapColumn(st, column, pass) ELSE st,
           [row |-> row, pending |-> <<>>, ok |-> TRUE], columns)

ApplyMap(row, columns, select_only) ==
  LET first  == MapPass(row, columns, 1)
      second == MapPass(first.row, first.pending, 2)
      names  == {columns[i].name : i \in DOMAIN columns}
  IN  IF columns = <<>> THEN row
      ELSE IF ~second.ok THEN Failed
      ELSE IF select_only THEN [c \in names |-> second.row[c]] ELSE second.row

-----------------------------------------------------------------------------
(* What is evaluated: conditions over a number, a text and a boolean column *)
(* and a literal, and maps that add up to three columns to the row.         *)

RowColumns == {"n", "s", "b"}
TypeOfColumn == [c \in RowColumns |-> CASE c = "n" -> "num" [] c = "s" -> "text" [] c = "b" -> "bool"]

EvalRows ==
  {[c \in RowColumns |-> Cell(TypeOfColumn[c], CASE c = "n" -> n [] c = "s" -> s [] c = "b" -> b)] :
     n \in {Null, 0, 9}, s \in {Null, "10", "true", "x"}, b \in BOOLEAN \cup {Null}}

Operands == {Col("n"), Col("s"), Col("b"), Lit(Cell("num", 9)), Lit(Cell("text", "9"))}

Comparisons == {BinOp(op, l, r) : op \in {"==", "!=", "<", ">="}, l, r \in Operands}

\* Conditions in which some operand is a boolean as it stands, which may be NULL.
Atoms == {Col("b"), BinOp("<", Col("n"), Lit(Cell("num", 9))), BinOp("!=", Col("s"), Col("n"))}
Formulas == Comparisons \cup {BinOp(op, l, r) : op \in {"and", "or"}, l, r \in Atoms}
              \cup {BinOp(op, Unary("not", l), r) : op \in {"and", "or"}, l, r \in Atoms}

NullChoices == {Call("coalesce", <<l, r>>) : l, r \in Operands}
             \cup {Call("if", <<Col("b"), l, r>>) : l, r \in Operands}
             \cup {Call("if_null", <<l, Call("coalesce", <<l, r>>)>>) : l, r \in Operands}
             \cup {Call("if_null", <<BinOp(op, l, Unary("neg", r)), Col("n")>>) :
                     op \in {"/", "-"}, l, r \in Operands}

EvalCases == [algo : {"eval"}, expr : Formulas \cup NullChoices, row : EvalRows]

MapCases ==
  [algo : {"map"}, select_only : BOOLEAN,
   columns : [1..3 -> {Col("n"), Call("if_null", <<Col("p1"), Col("p2")>>), Col("p1"), Col("p2"), Col("p3")}]]

MapColumns(c) == [i \in 1..3 |-> [name |-> <<"p1", "p2", "p3">>[i], expr |-> c.columns[i]]]
MapRow == [x \in RowColumns |-> Cell(TypeOfColumn[x], Null)]

RECURSIVE Kleene(_, _)
\* The value of a formula in Kleene's logic, false < NULL < true: and is the lesser,
\* or the greater, not the mirror image. Its leaves are the code's.
Kleene(e, row) ==
  LET degree(v) == IF v = Null THEN 1 ELSE IF v THEN 2 ELSE 0
  IN  CASE e.k = "bin" /\ e.op \in {"and", "or"} ->
             LET a == Kleene(e.l, row)  b == Kleene(e.r, row)
             IN  IF (e.op = "and") = (a < b) THEN a ELSE b
        [] e.k = "unary" -> 2 - Kleene(e.e, row)
        [] OTHER -> degree(ToBoolean(Eval(e, row)))

\* A filter and its negation share the rows out: a row passes exactly one of them,
\* unless a boolean column is NULL in it, and then logic is three-valued.
LogicIsKleene(c) ==
  c.expr \in Formulas =>
    /\ Passes(c.expr, c.row) = (Kleene(c.expr, c.row) = 2)
    /\ ~IsNull(c.row["b"]) =>
         Passes(c.expr, c.row) # Passes(Unary("not", c.expr), c.row)

\* The type of a computed column depends on the columns' types, never on the values in a
\* row: batches of one step have one schema, which the sink's table was made from.
TypeIsStatic(c) ==
  \A row \in EvalRows : TypeOf(Eval(c.expr, row)) = TypeOf(Eval(c.expr, c.row))

\* When a map adds columns, each one fits the others in the result: its expression over
\* the final row gives its value, whatever the order of the columns. A map whose columns
\* read only earlier ones succeeds; one in which a column needs itself fails.
MapFits(c) ==
  LET columns == MapColumns(c)
      final   == ApplyMap(MapRow, columns, FALSE)
      reads(i) == {j \in 1..3 : columns[j].name \in References(columns[i].expr)}
  IN  /\ final # Failed =>
           /\ \A i \in 1..3 : final[columns[i].name] = Eval(columns[i].expr, final)
           /\ \A x \in RowColumns : final[x] = MapRow[x]
      /\ (\A i \in 1..3 : \A j \in reads(i) : j < i) => final # Failed
      /\ (\E i \in 1..3 : i \in reads(i)) => final = Failed
      /\ c.select_only /\ final # Failed =>
           ApplyMap(MapRow, columns, TRUE) = [x \in {"p1", "p2", "p3"} |-> final[x]]
=============================================================================
