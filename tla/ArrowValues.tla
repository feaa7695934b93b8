------------------------------ MODULE ArrowValues ------------------------------
(***************************************************************************)
(* The cells of Arrow columns as the transforms, the expressions and the   *)
(* sinks see them: a value with the type of its column, NULL in any of     *)
(* them, and the casts of arrow::compute between the types.                *)
(***************************************************************************)
EXTENDS Integers, Sequences, FiniteSets

CONSTANT Null       \* the NULL of every type

\* Some texts in lexicographic order. Those that are numbers read as numbers.
Texts == <<"", "0", "1", "10", "2", "9", "false", "true", "x">>

Rank(s) == CHOOSE i \in DOMAIN Texts : Texts[i] = s

Numbers == {0, 1, 2, 9, 10}
Written == [n \in Numbers |-> CASE n = 0 -> "0" [] n = 1 -> "1" [] n = 2 -> "2"
                                [] n = 9 -> "9" [] n = 10 -> "10"]
TextOfBool == [b \in BOOLEAN |-> IF b THEN "true" ELSE "false"]

\* A cell is a type and a value; the type is the column's, known for NULL as well.
Cell(type, value) == <<type, value>>
TypeOf(c) == c[1]
IsNull(c) == c[2] = Null

\* cast(_, Float64): a text that is no number becomes NULL.
ToFloat64(c) ==
  CASE IsNull(c)    -> Null
    [] TypeOf(c) = "num"  -> c[2]
    [] TypeOf(c) = "bool" -> IF c[2] THEN 1 ELSE 0
    [] TypeOf(c) = "text" -> IF \E n \in Numbers : Written[n] = c[2]
                       THEN CHOOSE n \in Numbers : Written[n] = c[2] ELSE Null

\* cast(_, Boolean): of a text only its spellings, of a number whether it is not zero.
ToBoolean(c) ==
  CASE IsNull(c)    -> Null
    [] TypeOf(c) = "bool" -> c[2]
    [] TypeOf(c) = "num"  -> c[2] # 0
    [] TypeOf(c) = "text" -> IF c[2] \in {"true", "1"} THEN TRUE
                       ELSE IF c[2] \in {"false", "0"} THEN FALSE ELSE Null

\* cast(_, Utf8).
ToText(c) ==
  CASE IsNull(c)    -> Null
    [] TypeOf(c) = "text" -> c[2]
    [] TypeOf(c) = "num"  -> Written[c[2]]
    [] TypeOf(c) = "bool" -> TextOfBool[c[2]]
=============================================================================
