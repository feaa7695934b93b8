------------------------------ MODULE ExprParser ------------------------------
(***************************************************************************)
(* The recursive-descent parser of the expressions, over tokens. Each rule *)
(* takes the tokens that are left and gives the tree and the rest, or the  *)
(* error NoTree. Trees are those of the code: operators, unary operators,  *)
(* calls, indexes and leaves.                                              *)
(***************************************************************************)
EXTENDS Naturals, Sequences

NoTree == [ok |-> FALSE]
Tree(e, rest) == [ok |-> TRUE, e |-> e, rest |-> rest]

Leaf(token)        == [k |-> "leaf", token |-> token]
Binary(op, l, r)   == [k |-> "bin", op |-> op, l |-> l, r |-> r]
Prefix(op, e)      == [k |-> "unary", op |-> op, e |-> e]
Indexed(e, i)      == [k |-> "index", e |-> e, i |-> i]
Called(f, args)    == [k |-> "call", f |-> f, args |-> args]

LeafTokens == {"a", "1"}
Names == {"f"}
Level == [or |-> 1, and |-> 2, not |-> 3, cmp |-> 4, add |-> 5, mul |-> 6, neg |-> 7,
          postfix |-> 8]
OpsAt(level) == CASE level = 1 -> {"or"} [] level = 2 -> {"and"} [] level = 4 -> {"==", "<"}
                  [] level = 5 -> {"+", "-"} [] level = 6 -> {"*", "/"} [] OTHER -> {}

Peek(toks) == IF toks = <<>> THEN "eof" ELSE toks[1]
Eat(token, toks) == Peek(toks) = token

RECURSIVE ParseLevel(_, _), RestOfChain(_, _, _), Postfixes(_, _), Arguments(_, _)

\* or_expr, and_expr, add_expr, mul_expr: operators of one level group to the left.
Chain(level, toks) ==
  LET left == ParseLevel(level + 1, toks)
  IN  IF left.ok THEN RestOfChain(level, left.e, left.rest) ELSE NoTree

RestOfChain(level, left, toks) ==
  IF Peek(toks) \notin OpsAt(level) THEN Tree(left, toks)
  ELSE LET right == ParseLevel(level + 1, Tail(toks))
       IN  IF right.ok THEN RestOfChain(level, Binary(toks[1], left, right.e), right.rest)
           ELSE NoTree

\* cmp_expr: at most one comparison; what follows is not its business.
Comparison(toks) ==
  LET left == ParseLevel(Level.add, toks)
  IN  IF left.ok /\ Peek(left.rest) \in OpsAt(Level.cmp)
      THEN LET right == ParseLevel(Level.add, Tail(left.rest))
           IN  IF right.ok THEN Tree(Binary(left.rest[1], left.e, right.e), right.rest) ELSE NoTree
      ELSE left

\* not_expr and unary_expr.
Prefixed(token, op, level, toks) ==
  IF Eat(token, toks)
  THEN LET operand == ParseLevel(level, Tail(toks))
       IN  IF operand.ok THEN Tree(Prefix(op, operand.e), operand.rest) ELSE NoTree
  ELSE ParseLevel(level + 1, toks)

Primary(toks) ==
  LET token == Peek(toks)
      rest  == IF toks = <<>> THEN <<>> ELSE Tail(toks)
      inner == ParseLevel(Level.or, rest)
  IN  CASE token = "(" -> IF inner.ok /\ Eat(")", inner.rest)
                          THEN Tree(inner.e, Tail(inner.rest)) ELSE NoTree
        [] token \in Names /\ Eat("(", rest) ->
             IF Eat(")", Tail(rest)) THEN Tree(Called(token, <<>>), Tail(Tail(rest)))
             ELSE LET args == Arguments(<<>>, Tail(rest))
                  IN  IF args.ok THEN Tree(Called(token, args.e), args.rest) ELSE NoTree
        [] token \in LeafTokens \cup Names -> Tree(Leaf(token), rest)
        [] OTHER -> NoTree

Arguments(done, toks) ==
  LET arg == ParseLevel(Level.or, toks)
  IN  IF ~arg.ok THEN NoTree
      ELSE CASE Peek(arg.rest) = "," -> Arguments(Append(done, arg.e), Tail(arg.rest))
             [] Peek(arg.rest) = ")" -> Tree(Append(done, arg.e), Tail(arg.rest))
             [] OTHER -> NoTree

Postfixes(e, toks) ==
  IF ~Eat("[", toks) THEN Tree(e, toks)
  ELSE LET index == ParseLevel(Level.or, Tail(toks))
       IN  IF index.ok /\ Eat("]", index.rest)
           THEN Postfixes(Indexed(e, index.e), Tail(index.rest)) ELSE NoTree

ParseLevel(level, toks) ==
  CASE level \in {Level.or, Level.and, Level.add, Level.mul} -> Chain(level, toks)
    [] level = Level.not -> Prefixed("not", "not", level, toks)
    [] level = Level.cmp -> Comparison(toks)
    [] level = Level.neg -> Prefixed("-", "neg", level, toks)
    [] level = Level.postfix ->
         LET primary == Primary(toks)
         IN  IF primary.ok THEN Postfixes(primary.e, primary.rest) ELSE NoTree

\* parse: the whole text is one expression.
Parse(toks) ==
  LET tree == ParseLevel(Level.or, toks)
  IN  IF tree.ok /\ tree.rest = <<>> THEN tree.e ELSE NoTree

-----------------------------------------------------------------------------
LevelOf(e) ==
  CASE e.k = "bin"   -> CHOOSE level \in 1..6 : e.op \in OpsAt(level)
    [] e.k = "unary" -> IF e.op = "not" THEN Level.not ELSE Level.neg
    [] OTHER         -> Level.postfix

RECURSIVE Unparse(_)
\* An expression as a person writes it, with parentheses only where an operand binds
\* less tightly than its place asks for: the right operand of a chain and both of a
\* comparison must bind tighter than the operator.
Unparse(e) ==
  LET At(level, x) == IF LevelOf(x) >= level THEN Unparse(x) ELSE <<"(">> \o Unparse(x) \o <<")">>
      level == LevelOf(e)
  IN  CASE e.k = "leaf"  -> <<e.token>>
        [] e.k = "bin"   -> At(IF level = Level.cmp THEN level + 1 ELSE level, e.l)
                              \o <<e.op>> \o At(level + 1, e.r)
        [] e.k = "unary" -> <<IF e.op = "not" THEN "not" ELSE "-">> \o At(level, e.e)
        [] e.k = "index" -> At(level, e.e) \o <<"[">> \o Unparse(e.i) \o <<"]">>
        [] e.k = "call"  -> <<e.f, "(">> \o (IF e.args = <<>> THEN <<>> ELSE Unparse(e.args[1])
                              \o (IF Len(e.args) = 1 THEN <<>> ELSE <<",">> \o Unparse(e.args[2]))) \o <<")">>

Grown(trees) ==
  {Binary(op, l, r) : op \in {"or", "and", "==", "<", "+", "-", "*", "/"}, l, r \in trees}
    \cup {Prefix(op, e) : op \in {"not", "neg"}, e \in trees}
    \cup {Indexed(e, i) : e, i \in trees} \cup {Called("f", <<e>>) : e \in trees}
    \cup {Called("f", <<l, r>>) : l, r \in trees} \cup {Called("f", <<>>)}

Twigs == LET few == {Leaf("a"), Leaf("1")}
         IN  few \cup {Binary(op, Leaf("a"), Leaf("1")) : op \in {"or", "and", "==", "<", "+", "-", "*", "/"}}
               \cup {Prefix(op, Leaf("a")) : op \in {"not", "neg"}}
               \cup {Indexed(Leaf("a"), Leaf("1")), Called("f", <<Leaf("a"), Leaf("1")>>), Called("f", <<>>)}

ParseCases == [algo : {"parse"}, e : Grown(Twigs)]

\* Every expression that can be written is read back as the same tree: precedence and
\* grouping are the usual ones, a prefix may follow any operator that binds less tightly,
\* and parentheses are needed nowhere else.
ReadsBack(c) == Parse(Unparse(c.e)) = c.e
=============================================================================
