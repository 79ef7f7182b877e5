------------------------- MODULE TriggerExpression -------------------------
(***************************************************************************)
(* Trigger expressions: the grammar of core/expression_parser.py, the tree *)
(* its transformer builds and the evaluation of core/expression_ast.py.    *)
(*                                                                         *)
(* A text is a sequence of tokens.  The parser for definitions (Earley)    *)
(* and the parser for checkpoints (LALR) share one grammar; they agree on  *)
(* every text exactly when the grammar is unambiguous, so a nonterminal is *)
(* modelled as the set of all trees it has for a text.                     *)
(***************************************************************************)
EXTENDS Integers, Sequences, FiniteSets, FiniteSetsExt

CONSTANTS
  PathValue,   \* the value of each node path and variable path, a <<kind, number>>
  LitValue,    \* the value of each status word, event word and number
  Phrase,      \* token sequences that a text is put together from
  MaxPhrases   \* bound: phrases of a text

VARIABLES text, phrases

expressionVars == <<text, phrases>>

Comparison == {"==", ">", ">=", "<", "<="}

-----------------------------------------------------------------------------
(* The grammar *)

Leaf(t) == [op |-> "leaf", token |-> t]

\* The trees of an alternative "left op right", for each place of an op.
Binary(s, ops, Left(_), Right(_)) ==
  UNION {{[op |-> s[k], left |-> l, right |-> r] :
            l \in Left(SubSeq(s, 1, k - 1)), r \in Right(SubSeq(s, k + 1, Len(s)))}
         : k \in {i \in DOMAIN s : s[i] \in ops}}

RECURSIVE OrExpr(_), AndExpr(_), CmpExpr(_), Primary(_)

Primary(s) ==
  IF Len(s) = 1 THEN {Leaf(t) : t \in {s[1]} \cap DOMAIN PathValue}
  ELSE IF Len(s) > 2 /\ s[1] = "(" /\ s[Len(s)] = ")" THEN OrExpr(SubSeq(s, 2, Len(s) - 1))
  ELSE {}

CmpRhs(s) ==
  Primary(s) \cup {Leaf(t) : t \in {u \in DOMAIN LitValue : s = <<u>>}}

CmpExpr(s) ==
  Primary(s) \cup Binary(s, Comparison, Primary, CmpRhs) \cup Binary(s, {"+"}, Primary, Primary)

AndExpr(s) == CmpExpr(s) \cup Binary(s, {"and"}, AndExpr, CmpExpr)

\* Mutant: one level for both connectives.
OrExprFlat(s) == CmpExpr(s) \cup Binary(s, {"and", "or"}, OrExpr, CmpExpr)

OrExpr(s) == AndExpr(s) \cup Binary(s, {"or"}, OrExpr, AndExpr)

\* parse_trigger
Trees(s) == OrExpr(s)

-----------------------------------------------------------------------------
(* Evaluation; "error" is an exception out of value or evaluate *)

Error == <<"error", 0>>

LeafValue(t) == IF t \in DOMAIN PathValue THEN PathValue[t] ELSE LitValue[t]

Add(x, y) == IF x[1] = "int" /\ y[1] = "int" THEN <<"int", x[2] + y[2]>> ELSE Error

Truth(b) == IF b THEN "true" ELSE "false"

\* == never raises; the order is defined inside one kind (OrderedEnum).
Compare(op, x, y) ==
  IF Error \in {x, y} THEN "error"
  ELSE IF op = "==" THEN Truth(x = y)
  ELSE IF x[1] /= y[1] THEN "error"
  ELSE CASE op = ">"  -> Truth(x[2] > y[2])
         [] op = ">=" -> Truth(x[2] >= y[2])
         [] op = "<"  -> Truth(x[2] < y[2])
         [] op = "<=" -> Truth(x[2] <= y[2])

\* AstBase.value: only leaves and sums have one.
RECURSIVE TreeValue(_)
TreeValue(e) ==
  CASE e.op = "leaf" -> LeafValue(e.token)
    [] e.op = "+"    -> Add(TreeValue(e.left), TreeValue(e.right))
    [] OTHER         -> Error

\* AstBase.evaluate: only comparisons and connectives have one; Python's and
\* and or do not look at the right operand when the left one decides.
RECURSIVE Evaluate(_)
Evaluate(e) ==
  CASE e.op \in Comparison  -> Compare(e.op, TreeValue(e.left), TreeValue(e.right))
    [] e.op = "and"         -> LET l == Evaluate(e.left) IN IF l = "true" THEN Evaluate(e.right) ELSE l
    [] e.op = "or"          -> LET l == Evaluate(e.left) IN IF l = "false" THEN Evaluate(e.right) ELSE l
    [] e.op \in {"leaf", "+"} -> "error"

-----------------------------------------------------------------------------
(* Texts *)

ExpressionInit == text = <<>> /\ phrases = 0

Extend(p) ==
  /\ phrases < MaxPhrases
  /\ text' = text \o p
  /\ phrases' = phrases + 1

ExpressionNext == \E p \in Phrase : Extend(p)

ExpressionSpec == ExpressionInit /\ [][ExpressionNext]_expressionVars

-----------------------------------------------------------------------------
(* The reference: the text is read by splitting it, not by a grammar *)

Depth(s, k) ==
  Cardinality({i \in 1 .. k : s[i] = "("}) - Cardinality({i \in 1 .. k : s[i] = ")"})

\* Where an operator of ops stands outside of every parenthesis.
Outside(s, ops) == {i \in DOMAIN s : s[i] \in ops /\ Depth(s, i) = 0}

Before(s, k) == SubSeq(s, 1, k - 1)
After(s, k) == SubSeq(s, k + 1, Len(s))
Inner(s) == SubSeq(s, 2, Len(s) - 1)

RECURSIVE Operand(_)
Operand(s) ==
  IF Len(s) = 1 THEN LeafValue(s[1])
  ELSE IF Outside(s, {"and", "or"} \cup Comparison) /= {} THEN Error
  ELSE IF Outside(s, {"+"}) /= {}
       THEN LET k == Min(Outside(s, {"+"})) IN Add(Operand(Before(s, k)), Operand(After(s, k)))
  ELSE Operand(Inner(s))

RECURSIVE Meaning(_)
Meaning(s) ==
  IF Outside(s, {"or"}) /= {}
  THEN LET k == Min(Outside(s, {"or"})) l == Meaning(Before(s, k))
       IN  IF l = "false" THEN Meaning(After(s, k)) ELSE l
  ELSE IF Outside(s, {"and"}) /= {}
  THEN LET k == Min(Outside(s, {"and"})) l == Meaning(Before(s, k))
       IN  IF l = "true" THEN Meaning(After(s, k)) ELSE l
  ELSE IF Outside(s, Comparison) /= {}
  THEN LET k == Min(Outside(s, Comparison))
       IN  Compare(s[k], Operand(Before(s, k)), Operand(After(s, k)))
  ELSE IF Len(s) > 1 /\ Outside(s, {"+"}) = {} THEN Meaning(Inner(s))
  ELSE "error"

\* A text that parses has one tree, so that the parser of the definitions and
\* the parser of the checkpoints build the same trigger, and evaluating the tree
\* gives what the precedence of and, or, comparisons and parentheses says.
OneReading ==
  /\ Cardinality(Trees(text)) <= 1
  /\ \A e \in Trees(text) : Evaluate(e) = Meaning(text)
=============================================================================
