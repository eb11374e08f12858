------------------------------ MODULE Expressions ------------------------------
(***************************************************************************)
(* expr-lite: the expressions of filter_expr and map_expr.                 *)
(*                                                                         *)
(* An expression is read as a sequence of tokens (strings).  The parser is *)
(* the recursive descent of the code; Derives is the grammar its crate     *)
(* documentation gives, as a relation.  A number is a fraction <<n, d>>    *)
(* with d >= 0; d = 0 in the infinities, and in NaN, where n = 0 as well.  *)
(***************************************************************************)
EXTENDS Integers, Sequences, TLC

\* Expr, as <<kind, token, operands>>.
Literal(t) == <<"literal", t, <<>>>>
Column(t) == <<"column", t, <<>>>>
Binary(l, op, r) == <<"binary", op, <<l, r>>>>
Unary(op, e) == <<"unary", op, <<e>>>>

Keywords == {"and", "or", "not"}
\* What f64's own parser takes: figures, and words that are identifiers too.
NumberWords == "inf" :> <<1, 0>> @@ "nan" :> <<0, 0>>
Number == "0" :> <<0, 1>> @@ "1" :> <<1, 1>> @@ "2" :> <<2, 1>> @@ NumberWords
Symbols == {"(", ")", "+", "-", "*", "/", "==", "!=", "<", "<=", ">", ">=", "="}
IsIdent(t) == t \notin Symbols /\ (t \in DOMAIN Number => t \in DOMAIN NumberWords)
\* tokenize: an identifier is folded to lower case.
Tokenize(ts) == [i \in DOMAIN ts |-> IF ts[i] = "X" THEN "x" ELSE ts[i]]

-----------------------------------------------------------------------------
(* The parser *)

Levels == <<"or", "and", "cmp", "add", "mul", "unary">>
Operators ==
  <<{"or"}, {"and"}, {"==", "!=", "<", "<=", ">", ">="}, {"+", "-"}, {"*", "/"}, {"-", "not"}>>

\* What a parse_ function returns: the expression and the position after it.
Parsed(e, at) == [ok |-> TRUE, e |-> e, at |-> at]
Failed == [ok |-> FALSE, e |-> <<>>, at |-> 0]
Peek(ts, i) == IF i <= Len(ts) THEN ts[i] ELSE "end"

RECURSIVE ParseBinary(_, _, _), ParseRest(_, _, _), ParseUnary(_, _), ParseAtom(_, _)

\* Mutant: the operand on the right is parsed at the operator's own level.
RightLevel(k) == k
OperandLevel(k) == k + 1

\* parse_or .. parse_mul, by level: an operand, then the operators that follow.
ParseBinary(k, ts, i) ==
  IF k = Len(Levels) THEN ParseUnary(ts, i) ELSE ParseRest(k, ts, ParseBinary(k + 1, ts, i))

\* All levels but the comparison loop.
ParseRest(k, ts, left) ==
  IF ~left.ok \/ Peek(ts, left.at) \notin Operators[k] THEN left
  ELSE LET right == ParseBinary(OperandLevel(k), ts, left.at + 1)
           both == Parsed(Binary(left.e, ts[left.at], right.e), right.at)
       IN IF ~right.ok THEN Failed
          ELSE IF Levels[k] = "cmp" THEN both
          ELSE ParseRest(k, ts, both)

ParseUnary(ts, i) ==
  IF Peek(ts, i) \in {"-", "not"}
  THEN LET inner == ParseUnary(ts, i + 1)
       IN IF inner.ok THEN Parsed(Unary(ts[i], inner.e), inner.at) ELSE Failed
  ELSE ParseAtom(ts, i)

ParseAtom(ts, i) ==
  LET t == Peek(ts, i)
      inner == ParseBinary(1, ts, i + 1)
  IN CASE t = "end" -> Failed
       [] t = "(" -> IF inner.ok /\ Peek(ts, inner.at) = ")"
                     THEN Parsed(inner.e, inner.at + 1) ELSE Failed
       [] t \in DOMAIN Number -> Parsed(Literal(t), i + 1)
       [] IsIdent(t) /\ t # "end" -> Parsed(Column(t), i + 1)
       [] OTHER -> Failed

\* parse_expr: nothing may follow.
ParseExpr(source) ==
  LET ts == Tokenize(source)
      p == ParseBinary(1, ts, 1)
  IN IF p.ok /\ p.at = Len(ts) + 1 THEN p ELSE Failed

\* Display, as the tokens it writes.
RECURSIVE Show(_)
Show(e) ==
  CASE e[1] \in {"literal", "column"} -> <<e[2]>>
    [] e[1] = "binary" -> <<"(">> \o Show(e[3][1]) \o <<e[2]>> \o Show(e[3][2]) \o <<")">>
    [] e[1] = "unary" -> <<"(", e[2]>> \o Show(e[3][1]) \o <<")">>

-----------------------------------------------------------------------------
(* The evaluator: a set that is empty for None *)

NaN == <<0, 0>>
Flag(b) == IF b THEN <<1, 1>> ELSE <<0, 1>>
Zero(v) == v[1] = 0 /\ v[2] # 0
Negated(v) == <<-v[1], v[2]>>
Positive(n, d) == IF d < 0 THEN <<-n, -d>> ELSE <<n, d>>
Infinite(v) == v[1] # 0 /\ v[2] = 0
Plus(l, r) ==
  IF Infinite(l) /\ Infinite(r) THEN (IF l[1] * r[1] > 0 THEN l ELSE NaN)
  ELSE <<l[1] * r[2] + r[1] * l[2], l[2] * r[2]>>
Minus(l, r) == Plus(l, Negated(r))
Times(l, r) == <<l[1] * r[1], l[2] * r[2]>>
Reciprocal(v) == Positive(v[2], v[1])
\* NaN is not ordered; an infinity is above or below every other number.
Less(l, r) ==
  /\ l # NaN /\ r # NaN
  /\ IF Infinite(l) /\ Infinite(r) THEN l[1] < 0 /\ r[1] > 0 ELSE l[1] * r[2] < r[1] * l[2]
Same(l, r) == l # NaN /\ r # NaN /\ ~Less(l, r) /\ ~Less(r, l)

Apply(op, l, r) ==
  CASE op = "+" -> {Plus(l, r)}
    [] op = "-" -> {Minus(l, r)}
    [] op = "*" -> {Times(l, r)}
    [] op = "/" -> IF Zero(r) THEN {} ELSE {Times(l, Reciprocal(r))}
    [] op = "==" -> {Flag(Zero(Minus(l, r)))}
    [] op = "!=" -> {Flag(Minus(l, r)[1] # 0)}
    [] op = "<" -> {Flag(Less(l, r))}
    [] op = "<=" -> {Flag(Less(l, r) \/ Same(l, r))}
    [] op = ">" -> {Flag(Less(r, l))}
    [] op = ">=" -> {Flag(Less(r, l) \/ Same(l, r))}
    [] op = "and" -> {Flag(~Zero(l) /\ ~Zero(r))}
    [] op = "or" -> {Flag(~Zero(l) \/ ~Zero(r))}

\* rec: column name -> number.
RECURSIVE Eval(_, _)
Eval(e, rec) ==
  CASE e[1] = "literal" -> {Number[e[2]]}
    [] e[1] = "column" -> IF e[2] \in DOMAIN rec THEN {rec[e[2]]} ELSE {}
    [] e[1] = "binary" ->
         UNION {Apply(e[2], l, r) : l \in Eval(e[3][1], rec), r \in Eval(e[3][2], rec)}
    [] e[1] = "unary" ->
         {IF e[2] = "-" THEN Negated(v) ELSE Flag(Zero(v)) : v \in Eval(e[3][1], rec)}

\* eval_bool(..).unwrap_or(false) and eval(..).unwrap_or(NaN).
Keeps(e, rec) == \E v \in Eval(e, rec) : ~Zero(v)
Mapped(e, rec) == IF Eval(e, rec) = {} THEN NaN ELSE CHOOSE v \in Eval(e, rec) : TRUE

-----------------------------------------------------------------------------
(* The documented grammar *)

RECURSIVE Derives(_, _)
\* The expressions that level k derives from ts: for the left-associative
\* levels, the last operator of the level splits it.
Derives(k, ts) ==
  IF k = Len(Levels)
  THEN LET Atom(s) ==
             (IF Len(s) = 1 /\ ~IsIdent(s[1]) /\ s[1] \in DOMAIN Number THEN {Literal(s[1])} ELSE {})
             \cup (IF Len(s) = 1 /\ IsIdent(s[1]) /\ s[1] \notin Keywords
                   THEN {Column(s[1])} ELSE {})
             \cup (IF Len(s) > 2 /\ s[1] = "(" /\ s[Len(s)] = ")"
                   THEN Derives(1, SubSeq(s, 2, Len(s) - 1)) ELSE {})
       IN Atom(ts) \cup (IF Len(ts) > 1 /\ ts[1] \in {"-", "not"}
                         THEN {Unary(ts[1], e) : e \in Atom(Tail(ts))} ELSE {})
  ELSE Derives(k + 1, ts) \cup
       UNION {{Binary(l, ts[i], r) :
                 l \in Derives(IF Levels[k] = "cmp" THEN k + 1 ELSE k, SubSeq(ts, 1, i - 1)),
                 r \in Derives(k + 1, SubSeq(ts, i + 1, Len(ts)))} :
              i \in {j \in 2 .. Len(ts) - 1 : ts[j] \in Operators[k]}}

\* What the parser takes beyond the grammar: unary operators in a row, and
\* keywords where a column may stand.
RECURSIVE Columns(_)
Columns(e) == IF e[1] = "column" THEN {e[2]} ELSE UNION {Columns(e[3][i]) : i \in DOMAIN e[3]}
Beyond(ts, e) ==
  \/ \E i \in 1 .. Len(ts) - 1 : {ts[i], ts[i + 1]} \subseteq {"-", "not"}
  \/ Columns(e) \cap Keywords # {}

\* The tree as the grammar means it: a column may be called inf or nan.
RECURSIVE Named(_)
Named(e) ==
  IF e[1] = "literal" /\ e[2] \in DOMAIN NumberWords THEN Column(e[2])
  ELSE <<e[1], e[2], [i \in DOMAIN e[3] |-> Named(e[3][i])]>>

\* The parser gives every expression of the grammar its one tree, but for the
\* identifiers it takes for numbers; it takes nothing else but what Beyond
\* allows, and what Display writes is read back as it was.
MeetsGrammar(source) ==
  LET p == ParseExpr(source)
      d == Derives(1, Tokenize(source))
  IN /\ d # {} => p.ok /\ d = {Named(p.e)}
     /\ p.ok => d # {} \/ Beyond(Tokenize(source), p.e)
     /\ p.ok => ParseExpr(Show(p.e)) = Parsed(p.e, Len(Show(p.e)) + 1)
=============================================================================
