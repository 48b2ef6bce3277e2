------------------------------- MODULE Parser -------------------------------
(***************************************************************************)
(* The recursive descent of src/src/parser.rs over a sequence of tokens,   *)
(* one operator per method.  A result is [ok, at, e]: whether it parsed,   *)
(* the position after it and the tree.  Peeking is T(toks, p), consuming   *)
(* is going on from a later position; an error leaves no tree.             *)
(*                                                                         *)
(* Trees are those of Ast.  The parts of a node that have no place of      *)
(* their own there are operands: the operator of an augmented assignment,  *)
(* the types of a binding, the decorators and parameters of a def.         *)
(***************************************************************************)
EXTENDS Ast, Lexer

T(toks, p) == IF p <= Len(toks) THEN toks[p].k ELSE "Eof"
V(toks, p) == toks[p].v
Got(e, p)  == [ok |-> TRUE, at |-> p, e |-> e]
Failed     == [ok |-> FALSE, at |-> 0, e |-> <<>>]

(* Go on from a result, expect a token, or a name (expect_ident). *)
After(r, go(_, _)) == IF r.ok THEN go(r.e, r.at) ELSE Failed
Expect(toks, k, p, r) == IF T(toks, p) = k THEN [r EXCEPT !.at = p + 1] ELSE Failed
Upto(toks, k, r) == IF r.ok THEN Expect(toks, k, r.at, r) ELSE Failed
NameAt(toks, p) == IF T(toks, p) = "name" THEN Got(V(toks, p), p + 1) ELSE Failed

None0    == Expr("None", "", <<>>)
Nothing  == Expr("Nothing", "", <<>>)
Bin(op, l, r) == Expr("BinOp", op, <<l, r>>)

(* The left-associative levels, loosest first: parse_or, parse_and, then   *)
(* (below `not` and the comparisons) parse_bitor to parse_mul.             *)
Levels == <<{"or"}, {"and"}, {"|"}, {"^"}, {"&"}, {"<<", ">>"}, {"+", "-"},
            {"*", "/", "//", "%"}>>
CmpOps == {"==", "!=", "<", "<=", ">", ">=", "is", "in"}
AugOps == {"+=", "-=", "*=", "/=", "%=", "//=", "**=", "&=", "|=", "^=", "<<=", ">>="}
OpOf(aug) ==
  CASE aug = "+=" -> "+" [] aug = "-=" -> "-" [] aug = "*=" -> "*" [] aug = "/=" -> "/"
    [] aug = "%=" -> "%" [] aug = "//=" -> "//" [] aug = "**=" -> "**" [] aug = "&=" -> "&"
    [] aug = "|=" -> "|" [] aug = "^=" -> "^" [] aug = "<<=" -> "<<" [] aug = ">>=" -> ">>"

(* The rules that others come back to: Read is what each of them reads.    *)
RECURSIVE Read(_, _, _)
ParseExpr(toks, p)  == Read("expr", toks, p)
ParseOr(toks, p)    == Read("or", toks, p)
ParseType(toks, p)  == Read("type", toks, p)
ParseStmt(toks, p)  == Read("stmt", toks, p)
ParseStmts(toks, p) == Read("stmts", toks, p)

RECURSIVE ParseLevel(_, _, _), LevelTail(_, _, _, _, _), ParseNot(_, _),
          CmpTail(_, _, _, _), ParseUnary(_, _), PostfixTail(_, _), ParseItems(_, _, _, _),
          ParseArgs(_, _, _)

-----------------------------------------------------------------------------
(* Operators *)

Operand(toks, lvl, p) ==
  CASE lvl = 2 -> ParseNot(toks, p)
    [] lvl = Len(Levels) -> ParseUnary(toks, p)
    [] OTHER -> ParseLevel(toks, lvl + 1, p)

(* `left` is what stands before the operator `op`, if there is one. *)
Joined(left, op, e) == IF left = <<>> THEN e ELSE Bin(op, left[1], e)
LevelTail_right(toks, lvl, left, op, p) ==
  After(Operand(toks, lvl, p), LAMBDA rhs, q :
    IF T(toks, q) \notin Levels[lvl] THEN Got(Joined(left, op, rhs), q)
    ELSE After(LevelTail(toks, lvl, <<rhs>>, T(toks, q), q + 1), LAMBDA e, s :
                Got(Joined(left, op, e), s)))
LevelTail(toks, lvl, left, op, p) ==
  After(Operand(toks, lvl, p), LAMBDA rhs, q :
    IF T(toks, q) \notin Levels[lvl] THEN Got(Joined(left, op, rhs), q)
    ELSE LevelTail(toks, lvl, <<Joined(left, op, rhs)>>, T(toks, q), q + 1))

ParseLevel(toks, lvl, p) == LevelTail(toks, lvl, <<>>, "", p)

(* parse_cmp: a chain a < b < c is (a < b) and (b < c). *)
CmpAt(toks, p) ==
  CASE T(toks, p) = "is" /\ T(toks, p + 1) = "not"  -> [op |-> "is not", at |-> p + 2]
    [] T(toks, p) = "not" /\ T(toks, p + 1) = "in"  -> [op |-> "not in", at |-> p + 2]
    [] T(toks, p) \in CmpOps -> [op |-> T(toks, p), at |-> p + 1]
    [] OTHER -> [op |-> "", at |-> p]

CmpTail(toks, prev, sofar, p) ==
  LET c == CmpAt(toks, p)
  IN IF c.op = "" THEN Got(IF sofar = <<>> THEN prev ELSE sofar[1], p)
     ELSE After(ParseLevel(toks, 3, c.at), LAMBDA rhs, q :
                 LET cmp == Bin(c.op, prev, rhs)
                 IN CmpTail(toks, rhs,
                            <<IF sofar = <<>> THEN cmp ELSE Bin("and", sofar[1], cmp)>>, q))

ParseCmp(toks, p) ==
  After(ParseLevel(toks, 3, p), LAMBDA first, q : CmpTail(toks, first, <<>>, q))

ParseNot(toks, p) ==
  IF T(toks, p) = "not"
  THEN After(ParseNot(toks, p + 1), LAMBDA e, q : Got(Expr("UnOp", "not", <<e>>), q))
  ELSE ParseCmp(toks, p)

(* parse_power: the exponent is unary and so takes a `**` of its own. *)
ParsePower(toks, p) ==
  After(PostfixTail(toks, p), LAMBDA base, q :
         IF T(toks, q) # "**" THEN Got(base, q)
         ELSE After(ParseUnary(toks, q + 1), LAMBDA e, s : Got(Bin("**", base, e), s)))

ParseUnary(toks, p) ==
  IF T(toks, p) \in {"-", "~"}
  THEN After(ParseUnary(toks, p + 1), LAMBDA e, q : Got(Expr("UnOp", T(toks, p), <<e>>), q))
  ELSE ParsePower(toks, p)

(* parse_lambda, with at most one parameter. *)
ParseLambda(toks, p) ==
  LET x == NameAt(toks, p + 1)
      y == IF x.ok THEN x ELSE Got("", p + 1)
  IN IF T(toks, y.at) # ":" THEN Failed
     ELSE After(ParseExpr(toks, y.at + 1), LAMBDA e, q : Got(Expr("Lambda", y.e, <<e>>), q))

(* parse_ternary *)
ParseTernary(toks, p) ==
  IF T(toks, p) = "lambda" THEN ParseLambda(toks, p)
  ELSE After(ParseOr(toks, p), LAMBDA body, q :
         IF T(toks, q) # "if" THEN Got(body, q)
         ELSE After(Upto(toks, "else", ParseOr(toks, q + 1)), LAMBDA test, s :
                After(ParseExpr(toks, s), LAMBDA orelse, u :
                  Got(Expr("IfExp", "", <<test, body, orelse>>), u))))

-----------------------------------------------------------------------------
(* Atoms and what follows them *)

(* Expressions up to a closing bracket, a comma after the last allowed.    *)
(* With `pairs` each is a key and a value.                                 *)
ParseItems(toks, p, close, pairs) ==
  IF T(toks, p) = close THEN Got(<<>>, p + 1)
  ELSE LET item == ParseExpr(toks, p)
           whole == IF ~pairs THEN After(item, LAMBDA e, q : Got(<<e>>, q))
                    ELSE After(Upto(toks, ":", item), LAMBDA e, q :
                           After(ParseExpr(toks, q), LAMBDA f, s : Got(<<e, f>>, s)))
       IN After(whole, LAMBDA es, q :
            IF T(toks, q) = "," THEN After(ParseItems(toks, q + 1, close, pairs),
                                          LAMBDA rest, s : Got(es \o rest, s))
            ELSE Upto(toks, close, Got(es, q)))

(* `for x in iter [if cond]` and the closing bracket, after the element. *)
ParseComp(toks, k, elt, p, close) ==
  After(NameAt(toks, p + 1), LAMBDA x, q :
    IF T(toks, q) # "in" THEN Failed
    ELSE After(ParseOr(toks, q + 1), LAMBDA iter, s :
      IF T(toks, s) = "if"
      THEN After(Upto(toks, close, ParseExpr(toks, s + 1)),
                LAMBDA c, u : Got(Expr(k, x, elt \o <<iter, c>>), u))
      ELSE Upto(toks, close, Got(Expr(k, x, elt \o <<iter>>), s))))

ParseParen(toks, p) ==
  IF T(toks, p) = ")" THEN Got(Expr("Tuple", "", <<>>), p + 1)
  ELSE After(ParseExpr(toks, p), LAMBDA first, q :
         IF T(toks, q) = "," THEN After(ParseItems(toks, q + 1, ")", FALSE), LAMBDA es, s :
                                    Got(Expr("Tuple", "", <<first>> \o es), s))
         ELSE Upto(toks, ")", Got(first, q)))

BracketFrom(toks, p, first) ==
  IF first.ok /\ T(toks, first.at) = "for"
  THEN ParseComp(toks, "ListComp", <<first.e>>, first.at, "]")
  ELSE After(ParseItems(toks, p, "]", FALSE), LAMBDA es, q : Got(Expr("List", "", es), q))
ParseBracket(toks, p) == BracketFrom(toks, p, ParseExpr(toks, p))

(* After the first expression of a brace, and what follows its colon. *)
BraceAfter(toks, p, first, value) ==
  LET coll(k, pairs) == After(ParseItems(toks, p, "}", pairs),
                             LAMBDA es, q : Got(Expr(k, "", es), q))
      after == T(toks, first.at)
  IN CASE ~first.ok -> Failed
       [] value.ok /\ T(toks, value.at) = "for" ->
            ParseComp(toks, "DictComp", <<first.e, value.e>>, value.at, "}")
       [] after = "for" -> ParseComp(toks, "SetComp", <<first.e>>, first.at, "}")
       [] OTHER -> coll(IF after = ":" THEN "Dict" ELSE "Set", after = ":")
BraceFrom(toks, p, first) ==
  BraceAfter(toks, p, first,
             IF first.ok /\ T(toks, first.at) = ":" THEN ParseExpr(toks, first.at + 1) ELSE Failed)
ParseBrace(toks, p) ==
  IF T(toks, p) = "}" THEN Got(Expr("Dict", "", <<>>), p + 1)
  ELSE BraceFrom(toks, p, ParseExpr(toks, p))

(* A literal, which is also a pattern. *)
Literal(toks, p) ==
  CASE T(toks, p) = "int"   -> Got(Expr("Int", V(toks, p), <<>>), p + 1)
    [] T(toks, p) = "float" -> Got(Expr("Float", V(toks, p), <<>>), p + 1)
    [] T(toks, p) = "str"   -> Got(Expr("Str", V(toks, p), <<>>), p + 1)
    [] T(toks, p) \in {"True", "False"} -> Got(Expr("Bool", T(toks, p), <<>>), p + 1)
    [] T(toks, p) = "None"  -> Got(None0, p + 1)
    [] OTHER -> Failed

ParseAtom(toks, p) ==
  CASE T(toks, p) = "name"  -> Got(Ident(V(toks, p)), p + 1)
    [] T(toks, p) = "(" -> ParseParen(toks, p + 1)
    [] T(toks, p) = "[" -> ParseBracket(toks, p + 1)
    [] T(toks, p) = "{" -> ParseBrace(toks, p + 1)
    [] OTHER -> Literal(toks, p)

(* Arguments: no positional one after a keyword. *)
ParseArgs(toks, p, keyed) ==
  IF T(toks, p) = ")" THEN Got(<<>>, p + 1)
  ELSE LET kw == T(toks, p) = "name" /\ T(toks, p + 1) = "="
           arg == IF kw THEN After(ParseExpr(toks, p + 2), LAMBDA e, q :
                                    Got(Expr("Kw", V(toks, p), <<e>>), q))
                  ELSE IF keyed THEN Failed ELSE ParseExpr(toks, p)
       IN After(arg, LAMBDA a, q :
            IF T(toks, q) = "," THEN After(ParseArgs(toks, q + 1, kw),
                                          LAMBDA rest, s : Got(<<a>> \o rest, s))
            ELSE Upto(toks, ")", Got(<<a>>, q)))

(* The part of a slice up to a colon or the bracket. *)
Bound1(toks, p) ==
  IF T(toks, p) \in {":", "]"} THEN Got(Nothing, p) ELSE ParseExpr(toks, p)

ParseIndex(toks, o, p) ==
  After(Bound1(toks, p), LAMBDA a, q :
    CASE T(toks, q) = ":" ->
           After(Bound1(toks, q + 1), LAMBDA b, s :
             After(IF T(toks, s) = ":" THEN Bound1(toks, s + 1) ELSE Got(Nothing, s),
                  LAMBDA c, u : Upto(toks, "]", Got(Expr("Slice", "", <<o, a, b, c>>), u))))
      [] a = Nothing -> Failed
      [] T(toks, q) = "," ->
           After(ParseItems(toks, q + 1, "]", FALSE), LAMBDA es, s :
             Got(Expr("Index", "", <<o, Expr("Tuple", "", <<a>> \o es)>>), s))
      [] OTHER -> Upto(toks, "]", Got(Expr("Index", "", <<o, a>>), q)))

RECURSIVE Postfixes(_, _)
Postfixes(toks, r) ==
  IF ~r.ok THEN r
  ELSE LET next == r.at + 1
       IN CASE T(toks, r.at) = "(" ->
                 Postfixes(toks, After(ParseArgs(toks, next, FALSE), LAMBDA as, q :
                                        Got(Expr("Call", "", <<r.e>> \o as), q)))
            [] T(toks, r.at) = "." ->
                 Postfixes(toks, After(NameAt(toks, next), LAMBDA n, q :
                                        Got(Expr("Attr", n, <<r.e>>), q)))
            [] T(toks, r.at) = "[" -> Postfixes(toks, ParseIndex(toks, r.e, next))
            [] OTHER -> r

PostfixTail(toks, p) == Postfixes(toks, ParseAtom(toks, p))
-----------------------------------------------------------------------------
(* Types: parse_type, with `A | None` as Optional[A]. *)

RECURSIVE ParseTypes(_, _), Alternatives(_, _)

ParseTypes(toks, p) ==
  IF T(toks, p) = "]" THEN Got(<<>>, p + 1)
  ELSE After(ParseType(toks, p), LAMBDA t, q :
         IF T(toks, q) # "," THEN Upto(toks, "]", Got(<<t>>, q))
         ELSE IF T(toks, q + 1) = "]" THEN Failed
         ELSE After(ParseTypes(toks, q + 1), LAMBDA ts, s : Got(<<t>> \o ts, s)))

ParseTypeAtom(toks, p) ==
  CASE T(toks, p) = "None" -> Got(None0, p + 1)
    [] T(toks, p) # "name" -> Failed
    [] V(toks, p) = "Callable" ->
         IF T(toks, p + 1) # "[" \/ T(toks, p + 2) # "[" THEN Failed
         ELSE After(ParseTypes(toks, p + 3), LAMBDA args, q :
                IF T(toks, q) # "," THEN Failed
                ELSE After(ParseType(toks, q + 1), LAMBDA ret, s :
                       Upto(toks, "]", Got(Expr("Func", "", Append(args, ret)), s))))
    [] T(toks, p + 1) = "[" ->
         After(ParseTypes(toks, p + 2), LAMBDA args, q :
                Got(Expr("Generic", V(toks, p), args), q))
    [] OTHER -> Got(Expr("Named", V(toks, p), <<>>), p + 1)

Alternatives(toks, r) ==
  IF ~r.ok \/ T(toks, r.at) # "|" THEN r
  ELSE After(ParseTypeAtom(toks, r.at + 1), LAMBDA t, q :
         Alternatives(toks, Got(CASE t = None0 -> Expr("Generic", "Optional", <<r.e>>)
                                  [] r.e = None0 -> Expr("Generic", "Optional", <<t>>)
                                  [] OTHER -> Expr("Generic", "Union", <<r.e, t>>), q)))

TypeFrom(toks, p) == Alternatives(toks, ParseTypeAtom(toks, p))
-----------------------------------------------------------------------------
(* Statements *)

(* eat_newline: a statement ends with its line, or with the block. *)
EndOfStmt(toks, r) ==
  CASE ~r.ok -> Failed
    [] T(toks, r.at) = "Newline" -> [r EXCEPT !.at = @ + 1]
    [] T(toks, r.at) \in {"Dedent", "Eof", ";"} -> r
    [] OTHER -> Failed

RECURSIVE SkipNewlines(_, _), ParseHandlers(_, _),
          ParseElifs(_, _), ParseArms(_, _), ParseMembers(_, _), ParseParams(_, _),
          ParseNames(_, _, _), Patterns(_, _), Decorators(_, _)

SkipNewlines(toks, p) == IF T(toks, p) = "Newline" THEN SkipNewlines(toks, p + 1) ELSE p

StmtsFrom(toks, p) ==
  IF T(toks, p) \in {"Dedent", "Eof"} THEN Got(<<>>, p)
  ELSE After(ParseStmt(toks, p), LAMBDA s, q :
         After(ParseStmts(toks, SkipNewlines(toks, q)), LAMBDA rest, u : Got(<<s>> \o rest, u)))

(* parse_block, after its colon. *)
ParseBlock(toks, p) ==
  IF T(toks, p) # ":" \/ T(toks, p + 1) # "Newline" \/ T(toks, p + 2) # "Indent" THEN Failed
  ELSE Upto(toks, "Dedent", ParseStmts(toks, p + 3))

(* A block [role, bind, test, body] whose body follows. *)
BlockAt(toks, role, bind, test, p) ==
  After(ParseBlock(toks, p), LAMBDA body, q : Got(Block(role, bind, test, body), q))

(* The block a keyword introduces, if it is there: `else`, `finally`. *)
OptionalBlock(toks, kw, r) ==
  After(r, LAMBDA bs, p :
    IF T(toks, p) # kw THEN r
    ELSE After(BlockAt(toks, kw, <<>>, <<>>, p + 1), LAMBDA b, q : Got(Append(bs, b), q)))

(* A statement that is its head's expressions and blocks. *)
Compound(k, binds, own, r) == After(r, LAMBDA bs, p : Got(Stmt(k, binds, own, bs), p))
Simple(toks, k, binds, own, p) == EndOfStmt(toks, Got(Stmt(k, binds, own, <<>>), p))

ParseNames(toks, sep, p) ==
  After(NameAt(toks, p), LAMBDA n, q :
    IF T(toks, q) = sep THEN After(ParseNames(toks, sep, q + 1),
                                  LAMBDA ns, s : Got(<<n>> \o ns, s))
    ELSE Got(<<n>>, q))

ParseElifs(toks, bs0) ==
  After(bs0, LAMBDA bs, p :
    IF T(toks, p) # "elif" THEN bs0
    ELSE After(ParseExpr(toks, p + 1), LAMBDA c, q :
           ParseElifs(toks, After(BlockAt(toks, "elif", <<>>, <<c>>, q),
                                 LAMBDA b, s : Got(Append(bs, b), s)))))

ParseIf(toks, p) ==
  After(ParseExpr(toks, p + 1), LAMBDA c, q :
    Compound("If", <<>>, <<>>,
             OptionalBlock(toks, "else",
               ParseElifs(toks, After(BlockAt(toks, "then", <<>>, <<c>>, q),
                                     LAMBDA b, s : Got(<<b>>, s))))))

One(r) == After(r, LAMBDA b, p : Got(<<b>>, p))

ParseWhile(toks, p) ==
  After(ParseExpr(toks, p + 1), LAMBDA c, q :
    Compound("While", <<>>, <<>>, One(BlockAt(toks, "body", <<>>, <<c>>, q))))

ParseFor(toks, p) ==
  After(ParseNames(toks, ",", p + 1), LAMBDA xs, q :
    IF T(toks, q) # "in" THEN Failed
    ELSE After(ParseExpr(toks, q + 1), LAMBDA it, s :
           Compound("For", xs, <<it>>, One(BlockAt(toks, "body", <<>>, <<>>, s)))))

ParseWith(toks, p) ==
  After(ParseExpr(toks, p + 1), LAMBDA e, q :
    LET as == IF T(toks, q) = "as" THEN NameAt(toks, q + 1) ELSE Failed
        at == IF as.ok THEN as.at ELSE IF T(toks, q) = "as" THEN q + 1 ELSE q
    IN Compound("With", <<>>, <<e>>,
                One(BlockAt(toks, "body", IF as.ok THEN <<as.e>> ELSE <<>>, <<>>, at))))

(* The type and the name of a handler may each be missing. *)
ParseHandlers(toks, bs0) ==
  After(bs0, LAMBDA bs, p :
    IF T(toks, p) # "except" THEN bs0
    ELSE LET ty == NameAt(toks, p + 1)
             q  == IF ty.ok THEN ty.at ELSE p + 1
             as == IF T(toks, q) = "as" THEN NameAt(toks, q + 1) ELSE Failed
             s  == IF as.ok THEN as.at ELSE IF T(toks, q) = "as" THEN q + 1 ELSE q
         IN ParseHandlers(toks,
              After(BlockAt(toks, "handler", IF as.ok THEN <<as.e>> ELSE <<>>,
                           IF ty.ok THEN <<Ident(ty.e)>> ELSE <<>>, s),
                   LAMBDA b, u : Got(Append(bs, b), u))))

ParseTry(toks, p) ==
  Compound("Try", <<>>, <<>>,
    OptionalBlock(toks, "finally", OptionalBlock(toks, "else",
      ParseHandlers(toks, One(BlockAt(toks, "body", <<>>, <<>>, p + 1))))))

PatternAt(toks, p) ==
  IF T(toks, p) # "name" THEN Literal(toks, p)
  ELSE Got(IF V(toks, p) = "_" THEN Expr("Wildcard", "_", <<>>)
           ELSE Expr("Capture", V(toks, p), <<>>), p + 1)

Patterns(toks, p) ==
  After(PatternAt(toks, p), LAMBDA e, q :
    IF T(toks, q) # "|" THEN Got(<<e>>, q)
    ELSE After(Patterns(toks, q + 1), LAMBDA es, s : Got(<<e>> \o es, s)))

ParsePattern(toks, p) ==
  After(Patterns(toks, p), LAMBDA es, q :
         Got(IF Len(es) = 1 THEN es[1] ELSE Expr("Or", "|", es), q))

ParseArms(toks, p) ==
  IF T(toks, p) # "case" THEN Got(<<>>, p)
  ELSE After(ParsePattern(toks, p + 1), LAMBDA e, q :
         After(IF T(toks, q) = "if" THEN One(ParseExpr(toks, q + 1)) ELSE Got(<<>>, q),
              LAMBDA g, s :
                After(BlockAt(toks, "case", <<>>, <<e>> \o g, s), LAMBDA b, u :
                  After(ParseArms(toks, u), LAMBDA rest, v : Got(<<b>> \o rest, v)))))

ParseMatch(toks, p) ==
  After(Upto(toks, ":", ParseExpr(toks, p + 1)), LAMBDA e, q :
    IF T(toks, q) # "Newline" \/ T(toks, q + 1) # "Indent" THEN Failed
    ELSE Compound("Match", <<>>, <<e>>, Upto(toks, "Dedent", ParseArms(toks, q + 2))))

(* parse_param: every parameter but self has a type. *)
ParseParam(toks, p) ==
  After(NameAt(toks, p), LAMBDA n, q :
    IF n = "self" THEN Got(Expr("Param", n, <<>>), q)
    ELSE IF T(toks, q) # ":" THEN Failed
    ELSE After(ParseType(toks, q + 1), LAMBDA t, s :
           IF T(toks, s) # "=" THEN Got(Expr("Param", n, <<t>>), s)
           ELSE After(ParseExpr(toks, s + 1), LAMBDA e, u :
                       Got(Expr("Param", n, <<t, e>>), u))))

ParseParams(toks, p) ==
  IF T(toks, p) = ")" THEN Got(<<>>, p + 1)
  ELSE After(ParseParam(toks, p), LAMBDA e, q :
         IF T(toks, q) = "," THEN After(ParseParams(toks, q + 1),
                                       LAMBDA rest, s : Got(<<e>> \o rest, s))
         ELSE Upto(toks, ")", Got(<<e>>, q)))

(* `[T, U]` after the name of a def or class, without duplicates. *)
TypeParams(toks, p) ==
  IF T(toks, p) # "[" THEN Got(<<>>, p)
  ELSE After(Upto(toks, "]", ParseNames(toks, ",", p + 1)), LAMBDA ns, q :
         IF Cardinality(ToSet(ns)) # Len(ns) THEN Failed
         ELSE Got([i \in DOMAIN ns |-> Expr("TypeParam", ns[i], <<>>)], q))

ParseDef(toks, decos, p) ==
  After(NameAt(toks, p + 1), LAMBDA n, q :
    After(TypeParams(toks, q), LAMBDA ts, q2 :
      IF T(toks, q2) # "(" THEN Failed
      ELSE After(ParseParams(toks, q2 + 1), LAMBDA ps, s :
        IF T(toks, s) # "->" THEN Failed
        ELSE After(ParseType(toks, s + 1), LAMBDA ret, u :
          Compound("Func", <<n>>, <<ret>> \o decos \o ts \o ps,
                   One(BlockAt(toks, "def", <<>>, <<>>, u)))))))

(* `@a.b(..)` before a def or class: what is in the brackets is skipped    *)
(* (the strings of @crate are left out).                                   *)
RECURSIVE AfterParens(_, _, _)
AfterParens(toks, p, depth) ==
  IF depth = 0 \/ T(toks, p) = "Eof" THEN p
  ELSE AfterParens(toks, p + 1, IF T(toks, p) = "(" THEN depth + 1
                                ELSE IF T(toks, p) = ")" THEN depth - 1 ELSE depth)

DecoratorEnd(toks, p) == IF T(toks, p) = "(" THEN AfterParens(toks, p + 1, 1) ELSE p
DecoratorsAfter(toks, names, p) ==
  After(Decorators(toks, SkipNewlines(toks, DecoratorEnd(toks, p))), LAMBDA rest, u :
    Got((IF names = <<>> THEN <<>> ELSE <<Expr("Deco", Last(names), <<>>)>>) \o rest, u))
DecoratorFrom(toks, path, p) ==
  IF path.ok THEN DecoratorsAfter(toks, path.e, path.at) ELSE DecoratorsAfter(toks, <<>>, p)
Decorators(toks, p) ==
  IF T(toks, p) # "@" THEN Got(<<>>, p)
  ELSE DecoratorFrom(toks, ParseNames(toks, ".", p + 1), p + 1)

(* Members of a class, its fields before its methods. *)
IsField(s) == s.k = "Field"
MembersAfter(toks, member) ==
  After(member, LAMBDA s, q : After(ParseMembers(toks, q), LAMBDA rest, u : Got(<<s>> \o rest, u)))
ParseField(toks, p) ==
  IF T(toks, p + 1) # ":" THEN Failed
  ELSE After(ParseType(toks, p + 2), LAMBDA t, q :
         After(IF T(toks, q) = "=" THEN One(ParseExpr(toks, q + 1)) ELSE Got(<<>>, q), LAMBDA e, s :
           Simple(toks, "Field", <<V(toks, p)>>, <<t>> \o e, s)))
ParseMethod(toks, decos, p) ==
  After(ParseDef(toks, decos, p), LAMBDA m, q :
    IF \E i \in DOMAIN m.own : m.own[i].k = "TypeParam" THEN Failed ELSE Got(m, q))
ParseMembers(toks, p) ==
  CASE T(toks, p) \in {"Dedent", "Eof"} -> Got(<<>>, p)
    [] T(toks, p) = "pass" ->
         After(EndOfStmt(toks, Got(Nothing, p + 1)), LAMBDA e, q : ParseMembers(toks, q))
    [] T(toks, p) = "name" -> MembersAfter(toks, ParseField(toks, p))
    [] T(toks, p) \in {"@", "def"} ->
         After(Decorators(toks, p), LAMBDA decos, q :
           IF T(toks, q) = "def" THEN MembersAfter(toks, ParseMethod(toks, decos, q))
           ELSE ParseMembers(toks, q))
    [] OTHER -> Failed

ParseClass(toks, decos, p) ==
  After(NameAt(toks, p + 1), LAMBDA n, q :
    After(TypeParams(toks, q), LAMBDA ts, q2 :
      After(CASE T(toks, q2) # "(" -> Got(<<>>, q2)
             [] T(toks, q2 + 1) = ")" -> Got(<<>>, q2 + 2)
             [] OTHER -> Upto(toks, ")", ParseNames(toks, ",", q2 + 1)), LAMBDA bases, s :
        IF T(toks, s) # ":" \/ T(toks, s + 1) # "Newline" \/ T(toks, s + 2) # "Indent" THEN Failed
        ELSE After(Upto(toks, "Dedent", ParseMembers(toks, s + 3)), LAMBDA ms, u :
               Got(Stmt("Class", <<n>>, decos \o ts \o [i \in DOMAIN bases |-> Ident(bases[i])],
                        <<Block("class", <<>>, <<>>,
                                SelectSeq(ms, IsField) \o
                                SelectSeq(ms, LAMBDA m : ~IsField(m)))>>), u)))))

(* A decorator before anything but a def or a class is dropped; of a path *)
(* only the last name tells decorators apart here.                         *)
DecoratedAt(toks, decos, p) ==
  CASE T(toks, p) = "def"   -> ParseDef(toks, decos, p)
    [] T(toks, p) = "class" -> ParseClass(toks, decos, p)
    [] OTHER -> ParseStmt(toks, p)
ParseDecorated(toks, p) ==
  After(Decorators(toks, p), LAMBDA decos, q : DecoratedAt(toks, decos, SkipNewlines(toks, q)))

(* The imported names may be in brackets; `as` is refused. *)
ParseImport(toks, p) ==
  LET names(ns) == [i \in DOMAIN ns |-> Ident(ns[i])]
  IN After(ParseNames(toks, ".", p + 1), LAMBDA path, q :
       CASE T(toks, p) = "import" -> Simple(toks, "Import", path, <<>>, q)
         [] T(toks, q) # "import" -> Failed
         [] T(toks, q + 1) = "(" ->
              After(Upto(toks, ")", ParseNames(toks, ",", q + 2)),
                   LAMBDA ns, s : Simple(toks, "Import", path, names(ns), s))
         [] OTHER -> After(ParseNames(toks, ",", q + 1),
                          LAMBDA ns, s : Simple(toks, "Import", path, names(ns), s)))

Operator(op) == Expr("Op", op, <<>>)

(* `a, b = e`, or `a, b = e, f` without brackets. *)
ParseUnpack(toks, p) ==
  After(ParseNames(toks, ",", p), LAMBDA xs, q :
    IF Len(xs) = 1 \/ T(toks, q) # "=" THEN Failed
    ELSE After(ParseExpr(toks, q + 1), LAMBDA e, s :
           IF T(toks, s) # "," THEN Simple(toks, "Unpack", xs, <<e>>, s)
           ELSE After(ParseItems(toks, s + 1, "Newline", FALSE), LAMBDA es, u :
                  Got(Stmt("Unpack", xs, <<Expr("Tuple", "", <<e>> \o es)>>, <<>>), u))))

(* An assignment to a name. *)
ParseBinding(toks, p) ==
  LET x == <<V(toks, p)>>
      value(k, own, q) == After(ParseExpr(toks, q), LAMBDA e, s :
                                 Simple(toks, k, x, Append(own, e), s))
  IN CASE T(toks, p + 1) = ":" ->
            After(Upto(toks, "=", ParseType(toks, p + 2)), LAMBDA t, q : value("Assign", <<t>>, q))
       [] T(toks, p + 1) = "=" -> value("Assign", <<>>, p + 2)
       [] OTHER -> value("AugAssign", <<Operator(OpOf(T(toks, p + 1)))>>, p + 2)

(* An assignment to a place, or an expression.  An augmented one to an     *)
(* attribute or an element repeats the place.                              *)
ParseTarget(toks, p) ==
  After(ParseExpr(toks, p), LAMBDA lhs, q :
    LET aug == T(toks, q) \in AugOps
        value(e) == IF aug THEN Bin(OpOf(T(toks, q)), lhs, e) ELSE e
        into(k, binds, own) ==
          After(ParseExpr(toks, q + 1), LAMBDA e, s :
                 Simple(toks, k, binds, Append(own, value(e)), s))
    IN CASE T(toks, q) # "=" /\ ~aug -> Simple(toks, "Expr", <<>>, <<lhs>>, q)
         [] lhs.k = "Attr"  -> into("AttrAssign", <<lhs.n>>, lhs.kids)
         [] lhs.k = "Index" -> into("IndexAssign", <<>>, lhs.kids)
         [] lhs.k = "Tuple" /\ ~aug /\ \A i \in DOMAIN lhs.kids : lhs.kids[i].k = "Ident" ->
              into("Unpack", [i \in DOMAIN lhs.kids |-> lhs.kids[i].n], <<>>)
         [] OTHER -> Failed)

ParseAssignOrExpr(toks, p) ==
  IF T(toks, p) = "name" /\ T(toks, p + 1) \in {":", "="} \cup AugOps
  THEN ParseBinding(toks, p)
  ELSE LET unpack == ParseUnpack(toks, p)
       IN IF T(toks, p) = "name" /\ T(toks, p + 1) = "," /\ unpack.ok THEN unpack
          ELSE ParseTarget(toks, p)

StmtFrom(toks, p) ==
  LET t == T(toks, p)
      with(k) == After(ParseExpr(toks, p + 1), LAMBDA e, q : Simple(toks, k, <<>>, <<e>>, q))
  IN CASE t = "def"   -> ParseDef(toks, <<>>, p)
       [] t = "class" -> ParseClass(toks, <<>>, p)
       [] t = "if"    -> ParseIf(toks, p)
       [] t = "while" -> ParseWhile(toks, p)
       [] t = "for"   -> ParseFor(toks, p)
       [] t \in {"import", "from"} -> ParseImport(toks, p)
       [] t = "pass"     -> Simple(toks, "Pass", <<>>, <<>>, p + 1)
       [] t = "break"    -> Simple(toks, "Break", <<>>, <<>>, p + 1)
       [] t = "continue" -> Simple(toks, "Continue", <<>>, <<>>, p + 1)
       [] t = "assert" -> After(ParseExpr(toks, p + 1), LAMBDA e, q :
                            IF T(toks, q) # "," THEN Simple(toks, "Assert", <<>>, <<e>>, q)
                            ELSE After(ParseExpr(toks, q + 1), LAMBDA m, s :
                                        Simple(toks, "Assert", <<>>, <<e, m>>, s)))
       [] t = "raise" -> IF T(toks, p + 1) \in {"Newline", "Eof", "Dedent"}
                         THEN Simple(toks, "Raise", <<>>, <<>>, p + 1) ELSE with("Raise")
       [] t = "try"   -> ParseTry(toks, p)
       [] t = "with"  -> ParseWith(toks, p)
       [] t = "del"   -> with("Del")
       [] t \in {"global", "nonlocal"} ->
            After(ParseNames(toks, ",", p + 1), LAMBDA ns, q :
                   Simple(toks, IF t = "global" THEN "Global" ELSE "Nonlocal", ns, <<>>, q))
       [] t = "match"  -> ParseMatch(toks, p)
       [] t = "return" -> IF T(toks, p + 1) = "Newline"
                          THEN Simple(toks, "Return", <<>>, <<>>, p + 1) ELSE with("Return")
       [] t = "yield"  -> with("Yield")
       [] t = "@"      -> ParseDecorated(toks, p)
       [] OTHER        -> ParseAssignOrExpr(toks, p)

Read(rule, toks, p) ==
  CASE rule = "expr"  -> ParseTernary(toks, p)
    [] rule = "or"    -> ParseLevel(toks, 1, p)
    [] rule = "type"  -> TypeFrom(toks, p)
    [] rule = "stmt"  -> StmtFrom(toks, p)
    [] rule = "stmts" -> StmtsFrom(toks, p)

(* parse_module: every token is read. *)
ToTheEnd(toks, r) == IF r.ok /\ T(toks, r.at) = "Eof" THEN r ELSE Failed
ParseModule(toks) == ToTheEnd(toks, ParseStmts(toks, SkipNewlines(toks, 1)))

(* parse *)
Parse(text) == LET l == Lex(text) IN IF l.ok THEN ParseModule(l.toks) ELSE Failed
=============================================================================
