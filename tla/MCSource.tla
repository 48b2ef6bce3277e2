------------------------------ MODULE MCSource ------------------------------
(***************************************************************************)
(* The lexer, the parser and the formatter over growing programs: an       *)
(* expression wrapped again and again, or statements in blocks.            *)
(***************************************************************************)
EXTENDS Programs, Formatter

A == Ident("a")
B == Ident("b")
Neg(e) == Expr("UnOp", "-", <<e>>)
Not(e) == Expr("UnOp", "not", <<e>>)
Else(c, a, b) == Expr("IfExp", "", <<c, a, b>>)
Fn(x, e) == Expr("Lambda", x, <<e>>)
Attr(e, n) == Expr("Attr", n, <<e>>)
CallOf(es) == Expr("Call", "", es)
Kw(n, e) == Expr("Kw", n, <<e>>)
Str(v) == Expr("Str", v, <<>>)
True0 == Expr("Bool", "True", <<>>)
Int1 == Expr("Int", "1", <<>>)
Whole1 == Expr("Float", "1.0", <<>>)
IntT == Expr("Named", "int", <<>>)

-----------------------------------------------------------------------------
(* How the language reference has a tree written, brackets only where the  *)
(* precedence of a part calls for them.                                    *)

Level(e) ==
  CASE e.k \in {"IfExp", "Lambda"} -> 0
    [] e.k = "BinOp" ->
         (CASE e.n = "or" -> 1 [] e.n = "and" -> 2 [] e.n \in CmpOps \cup {"is not", "not in"} -> 4
            [] e.n = "|" -> 5 [] e.n = "^" -> 6 [] e.n = "&" -> 7 [] e.n \in {"<<", ">>"} -> 8
            [] e.n \in {"+", "-"} -> 9 [] e.n = "**" -> 12 [] OTHER -> 10)
    [] e.k = "UnOp" -> IF e.n = "not" THEN 3 ELSE 11
    [] OTHER -> 13

(* The levels of the operands of a binary operator. *)
LeftLevel(e)  == CASE Level(e) = 4 -> 5 [] Level(e) = 12 -> 13 [] OTHER -> Level(e)
RightLevel(e) == IF Level(e) = 12 THEN 11 ELSE Level(e) + 1

WrittenLiteral(e) ==
  CASE e.k = "Float" -> Tok("float", e.n)
    [] e.k = "Bool"  -> Sym(e.n)
    [] e.k = "Str"   ->
         Tok("str", CASE e.n = "line feed" -> "escape_n"
                      [] e.n = "escape_n" -> "escaped_escape_n" [] OTHER -> e.n)
    [] OTHER -> FormatLiteral(e)

RECURSIVE Written(_, _)
WrittenList(es) == Commas([i \in DOMAIN es |-> Written(es[i], 0)])

WrittenTail(e, at) ==
  <<Sym("for"), Name(e.n), Sym("in")>> \o Written(e.kids[at], 1) \o
  (IF Len(e.kids) > at THEN <<Sym("if")>> \o Written(e.kids[at + 1], 1) ELSE <<>>)

WrittenPairs(kids) ==
  Commas([i \in 1..(Len(kids) \div 2) |->
            Written(kids[2 * i - 1], 0) \o <<Sym(":")>> \o Written(kids[2 * i], 0)])

Written(e, min) ==
  LET kid(i, l) == Written(e.kids[i], l)
      bare ==
        CASE e.k = "Nothing" -> <<>>
          [] e.k = "BinOp" -> kid(1, LeftLevel(e)) \o OpWords(e.n) \o kid(2, RightLevel(e))
          [] e.k = "UnOp"  -> <<Sym(e.n)>> \o kid(1, Level(e))
          [] e.k = "IfExp" ->
               kid(2, 1) \o <<Sym("if")>> \o kid(1, 1) \o <<Sym("else")>> \o kid(3, 0)
          [] e.k = "Lambda" -> <<Sym("lambda"), Name(e.n), Sym(":")>> \o kid(1, 0)
          [] e.k = "Kw"    -> <<Name(e.n), Sym("=")>> \o kid(1, 0)
          [] e.k = "Call"  -> kid(1, 13) \o Bracketed("(", WrittenList(Tail(e.kids)), ")")
          [] e.k = "Attr"  -> kid(1, 13) \o <<Sym("."), Name(e.n)>>
          [] e.k = "Index" -> kid(1, 13) \o Bracketed("[", kid(2, 0), "]")
          [] e.k = "Slice" ->
               kid(1, 13) \o Bracketed("[", kid(2, 0) \o <<Sym(":")>> \o kid(3, 0) \o
                 (IF e.kids[4] = Nothing THEN <<>> ELSE <<Sym(":")>> \o kid(4, 0)), "]")
          [] e.k = "List"  -> Bracketed("[", WrittenList(e.kids), "]")
          [] e.k = "Set"   -> Bracketed("{", WrittenList(e.kids), "}")
          [] e.k = "Dict"  -> Bracketed("{", WrittenPairs(e.kids), "}")
          [] e.k = "Tuple" -> Bracketed("(", WrittenList(e.kids) \o
                                (IF Len(e.kids) = 1 THEN <<Sym(",")>> ELSE <<>>), ")")
          [] e.k = "ListComp" -> Bracketed("[", kid(1, 0) \o WrittenTail(e, 2), "]")
          [] e.k = "SetComp"  -> Bracketed("{", kid(1, 0) \o WrittenTail(e, 2), "}")
          [] e.k = "DictComp" ->
               Bracketed("{", kid(1, 0) \o <<Sym(":")>> \o kid(2, 0) \o WrittenTail(e, 3), "}")
          [] e.k = "Or" -> FlattenSeq([i \in DOMAIN e.kids |->
                             (IF i = 1 THEN <<>> ELSE <<Sym("|")>>) \o kid(i, 0)])
          [] OTHER -> <<WrittenLiteral(e)>>
  IN IF Level(e) < min THEN Bracketed("(", bare, ")") ELSE bare
-----------------------------------------------------------------------------
(* Statements: those the formatter prints as the language has them, with   *)
(* what it leaves out.                                                     *)

OfKind(es, k) == SelectSeq(es, LAMBDA e : e.k = k)
HeadOf(s, b) ==
  LET test == Written(b.test[1], 0)
      as == IF b.bind = <<>> THEN <<>> ELSE <<Sym("as"), Name(b.bind[1])>>
      ts == OfKind(s.own, "TypeParam")
      tparams == IF ts = <<>> THEN <<>>
                 ELSE Bracketed("[", Names([i \in DOMAIN ts |-> ts[i].n], ","), "]")
      ps == OfKind(s.own, "Param")
  IN CASE b.role \in {"then", "elif"} -> <<Sym(IF b.role = "then" THEN "if" ELSE "elif")>> \o test
       [] s.k = "While" -> <<Sym("while")>> \o test
       [] s.k = "For"   -> <<Sym("for")>> \o Names(s.binds, ",") \o <<Sym("in")>> \o Written(s.own[1], 0)
       [] s.k = "With"  -> <<Sym("with")>> \o Written(s.own[1], 0) \o as
       [] b.role = "handler" -> <<Sym("except")>> \o (IF b.test = <<>> THEN <<>> ELSE test) \o as
       [] b.role = "case" ->
            <<Sym("case")>> \o test \o
            (IF Len(b.test) = 2 THEN <<Sym("if")>> \o Written(b.test[2], 0) ELSE <<>>)
       [] b.role = "def" ->
            <<Sym("def"), Name(s.binds[1])>> \o tparams \o
            Bracketed("(", Commas([i \in DOMAIN ps |->
              <<Name(ps[i].n), Sym(":")>> \o FormatType(ps[i].kids[1]) \o
              (IF Len(ps[i].kids) = 2 THEN <<Sym("=")>> \o Written(ps[i].kids[2], 0) ELSE <<>>)]), ")")
            \o <<Sym("->")>> \o FormatType(s.own[1])
       [] b.role = "class" ->
            LET bases == OfKind(s.own, "Ident")
            IN <<Sym("class"), Name(s.binds[1])>> \o tparams \o
               (IF bases = <<>> THEN <<>> ELSE Bracketed("(", WrittenList(bases), ")"))
       [] OTHER -> FormatHead(s, b)

SimpleOf(s) ==
  LET last == Written(Last(s.own), 0)
      before(ts) == ts \o last
  IN CASE s.k = "Expr"   -> last
       [] s.k \in {"Return", "Assert", "Raise", "Yield", "Del"} ->
            <<Head(FormatSimple(s))>> \o WrittenList(s.own)
       [] s.k = "Assign" ->
            <<Name(s.binds[1])>> \o
            (IF Len(s.own) = 2 THEN <<Sym(":")>> \o FormatType(s.own[1]) ELSE <<>>) \o
            before(<<Sym("=")>>)
       [] s.k = "AugAssign" ->
            <<Name(s.binds[1]), Sym(CHOOSE o \in AugOps : OpOf(o) = s.own[1].n)>> \o last
       [] s.k = "AttrAssign" ->
            Written(s.own[1], 13) \o before(<<Sym("."), Name(s.binds[1]), Sym("=")>>)
       [] s.k = "IndexAssign" ->
            Written(s.own[1], 13) \o Bracketed("[", Written(s.own[2], 0), "]") \o before(<<Sym("=")>>)
       [] s.k = "Unpack" -> Names(s.binds, ",") \o before(<<Sym("=")>>)
       [] s.k = "Field" ->
            FormatSimple(s) \o (IF Len(s.own) = 2 THEN before(<<Sym("=")>>) ELSE <<>>)
       [] OTHER -> FormatSimple(s)

RECURSIVE WrittenStmt(_, _)
WrittenBody(body, lvl) ==
  IF body = <<>> THEN OneLine(lvl, <<Sym("pass")>>)
  ELSE FlattenSeq([i \in DOMAIN body |-> WrittenStmt(body[i], lvl)])

WrittenStmt(s, lvl) ==
  LET decos == OfKind(s.own, "Deco")
      lines(at) == FlattenSeq([i \in DOMAIN s.blocks |->
                     OneLine(at, HeadOf(s, s.blocks[i]) \o <<Sym(":")>>) \o
                     WrittenBody(s.blocks[i].body, at + 1)])
  IN FlattenSeq([i \in DOMAIN decos |-> OneLine(lvl, <<Sym("@"), Name(decos[i].n)>>)]) \o
     (CASE s.blocks = <<>> -> OneLine(lvl, SimpleOf(s))
        [] s.k = "Match" ->
             OneLine(lvl, <<Sym("match")>> \o Written(s.own[1], 0) \o <<Sym(":")>>) \o lines(lvl + 1)
        [] OTHER -> lines(lvl))
-----------------------------------------------------------------------------
(* The programs *)

Ops == {"or", "and", "<", "is not", "not in", "|", "-", "*", "**"}
Leaves == {A, Int1, Whole1, True0, Str("s"), Str("line feed"), Str("escape_n"), None0}
Sides == {B, Not(B), Bin("+", B, B)}

Wraps(e) ==
  {Neg(e), Not(e), Fn("x", e), Else(e, B, B), Else(B, e, B), Else(B, B, e)} \cup
  {Bin(op, e, s) : op \in Ops, s \in Sides} \cup {Bin(op, s, e) : op \in Ops, s \in Sides} \cup
  (IF e.k \in {"Int", "Float"} THEN {} ELSE {Attr(e, "f")}) \cup
  {CallOf(<<e>>), CallOf(<<e, B>>), CallOf(<<B, e>>), CallOf(<<B, Kw("k", e)>>)} \cup
  {Expr("Index", "", <<e, B>>), Expr("Index", "", <<B, e>>),
   Expr("Slice", "", <<e, Nothing, Nothing, Nothing>>), Expr("Slice", "", <<B, e, Nothing, e>>)} \cup
  {Expr(k, "", <<e>>) : k \in {"List", "Set", "Tuple"}} \cup
  {Expr("Tuple", "", <<B, e>>), Expr("Dict", "", <<e, B>>), Expr("Dict", "", <<B, e, B, B>>)} \cup
  {Expr("ListComp", "x", <<e, B>>), Expr("SetComp", "x", <<B, e>>),
   Expr("ListComp", "x", <<B, B, e>>), Expr("DictComp", "x", <<B, e, B>>)}

ListT == Expr("Generic", "list", <<IntT>>)
CallableT == Expr("Func", "", <<ListT, None0>>)
Int0(n) == Expr("Param", n, <<IntT>>)
Default(n) == Expr("Param", n, <<IntT, Else(A, B, B)>>)
Field(n, own) == Stmt("Field", <<n>>, own, <<>>)

Menu ==
  {ExprStmt(A), Stmt("Pass", <<>>, <<>>, <<>>), Break, Raise, Stmt("Raise", <<>>, <<A>>, <<>>),
   Return(<<>>), Return(<<A>>), Yield(A), Stmt("Assert", <<>>, <<A, B>>, <<>>),
   Stmt("Del", <<>>, <<Expr("Index", "", <<A, B>>)>>, <<>>),
   Stmt("Global", <<"x", "y">>, <<>>, <<>>), Stmt("Nonlocal", <<"x">>, <<>>, <<>>),
   Stmt("Import", <<"m", "n">>, <<>>, <<>>), Stmt("Import", <<"m">>, <<A, B>>, <<>>),
   Stmt("Assign", <<"x">>, <<CallableT, Fn("y", A)>>, <<>>), Assign("x", Bin("<", A, B)),
   Stmt("AttrAssign", <<"f">>, <<A, B>>, <<>>), Stmt("IndexAssign", <<>>, <<A, B, A>>, <<>>),
   Unpack(<<"x", "y">>, Expr("Tuple", "", <<B, A>>)),
   Stmt("AugAssign", <<"x">>, <<Operator("-"), A>>, <<>>),
   Stmt("AugAssign", <<"x">>, <<Operator("**"), A>>, <<>>),
   Stmt("Class", <<"E">>, <<Ident("Exception")>>, <<Block("class", <<>>, <<>>, <<>>)>>)}
Inner == {ExprStmt(A), Break, Return(<<>>), Yield(A)}
Fields == {Field("f", <<CallableT>>), Field("g", <<IntT, A>>)}

Defs == {Stmt("Func", <<"f">>, own, <<Block("def", <<>>, <<>>, <<>>)>>) :
           own \in {<<None0>>, <<ListT, Expr("Deco", "d", <<>>), Int0("x"), Default("y")>>}}
Heads ==
  Defs \cup
  {Stmt("Func", <<"f">>, <<None0, Expr("TypeParam", "T", <<>>)>>, <<Block("def", <<>>, <<>>, <<>>)>>),
   Stmt("Class", <<"C">>, <<>>, <<Block("class", <<>>, <<>>, <<>>)>>),
   Stmt("Class", <<"D">>, <<Expr("TypeParam", "T", <<>>), A, B>>, <<Block("class", <<>>, <<>>, <<>>)>>),
   Stmt("If", <<>>, <<>>, <<Block("then", <<>>, <<A>>, <<>>)>>),
   Stmt("While", <<>>, <<>>, <<Block("body", <<>>, <<A>>, <<>>)>>),
   Stmt("For", <<"x", "y">>, <<A>>, <<Block("body", <<>>, <<>>, <<>>)>>),
   Stmt("Try", <<>>, <<>>, <<Block("body", <<>>, <<>>, <<>>)>>),
   Stmt("With", <<>>, <<A>>, <<Block("body", <<"x">>, <<>>, <<>>)>>),
   Stmt("With", <<>>, <<A>>, <<Block("body", <<>>, <<>>, <<>>)>>),
   Stmt("Match", <<>>, <<A>>, <<Block("case", <<>>, <<Int1, B>>, <<>>)>>)}

Empty(role, bind, test) == Block(role, bind, test, <<>>)
Else0 == Empty("else", <<>>, <<>>)
Parts(s) ==
  LET role == Last(s.blocks).role
  IN CASE s.k = "If" /\ role # "else" -> {Else0, Empty("elif", <<>>, <<B>>)}
       [] s.k = "Try" /\ role \in {"body", "handler"} ->
            {Empty("handler", <<>>, <<>>), Empty("handler", <<>>, <<A>>),
             Empty("handler", <<"e">>, <<A>>), Empty("handler", <<"e">>, <<>>),
             Empty("finally", <<>>, <<>>)} \cup (IF role = "handler" THEN {Else0} ELSE {})
       [] s.k = "Try" /\ role = "else" -> {Empty("finally", <<>>, <<>>)}
       [] s.k = "Match" ->
            {Empty("case", <<>>, <<Expr("Or", "|", <<Int1, None0, True0>>)>>),
             Empty("case", <<>>, <<Expr("Wildcard", "_", <<>>)>>),
             Empty("case", <<>>, <<Expr("Capture", "x", <<>>), A>>)}
       [] OTHER -> {}

Init == Start

FirstLeaf ==
  /\ theme = "expressions" /\ size = 0
  /\ \E e \in Leaves : open' = Put1(open, ExprStmt(e))
  /\ size' = 1 /\ UNCHANGED theme

(* An expression grows at its root, a literal once. *)
WrapIt ==
  /\ theme = "expressions" /\ size \in 1..MaxDepth
  /\ size > 1 => "a" \in Reads(open[1].block.body[1].own[1])
  /\ \E e \in Wraps(open[1].block.body[1].own[1]) :
       open' = [open EXCEPT ![1].block.body = <<ExprStmt(e)>>]
  /\ size' = size + 1 /\ UNCHANGED theme

(* A class has fields, then methods. *)
InClass == Last(open).s.k = "Class"
WriteStmt ==
  theme = "statements" /\
    IF InClass THEN (\A i \in DOMAIN Current : Current[i].k = "Field") /\ Write(Fields)
    ELSE (Current = <<>> \/ (Len(open) = 1 /\ size = 1)) /\ Write(IF Len(open) = 1 THEN Menu ELSE Inner)
OpenBlock  == theme = "statements" /\ Begin(IF InClass THEN Defs ELSE Heads)
NextBlock  == theme = "statements" /\ Follow(Parts)
CloseBlock == theme = "statements" /\ End

Next == FirstLeaf \/ WrapIt \/ WriteStmt \/ OpenBlock \/ NextBlock \/ CloseBlock
Spec == Init /\ [][Next]_vars
-----------------------------------------------------------------------------
(* What is written as the language has it is read as it was meant: the     *)
(* levels of parse_or to parse_power, the postfixes, the blocks.           *)
Text == WrittenBody(Program, 0)
Yields(r, tree) == r.ok /\ r.e = tree
ReadsWhatIsWritten == Whole => Yields(Parse(Text), Program)

(* Layout means nothing but the lines and their nesting: the tokens are    *)
(* the same.                                                               *)
LayoutIsFree == Whole => LET ts == Text IN Lex(Relaid(ts)) = Lex(ts)

(* What the formatter prints as it is.  A literal must be printed as it is *)
(* written; a part that is neither bracketed nor binds closer than its     *)
(* place is taken apart; keyword arguments, decorators, type parameters,   *)
(* defaults of fields, most augmented operators and an untyped `as` are    *)
(* not printed.                                                            *)
Loose == {"IfExp", "Lambda"}
RECURSIVE Printable(_)
Printable(e) ==
  LET at(i) == e.kids[i]
      nots == {i \in DOMAIN e.kids : at(i).k = "UnOp" /\ at(i).n = "not"}
      tight == CASE e.k \in {"BinOp", "UnOp"} -> DOMAIN e.kids
                 [] e.k = "IfExp" -> {1, 2}
                 [] e.k \in {"Attr", "Call", "Index", "Slice"} -> {1}
                 [] e.k \in {"ListComp", "SetComp"} -> {2}
                 [] e.k = "DictComp" -> {3}
                 [] OTHER -> {}
  IN /\ e.k \notin {"Bool", "Kw"}
     /\ WrittenLiteral(e) = FormatLiteral(e)
     /\ \A i \in tight : at(i).k \notin Loose
     /\ e.k \in {"Attr", "Call", "Index", "Slice"} => at(1).k # "UnOp"
     /\ e.k = "BinOp" /\ e.n = "**" => at(1).k # "UnOp"
     /\ nots # {} /\ e.k \in {"BinOp", "UnOp"} => e.n \in {"and", "or", "not"}
     /\ \A i \in DOMAIN e.kids : Printable(at(i))

PrintableStmt(s) ==
  /\ \A i \in DOMAIN s.own : s.own[i].k \notin {"Deco", "TypeParam"} /\ Printable(s.own[i])
  /\ s.k = "AugAssign" => AugText(s.own[1].n) = s.own[1].n
  /\ s.k = "Field" => Len(s.own) = 1
  /\ s.k = "Class" => s.blocks[1].body # <<>>
  /\ \A b \in BlocksOf(s) :
       /\ (b.role = "handler" /\ b.test = <<>>) => b.bind = <<>>
       /\ \A i \in DOMAIN b.test : Printable(b.test[i])

RECURSIVE StatementsOf(_)
StatementsOf(body) ==
  UNION {{body[i]} \cup UNION {StatementsOf(b.body) : b \in BlocksOf(body[i])} : i \in DOMAIN body}

(* fmt gives back the program it was given, where it prints all of it.     *)
FormatKeepsTheTree ==
  Whole /\ (\A s \in StatementsOf(Program) : PrintableStmt(s)) =>
    Yields(Parse(Format(Program)), Program)
=============================================================================
