----------------------------- MODULE Formatter -----------------------------
(***************************************************************************)
(* src/src/formatter.rs: the text it prints for a module of the syntax     *)
(* tree, as pieces for the lexer.  Blanks within a line are left out, a    *)
(* level of indentation is one space.                                      *)
(***************************************************************************)
EXTENDS Parser

Words(ts) == [i \in DOMAIN ts |-> Sym(ts[i])]
Commas(parts) ==
  FlattenSeq([i \in DOMAIN parts |-> IF i = 1 THEN parts[i] ELSE <<Sym(",")>> \o parts[i]])
Names(ns, sep) ==
  FlattenSeq([i \in DOMAIN ns |-> IF i = 1 THEN <<Name(ns[i])>> ELSE <<Sym(sep), Name(ns[i])>>])
Bracketed(l, parts, r) == <<Sym(l)>> \o parts \o <<Sym(r)>>

(* The operators of two words are two tokens. *)
OpWords(op) == CASE op = "is not" -> Words(<<"is", "not">>)
                 [] op = "not in" -> Words(<<"not", "in">>)
                 [] OTHER -> <<Sym(op)>>
-----------------------------------------------------------------------------
(* format_expr *)

(* f64 and bool are printed as Rust prints them, a string is not escaped   *)
(* but for its quotes.                                                     *)
FormatLiteral(e) ==
  CASE e.k = "Float" -> IF e.n = "1.0" THEN Tok("int", "1") ELSE Tok("float", e.n)
    [] e.k = "Bool"  -> IF e.n = "True" THEN Name("true") ELSE Name("false")
    [] e.k = "Int"   -> Tok("int", e.n)
    [] e.k = "Str"   -> Tok("str", e.n)
    [] e.k = "None"  -> Sym("None")
    [] OTHER         -> Name(e.n)

RECURSIVE FormatExpr(_)
FormatList(es) == Commas([i \in DOMAIN es |-> FormatExpr(es[i])])

Positional(args) == SelectSeq(args, LAMBDA a : a.k # "Kw")

FormatCompTail(e, at) ==
  <<Sym("for"), Name(e.n), Sym("in")>> \o FormatExpr(e.kids[at]) \o
  (IF Len(e.kids) > at THEN <<Sym("if")>> \o FormatExpr(e.kids[at + 1]) ELSE <<>>)

(* format_expr of a binary operator, the only one it brackets. *)
FormatBinOp_bare(e) == FormatExpr(e.kids[1]) \o OpWords(e.n) \o FormatExpr(e.kids[2])
FormatBinOp(e) ==
  Bracketed("(", FormatExpr(e.kids[1]) \o OpWords(e.n) \o FormatExpr(e.kids[2]), ")")

FormatPairs(kids) ==
  Commas([i \in 1..(Len(kids) \div 2) |->
            FormatExpr(kids[2 * i - 1]) \o <<Sym(":")>> \o FormatExpr(kids[2 * i])])

FormatSlice(e) ==
  LET colon(x) == <<Sym(":")>> \o FormatExpr(x)
  IN FormatExpr(e.kids[1]) \o
     Bracketed("[", FormatExpr(e.kids[2]) \o colon(e.kids[3]) \o
                  (IF e.kids[4] = Nothing THEN <<>> ELSE colon(e.kids[4])), "]")

FormatExpr(e) ==
  LET kid(i) == FormatExpr(e.kids[i])
  IN CASE e.k = "Nothing" -> <<>>
       [] e.k = "BinOp" -> FormatBinOp(e)
       [] e.k = "UnOp"  -> <<Sym(e.n)>> \o kid(1)
       [] e.k = "IfExp" -> kid(2) \o <<Sym("if")>> \o kid(1) \o <<Sym("else")>> \o kid(3)
       [] e.k = "Lambda" ->
            <<Sym("lambda")>> \o (IF e.n = "" THEN <<>> ELSE <<Name(e.n)>>) \o <<Sym(":")>> \o kid(1)
       [] e.k = "Call"  -> kid(1) \o Bracketed("(", FormatList(Positional(Tail(e.kids))), ")")
       [] e.k = "Attr"  -> kid(1) \o <<Sym("."), Name(e.n)>>
       [] e.k = "Index" -> kid(1) \o Bracketed("[", kid(2), "]")
       [] e.k = "Slice" -> FormatSlice(e)
       [] e.k = "List"  -> Bracketed("[", FormatList(e.kids), "]")
       [] e.k = "Set"   -> Bracketed("{", FormatList(e.kids), "}")
       [] e.k = "Dict"  -> Bracketed("{", FormatPairs(e.kids), "}")
       [] e.k = "Tuple" ->
            Bracketed("(", FormatList(e.kids) \o (IF Len(e.kids) = 1 THEN <<Sym(",")>> ELSE <<>>), ")")
       [] e.k = "ListComp" -> Bracketed("[", kid(1) \o FormatCompTail(e, 2), "]")
       [] e.k = "SetComp"  -> Bracketed("{", kid(1) \o FormatCompTail(e, 2), "}")
       [] e.k = "DictComp" ->
            Bracketed("{", kid(1) \o <<Sym(":")>> \o kid(2) \o FormatCompTail(e, 3), "}")
       [] OTHER -> <<FormatLiteral(e)>>

RECURSIVE FormatType(_)
FormatType(t) ==
  LET all(ts) == Commas([i \in DOMAIN ts |-> FormatType(ts[i])])
  IN CASE t.k = "None"    -> <<Sym("None")>>
       [] t.k = "Named"   -> <<Name(t.n)>>
       [] t.k = "Generic" -> <<Name(t.n)>> \o Bracketed("[", all(t.kids), "]")
       [] t.k = "Func"    ->
            <<Name("Callable")>> \o
            Bracketed("[", Bracketed("[", all(Front(t.kids)), "]") \o <<Sym(",")>> \o
                         FormatType(Last(t.kids)), "]")

(* format_params: a type, and a default if there is one; self alone. *)
FormatParam(p) ==
  <<Name(p.n)>> \o
  (IF Len(p.kids) >= 1 THEN <<Sym(":")>> \o FormatType(p.kids[1]) ELSE <<>>) \o
  (IF Len(p.kids) = 2 THEN <<Sym("=")>> \o FormatExpr(p.kids[2]) ELSE <<>>)
-----------------------------------------------------------------------------
(* format_stmt *)

OneLine(lvl, ts) == [i \in 1..lvl |-> Space] \o ts \o <<Line>>

AugText(op) == IF op \in {"+", "-", "*", "/", "%", "//"} THEN op ELSE "+"
AugSign(op) ==
  CASE AugText(op) = "+" -> "+=" [] AugText(op) = "-" -> "-=" [] AugText(op) = "*" -> "*="
    [] AugText(op) = "/" -> "/=" [] AugText(op) = "%" -> "%=" [] AugText(op) = "//" -> "//="

(* format_pattern *)
FormatPattern(e) ==
  IF e.k = "Or"
  THEN FlattenSeq([i \in DOMAIN e.kids |-> (IF i = 1 THEN <<>> ELSE <<Sym("|")>>) \o FormatExpr(e.kids[i])])
  ELSE FormatExpr(e)

(* The line in front of a block of a compound statement. *)
FormatHead(s, b) ==
  LET as == IF b.bind = <<>> THEN <<>> ELSE <<Sym("as"), Name(b.bind[1])>>
      test == FormatExpr(b.test[1])
  IN CASE b.role = "then" -> <<Sym("if")>> \o test
       [] b.role = "elif" -> <<Sym("elif")>> \o test
       [] b.role \in {"else", "finally"} -> <<Sym(b.role)>>
       [] s.k = "While" -> <<Sym("while")>> \o test
       [] s.k = "For"   -> <<Sym("for")>> \o Names(s.binds, ",") \o <<Sym("in")>> \o FormatExpr(s.own[1])
       [] s.k = "With"  -> <<Sym("with")>> \o FormatExpr(s.own[1]) \o as
       [] b.role = "handler" ->
            <<Sym("except")>> \o (IF b.test = <<>> THEN <<>> ELSE test \o as)
       [] s.k = "Try"   -> <<Sym("try")>>
       [] b.role = "case" ->
            <<Sym("case")>> \o FormatPattern(b.test[1]) \o
            (IF Len(b.test) = 2 THEN <<Sym("if")>> \o FormatExpr(b.test[2]) ELSE <<>>)
       [] b.role = "def" ->
            <<Sym("def"), Name(s.binds[1])>> \o
            Bracketed("(", Commas([i \in DOMAIN SelectSeq(s.own, LAMBDA p : p.k = "Param") |->
                                   FormatParam(SelectSeq(s.own, LAMBDA p : p.k = "Param")[i])]), ")") \o
            <<Sym("->")>> \o FormatType(s.own[1])
       [] b.role = "class" ->
            LET bases == SelectSeq(s.own, LAMBDA e : e.k = "Ident")
            IN <<Sym("class"), Name(s.binds[1])>> \o
               (IF bases = <<>> THEN <<>> ELSE Bracketed("(", FormatList(bases), ")"))

(* A statement of one line. *)
FormatSimple(s) ==
  LET own(i) == FormatExpr(s.own[i])
      word(k) == <<Sym(k)>> \o FormatList(s.own)
      eq == <<Sym("=")>>
  IN CASE s.k = "Expr"     -> own(1)
       [] s.k = "Pass"     -> word("pass")
       [] s.k = "Break"    -> word("break")
       [] s.k = "Continue" -> word("continue")
       [] s.k = "Return"   -> word("return")
       [] s.k = "Yield"    -> word("yield")
       [] s.k = "Assert"   -> word("assert")
       [] s.k = "Raise"    -> word("raise")
       [] s.k = "Del"      -> word("del")
       [] s.k = "Global"   -> <<Sym("global")>> \o Names(s.binds, ",")
       [] s.k = "Nonlocal" -> <<Sym("nonlocal")>> \o Names(s.binds, ",")
       [] s.k = "Import"   ->
            IF s.own = <<>> THEN <<Sym("import")>> \o Names(s.binds, ".")
            ELSE <<Sym("from")>> \o Names(s.binds, ".") \o <<Sym("import")>> \o FormatList(s.own)
       [] s.k = "Assign"   ->
            <<Name(s.binds[1])>> \o
            (IF Len(s.own) = 2 THEN <<Sym(":")>> \o FormatType(s.own[1]) ELSE <<>>) \o eq \o
            FormatExpr(Last(s.own))
       [] s.k = "AugAssign"   -> <<Name(s.binds[1]), Sym(AugSign(s.own[1].n))>> \o own(2)
       [] s.k = "AttrAssign"  -> own(1) \o <<Sym("."), Name(s.binds[1])>> \o eq \o own(2)
       [] s.k = "IndexAssign" -> own(1) \o Bracketed("[", own(2), "]") \o eq \o own(3)
       [] s.k = "Unpack" -> Bracketed("(", Names(s.binds, ","), ")") \o eq \o own(1)
       [] s.k = "Field"  -> <<Name(s.binds[1]), Sym(":")>> \o FormatType(s.own[1])

RECURSIVE FormatStmt(_, _)
FormatBody(body, lvl) == FlattenSeq([i \in DOMAIN body |-> FormatStmt(body[i], lvl)])

FormatStmt(s, lvl) ==
  IF s.blocks = <<>> THEN OneLine(lvl, FormatSimple(s))
  ELSE LET arms == IF s.k = "Match" THEN 1 ELSE 0
           blocks == FlattenSeq([i \in DOMAIN s.blocks |->
                       OneLine(lvl + arms, FormatHead(s, s.blocks[i]) \o <<Sym(":")>>) \o
                       FormatBody(s.blocks[i].body, lvl + arms + 1)])
       IN (IF s.k = "Match" THEN OneLine(lvl, <<Sym("match")>> \o FormatExpr(s.own[1]) \o <<Sym(":")>>)
           ELSE <<>>) \o blocks \o (IF s.k = "Func" THEN <<Line>> ELSE <<>>)

(* format: an empty line after every statement but an import and the last. *)
Format(body) ==
  FlattenSeq([i \in DOMAIN body |->
    FormatStmt(body[i], 0) \o
    (IF i < Len(body) /\ body[i].k # "Import" THEN <<Line>> ELSE <<>>)])
=============================================================================
