-------------------------------- MODULE Ast --------------------------------
(***************************************************************************)
(* The syntax tree of src/src/ast.rs, one shape for every node, and the    *)
(* collectors that typeck/flow.rs and codegen/analysis.rs run over it.     *)
(*                                                                         *)
(* An expression is [k, n, kids]: its variant, the name it carries and its *)
(* operands.  A statement is [k, binds, own, blocks]: its variant, the     *)
(* names it assigns, the expressions it evaluates itself and its nested    *)
(* blocks, in source order.  A block is [role, bind, test, body]: the part *)
(* of the statement it is, the name it introduces (an `except .. as`, a    *)
(* `with .. as`, a `case` capture, the parameters of a nested def), the    *)
(* condition in front of it and its statements.  A collector of the source *)
(* that matches every variant to reach its parts is one union here.        *)
(***************************************************************************)
EXTENDS Integers, Sequences, FiniteSets, SequencesExt, FiniteSetsExt

-----------------------------------------------------------------------------
(* Expr *)

Expr(k, n, kids) == [k |-> k, n |-> n, kids |-> kids]

Ident(n)      == Expr("Ident", n, <<>>)
Lit(v)        == Expr("Lit", v, <<>>)
Call(f, args) == Expr("Call", f, args)
Method(o, m)  == Expr("Method", m, <<o>>)
Is(n)         == Expr("Is", "None", <<Ident(n)>>)
IsNot(n)      == Expr("IsNot", "None", <<Ident(n)>>)
And(a, b)     == Expr("And", "and", <<a, b>>)
IfExp(c, a, b) == Expr("IfExp", "if", <<c, a, b>>)
Comp(x, it, elt) == Expr("Comp", x, <<it, elt>>)
Lambda(x, e)  == Expr("Lambda", x, <<e>>)

(* Stmt *)

Block(role, bind, test, body) ==
  [role |-> role, bind |-> bind, test |-> test, body |-> body]

Stmt(k, binds, own, blocks) ==
  [k |-> k, binds |-> binds, own |-> own, blocks |-> blocks]

Assign(x, e)    == Stmt("Assign", <<x>>, <<e>>, <<>>)
AugAssign(x, e) == Stmt("AugAssign", <<x>>, <<e>>, <<>>)
Unpack(xs, e)   == Stmt("Unpack", xs, <<e>>, <<>>)
ExprStmt(e)     == Stmt("Expr", <<>>, <<e>>, <<>>)
Return(es)      == Stmt("Return", <<>>, es, <<>>)
Raise           == Stmt("Raise", <<>>, <<>>, <<>>)
Break           == Stmt("Break", <<>>, <<>>, <<>>)
Continue        == Stmt("Continue", <<>>, <<>>, <<>>)
Yield(e)        == Stmt("Yield", <<>>, <<e>>, <<>>)

Role(s, r)     == SelectSeq(s.blocks, LAMBDA b : b.role = r)
HasRole(s, r)  == Role(s, r) # <<>>
BodyOf(s, r)   == Role(s, r)[1].body
BlocksOf(s)    == ToSet(s.blocks)
Loops          == {"While", "For"}

-----------------------------------------------------------------------------
(* The names an expression reads, flow.rs expr_reads: a comprehension's    *)
(* targets and a lambda's parameters do not escape it.                     *)

RECURSIVE Reads(_)
Reads(e) ==
  LET of(es) == UNION {Reads(es[i]) : i \in DOMAIN es}
  IN CASE e.k = "Ident"  -> {e.n}
       [] e.k = "Comp"   -> Reads(e.kids[1]) \cup (of(Tail(e.kids)) \ {e.n})
       [] e.k = "Lambda" -> of(e.kids) \ {e.n}
       [] OTHER          -> of(e.kids)

ReadsAll(es) == UNION {Reads(es[i]) : i \in DOMAIN es}

(* What the statement itself reads, its tests left out. *)
OwnReads(s) ==
  ReadsAll(s.own) \cup (IF s.k = "AugAssign" THEN ToSet(s.binds) ELSE {})

(* shallow_stmt_reads: of an `if` only the first condition, of a `match`   *)
(* only the subject: the rest is read where its own scope is known.        *)
ShallowReads(s) ==
  OwnReads(s) \cup
    (IF s.k \in {"If", "While"} THEN ReadsAll(s.blocks[1].test) ELSE {})

RECURSIVE BoundBy(_)
Bound(body) == UNION {BoundBy(body[i]) : i \in DOMAIN body}

(* collect_bound_names_stmt: an augmented assignment binds nothing and the *)
(* body of a nested def is a scope of its own.                             *)
BoundBy(s) ==
  CASE s.k = "AugAssign"          -> {}
    [] s.k \in {"Func", "Class"}  -> ToSet(s.binds)
    [] OTHER -> ToSet(s.binds) \cup
                UNION {ToSet(b.bind) \cup Bound(b.body) : b \in BlocksOf(s)}

(* Every statement of a body, at any depth, nested defs apart. *)
RECURSIVE Within(_)
Within(body) ==
  UNION {{body[i]} \cup
         (IF body[i].k \in {"Func", "Class"} THEN {}
          ELSE UNION {Within(b.body) : b \in BlocksOf(body[i])})
         : i \in DOMAIN body}

RECURSIVE BodyReads(_)
(* nested_def_captured_reads: what the def reads and does not bind. *)
Captured(f) ==
  LET b == f.blocks[1] IN BodyReads(b.body) \ (ToSet(b.bind) \cup Bound(b.body))

(* collect_body_reads *)
BodyReads(body) ==
  UNION {LET s == body[i]
         IN IF s.k = "Func" THEN Captured(s)
            ELSE OwnReads(s) \cup
                 UNION {ReadsAll(b.test) \cup BodyReads(b.body) : b \in BlocksOf(s)}
         : i \in DOMAIN body}

(* collect_augassign_targets *)
AugTargets_none(body) == {}
AugTargets(body) ==
  UNION {ToSet(s.binds) : s \in {t \in Within(body) : t.k = "AugAssign"}}

(* body_contains_yield *)
ContainsYield(body) == \E s \in Within(body) : s.k = "Yield"

(* collect_returned_param_idents: the parameters a `return` hands back as  *)
(* they are, through a conditional expression or a tuple too.              *)
RECURSIVE Direct(_)
Direct(e) ==
  CASE e.k = "Ident" -> {e.n}
    [] e.k = "IfExp" -> Direct(e.kids[2]) \cup Direct(e.kids[3])
    [] e.k = "Tuple" -> UNION {Direct(e.kids[i]) : i \in DOMAIN e.kids}
    [] OTHER -> {}

ReturnedParams(body, params) ==
  params \cap UNION {UNION {Direct(s.own[i]) : i \in DOMAIN s.own} :
                       s \in {t \in Within(body) : t.k = "Return"}}
-----------------------------------------------------------------------------
(* Where control goes at the end of a block. *)

Exhaustive_always(s) == TRUE
Exhaustive(s) ==
  \E b \in BlocksOf(s) : b.role \in {"wildcard", "capture"} /\ b.test = <<>>

(* body_has_reachable_break: a `break` of a nested loop stays in it. *)
RECURSIVE ReachableBreak(_)
ReachableBreak(body) ==
  \E i \in DOMAIN body :
     \/ body[i].k = "Break"
     \/ /\ body[i].k \notin Loops \cup {"Func", "Class"}
        /\ \E b \in BlocksOf(body[i]) : ReachableBreak(b.body)

(* block_transfers_flow: the last statement never falls through.  With     *)
(* loopctl a `break` or `continue` counts.                                 *)
RECURSIVE Transfers(_, _)
Transfers(body, loopctl) ==
  /\ body # <<>>
  /\ LET s == Last(body)
         all(r) == \A b \in BlocksOf(s) : b.role = r => Transfers(b.body, loopctl)
         some(r) == HasRole(s, r) /\ Transfers(BodyOf(s, r), loopctl)
     IN \/ s.k \in {"Return", "Raise"}
        \/ s.k \in {"Break", "Continue"} /\ loopctl
        \/ s.k = "If" /\ HasRole(s, "else") /\ all("then") /\ all("elif") /\ all("else")
        \/ s.k = "While" /\ s.blocks[1].test = <<Lit("true")>>
           /\ ~ReachableBreak(BodyOf(s, "body"))
        \/ s.k = "Match" /\ Exhaustive(s)
           /\ \A b \in BlocksOf(s) : Transfers(b.body, loopctl)
        \/ s.k = "Try" /\ \/ some("finally")
                          \/ all("handler") /\ (some("body") \/ some("else"))

DefinitelyReturns(body) == Transfers(body, FALSE)
TerminatesFlow_shallow(body) == body # <<>>
TerminatesFlow(body)    == Transfers(body, TRUE)
-----------------------------------------------------------------------------
(* Does a block certainly assign a name (stmt_definitely_binds), or never  *)
(* end normally (stmt_diverges)?                                           *)

RECURSIVE StmtDiverges(_)
Diverges(body) == \E i \in DOMAIN body : StmtDiverges(body[i])

(* The two branching rules the two questions share. *)
EveryPath(s, q(_)) ==
  \/ s.k = "If" /\ HasRole(s, "else") /\ \A b \in BlocksOf(s) : q(b.body)
  \/ s.k = "With" /\ q(BodyOf(s, "body"))
  \/ s.k = "Try"
     /\ \/ HasRole(s, "finally") /\ q(BodyOf(s, "finally"))
        \/ /\ q(BodyOf(s, "body")) \/ (HasRole(s, "else") /\ q(BodyOf(s, "else")))
           /\ \A b \in BlocksOf(s) : b.role = "handler" => q(b.body)

StmtDiverges(s) ==
  \/ s.k \in {"Return", "Raise", "Break", "Continue"}
  \/ EveryPath(s, Diverges)

RECURSIVE StmtBinds(_, _)
DefinitelyBinds(body, n) ==
  \E i \in DOMAIN body : StmtBinds(body[i], n) \/ StmtDiverges(body[i])

StmtBinds(s, n) ==
  LET binds(body) == DefinitelyBinds(body, n)
  IN \/ s.k \in {"Assign", "Unpack"} /\ n \in ToSet(s.binds)
     \/ EveryPath(s, binds)
     \/ s.k = "Match" /\ Exhaustive(s) /\ \A b \in BlocksOf(s) : binds(b.body)
-----------------------------------------------------------------------------
(* Liveness of names, flow.rs live_in_stmt, over the whole body. *)

RECURSIVE LiveIn(_, _), LoopLive(_, _, _)

LiveBlock(body, out) == FoldRight(LAMBDA s, live : LiveIn(s, live), body, out)

(* loop_body_live_out: the least fixpoint of the back edge. *)
LoopLive(s, exit, seen) ==
  LET b == s.blocks[1]
      next == exit \cup ReadsAll(b.test) \cup
              (LiveBlock(b.body, seen) \ (IF s.k = "For" THEN ToSet(s.binds) ELSE {}))
  IN IF next \subseteq seen THEN seen ELSE LoopLive(s, exit, seen \cup next)

LoopBodyLiveOut_once(s, exit) == exit
LoopBodyLiveOut(s, exit) == LoopLive(s, exit, exit \cup ReadsAll(s.blocks[1].test))

(* A `break` is live as the statement after it is; a `try` body is not     *)
(* live for its handlers past its first statement.                         *)
LiveIn(s, out) ==
  LET tests == UNION {ReadsAll(b.test) : b \in BlocksOf(s)}
      live(b, o) == LiveBlock(b.body, o) \ ToSet(b.bind)
  IN CASE s.k \in {"Return", "Raise"} -> OwnReads(s)
       [] s.k = "If" ->
            tests \cup UNION {live(b, out) : b \in BlocksOf(s)}
                  \cup (IF HasRole(s, "else") THEN {} ELSE out)
       [] s.k \in Loops -> LoopBodyLiveOut(s, out) \cup OwnReads(s)
       [] s.k = "Try" ->
            LET after == IF HasRole(s, "finally") THEN LiveBlock(BodyOf(s, "finally"), out)
                         ELSE out
                els == IF HasRole(s, "else") THEN LiveBlock(BodyOf(s, "else"), after)
                       ELSE after
            IN LiveBlock(BodyOf(s, "body"), els) \cup
               UNION {live(b, after) : b \in {h \in BlocksOf(s) : h.role = "handler"}}
       [] s.k = "With" -> OwnReads(s) \cup live(s.blocks[1], out)
       [] s.k = "Match" ->
            OwnReads(s) \cup out \cup
            UNION {(LiveBlock(b.body, out) \cup ReadsAll(b.test)) \ ToSet(b.bind)
                     : b \in BlocksOf(s)}
       [] s.k = "Func" -> (out \ ToSet(s.binds)) \cup Captured(s)
       [] s.k = "AugAssign" -> out \cup OwnReads(s)
       [] OTHER -> (out \ ToSet(s.binds)) \cup OwnReads(s)
=============================================================================
