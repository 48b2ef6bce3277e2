------------------------------- MODULE MCFlow -------------------------------
(***************************************************************************)
(* The checker against the meaning of the programs it accepts.  A theme    *)
(* gives the menu of statements, the parameters and the module constants.  *)
(***************************************************************************)
EXTENDS Programs, TypeFlow

Flag0 == <<Call("flag", <<>>)>>
H == Ident("h")
X == Ident("x")
C == Ident("C")
Ready == <<Method(H, "ready")>>
Do(f, args) == ExprStmt(Call(f, args))
Risky == Do("risky", <<>>)

If(test)     == Stmt("If", <<>>, <<>>, <<Block("then", <<>>, test, <<>>)>>)
While(test)  == Stmt("While", <<>>, <<>>, <<Block("body", <<>>, test, <<>>)>>)
For(x)       == Stmt("For", <<x>>, <<Call("items", <<>>)>>, <<Block("body", <<>>, <<>>, <<>>)>>)
Try          == Stmt("Try", <<>>, <<>>, <<Block("body", <<>>, <<>>, <<>>)>>)
With(x)      == Stmt("With", <<>>, <<Call("open", <<>>)>>, <<Block("body", <<x>>, <<>>, <<>>)>>)
Match(e, t)  == Stmt("Match", <<>>, <<e>>, <<Block("literal", <<>>, t, <<>>)>>)

Params(t) == CASE t = "handle"   -> [h |-> "File"]
               [] t = "optional" -> [x |-> "Optional"]
               [] t = "retype"   -> [x |-> "int"]
               [] t = "const"    -> <<>>
Consts(t) == IF t = "const" THEN [C |-> "int"] ELSE <<>>

(* The values a call may bring. *)
Inputs(t) == CASE t = "handle"   -> {[h |-> "live"]}
               [] t = "optional" -> {[x |-> "None"], [x |-> "1"]}
               [] t = "retype"   -> {[x |-> "1"]}
               [] t = "const"    -> {<<>>}

Menu(t) ==
  CASE t = "handle" ->
         {Assign("h", Call("open", <<>>)), Assign("k", H), ExprStmt(Method(H, "ready")),
          Do("take", <<H>>), Risky, Break, Return(<<>>)}
    [] t = "optional" ->
         {Assign("x", Call("maybe", <<>>)), Assign("x", Lit("None")), Assign("x", Lit("1")),
          Assign("x", Call("inc", <<X>>)), Do("inc", <<X>>), Break, Return(<<>>)}
    [] t = "retype" ->
         {Assign("x", Lit("s")), Assign("x", Lit("2")), Do("show", <<X>>), Risky, Break, Raise}
    [] t = "const" ->
         {Assign("C", Lit("1")), AugAssign("C", Lit("1")), Do("show", <<C>>), Return(<<>>)}

Heads(t) ==
  CASE t = "handle" ->
         {If(Flag0), While(Flag0), For("i"), Try, With("f"), Match(Call("flag", <<>>), Ready)}
    [] t = "optional" ->
         {If(<<Is("x")>>), If(<<IsNot("x")>>), If(<<And(IsNot("x"), Call("flag", <<>>))>>),
          If(Flag0), While(<<IsNot("x")>>), While(<<Lit("true")>>)}
    [] t = "retype" -> {If(Flag0), While(Flag0), Try, Match(X, <<>>)}
    [] t = "const" -> {If(Flag0), For("C"), Match(Call("flag", <<>>), <<>>)}

Parts(s) ==
  LET role == Last(s.blocks).role
  IN CASE s.k = "If" /\ role \in {"then", "elif"} ->
            {Block("else", <<>>, <<>>, <<>>)} \cup
            {Block("elif", <<>>, t, <<>>) :
               t \in CASE theme = "handle" -> {Flag0, Ready}
                       [] theme = "const" -> {<<Is("C")>>}
                       [] OTHER -> {}}
       [] s.k = "Try" /\ role = "body" ->
            {Block("handler", <<>>, <<>>, <<>>), Block("finally", <<>>, <<>>, <<>>)}
       [] s.k = "Try" /\ role = "handler" ->
            {Block("else", <<>>, <<>>, <<>>), Block("finally", <<>>, <<>>, <<>>)}
       [] s.k = "Match" /\ role = "literal" ->
            {Block("wildcard", <<>>, <<>>, <<>>)} \cup
            (IF theme = "retype" THEN {Block("capture", <<"x">>, <<>>, <<>>)} ELSE {})
       [] OTHER -> {}

Init == Start

(* A program whose beginning is rejected is rejected: it is not continued. *)
Goes == CheckBody(Program, Entry(Params(theme) @@ Consts(theme))).ok

WriteStmt  == Goes /\ Write(Menu(theme))
OpenBlock  == Goes /\ Begin(Heads(theme))
NextBlock  == Follow(Parts)
CloseBlock == End

Accepted == Whole /\ Accepts(Program, Params(theme), Consts(theme))

AllRuns == UNION {Runs(Program, v) : v \in Inputs(theme)}
Statements == Within(Program)
BlocksWithin(body) == UNION {BlocksOf(s) : s \in Within(body)}

-----------------------------------------------------------------------------
(* The checker follows moves through a `try`, a loop that opens the handle *)
(* again and a condition behind a branch less exactly than the rest: these *)
(* programs are without them.                                              *)
StraightMoves ==
  /\ \A s \in Statements : s.k # "Try" /\ (s.k \in Loops => "h" \notin BoundBy(s))
  /\ \A b \in BlocksWithin(Program) : b.test # Ready

(* A handle that was passed on, assigned to another name or closed by a    *)
(* `with` is not read afterwards on any path of an accepted program:       *)
(* check_handle_flow and its joins.  (The programs return nothing, have    *)
(* one form of `with`, and lend no handle to a Mut[T] parameter.)          *)
MovedIsNotRead ==
  Accepted /\ theme = "handle" /\ StraightMoves =>
    \A r \in AllRuns : Bad(r) \cap {"gone", "unbound"} = {}

(* Types assigned in a branch reach the branches after it and the turns    *)
(* before it: these programs assign and narrow in the outermost block and  *)
(* under one guard.                                                        *)
PlainGuards ==
  \A i \in DOMAIN Program : \A b \in BlocksOf(Program[i]) :
     \A s \in Within(b.body) : s.k \notin {"Assign", "If"}

(* Where a guard, an early return or an `and` narrowed an Optional, no run *)
(* of an accepted program finds None.                                      *)
NarrowedIsThere ==
  Accepted /\ theme = "optional" /\ PlainGuards => \A r \in AllRuns : "None" \notin Bad(r)

(* A module constant that the function assigns is its local throughout,    *)
(* and no run of an accepted program reads it before it is assigned:       *)
(* walk_unbound_local.                                                     *)
ConstIsBound ==
  Accepted /\ theme = "const" =>
    \A r \in Runs(Program, IF \E s \in Statements : "C" \in ToSet(s.binds)
                           THEN <<>> ELSE [C |-> "1"]) :
       "unbound" \notin Bad(r)

(* A body that definitely returns has no run that falls off its end:       *)
(* block_transfers_flow, accepted or not.                                  *)
ReturnsAreCertain ==
  Whole /\ DefinitelyReturns(Program) => \A r \in AllRuns : r.how # "next"

(* One block deep, and without what cuts a block short. *)
FlatBlocks ==
  /\ \A s \in Statements : s.k \notin {"Try", "Break"}
  /\ \A b \in UNION {BlocksOf(Program[i]) : i \in DOMAIN Program} :
       \A s \in Within(b.body) : s.blocks = <<>>

(* A block that gives a name a value of another type declares a variable   *)
(* of its own, and no run of an accepted program shows the difference:     *)
(* walk_read_after, unify of the branches.                                 *)
BlocksKeepTheirValues ==
  Accepted /\ theme = "retype" /\ FlatBlocks =>
    \A v \in Inputs(theme) :
      Shown(Runs(Program, v)) = Shown(ScopedRuns(Program, v))

Next == WriteStmt \/ OpenBlock \/ NextBlock \/ CloseBlock
Spec == Init /\ [][Next]_vars
=============================================================================
