------------------------------ MODULE TypeFlow ------------------------------
(***************************************************************************)
(* The statement checker of src/src/typeck/flow.rs: one pass over a body   *)
(* that threads what FuncEnv knows of each name, narrows an Optional where *)
(* a None guard holds, follows move-only handles, and rejects a program    *)
(* whose generated Rust could not be built or would forget an assignment.  *)
(*                                                                         *)
(* env is [ok, locals, narrowed, moved, sealed, loops]: no error so far,   *)
(* the type of each local (FuncEnv.locals), the declared type of a name an *)
(* early-return guard narrowed, the handles already consumed, the handles  *)
(* bound in a block that may not have run (block_scoped_handles), and for  *)
(* each enclosing loop the handles that were live at its head.             *)
(*                                                                         *)
(* Types are kinds: the payload of an Optional is an int and the element   *)
(* of a list is an int, which is all the rules below tell apart.           *)
(***************************************************************************)
EXTENDS Ast

Put(f, x, v) == (x :> v) @@ f
Without(f, x) == Restrict(f, DOMAIN f \ {x})
TypeIn(locals, x) == IF x \in DOMAIN locals THEN locals[x] ELSE "unbound"

Entry(locals) ==
  [ok |-> TRUE, locals |-> locals, narrowed |-> <<>>, moved |-> {}, sealed |-> {},
   loops |-> <<>>]

Need(cond, env) == IF cond THEN env ELSE [env EXCEPT !.ok = FALSE]

-----------------------------------------------------------------------------
(* Types of expressions: check_expr for the variants the programs use. *)

LitType(v) == CASE v = "None" -> "None"
                [] v \in {"true", "false"} -> "bool"
                [] v \in {"s", "t"} -> "str"
                [] OTHER -> "int"

(* The functions in scope: what they take and what they return. *)
Sig(f) ==
  CASE f = "open"  -> [takes |-> <<>>, ret |-> "File"]
    [] f = "maybe" -> [takes |-> <<>>, ret |-> "Optional"]
    [] f = "flag"  -> [takes |-> <<>>, ret |-> "bool"]
    [] f = "items" -> [takes |-> <<>>, ret |-> "list"]
    [] f = "risky" -> [takes |-> <<>>, ret |-> "unit"]
    [] f = "take"  -> [takes |-> <<"File">>, ret |-> "unit"]
    [] f = "inc"   -> [takes |-> <<"int">>, ret |-> "int"]
    [] f = "show"  -> [takes |-> <<"any">>, ret |-> "unit"]

Compatible(t, param) == param = "any" \/ t \in {param, "Unknown"}

(* A read of a consumed handle, or of a name without a type, is an error;  *)
(* an operator on an Optional needs narrowing first; a handle is neither   *)
(* an operand nor captured by a lambda (reject_lambda_handle_capture) nor  *)
(* stored by a comprehension.                                              *)
RECURSIVE TypeOf(_, _)
TypeOf(e, env) ==
  LET ty(i)   == TypeOf(e.kids[i], env)
      under(t) == [env EXCEPT !.locals = Put(env.locals, e.n, t)]
      some(t) == \E i \in DOMAIN e.kids : ty(i) = t
      captures == \E x \in Reads(e) : TypeIn(env.locals, x) = "File"
  IN CASE e.k = "Lit" -> LitType(e.n)
       [] e.k = "Ident" -> IF e.n \in env.moved \/ e.n \notin DOMAIN env.locals
                           THEN "error" ELSE env.locals[e.n]
       [] e.k = "Lambda" -> IF captures \/ TypeOf(e.kids[1], under("Unknown")) = "error"
                            THEN "error" ELSE "func"
       [] e.k = "Comp" -> IF ty(1) = "error" \/ TypeOf(e.kids[2], under("int"))
                                                   \in {"error", "File"}
                          THEN "error" ELSE "list"
       [] some("error") -> "error"
       [] e.k = "Call" -> IF \A i \in DOMAIN e.kids : Compatible(ty(i), Sig(e.n).takes[i])
                          THEN Sig(e.n).ret ELSE "error"
       [] e.k = "Method" -> IF some("Optional") THEN "error" ELSE "bool"
       [] e.k \in {"Is", "IsNot", "And"} ->
            IF some("File") \/ (e.k = "And" /\ some("Optional")) THEN "error" ELSE "bool"
       [] e.k = "IfExp" -> IF ty(1) = "Optional" \/ ty(2) # ty(3) THEN "error" ELSE ty(2)

(* Two types one Rust slot cannot hold. *)
Divergent(a, b) ==
  /\ "Unknown" \notin {a, b}
  /\ {a, b} # {"int", "float"}
  /\ a # b

SlotConflict(slot, value) ==
  ~(slot = "Optional" /\ value = "None") /\ Divergent(slot, value)

-----------------------------------------------------------------------------
(* None guards *)

(* extract_none_guard, and every guard an `and` chain implies. *)
IsGuard(e) == e.k \in {"Is", "IsNot"} /\ e.kids[1].k = "Ident"

RECURSIVE Conjuncts(_)
Conjuncts(e) == IF e.k = "And" THEN UNION {Conjuncts(e.kids[i]) : i \in DOMAIN e.kids}
                ELSE {e}

Optionals(env) == {x \in DOMAIN env.locals : env.locals[x] = "Optional"}

NarrowedBy(cond, kind, env) ==
  {g.kids[1].n : g \in {c \in Conjuncts(cond) : c.k = kind /\ IsGuard(c)}}
    \cap Optionals(env)

Narrow(env, xs) == [env EXCEPT !.locals = [x \in xs |-> "int"] @@ env.locals]

(* reject_decided_none_guard: a guard on what can never be None. *)
Undecided(cond, env) ==
  IsGuard(cond) => TypeIn(env.locals, cond.kids[1].n)
                     \in {"unbound", "Optional", "Unknown", "None"}

(* rewiden_loop_narrows: a narrowing made in a loop body ends with it. *)
Rewiden(env, before) ==
  [env EXCEPT !.locals = [x \in {y \in DOMAIN before : before[y] = "Optional"
                                   /\ TypeIn(env.locals, y) = "int"} |-> "Optional"]
                         @@ env.locals]
-----------------------------------------------------------------------------
(* Move-only handles: check_handle_flow.  `consumed` is the position that  *)
(* takes the handle over.                                                  *)

Handles(env) == {x \in DOMAIN env.locals : env.locals[x] = "File"}

RECURSIVE HandleFlow(_, _, _), FlowAll(_, _, _)
FlowAll(es, env, consumed) ==
  FoldLeft(LAMBDA acc, e : HandleFlow(e, acc, consumed), env, es)

(* check_handle_flow.  No function the programs call has a Mut[T] parameter, *)
(* to which an argument would be lent: every argument is moved.             *)
HandleFlow(e, env, consumed) ==
  CASE ~env.ok -> env
    [] e.k = "Ident" ->
         LET takes == consumed /\ e.n \in Handles(env)
             ok == /\ e.n \notin env.sealed \cup env.moved
                   /\ takes => \A i \in DOMAIN env.loops : e.n \notin env.loops[i]
         IN IF ok /\ takes THEN [env EXCEPT !.moved = @ \cup {e.n}] ELSE Need(ok, env)
    [] e.k \in {"Call", "List"} -> FlowAll(e.kids, env, TRUE)
    [] e.k = "IfExp" ->
         FlowAll(Tail(e.kids), HandleFlow(e.kids[1], env, FALSE), consumed)
    [] e.k = "Comp" ->
         LET in == HandleFlow(e.kids[1], env, FALSE)
             loop == [in EXCEPT !.loops = Append(@, Handles(in) \ in.moved)]
         IN [FlowAll(Tail(e.kids), loop, FALSE) EXCEPT !.loops = env.loops]
    [] OTHER -> FlowAll(e.kids, env, FALSE)

(* seal_block_scope: a handle first bound in the statement, and not on     *)
(* every path through it, may not be read after it.                        *)
Seal(env, before, s) ==
  LET new == Handles(env) \ (Handles(before) \ before.sealed)
      sealed(kept) == [env EXCEPT !.sealed = (@ \ kept) \cup (new \ kept)]
  IN sealed({x \in new : StmtBinds(s, x)})

(* check_expr, then check_handle_flow. *)
Use(e, env, consumed) ==
  IF env.ok /\ TypeOf(e, env) # "error" THEN HandleFlow(e, env, consumed)
  ELSE Need(FALSE, env)

UseAll(es, env, consumed) == FoldLeft(LAMBDA acc, e : Use(e, acc, consumed), env, es)

(* A condition: an Optional or a handle has no truth value. *)
Cond(test, env) ==
  IF test = <<>> THEN env
  ELSE Need(TypeOf(test[1], env) \notin {"Optional", "File"}, Use(test[1], env, FALSE))

-----------------------------------------------------------------------------
(* Sibling branches that give one name types one slot cannot hold.         *)
(* ExitTypes is collect_branch_exit_types: a function from each name to    *)
(* the types a bare assignment may leave in it.                            *)

Known(t) == IF t = "error" THEN "Unknown" ELSE t
ValueType(e, env) == Known(TypeOf(e, env))

ElemType(t) == IF t \in {"tuple", "list"} THEN "int" ELSE "Unknown"

RECURSIVE ExitTypes(_, _, _)
ExitTypes(body, out0, env0) ==
  LET of(f, x) == IF x \in DOMAIN f THEN f[x] ELSE {}
      assigned(acc, xs, t) ==
        [out |-> [x \in xs |-> {t}] @@ acc.out,
         env |-> [acc.env EXCEPT !.locals = [x \in xs |-> t] @@ @]]
      joined(acc, subs) ==
        [acc EXCEPT !.out = [x \in DOMAIN acc.out \cup UNION {DOMAIN f : f \in subs} |->
                               of(acc.out, x) \cup UNION {of(f, x) : f \in subs}]]
      slot(s, v) == IF s.k = "Unpack" THEN ElemType(v) ELSE v
      step(acc, s) ==
        CASE s.k \in {"Assign", "Unpack"} ->
               assigned(acc, ToSet(s.binds), slot(s, ValueType(s.own[1], acc.env)))
          [] s.k = "With" -> ExitTypes(s.blocks[1].body, acc.out, acc.env)
          [] s.k \in Loops \/ (s.k = "If" /\ ~HasRole(s, "else")) ->
               joined(acc, {ExitTypes(b.body, <<>>, acc.env).out : b \in BlocksOf(s)})
          [] OTHER -> acc
  IN FoldLeft(step, [out |-> out0, env |-> env0], body)

(* detect_sibling_divergence over the statement's blocks of these roles. *)
TypesAgree(out) ==
  \A i, j \in DOMAIN out : i < j =>
    \A x \in DOMAIN out[i] \cap DOMAIN out[j] :
      \A a \in out[i][x], b \in out[j][x] : ~Divergent(a, b)
SiblingsAgree(s, roles, env) ==
  TypesAgree([i \in {k \in DOMAIN s.blocks : s.blocks[k].role \in roles} |->
                ExitTypes(s.blocks[i].body, <<>>, env).out])
-----------------------------------------------------------------------------
(* check_stmt *)

RECURSIVE CheckStmt(_, _)
CheckBody(body, env) ==
  FoldLeft(LAMBDA acc, s : IF acc.ok THEN CheckStmt(s, acc) ELSE acc, env, body)

(* An assignment ends an early-return narrowing: the slot is the declared  *)
(* Optional again unless the value does not fit it.  It revives a handle.  *)
AssignAs(x, e, env, val) ==
  LET slot == IF x \in DOMAIN env.narrowed THEN env.narrowed[x] ELSE val
      post == IF SlotConflict(slot, val) THEN val ELSE slot
  IN IF val = "error" THEN Need(FALSE, env)
     ELSE [HandleFlow(e, [env EXCEPT !.narrowed = Without(@, x), !.locals = Put(@, x, post)], TRUE)
             EXCEPT !.moved = @ \ {x}, !.sealed = @ \ {x}]
CheckAssign(x, e, env) == AssignAs(x, e, env, TypeOf(e, env))

(* A branch runs from the moves before its siblings; what it moved is put  *)
(* aside and joined at the end (union_moved).                              *)
Branch(body, env, before) == CheckBody(body, [env EXCEPT !.moved = before])
JoinMoved_last(env, paths) == env
JoinMoved(env, paths) == [env EXCEPT !.moved = UNION paths]

(* The blocks of one statement in source order: acc.env goes on from block *)
(* to block, acc.paths collects what each moved.  run(b, env) checks one.  *)
Paths(blocks, env, run(_, _)) ==
  FoldLeft(LAMBDA acc, b :
             IF ~acc.env.ok THEN acc
             ELSE LET after == run(b, acc.env)
                  IN [env |-> after, paths |-> acc.paths \cup {after.moved}],
           [env |-> env, paths |-> {}], blocks)

(* One branch of an `if`: a later condition is checked with the moves of   *)
(* the branch before.  What the branch narrowed ends with it.              *)
CheckArm(b, in, xs, pre) ==
  LET out == IF in.ok THEN Branch(b.body, Narrow(in, xs), pre) ELSE in
  IN [out EXCEPT !.locals = [x \in xs |-> in.locals[x]] @@ @]

(* After an `if` whose only branch leaves, the names in `rest` are narrowed. *)
AfterIf(joined, rest, env, s) ==
  Seal([joined EXCEPT !.narrowed = [x \in rest |-> joined.locals[x]] @@ @,
                      !.locals = [x \in rest |-> "int"] @@ @], env, s)
JoinedIf(end, pre, rest, env, s) ==
  IF ~end.env.ok THEN end.env
  ELSE AfterIf(JoinMoved(end.env, end.paths \cup (IF HasRole(s, "else") THEN {} ELSE {pre})),
               rest, env, s)

CheckArms(s, env, checked) ==
  LET cond   == s.blocks[1].test[1]
      plain  == Role(s, "elif") = <<>>
      guard  == IF IsGuard(cond) /\ cond.k = "Is" THEN {cond.kids[1].n} \cap Optionals(env)
                ELSE {}
      narrow(b) == CASE b.role = "then" -> NarrowedBy(cond, "IsNot", env)
                     [] b.role = "else" /\ plain -> guard
                     [] OTHER -> {}
      run(b, e) == CheckArm(b, IF b.role = "elif" THEN Cond(b.test, e) ELSE e, narrow(b),
                            checked.moved)
      leaves == plain /\ ~HasRole(s, "else") /\ TerminatesFlow(BodyOf(s, "then"))
  IN IF ~checked.ok \/ ~Undecided(cond, env)
        \/ ~SiblingsAgree(s, {"then", "elif", "else"}, env)
     THEN Need(FALSE, env)
     ELSE JoinedIf(Paths(s.blocks, checked, run), checked.moved,
                   IF leaves THEN guard ELSE {}, env, s)

CheckIf(s, env) == CheckArms(s, env, Cond(s.blocks[1].test, env))

(* The body of a loop is checked once, from the moves before it; a handle  *)
(* live at its head may not be moved in it.                                *)
LoopHead(s, env, t) ==
  IF s.k = "While" THEN Cond(s.blocks[1].test, env)
  ELSE Need(t \notin {"error", "File", "tuple"},
            HandleFlow(s.own[1],
                       [env EXCEPT !.locals = [x \in ToSet(s.binds) |-> ElemType(t)] @@ @], FALSE))
LoopTurn(s, held) ==
  CheckBody(s.blocks[1].body, [held EXCEPT !.loops = Append(@, Handles(held) \ held.moved)])
AfterLoop(s, env, in, body) ==
  IF ~body.ok THEN body
  ELSE Seal(Rewiden([body EXCEPT !.loops = env.loops], in.locals), env, s)
LoopFrom(s, env, in) ==
  LET test == s.blocks[1].test
  IN IF ~in.ok \/ (s.k = "While" /\ ~Undecided(test[1], env)) THEN Need(FALSE, in)
     ELSE AfterLoop(s, env, in,
            LoopTurn(s, IF s.k = "While" /\ IsGuard(test[1])
                        THEN Narrow(in, NarrowedBy(test[1], "IsNot", in)) ELSE in))
CheckLoop(s, env) ==
  LoopFrom(s, env, LoopHead(s, env, IF s.k = "For" THEN TypeOf(s.own[1], env) ELSE "unit"))

(* Every handler is checked from the moves before the `try`; `else` and    *)
(* `finally` go on from the join.                                          *)
AfterTry(s, env, end) ==
  LET tail == SelectSeq(s.blocks, LAMBDA b : b.role \in {"else", "finally"})
      sealed(e) == IF e.ok THEN Seal(e, env, s) ELSE e
  IN IF ~end.env.ok THEN end.env
     ELSE sealed(FoldLeft(LAMBDA acc, b : IF acc.ok THEN CheckBody(b.body, acc) ELSE acc,
                          Seal(JoinMoved(end.env, end.paths), env, s), tail))
CheckTry(s, env) ==
  LET arms == SelectSeq(s.blocks, LAMBDA b : b.role \in {"body", "handler"})
      named(b, e) == [e EXCEPT !.locals = [x \in ToSet(b.bind) |-> "str"] @@ @]
  IN IF ~SiblingsAgree(s, {"body", "handler"}, env) THEN Need(FALSE, env)
     ELSE AfterTry(s, env, Paths(arms, env, LAMBDA b, e : Branch(b.body, named(b, e), env.moved)))

(* Only a file is a context manager.  The name it is bound to is out of    *)
(* scope after the block, and what it hid is back.                         *)
CheckWithBody(s, env, in) ==
  LET b  == s.blocks[1]
      xs == ToSet(b.bind)
      outside(body) ==
        IF ~body.ok THEN body
        ELSE Seal([body EXCEPT !.moved = @ \ xs,
                     !.locals = [x \in xs \cap DOMAIN env.locals |-> env.locals[x]] @@
                                Restrict(@, DOMAIN @ \ xs)], env, s)
  IN IF ~in.ok \/ TypeOf(s.own[1], env) # "File" THEN Need(FALSE, in)
     ELSE outside(CheckBody(b.body, [in EXCEPT !.locals = [x \in xs |-> "File"] @@ @,
                                               !.moved = @ \ xs]))
CheckWith(s, env) == CheckWithBody(s, env, Use(s.own[1], env, TRUE))

CheckCase(b, e, subject, pre) ==
  LET xs == ToSet(b.bind)
      outside(out) == [out EXCEPT !.locals = [x \in xs \cap DOMAIN e.locals |-> e.locals[x]] @@
                                             Restrict(@, DOMAIN @ \ xs)]
      inside(g) == IF g.ok THEN Branch(b.body, g, pre) ELSE g
  IN outside(inside(UseAll(b.test, [e EXCEPT !.locals = [x \in xs |-> subject] @@ @], FALSE)))
AfterMatch(s, env, in, end) ==
  IF end.env.ok THEN Seal(JoinMoved(end.env, end.paths \cup {in.moved}), env, s) ELSE end.env
CheckCases(s, env, in, subject) ==
  LET run(b, e) == CheckCase(b, e, subject, in.moved)
  IN IF ~in.ok \/ subject = "File"
        \/ ~SiblingsAgree(s, {"literal", "wildcard", "capture"}, env) THEN Need(FALSE, in)
     ELSE AfterMatch(s, env, in, Paths(s.blocks, in, run))
CheckMatch(s, env) == CheckCases(s, env, Use(s.own[1], env, FALSE), TypeOf(s.own[1], env))

(* reject_captured_mutation: what a nested def assigns is its own from     *)
(* there on; before, a name of the function around it may not be assigned. *)
RECURSIVE OwnNames(_, _, _)
OwnNames(body, outer, acc) ==
  LET step(a, s) ==
        LET assigns == s.k \in {"Assign", "Unpack", "AugAssign"}
            own == a.own \cup (IF s.k \in {"Assign", "Unpack", "For"} THEN ToSet(s.binds) ELSE {})
            here == [ok |-> a.ok /\ (assigns => (ToSet(s.binds) \cap outer) \subseteq a.own),
                     own |-> own]
        IN IF s.k \in {"Func", "Class"} THEN a
           ELSE FoldLeft(LAMBDA c, b :
                           OwnNames(b.body, outer,
                             [c EXCEPT !.own = @ \cup (IF b.role = "handler" THEN ToSet(b.bind)
                                                       ELSE {})]),
                         here, s.blocks)
  IN FoldLeft(step, acc, body)

(* check_nested_def: a nested def is a closure over copies.  It captures   *)
(* no handle, assigns no name around it, is no generator, and its body     *)
(* passes the checks with the names around it in scope.                    *)
CheckDef(s, env) ==
  LET b == s.blocks[1]
      with == Put(env.locals, s.binds[1], "func")
      ok == /\ \A x \in Captured(s) : TypeIn(env.locals, x) # "File"
            /\ OwnNames(b.body, DOMAIN env.locals, [ok |-> TRUE, own |-> ToSet(b.bind)]).ok
            /\ ~ContainsYield(b.body)
            /\ CheckBody(b.body, Entry([x \in ToSet(b.bind) |-> "int"] @@ with)).ok
  IN IF ok THEN [env EXCEPT !.locals = with] ELSE Need(FALSE, env)

CheckStmt(s, env) ==
  CASE s.k \in {"Pass", "Break", "Continue", "Raise"} -> env
    [] s.k = "Assign" -> CheckAssign(s.binds[1], s.own[1], env)
    [] s.k \in {"Expr", "Yield"} -> UseAll(s.own, env, FALSE)
    [] s.k \in {"Return", "Del"} -> UseAll(s.own, env, TRUE)
    [] s.k = "AugAssign" ->
         Need(TypeIn(env.locals, s.binds[1]) \notin {"unbound", "File"}
                /\ TypeOf(s.own[1], env) # "File", UseAll(s.own, env, FALSE))
    [] s.k = "Unpack" ->
         LET t == TypeOf(s.own[1], env)
             used == UseAll(s.own, env, FALSE)
         IN Need(t # "File",
                 [used EXCEPT !.locals = [x \in ToSet(s.binds) |-> ElemType(t)] @@ @])
    [] s.k = "If" -> CheckIf(s, env)
    [] s.k \in Loops -> CheckLoop(s, env)
    [] s.k = "Try" -> CheckTry(s, env)
    [] s.k = "With" -> CheckWith(s, env)
    [] s.k = "Match" -> CheckMatch(s, env)
    [] s.k = "Func" -> CheckDef(s, env)
-----------------------------------------------------------------------------
(* walk_read_after: a bare reassignment in a nested block to a type the    *)
(* slot of an enclosing local cannot hold makes a variable of the block,   *)
(* so the local must not be read after the block.  `outer` are the locals  *)
(* of the enclosing blocks, `out` what is live after this one, `seed` what *)
(* the block binds itself.                                                 *)
RECURSIVE ReadAfterOk(_, _, _, _, _)
ReadAfterOk(body, outer, env, out, seed) ==
  LET slot(s, v) == IF s.k = "Unpack" THEN ElemType(v) ELSE v
      in(s, b, env1, v) ==
        [env1 EXCEPT !.locals =
           CASE b.role = "handler" -> [x \in ToSet(b.bind) |-> "str"] @@ @
             [] b.role = "capture" -> [x \in ToSet(b.bind) |-> v] @@ @
             [] s.k = "For"  -> @ @@ [x \in ToSet(s.binds) |-> "Unknown"]
             [] s.k = "With" -> @ @@ [x \in ToSet(b.bind) |-> "Unknown"]
             [] OTHER -> @]
      blocksOk(s, acc, v, liveOut) ==
        \A b \in BlocksOf(s) :
           ReadAfterOk(b.body, outer \cup acc.bound, in(s, b, acc.env, v), liveOut,
                       ToSet(b.bind) \cup (IF s.k = "For" THEN ToSet(s.binds) ELSE {}))
      within(s, after) == IF s.k \in Loops THEN LoopBodyLiveOut(s, after) ELSE after
      ok(s, acc, v, after) ==
        /\ s.k \in {"Assign", "Unpack"} =>
             \A x \in ToSet(s.binds) \cap outer \cap out \cap DOMAIN acc.env.locals :
                ~Divergent(acc.env.locals[x], slot(s, v))
        /\ s.k # "Func" => blocksOk(s, acc, v, within(s, after))
      step(acc, i) ==
        LET s == body[i]
        IN [ok |-> acc.ok /\ ok(s, acc, ValueType(s.own[1], acc.env),
                                LiveBlock(SubSeq(body, i + 1, Len(body)), out)),
            env |-> [CheckStmt(s, acc.env) EXCEPT !.ok = TRUE],
            bound |-> acc.bound \cup BoundBy(s)]
  IN FoldLeftDomain(step, [ok |-> TRUE, env |-> env, bound |-> seed], body).ok

-----------------------------------------------------------------------------
(* walk_unbound_local: a module constant the function assigns is a local   *)
(* throughout, so a read before that is an error.  acc is [ok, scope]; the *)
(* names every arm of an `if` with `else`, or of an exhaustive `match`,    *)
(* binds are bound after it; what a loop, `try` or `with` binds is not.    *)
RECURSIVE BoundWalk(_, _, _)
BoundWalk(body, shadowed, acc0) ==
  LET fine(reads, scope) == (reads \cap shadowed) \subseteq scope
      step(acc, s) ==
        LET extra(b) == ToSet(b.bind) \cup (IF s.k = "For" THEN ToSet(s.binds) ELSE {})
            sub(b) == BoundWalk(b.body, shadowed, [acc EXCEPT !.scope = @ \cup extra(b)])
            walks == [i \in DOMAIN s.blocks |-> sub(s.blocks[i])]
            tests == \A i \in DOMAIN s.blocks :
                       (s.blocks[i].role = "elif" \/ s.k = "Match") =>
                         fine(ReadsAll(s.blocks[i].test), acc.scope \cup extra(s.blocks[i]))
            common == {x \in UNION {walks[i].scope : i \in DOMAIN walks} :
                         \A i \in DOMAIN walks : x \in walks[i].scope \ extra(s.blocks[i])}
            binds == CASE s.k \in {"Assign", "AugAssign", "Unpack"} -> ToSet(s.binds)
                       [] (s.k = "If" /\ HasRole(s, "else")) \/ (s.k = "Match" /\ Exhaustive(s))
                            -> common
                       [] OTHER -> {}
        IN IF s.k = "Func" THEN acc
           ELSE [ok |-> /\ acc.ok /\ tests /\ fine(ShallowReads(s), acc.scope)
                        /\ \A i \in DOMAIN walks : walks[i].ok,
                 scope |-> acc.scope \cup binds]
  IN FoldLeft(step, acc0, body)

(* detect_module_const_unbound_local, and the same for each nested def     *)
(* (check_nested_defs).                                                    *)
RECURSIVE ConstsBound(_, _, _)
ConstsBound(body, consts, params) ==
  LET shadowed == (consts \cap (Bound(body) \cup AugTargets(body))) \ params
  IN /\ BoundWalk(body, shadowed, [ok |-> TRUE, scope |-> params]).ok
     /\ \A f \in {s \in Within(body) : s.k = "Func"} :
          ConstsBound(f.blocks[1].body, consts, ToSet(f.blocks[1].bind))
-----------------------------------------------------------------------------
(* What `check` accepts for a function with these parameter types and      *)
(* these module constants in scope.                                        *)
Accepts(body, params, consts) ==
  /\ ConstsBound(body, DOMAIN consts, DOMAIN params)
  /\ CheckBody(body, Entry(params @@ consts)).ok
  /\ ReadAfterOk(body, {}, Entry(params @@ consts), {}, DOMAIN params)
=============================================================================
