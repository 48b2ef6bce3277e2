------------------------------- MODULE Globals -------------------------------
(***************************************************************************)
(* Module-level bindings: which of them become mutable statics, what the   *)
(* checker makes of `global`, in which order the statics are forced before *)
(* main, and how a name in a function or an initialiser finds its module.  *)
(*                                                                         *)
(* A program is a sequence of modules as the resolver lists them, a module *)
(* after those it imports and the root last; a module is a sequence of     *)
(* imports, annotated bindings and functions.  An expression is a number   *)
(* or a list written out, a number found by a bare or a qualified name,    *)
(* the sum of a list found by one, or the call of a module's function f.   *)
(***************************************************************************)
EXTENDS Integers, Sequences, FiniteSets
LOCAL INSTANCE SequencesExt
LOCAL INSTANCE Functions

Root(P) == Len(P)
Of(P, m, k) == SelectSeq(P[m], LAMBDA s : s.k = k)
Bindings(P, m) == {s.name : s \in Range(Of(P, m, "bind"))}
Initializer(P, m, name) == Of(P, m, "bind")[CHOOSE i \in DOMAIN Of(P, m, "bind") : Of(P, m, "bind")[i].name = name].init
Literals(P, m) == {n \in Bindings(P, m) : Initializer(P, m, n).k = "lit"}
FunctionBodies(P, m) == {s.body : s \in Range(Of(P, m, "def"))}
FunctionOf(P, m) == Of(P, m, "def")[1].body

\* collect_global_decls; the names a body binds, += included
DeclaredGlobal(body) == {s.name : s \in {t \in Range(body) : t.k = "global"}}
BoundNames(body) == {s.name : s \in {t \in Range(body) : t.k \in {"set", "add"}}}
ReboundUnderGlobal(P, m) == UNION {DeclaredGlobal(b) \cap BoundNames(b) : b \in FunctionBodies(P, m)}
mutable_globals(P, m) == (Bindings(P, m) \ Literals(P, m)) \cup (ReboundUnderGlobal(P, m) \cap Bindings(P, m))
\* ctx.vars: every binding of every module, whoever may see it
FlatVars(P) == UNION {Bindings(P, m) : m \in DOMAIN P}

-----------------------------------------------------------------------------
(* The checks.                                                             *)

\* expr_reads: the bare names of an expression, a called one included
BareReads(e) ==
    CASE e.k \in {"read", "sum"} /\ e.of = 0 -> {e.name}
      [] e.k = "call" /\ e.of = 0 -> {"f"}
      [] OTHER -> {}
Valued == {"set", "add", "append", "store", "show", "return"}
StepReads(s) ==
    (IF s.k \in Valued THEN BareReads(s.e) ELSE {})
    \cup (IF s.k \in {"add", "append", "store"} THEN {s.name} ELSE {})
StepRefs(s) == StepReads(s) \cup (IF s.k = "set" THEN {s.name} ELSE {})

\* reject_forward_referencing_global_inits
NamesDefined(stmts) == UNION {IF s.k = "bind" THEN {s.name} ELSE IF s.k = "def" THEN {"f"} ELSE {} : s \in Range(stmts)}
ForwardReference(stmts) ==
    \E i \in DOMAIN stmts :
        /\ stmts[i].k = "bind"
        /\ \E r \in BareReads(stmts[i].init) :
              /\ r # stmts[i].name /\ r \in NamesDefined(stmts)
              /\ r \notin NamesDefined(SubSeq(stmts, 1, i - 1))

\* an expression is typed by names alone: nobody asks what the module imports
QualifiedExists(P, e) ==
    e.of # 0 => IF e.k = "call" THEN FunctionBodies(P, e.of) # {}
                ELSE e.name \in Literals(P, e.of) \cup mutable_globals(P, e.of)
ExprTyped(P, m, e) == QualifiedExists(P, e) /\ (e.k = "call" /\ e.of = 0 => FunctionBodies(P, m) # {})

\* a name assigned without `global` is a local of all of the body
LocalNames(body) == BoundNames(body) \ DeclaredGlobal(body)
BodyAccepted(P, m, body) ==
    /\ \A i \in DOMAIN body : body[i].k = "global" =>
          /\ body[i].name \in Bindings(P, m)
          /\ \A j \in 1 .. i - 1 : body[i].name \notin StepRefs(body[j])
    /\ \A i \in DOMAIN body :
          /\ body[i].k \in Valued => ExprTyped(P, m, body[i].e)
          /\ \A r \in StepReads(body[i]) \ {"f"} :
                IF r \in LocalNames(body) THEN \E j \in 1 .. i - 1 : body[j].k = "set" /\ body[j].name = r
                ELSE r \in FlatVars(P)
    \* cross-module mutation
    /\ \A s \in Range(body) : s.of = 0 \/ s.k \notin {"set", "append", "store"}
GlobalsAccepted(P) ==
    \A m \in DOMAIN P :
        /\ ~ForwardReference(P[m])
        /\ \A n \in Bindings(P, m) :
              LET e == Initializer(P, m, n) IN ExprTyped(P, m, e) /\ BareReads(e) \ {"f"} \subseteq FlatVars(P)
        /\ \A body \in FunctionBodies(P, m) : BodyAccepted(P, m, body)

-----------------------------------------------------------------------------
(* Names and statics.                                                      *)

\* import_bindings: of two from-imports of a name the last counts
FromImports(P, m, name) == SelectSeq(Of(P, m, "from"), LAMBDA s : s.name = name)
bare_owner_for(P, m, name) ==
    LET own == IF m = Root(P) THEN Literals(P, m) ELSE Literals(P, m) \cup mutable_globals(P, m)
        from == FromImports(P, m, name)
    IN  IF name \in own THEN m ELSE IF from # <<>> THEN from[Len(from)].of ELSE Root(P)
OwnerOf(P, m, ref) == IF ref.of # 0 THEN ref.of ELSE bare_owner_for(P, m, ref.name)

\* rustc finds what each name of a body or an initialiser became
RefCompiles(P, m, locals, e) ==
    e.k \in {"read", "sum"} => e.name \in Bindings(P, OwnerOf(P, m, e)) \/ (e.of = 0 /\ e.name \in locals)
GlobalsCompile(P) ==
    \A m \in DOMAIN P :
        /\ \A n \in mutable_globals(P, m) : RefCompiles(P, m, {}, Initializer(P, m, n))
        /\ \A body \in FunctionBodies(P, m) : \A s \in Range(body) :
              /\ s.k \in Valued => RefCompiles(P, m, LocalNames(body), s.e)
              /\ s.k \in {"append", "store"} => s.name \in mutable_globals(P, bare_owner_for(P, m, s.name))

\* dfs_global_init_order: a module's statics, around those of its imports
RECURSIVE Visit(_, _, _)
Visit_flat(P, m, seen) ==
    LET statics(i) == SelectSeq(P[i], LAMBDA s : s.k = "bind" /\ s.name \in mutable_globals(P, i))
    IN  [seen |-> DOMAIN P,
         order |-> FlattenSeq([i \in DOMAIN P |-> [j \in DOMAIN statics(i) |-> <<i, statics(i)[j].name>>]])]
Visit(P, m, seen) ==
    LET walk(acc, s) ==
            CASE s.k \in {"import", "from"} /\ s.of \notin acc.seen ->
                    LET v == Visit(P, s.of, acc.seen) IN [seen |-> v.seen, order |-> acc.order \o v.order]
              [] s.k = "bind" /\ s.name \in mutable_globals(P, m) ->
                    [acc EXCEPT !.order = Append(@, <<m, s.name>>)]
              [] OTHER -> acc
    IN  FoldLeft(walk, [seen |-> seen \cup {m}, order |-> <<>>], P[m])

-----------------------------------------------------------------------------
(* The emitted program: a static is initialised when it is first touched.  *)
(* A number is the sequence of it.                                         *)

AllStatics(P) == UNION {{m} \X mutable_globals(P, m) : m \in DOMAIN P}
Started(P) == [vals |-> [g \in AllStatics(P) |-> <<>>], ready |-> {}, busy |-> {}, out |-> <<>>, fails |-> FALSE, v |-> <<0>>]

SumOf(list) == FoldLeft(LAMBDA a, b : a + b, 0, list)
Failing(st) == [st EXCEPT !.fails = TRUE]
\* += is the binding to a sum
ToTake(s) == IF s.k = "add" THEN [k |-> "plus", of |-> 0, name |-> s.name, e |-> s.e] ELSE s.e

RECURSIVE Touch(_, _, _), EvalIn(_, _, _, _, _), RunBody(_, _, _, _)
Ready(g, st) == IF st.fails THEN st ELSE [st EXCEPT !.vals[g] = st.v, !.ready = @ \cup {g}, !.busy = @ \ {g}]
Touch(P, g, st) ==
    CASE st.fails \/ g \in st.ready -> st
      [] g \in st.busy -> Failing(st)
      [] OTHER -> Ready(g, EvalIn(P, g[1], Initializer(P, g[1], g[2]), <<>>, [st EXCEPT !.busy = @ \cup {g}]))
\* a number or the sum of a list, from a static or a constant
Got(st, e, value) == [st EXCEPT !.v = IF e.k = "sum" THEN <<SumOf(value)>> ELSE value]
Read(P, e, g, st) ==
    IF g \notin AllStatics(P) THEN Got(st, e, Initializer(P, g[1], g[2]).v)
    ELSE LET got(t) == IF t.fails THEN t ELSE Got(t, e, t.vals[g]) IN got(Touch(P, g, st))
Plus(value, st) == IF st.fails THEN st ELSE [st EXCEPT !.v = <<st.v[1] + value[1]>>]
EvalIn(P, m, e, locals, st) ==
    CASE st.fails -> st
      [] e.k \in {"lit", "list"} -> [st EXCEPT !.v = e.v]
      [] e.k = "call" -> LET callee == IF e.of = 0 THEN m ELSE e.of IN RunBody(P, callee, FunctionOf(P, callee), st)
      [] e.k = "plus" -> LET plus(t) == Plus(t.v, EvalIn(P, m, e.e, locals, t)) IN plus(EvalIn(P, m, [e EXCEPT !.k = "read"], locals, st))
      [] OTHER -> IF e.of = 0 /\ e.name \in DOMAIN locals THEN [st EXCEPT !.v = locals[e.name]]
                  ELSE Read(P, e, <<OwnerOf(P, m, e), e.name>>, st)
\* the value is there before the static is borrowed to take it
Put(P, g, s, st) ==
    LET taken(was) == CASE s.k = "append" -> was \o st.v
                        [] s.k = "store" -> [was EXCEPT ![1] = st.v[1]]
                        [] OTHER -> st.v
        put(t) == IF t.fails THEN t ELSE [t EXCEPT !.vals[g] = taken(@)]
    IN  put(Touch(P, g, st))
\* what a step does with its value
Take(P, m, body, locals, s, st) ==
    CASE st.fails \/ s.k \in {"global", "return"} -> [locals |-> locals, st |-> st]
      [] s.k = "show" -> [locals |-> locals, st |-> [st EXCEPT !.out = Append(@, st.v)]]
      [] s.k \in {"append", "store"} \/ s.name \in DeclaredGlobal(body) ->
            [locals |-> locals, st |-> Put(P, <<bare_owner_for(P, m, s.name), s.name>>, s, st)]
      [] OTHER -> [locals |-> (s.name :> st.v) @@ locals, st |-> st]
RunBody(P, m, body, st) ==
    FoldLeft(LAMBDA acc, s : Take(P, m, body, acc.locals, s, EvalIn(P, m, ToTake(s), acc.locals, acc.st)),
             [locals |-> <<>>, st |-> st], body).st
\* main: __pyrst_init_globals, then the root's main
EmittedRun(P, main) ==
    LET forced == FoldLeft(LAMBDA st, g : Touch(P, g, st), Started(P), Visit(P, Root(P), {}).order)
    IN  RunBody(P, Root(P), main, forced)
=============================================================================
