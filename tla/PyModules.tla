------------------------------ MODULE PyModules ------------------------------
(***************************************************************************)
(* Python's modules: a module's statements run when it is first imported,  *)
(* a name is bound when its statement runs, a from-import binds what the   *)
(* other module's name is bound to at that moment, and lists are shared.   *)
(* Programs are as in Globals.                                             *)
(***************************************************************************)
EXTENDS Globals
LOCAL INSTANCE SequencesExt
LOCAL INSTANCE Functions

\* names: what <<module, name>> is bound to, the place of a list in the heap
\* for a list; known: the modules a module has imported by name; early: a
\* function has bound a global its module had not bound yet
Begin == [names |-> <<>>, heap |-> <<>>, known |-> {}, ran |-> {}, out |-> <<>>, raises |-> FALSE, early |-> FALSE, v |-> <<0>>]
Raising(st) == [st EXCEPT !.raises = TRUE]
Bind(st, m, name, v) == [st EXCEPT !.names = (<<m, name>> :> v) @@ @]

RECURSIVE PyEval(_, _, _, _, _), PyBody(_, _, _, _), PyImport(_, _, _)
\* what is bound to a name that m writes bare or qualified
Looked(m, ref, st) == <<IF ref.of = 0 THEN m ELSE ref.of, ref.name>>
Visible(m, ref, st) == Looked(m, ref, st) \in DOMAIN st.names /\ (ref.of # 0 => <<m, ref.of>> \in st.known)
PyGot(st, e, at) == [st EXCEPT !.v = IF e.k = "sum" THEN <<SumOf(st.heap[at[1]])>> ELSE at]
PyPlus(value, st) == IF st.raises THEN st ELSE [st EXCEPT !.v = <<st.v[1] + value[1]>>]
PyEval(P, m, e, locals, st) ==
    CASE st.raises -> st
      [] e.k = "lit" -> [st EXCEPT !.v = e.v]
      [] e.k = "list" -> [st EXCEPT !.heap = Append(@, e.v), !.v = <<Len(st.heap) + 1>>]
      [] e.k = "plus" -> LET plus(t) == PyPlus(t.v, PyEval(P, m, e.e, locals, t))
                         IN  plus(PyEval(P, m, [e EXCEPT !.k = "read"], locals, st))
      [] e.of = 0 /\ e.name \in DOMAIN locals ->
            IF locals[e.name] = <<>> THEN Raising(st) ELSE [st EXCEPT !.v = locals[e.name]]
      [] ~Visible(m, e, st) -> Raising(st)
      [] e.k = "call" -> LET callee == IF e.of = 0 THEN m ELSE e.of IN PyBody(P, callee, FunctionOf(P, callee), st)
      [] OTHER -> PyGot(st, e, st.names[Looked(m, e, st)])
\* append and an item's assignment change the list, whoever else has it
Changed(st, m, s, locals) ==
    LET at == IF s.name \in DOMAIN locals THEN locals[s.name] ELSE st.names[<<m, s.name>>]
        taken(was) == IF s.k = "append" THEN was \o st.v ELSE [was EXCEPT ![1] = st.v[1]]
    IN  [st EXCEPT !.heap[at[1]] = taken(@)]
PyTake(m, locals, s, st) ==
    CASE st.raises \/ s.k \in {"global", "return"} -> [locals |-> locals, st |-> st]
      [] s.k = "show" -> [locals |-> locals, st |-> [st EXCEPT !.out = Append(@, st.v)]]
      [] s.k \in {"append", "store"} ->
            [locals |-> locals, st |-> IF <<m, s.name>> \in DOMAIN st.names THEN Changed(st, m, s, locals) ELSE Raising(st)]
      [] s.name \in DOMAIN locals -> [locals |-> [locals EXCEPT ![s.name] = st.v], st |-> st]
      [] OTHER -> [locals |-> locals,
                   st |-> [Bind(st, m, s.name, st.v) EXCEPT !.early = @ \/ <<m, s.name>> \notin DOMAIN st.names]]
PyBody(P, m, body, st) ==
    FoldLeft(LAMBDA acc, s : PyTake(m, acc.locals, s, PyEval(P, m, ToTake(s), acc.locals, acc.st)),
             [locals |-> [n \in LocalNames(body) |-> <<>>], st |-> st], body).st
Bound(st, m, name) == IF st.raises THEN st ELSE Bind(st, m, name, st.v)
Took(st, m, s) == IF st.raises \/ <<s.of, s.name>> \notin DOMAIN st.names THEN Raising(st)
                  ELSE Bind(st, m, s.name, st.names[<<s.of, s.name>>])
PyImport(P, m, st) ==
    LET run(acc, s) ==
            CASE acc.raises -> acc
              [] s.k = "import" -> [PyImport(P, s.of, acc) EXCEPT !.known = @ \cup {<<m, s.of>>}]
              [] s.k = "from" -> Took(PyImport(P, s.of, acc), m, s)
              [] s.k = "bind" -> Bound(PyEval(P, m, s.init, <<>>, acc), m, s.name)
              [] s.k = "def" -> Bind(acc, m, "f", <<0>>)
    IN  IF m \in st.ran THEN st ELSE FoldLeft(run, [st EXCEPT !.ran = @ \cup {m}], P[m])
PyRunModules(P) == PyImport(P, Root(P), Begin)
PyRunProgram(P, main) == PyBody(P, Root(P), main, PyRunModules(P))
=============================================================================
