------------------------------- MODULE Receivers -------------------------------
(***************************************************************************)
(* Which methods are emitted with `&mut self`.  Python has no such thing:  *)
(* the compiler reads it off the bodies - what they assign, what they call *)
(* that mutates, what of self they lend - and off the methods they call,   *)
(* up to a fixpoint, class by class, for every method a class resolves and *)
(* for the base versions it emits beside its own.                          *)
(*                                                                         *)
(* A class is [bases, methods], a method the sequence of its statements.   *)
(* A statement is [k, exprs, blocks]; of an expression the model keeps one *)
(* [role, effect, inside]: where in the statement it stands, what it does  *)
(* to self, and the kinds of expression around that, the outermost first.  *)
(***************************************************************************)
EXTENDS Classes, Lending
LOCAL INSTANCE Functions

\* `self.m()` is [calls |-> m, super |-> FALSE]; the other effects call no method of self
Plain(does) == [does |-> does, calls |-> "", super |-> FALSE]
SelfCall(m) == [does |-> "call", calls |-> m, super |-> FALSE]
SuperCall(m) == [does |-> "call", calls |-> m, super |-> TRUE]

-----------------------------------------------------------------------------
(* What is scanned.                                                        *)

\* the expressions of a statement looked at for mutations, and for calls
MutationRoles ==
    [expr |-> {"value"}, assign |-> {"value"}, attr |-> {"obj", "value"}, index |-> {"obj", "value"},
     if |-> {"cond"}, while |-> {"cond"}, for |-> {"iter"}, with |-> {"ctx"},
     try |-> {}, match |-> {}, assert |-> {}, raise |-> {}, del |-> {}]
CallRoles == [MutationRoles EXCEPT !.index = @ \cup {"idx"}, !["if"] = @ \cup {"elif"}]
\* the statements whose blocks are entered
Entered == {"if", "while", "for", "try", "with"}
\* the kinds of expression descended into: an operand is one of a call, an
\* attribute, an index, an operator or a conditional
LendInside == {"operand"}
MutationInside == LendInside \cup {"element"}
CallInside == MutationInside \cup {"slice", "comprehension", "lambda"}

RECURSIVE Statements(_, _)
Statements(body, entered) ==
    Range(body) \cup UNION {UNION {Statements(s.blocks[i], entered) : i \in DOMAIN s.blocks} :
                              s \in {t \in Range(body) : t.k \in entered}}
Under(e, kinds) == Range(e.inside) \subseteq kinds

-----------------------------------------------------------------------------
(* method_modifies_self, collect_self_calls.                               *)

RootsAtSelf(e) == e.effect.does = "place" /\ e.inside = <<>>
AssignsSelf(s) == s.k \in {"attr", "index"} /\ \E e \in Range(s.exprs) : e.role = "obj" /\ RootsAtSelf(e)
stmt_mutates_self_in_expr(s) ==
    \E e \in Range(s.exprs) : e.role \in MutationRoles[s.k] /\ e.effect.does = "mutate" /\ Under(e, MutationInside)
stmt_passes_self_by_ref(s) ==
    \E e \in Range(s.exprs) : e.role \in MutationRoles[s.k] /\ e.effect.does = "lend" /\ Under(e, LendInside)
method_modifies_self(body) ==
    \E s \in Statements(body, Entered) :
        AssignsSelf(s) \/ stmt_mutates_self_in_expr(s) \/ stmt_passes_self_by_ref(s)
collect_self_calls(body) ==
    UNION {{e.effect : e \in {x \in Range(s.exprs) :
                /\ x.role \in CallRoles[s.k]
                /\ x.effect.does = "call"
                /\ Under(x, CallInside)}} : s \in Statements(body, Entered)}

-----------------------------------------------------------------------------
(* compute_mut_self: a key is a method of the impl of a class, or the      *)
(* base's version of one it overrides.                                     *)

KeysOf(P, c) == {<<c, m, FALSE>> : m \in DOMAIN Resolved(P, c)} \cup {<<c, m, TRUE>> : m \in Aliases(P, c)}
Keys(P) == UNION {KeysOf(P, c) : c \in DOMAIN P}
BodyOf(P, key) == IF key[3] THEN Above(P, key[1], key[2]) ELSE P[Resolved(P, key[1])[key[2]]].methods[key[2]]
\* only calls of methods the impl has count
Calls(P) == {<<k, l>> \in Keys(P) \X Keys(P) :
    k[1] = l[1] /\ \E e \in collect_self_calls(BodyOf(P, k)) : e.calls = l[2] /\ e.super = l[3]}
ModifyingKeys(P) == {key \in Keys(P) : method_modifies_self(BodyOf(P, key))}
\* as many rounds as there are methods, and one more
compute_mut_self_once(P) == Rounds(Calls(P), ModifyingKeys(P), 1)
compute_mut_self(P) ==
    Rounds(Calls(P), ModifyingKeys(P), Cardinality(Keys(P)) + 1)
\* emit_dispatch_method: the enum of a base with subclasses
DispatchIsMut(P, mut_self, s, m) == \E v \in Variants(P, s) : <<v, m, FALSE>> \in mut_self
=============================================================================
