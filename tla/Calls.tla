-------------------------------- MODULE Calls --------------------------------
(***************************************************************************)
(* How the arguments of a call find the parameters of a function, a        *)
(* method, a constructor, a class of fields or a function value: what the  *)
(* checker accepts, in which order the emitted Rust evaluates the          *)
(* arguments, and what each parameter is given.                            *)
(*                                                                         *)
(* A parameter is [name, type, default, byref], an argument [type, place]: *)
(* whether it names something a `&mut` can point to.  The arguments given  *)
(* are numbered in the order they are written, the keyword ones last.      *)
(***************************************************************************)
EXTENDS Integers, Sequences, FiniteSets

Sites == {"function", "method", "init", "fields", "value"}
Given(c) == c.args \o [j \in DOMAIN c.kwargs |-> c.kwargs[j].arg]

-----------------------------------------------------------------------------
(* map_kwargs_to_slots: a slot holds the number of an argument, or 0.      *)

PositionOf(params, name) == {p \in DOMAIN params : params[p].name = name}
Slots(c) ==
    LET n == Len(c.args)
        named(p) == {j \in DOMAIN c.kwargs : c.kwargs[j].name = c.params[p].name}
    IN  [p \in DOMAIN c.params |->
            IF p <= n THEN p
            ELSE IF named(p) # {} THEN n + CHOOSE j \in named(p) : TRUE ELSE 0]
MapsToSlots(c) ==
    /\ Len(c.args) <= Len(c.params)
    /\ \A j \in DOMAIN c.kwargs :
          LET at == PositionOf(c.params, c.kwargs[j].name)
          IN  /\ at # {}
              /\ \A p \in at : p > Len(c.args)
              /\ \A i \in 1 .. j - 1 : c.kwargs[i].name # c.kwargs[j].name
    /\ \A p \in DOMAIN c.params : Slots(c)[p] = 0 => c.params[p].default
\* kwargs_provided_in_eval_order: the parameter an argument goes to
Destination(c, k) == IF k <= Len(c.args) THEN k ELSE CHOOSE p \in DOMAIN c.params : Slots(c)[p] = k

-----------------------------------------------------------------------------
(* The checker.                                                            *)

\* the parameters before the first default
Required(params) == Cardinality({p \in DOMAIN params : \A q \in 1 .. p : ~params[q].default})
ArityFits(c) ==
    CASE c.site = "value" -> Len(c.args) = Len(c.params)
      [] c.site \in {"init", "fields"} \/ c.kwargs # <<>> -> MapsToSlots(c)
      [] OTHER -> Len(c.args) \in Required(c.params) .. Len(c.params)
\* types_compatible, for the types of the model
Compatible(a, t) == a = t \/ (t = "opt_int" /\ a \in {"none", "int"})
Checked(a, t) == Compatible(a, t) \/ (a = "int" /\ t = "float")
\* only functions and function values have the types of their arguments checked
TypesChecked(c) ==
    c.site \in {"function", "value"} =>
        \A k \in DOMAIN Given(c) : Checked(Given(c)[k].type, c.params[Destination(c, k)].type)
PlacesLent(c) ==
    c.site \in {"function", "method"} =>
        \A k \in DOMAIN Given(c) : c.params[Destination(c, k)].byref => Given(c)[k].place
CallAccepted(c) ==
    /\ c.site = "value" => c.kwargs = <<>>
    /\ ArityFits(c)
    /\ PlacesLent(c)
    /\ TypesChecked(c)

-----------------------------------------------------------------------------
(* The emission.                                                           *)

Slotted(c) ==
    CASE c.site = "function" -> c.kwargs # <<>>
      [] c.site = "method" -> \/ c.kwargs # <<>> \/ Len(c.args) < Len(c.params)
                              \/ \E p \in DOMAIN c.args : c.params[p].type = "opt_int"
      [] c.site = "init" -> c.kwargs # <<>> \/ Len(c.args) < Len(c.params)
      [] OTHER -> FALSE
\* an argument written before another whose parameter is an earlier one
NeedsHoist_never(c) == FALSE
NeedsHoist(c) == \E k \in 1 .. Len(Given(c)) - 1 : Destination(c, k) > Destination(c, k + 1)

\* The order the arguments are computed in: as the slots have them, or, where
\* the call is hoisted, bound to temporaries as they are written
AsGiven(c) == [k \in DOMAIN Given(c) |-> k]
\* of a set of positions, the one that has i - 1 before it
Nth(positions, i) == CHOOSE p \in positions : Cardinality({q \in positions : q <= p}) = i
InSlots(slots) ==
    LET filled == {p \in DOMAIN slots : slots[p] # 0}
    IN  [i \in 1 .. Cardinality(filled) |-> slots[Nth(filled, i)]]
ArgumentOrder(c) == IF Slotted(c) /\ ~NeedsHoist(c) THEN InSlots(Slots(c)) ELSE AsGiven(c)
\* 0 is the receiver of a method, which a call that is hoisted evaluates last
Receiver(c) == IF c.site = "method" THEN <<0>> ELSE <<>>
EmittedOrder(c) ==
    IF Slotted(c) /\ NeedsHoist(c) THEN ArgumentOrder(c) \o Receiver(c)
    ELSE Receiver(c) \o ArgumentOrder(c)

\* emit_call_arg_value and emit_arg_into_slot, which the arguments of a
\* function value and of a method's plain call do not go through
Coerced(c) == c.site \in {"function", "init", "fields"} \/ Slotted(c)
IntoSlot(type, t) ==
    CASE t = "opt_int" /\ type \notin {"opt_int", "none"} -> "some"
      [] t = "float" /\ type = "int" -> "widened"
      [] OTHER -> "plain"
Arrives(c, p) ==
    LET k == Slots(c)[p]
        param == c.params[p]
    IN  CASE k = 0 -> [from |-> 0, as |-> "plain"]
          [] param.byref -> [from |-> k, as |-> "borrowed"]
          [] OTHER -> [from |-> k, as |-> IF Coerced(c) THEN IntoSlot(Given(c)[k].type, param.type) ELSE "plain"]
\* rustc: the value has the type of the parameter
RustTakes(type, as, t) ==
    CASE as = "some" -> type = "int"
      [] as = "widened" -> TRUE
      [] OTHER -> type = t \/ (type = "none" /\ t = "opt_int")
CallCompiles(c) ==
    \A p \in DOMAIN c.params :
        LET a == Arrives(c, p)
        IN  a.from # 0 => RustTakes(Given(c)[a.from].type, a.as, c.params[p].type)
=============================================================================
