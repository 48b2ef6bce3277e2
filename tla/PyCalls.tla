-------------------------------- MODULE PyCalls --------------------------------
(***************************************************************************)
(* What the calls of module Calls mean in Python, and every call there is,  *)
(* grown parameter by parameter and argument by argument: the functions,    *)
(* methods, constructors, classes of fields and function values a program   *)
(* may have, called with whatever a program may write.  It models no code   *)
(* of the repository.                                                       *)
(***************************************************************************)
EXTENDS Calls

CONSTANTS ParamNames,    \* the names of the parameters, the first one's first
          Keywords,      \* the names a keyword argument may have
          MaxGiven       \* how many arguments a call gives at most
ASSUME PyCallsAssumption ==
    /\ ParamNames \in Seq(STRING)
    /\ \A i, j \in DOMAIN ParamNames : ParamNames[i] = ParamNames[j] => i = j
VARIABLE call

-----------------------------------------------------------------------------
(* Python's binding of arguments.                                          *)

\* the arguments that go to a parameter
Meant(c, p) == {k \in DOMAIN Given(c) :
    IF k <= Len(c.args) THEN k = p ELSE c.kwargs[k - Len(c.args)].name = c.params[p].name}
PyBinds(c) ==
    /\ \A p \in DOMAIN c.params : (\E k \in Meant(c, p) : Meant(c, p) = {k}) \/ (Meant(c, p) = {} /\ c.params[p].default)
    /\ \A k \in DOMAIN Given(c) : \E p \in DOMAIN c.params : k \in Meant(c, p)
PyOrder(c) == Receiver(c) \o AsGiven(c)

-----------------------------------------------------------------------------
(* The calls.                                                              *)

Kind(type, default, byref) == [type |-> type, default |-> default, byref |-> byref]
Param(name, type, default, byref) ==
    [name |-> name, type |-> type, default |-> default, byref |-> byref, value |-> 7]
\* only functions and methods borrow, and a function value has no defaults
Kinds(site) ==
    {Kind("int", FALSE, FALSE), Kind("float", FALSE, FALSE), Kind("opt_int", FALSE, FALSE)}
    \cup (IF site = "value" THEN {} ELSE {Kind("int", TRUE, FALSE), Kind("opt_int", TRUE, FALSE)})
    \cup (IF site \in {"function", "method"} THEN {Kind("int", FALSE, TRUE)} ELSE {})
Arg(type, place) == [type |-> type, place |-> place, value |-> 0]
ArgKinds == {Arg("int", TRUE), Arg("int", FALSE), Arg("none", FALSE), Arg("float", FALSE), Arg("opt_int", TRUE)}
Uncalled(site) == [site |-> site, params |-> <<>>, args |-> <<>>, kwargs |-> <<>>]

\* parameters with a default come last
AddParam == \E kind \in Kinds(call.site) :
    /\ call.args = <<>> /\ call.kwargs = <<>> /\ Len(call.params) < Len(ParamNames)
    /\ \A p \in DOMAIN call.params : call.params[p].default => kind.default
    /\ call' = [call EXCEPT !.params = Append(@, Param(ParamNames[Len(@) + 1], kind.type, kind.default, kind.byref))]
AddArg == \E a \in ArgKinds :
    /\ call.kwargs = <<>> /\ Len(call.args) < MaxGiven
    /\ call' = [call EXCEPT !.args = Append(@, a)]
AddKwarg == \E a \in {Arg("int", TRUE), Arg("float", FALSE)}, name \in Keywords :
    /\ Len(call.args) + Len(call.kwargs) < MaxGiven
    /\ call' = [call EXCEPT !.kwargs = Append(@, [name |-> name, arg |-> a])]

CallInit == call \in {Uncalled(site) : site \in Sites}
CallNext == AddParam \/ AddArg \/ AddKwarg
CallSpec == CallInit /\ [][CallNext]_call

-----------------------------------------------------------------------------
(* Properties.                                                             *)

\* the arguments of a method, a constructor and a function value that the
\* checker lets pass, or the emission gives unconverted
Converts(c) ==
    \A k \in DOMAIN Given(c) :
        LET given == Given(c)[k].type
            takes == c.params[Destination(c, k)].type
        IN  /\ c.site \notin {"function", "value"} => Checked(given, takes)
            /\ ~Coerced(c) => given = takes \/ given = "none"
\* An accepted call is one Python would make: every parameter is given the
\* argument it is given in Python, of its type, and the arguments are
\* evaluated as they are written - after the receiver, unless the call is
\* hoisted, when the receiver comes last.
CallsBind ==
    CallAccepted(call) =>
        LET slots == Slots(call)
        IN  /\ PyBinds(call)
            /\ \A p \in DOMAIN call.params : Meant(call, p) = IF slots[p] = 0 THEN {} ELSE {slots[p]}
            /\ ArgumentOrder(call) = AsGiven(call)
            /\ ~NeedsHoist(call) => EmittedOrder(call) = PyOrder(call)
            /\ Converts(call) => CallCompiles(call)
=============================================================================
