------------------------------ MODULE PyClasses ------------------------------
(***************************************************************************)
(* Classes, calls and constructors as Python has them: what the programs   *)
(* of Calls and Classes mean to the programmer who wrote them.  It models  *)
(* no code of the repository.                                              *)
(***************************************************************************)
EXTENDS Classes, PyCalls
LOCAL INSTANCE SequencesExt
LOCAL INSTANCE Functions

\* what raises: no such method, no such attribute, arguments that do not fit
Raises == <<-104>>
\* the text of an object that has none: its address
Address == <<-105>>

-----------------------------------------------------------------------------
(* Methods: @dataclass writes those its class does not define.             *)

WrittenByIt == {"__init__", "__repr__", "__eq__"}
Defines(P, c, m) == m \in DOMAIN P[c].methods \/ (P[c].dataclass /\ m \in WrittenByIt)
\* the first of these classes that defines it, or 0
Owner(P, classes, m) ==
    LET at == {i \in DOMAIN classes : Defines(P, classes[i], m)}
    IN  IF at = {} THEN 0 ELSE classes[CHOOSE i \in at : \A j \in at : i <= j]
PyOwner(P, c, m) == Owner(P, Chain(P, c), m)
\* the classes behind one in the order of a class
Behind(P, c, k) ==
    LET chain == Chain(P, c) IN SubSeq(chain, 1 + CHOOSE i \in DOMAIN chain : chain[i] = k, Len(chain))

RECURSIVE PyRun(_, _, _, _, _, _)
PyRun(P, k, m, self, other, depth) ==
    LET again(owner, name) == PyRun(P, owner, name, self, other, depth - 1)
        fields == DataclassFields(P, k)
        step(s) ==
            CASE s.k = "tag" -> <<s.v>>
              [] s.k = "field" -> <<self.fields[s.field]>>
              [] s.k = "own" -> again(PyOwner(P, self.class, s.m), s.m)
              [] s.k = "above" -> again(Owner(P, Behind(P, self.class, k), s.m), s.m)
              [] s.k = "same" -> Truth(self.fields[s.field] = other.fields[s.field])
              [] s.k = "less" -> Truth(self.fields[s.field] < other.fields[s.field])
              [] s.k = "sum" -> <<self.fields[s.field] + other.fields[s.field]>>
    IN  CASE k = 0 -> Raises
          [] depth = 0 -> Overflow
          [] m \in DOMAIN P[k].methods -> step(P[k].methods[m].body[1])
          [] m = "__repr__" -> <<-self.class>> \o [i \in DOMAIN fields |-> self.fields[fields[i].name]]
          [] m = "__eq__" -> Truth(/\ self.class = other.class
                                   /\ \A f \in Range(fields) : self.fields[f.name] = other.fields[f.name])
PyCall(P, a, m, b) == PyRun(P, PyOwner(P, a.class, m), m, a, b, Deepest)

-----------------------------------------------------------------------------
(* Instances: an attribute is the instance's, or the nearest class's.      *)

ClassAttribute(P, c, f) ==
    LET at == {i \in DOMAIN Chain(P, c) : \E g \in Range(P[Chain(P, c)[i]].fields) : g.name = f /\ g.default # <<>>}
        near == Chain(P, c)[CHOOSE i \in at : \A j \in at : i <= j]
    IN  IF at = {} THEN <<>> ELSE (CHOOSE g \in Range(P[near].fields) : g.name = f).default
ClassAttributes(P, c) ==
    [f \in {g \in NamesOf(AllFields(P, c)) : ClassAttribute(P, c, g) # <<>>} |-> ClassAttribute(P, c, f)[1]]
Set(fields, f, v) == [g \in DOMAIN fields \cup {f} |-> IF g = f THEN v ELSE fields[g]]

RECURSIVE PyInit(_, _, _, _, _, _)
PyInit(P, c, k, given, fields, depth) ==
    LET init == P[k].methods["__init__"]
        up == Owner(P, Behind(P, c, k), "__init__")
        after[i \in 0 .. Len(init.body)] ==
            IF i = 0 THEN fields
            ELSE LET s == init.body[i]
                 IN  IF s.k = "set" THEN Set(after[i - 1], s.field, IF s.at > 0 THEN given[s.at] ELSE s.v)
                     ELSE PyInit(P, c, up, [a \in DOMAIN s.args |-> given[s.args[a]]], after[i - 1], depth - 1)
        params == DataclassFields(P, k)
        stored[i \in 0 .. Len(params)] ==
            IF i = 0 THEN fields
            ELSE IF i <= Len(given) THEN Set(stored[i - 1], params[i].name, given[i]) ELSE stored[i - 1]
    IN  IF k = 0 \/ depth = 0 THEN fields
        ELSE IF "__init__" \in DOMAIN P[k].methods THEN after[Len(init.body)] ELSE stored[Len(params)]

\* the parameters of the class, whoever's they are
PyParams(P, c) ==
    LET k == PyOwner(P, c, "__init__")
        fields == DataclassFields(P, k)
    IN  CASE k = 0 -> <<>>
          [] "__init__" \in DOMAIN P[k].methods -> P[k].methods["__init__"].params
          [] OTHER -> [i \in DOMAIN fields |->
                [name |-> fields[i].name, type |-> "int", byref |-> FALSE, default |-> fields[i].default # <<>>,
                 value |-> IF fields[i].default = <<>> THEN 0 ELSE fields[i].default[1]]]
PyNew(P, c, args, kwargs) ==
    LET made == [site |-> "init", params |-> PyParams(P, c), args |-> args, kwargs |-> kwargs]
        given == [p \in DOMAIN made.params |->
                    IF Meant(made, p) = {} THEN made.params[p].value
                    ELSE Given(made)[CHOOSE k \in Meant(made, p) : TRUE].value]
    IN  IF ~PyBinds(made) THEN [class |-> c, fails |-> Raises, fields |-> <<>>]
        ELSE [class |-> c, fails |-> <<>>,
              fields |-> PyInit(P, c, PyOwner(P, c, "__init__"), given, ClassAttributes(P, c), Deepest)]

-----------------------------------------------------------------------------
(* Operations.                                                             *)

PyRepr(P, a) == IF PyOwner(P, a.class, "__repr__") = 0 THEN Address ELSE PyCall(P, a, "__repr__", a)
PyStr(P, a) == IF PyOwner(P, a.class, "__str__") = 0 THEN PyRepr(P, a) ELSE PyCall(P, a, "__str__", a)
\* the subclass is asked first; objects are themselves where nobody answers
PyEqual(P, a, b) ==
    LET first == IF a.class # b.class /\ IsSubclass(P, b.class, a.class) THEN b ELSE a
        second == IF first = a THEN b ELSE a
    IN  CASE PyOwner(P, first.class, "__eq__") # 0 -> PyCall(P, first, "__eq__", second)
          [] PyOwner(P, second.class, "__eq__") # 0 -> PyCall(P, second, "__eq__", first)
          [] OTHER -> Truth(FALSE)
PyOperation(P, op, a, b) ==
    CASE op \in {"m", "n"} -> PyCall(P, a, op, a)
      [] op = "str" -> PyStr(P, a)
      [] op = "repr" -> PyRepr(P, a)
      [] op = "==" -> PyEqual(P, a, b)
      [] op = "<" -> PyCall(P, a, "__lt__", b)
      [] op = ">" -> PyCall(P, b, "__lt__", a)
      [] op = "+" -> PyCall(P, a, "__add__", b)
=============================================================================
