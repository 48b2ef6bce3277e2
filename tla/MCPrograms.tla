------------------------------ MODULE MCPrograms ------------------------------
(***************************************************************************)
(* Every small program of five kinds, grown declaration by declaration:    *)
(* classes with their methods and the values made of them, classes that    *)
(* hold one another, calls, methods that change their object, and modules. *)
(***************************************************************************)
EXTENDS PyClasses, PyModules, Receivers
LOCAL INSTANCE SequencesExt
LOCAL INSTANCE Functions
CONSTANTS MaxClasses, MaxSize, MaxHolders, MaxHeld, MaxStatements, MaxModules, MaxLines
VARIABLES theme, program       \* and call, of PyCalls
vars == <<theme, program, call>>

Newest(P) == Len(P)
\* the classes, and what they declare
Size(P) == LET count[i \in 0 .. Len(P)] ==
                 IF i = 0 THEN 0 ELSE count[i - 1] + 1 + Len(P[i].fields) + Cardinality(DOMAIN P[i].methods)
           IN  count[Len(P)]
Class(bases, dataclass) == [bases |-> bases, dataclass |-> dataclass, fields |-> <<>>, methods |-> <<>>]
Bases(P) == {<<>>} \cup {<<b>> : b \in DOMAIN P}
Step(k) == [k |-> k, v |-> 0, field |-> "", m |-> "", at |-> 0, args |-> <<>>]

\* the parameters of a call, and the names its keyword arguments have
MCParamNames == <<"a", "b", "c">>
MCKeywords == {"a", "b", "c", "z"}

-----------------------------------------------------------------------------
(* Objects.                                                                *)

Field(name, type, default) == [name |-> name, type |-> type, default |-> default]
HasField(P, name) == name \in NamesOf(AllFields(P, Newest(P)))
Inherits(P, m) == P[Newest(P)].bases # <<>> /\ Has(P, P[Newest(P)].bases[1], m)
Method(params, body) == [params |-> params, body |-> body]
Returning(step) == Method(<<>>, <<step>>)
Tag(P, m) == [Step("tag") EXCEPT !.v = 10 * Newest(P) + (CHOOSE i \in 1 .. 4 : <<"m", "n", "__str__", "__repr__">>[i] = m)]
\* the bodies of a method a program may have: what they name is there
BodiesOf(P, m) ==
    CASE m \in {"m", "n", "__str__", "__repr__"} ->
            {Returning(Tag(P, m))}
            \cup {Returning([Step("own") EXCEPT !.m = "n"]) : x \in {1} \cap {i \in {1} : m # "n" /\ Has(P, Newest(P), "n")}}
            \cup {Returning([Step("above") EXCEPT !.m = m]) : x \in {i \in {1} : m # "__repr__" /\ Inherits(P, m)}}
      [] m = "__init__" ->
            {Method(<<Param("a", "int", FALSE, FALSE)>>, <<[Step("set") EXCEPT !.field = "x", !.at = 1]>>),
             Method(<<Param("a", "int", TRUE, FALSE)>>, <<[Step("set") EXCEPT !.field = "y", !.at = 1]>>)}
            \cup {Method(<<Param("a", "int", FALSE, FALSE)>>,
                         <<[Step("above") EXCEPT !.m = m, !.args = <<1>>], [Step("set") EXCEPT !.field = "y", !.v = 3]>>) :
                    x \in {i \in {1} : Inherits(P, m)}}
      [] OTHER ->
            {Returning([Step(CASE m = "__eq__" -> "same" [] m = "__lt__" -> "less" [] OTHER -> "sum") EXCEPT !.field = f]) :
                f \in {g \in {"x"} : HasField(P, g)}}
\* one order of declaring the methods of a class is enough
MethodOrder == <<"__init__", "n", "m", "__str__", "__repr__", "__eq__", "__lt__", "__add__">>
Rank(m) == CHOOSE i \in DOMAIN MethodOrder : MethodOrder[i] = m
AddMember(P, member) == [P EXCEPT ![Newest(P)] = member]

AddClass == theme = "objects" /\ \E bases \in Bases(program), dataclass \in BOOLEAN :
    /\ Len(program) < MaxClasses /\ Size(program) < MaxSize
    /\ program' = Append(program, Class(bases, dataclass))
AddField == theme = "objects" /\ \E name \in {"x", "y"}, default \in {<<>>, <<5>>} :
    LET k == program[Newest(program)]
    IN  /\ program # <<>> /\ Size(program) < MaxSize
        /\ DOMAIN k.methods = {} /\ name \notin NamesOf(k.fields)
        /\ program' = AddMember(program, [k EXCEPT !.fields = Append(@, Field(name, <<"int">>, default))])
AddMethod == theme = "objects" /\ \E m \in Range(MethodOrder) :
    LET k == program[Newest(program)]
    IN  /\ program # <<>> /\ Size(program) < MaxSize
        /\ \A n \in DOMAIN k.methods : Rank(n) < Rank(m)
        /\ \E body \in BodiesOf(program, m) :
              program' = AddMember(program, [k EXCEPT !.methods = (m :> body) @@ @])

-----------------------------------------------------------------------------
(* What the classes agree with Python in, and where they do not.           *)

\* the objects of a class: all their fields alike, or all but x
Objects(P, c) ==
    {[class |-> c, fields |-> [f \in NamesOf(AllFields(P, c)) |-> IF f = "x" THEN p[1] ELSE p[2]]] :
        p \in {<<1, 1>>, <<1, 2>>, <<2, 2>>}}
Calling(b, kind) == {s \in Range(b.body) : s.k = kind}
\* super() is the direct base, its method is a plain one and calls no super()
\* itself, and nobody inherits from the class
SuperIsDirect(P) ==
    \A c \in DOMAIN P : \A b \in Range(P[c].methods) : \A s \in Calling(b, "above") :
        /\ s.m \in Aliases(P, c)
        /\ Calling(Above(P, c, s.m), "above") = {}
        /\ ~Polymorphic(P, c)
\* what @dataclass writes comes before what a base defines
Overwritten(P, c, m) == Has(P, c, m) /\ PyOwner(P, c, m) # Resolved(P, c)[m]
\* a dataclass of dataclasses, the fields of which are all declared
PlainData(P, c) == \A k \in Range(Chain(P, c)) : P[k].dataclass /\ ~HasInit(P, k)
\* a class has its text from a method, or as a dataclass of dataclasses
Tells(P, c) == \/ Has(P, c, "__str__")
               \/ ~Overwritten(P, c, "__repr__") /\ (Has(P, c, "__repr__") \/ PlainData(P, c))
Departs(P, op, s, a, b) ==
    CASE op \in {"m", "n"} -> FALSE
      [] op = "str" -> \/ ~Tells(P, a.class)
                       \/ Polymorphic(P, s) /\ \E v \in Variants(P, s) : ~Shown(P, v)
      [] op = "repr" -> \/ ~Tells(P, a.class)
                        \/ Polymorphic(P, s)
                        \/ Overwritten(P, a.class, "__repr__")
                        \/ Has(P, s, "__str__") /\ ~Has(P, s, "__repr__")
      [] op = "==" -> \/ a.class # b.class
                      \/ Overwritten(P, a.class, "__eq__")
                      \/ ~Has(P, a.class, "__eq__") /\ ~PlainData(P, a.class)
                      \/ Polymorphic(P, s) /\ \E v \in Variants(P, s) : ~Has(P, v, "__eq__")
      [] op \in {"<", ">"} -> \/ a.class # b.class
                              \/ Polymorphic(P, s) /\ \E v \in Variants(P, s) : ~Has(P, v, "__eq__")
      [] op = "+" -> Polymorphic(P, s) \/ "__add__" \notin DOMAIN P[s].methods
Agrees(P, op, s, a, b) ==
    LET does == Operation(P, op, s, a, b)
    IN  does = Refused \/ does = PyOperation(P, op, a, b)
OperationsAgree(P) ==
    \A s \in DOMAIN P : \A v \in Variants(P, s) : \A a \in Objects(P, v) :
        /\ \A op \in {"m", "n", "str", "repr"} : Departs(P, op, s, a, a) \/ Agrees(P, op, s, a, a)
        /\ \A w \in Variants(P, s) : \A b \in Objects(P, w) : \A op \in {"==", "<", ">", "+"} :
              Departs(P, op, s, a, b) \/ Agrees(P, op, s, a, b)

\* What is put where a base is expected, alone or in a list, is of the Rust
\* type of the place, or refused
Values(P) == [new : BOOLEAN, class : DOMAIN P]
SlotsAgree(P) ==
    /\ \A value \in Values(P), c \in DOMAIN P :
          IsSubclass(P, value.class, c) =>
              IntoSlotOf(P, value, c) \in {RustType(P, c), <<"refused">>}
    /\ \A a, b, c \in Values(P) :
          LET elems == <<a, b, c>>
              class == ElementClass(P, elems)
          IN  class # 0 => EmitList(P, elems) \subseteq {RustType(P, class), <<"refused">>}

\* a class builds its objects by its own __init__, and no default of the class
\* is left to show; or as a dataclass, no field of which is declared twice
PlainlyBuilt(P, c) ==
    IF HasInit(P, c) THEN \A f \in Range(AllFields(P, c)) : f.default = <<>>
    ELSE /\ PlainData(P, c)
         /\ Len(StructFields(P, c)) = Len(AllFields(P, c))
Constructions(P, c) ==
    LET arg(v) == [type |-> "int", place |-> FALSE, value |-> v]
        named(n, v) == [name |-> n, arg |-> arg(v)]
    IN  {<<<<arg(1)>>, <<>>>>, <<<<arg(1), arg(2)>>, <<>>>>, <<<<arg(1)>>, <<named("y", 2)>>>>, <<<<>>, <<named("a", 4)>>>>,
         <<<<>>, <<named("y", 3), named("x", 4)>>>>} \cup (IF HasInit(P, c) THEN {<<<<>>, <<>>>>} ELSE {})
ConstructorsAgree(P) ==
    \A c \in DOMAIN P : \A made \in Constructions(P, c) :
        PlainlyBuilt(P, c) /\ NewAccepted(P, c, made[1], made[2]) =>
            LET built == New(P, c, made[1], made[2])
                meant == PyNew(P, c, made[1], made[2])
            IN  /\ meant.fails = <<>> /\ built.fails = <<>>
                /\ \A f \in DOMAIN meant.fields : built.fields[f] = meant.fields[f]

-----------------------------------------------------------------------------
(* Classes that hold one another.                                          *)

Types(n) == {<<"int">>, <<"callable">>} \cup ({"class", "optional", "pair", "list"} \X (1 .. n))
HoldField == theme = "layout" /\ \E c \in DOMAIN program : \E type \in Types(Len(program)) :
    /\ Size(program) < Len(program) + MaxHeld
    /\ program' = [program EXCEPT ![c].fields = Append(@, Field(<<"f", "g", "h", "i">>[Len(@) + 1], type, <<>>))]
\* what is held inline is no base of another class, and what inherits holds
\* nothing through its bases
HeldApart(P) ==
    /\ \A c \in DOMAIN P : \A f \in Range(P[c].fields) : \A k \in InlineRefs(f.type) : ~Polymorphic(P, k)
    /\ \A c \in DOMAIN P : \A k \in Range(Chain(P, c)) \ {c} : \A f \in Range(P[k].fields) : InlineRefs(f.type) = {}
\* no class of these has a constructor to give a callable field its value
NoCallables(P) == \A c \in DOMAIN P : \A f \in Range(P[c].fields) : f.type # <<"callable">>
LayoutAgrees(P) == HeldApart(P) => (ProgramAccepted(P) <=> LayoutIsFinite(P) /\ NoCallables(P))

\* A program the checker accepts compiles, and outside the departures named
\* above its objects are built, shown, compared, added and asked for their
\* methods as Python's are, whichever slot they sit in; and exactly the
\* classes whose layout would have no end are refused.
ClassesAgree ==
    CASE theme = "objects" /\ ProgramAccepted(program) /\ SuperIsDirect(program) ->
            /\ ProgramCompiles(program)
            /\ OperationsAgree(program)
            /\ Size(program) = Len(program) => SlotsAgree(program)
            /\ ConstructorsAgree(program)
      [] theme = "layout" -> LayoutAgrees(program)
      [] OTHER -> TRUE

-----------------------------------------------------------------------------
(* Methods that change their object.                                       *)

Stmt(k, role, effect, inside) ==
    [k |-> k, exprs |-> <<[role |-> role, effect |-> effect, inside |-> inside]>>, blocks |-> <<>>]
Places == {<<"expr", "value">>, <<"assign", "value">>, <<"attr", "obj">>, <<"attr", "value">>, <<"index", "obj">>,
           <<"index", "idx">>, <<"if", "cond">>, <<"if", "elif">>, <<"while", "cond">>, <<"for", "iter">>,
           <<"with", "ctx">>, <<"match", "subject">>, <<"assert", "cond">>, <<"raise", "value">>, <<"del", "target">>}
Changes == {Plain("place"), Plain("mutate"), Plain("lend"), Plain("lend_key"), Plain("part"), SelfCall("n"), SuperCall("n")}
Arounds == {<<>>, <<"operand">>, <<"element">>, <<"operand", "element">>, <<"slice">>, <<"comprehension">>, <<"lambda">>, <<"fstring">>}
Block(k, s) == [k |-> k, exprs |-> <<>>, blocks |-> <<<<>>, <<s>>>>]
Statement == LET plain == {Stmt(p[1], p[2], e, <<>>) : p \in Places, e \in Changes}
                 around == {Stmt(p[1], p[2], e, i) : p \in {<<"expr", "value">>, <<"if", "cond">>}, e \in Changes, i \in Arounds}
             IN  plain \cup around \cup {Block(k, Stmt("expr", "value", e, <<>>)) : k \in {"if", "try", "match"}, e \in Changes}
Link == {Stmt("expr", "value", e, <<>>) : e \in {SelfCall("m"), SelfCall("n"), SuperCall("m"), SuperCall("n"), Plain("mutate")}}
\* which methods the two classes have, none doing anything yet
Shapes == {<<[bases |-> <<>>, methods |-> [m \in {"m", "n"} |-> <<>>]], [bases |-> <<1>>, methods |-> [m \in sub |-> <<>>]]>> :
              sub \in SUBSET {"m", "n"}}
Linked(P) == \A c \in DOMAIN P : \A m \in DOMAIN P[c].methods : Range(P[c].methods[m]) \subseteq Link
Length(P) == LET count[i \in 0 .. Len(P)] == IF i = 0 THEN 0
                       ELSE count[i - 1] + FoldFunction(LAMBDA b, n : Len(b) + n, 0, P[i].methods)
               IN  count[Len(P)]
AddStatement == theme = "receivers" /\ \E c \in DOMAIN program : \E m \in DOMAIN program[c].methods :
    /\ Length(program) < MaxStatements
    /\ program[c].methods[m] = <<>>
    /\ Length(program) < 2 \/ Linked(program)
    /\ \E s \in IF Length(program) = 0 THEN Statement ELSE Link :
          program' = [program EXCEPT ![c].methods[m] = Append(@, s)]

\* all of them, without regard to what the compiler looks at
AllKinds == {"if", "while", "for", "try", "with", "match"}
Everywhere(body) == Statements(body, AllKinds)
Lends(e) == e.effect.does \in {"mutate", "lend", "lend_key", "part"}
\* rustc gives a call the receiver the method it reaches takes
MustLend(P, key) == \E s \in Everywhere(BodyOf(P, key)) : AssignsSelf(s) \/ \E e \in Range(s.exprs) : Lends(e)
Reach(P, k, l) ==
    k[1] = l[1] /\ \E s \in Everywhere(BodyOf(P, k)) : \E e \in Range(s.exprs) :
        e.effect.does = "call" /\ e.effect.calls = l[2] /\ e.effect.super = l[3]
Lent(P) ==
    LET keys == Keys(P)
        own == {key \in keys : MustLend(P, key)}
        reach == {<<k, l>> \in keys \X keys : Reach(P, k, l)}
    IN  Least(keys, reach, own)
\* what the scan does not look at
Unseen(s, e) ==
    \/ e.role \in {"subject", "target"} \/ s.k \in {"assert", "raise"}
    \/ e.role \in {"elif", "idx"} /\ Lends(e)
    \/ e.effect.does \in {"lend_key", "part"}
    \/ "fstring" \in Range(e.inside)
    \/ Lends(e) /\ Range(e.inside) \cap {"slice", "comprehension", "lambda"} # {}
    \/ e.effect.does = "lend" /\ "element" \in Range(e.inside)
BlindSpots(P) ==
    \E c \in DOMAIN P : \E m \in DOMAIN P[c].methods : \E s \in Everywhere(P[c].methods[m]) :
        \/ s.k = "match"
        \/ \E e \in Range(s.exprs) : Unseen(s, e)
\* A method is emitted with `&mut self` where rustc needs it, however long
\* the chain of calls - through overrides, inherited methods and super() -
\* to the one that changes the object, and nowhere else; and so is the
\* dispatching method of a base for any of its subclasses.
SelfIsLent ==
    theme = "receivers" /\ ~BlindSpots(program) =>
        LET lent == Lent(program)
            mut_self == compute_mut_self(program)
        IN  /\ mut_self = lent
            /\ \A s \in DOMAIN program : \A m \in DOMAIN program[s].methods :
                  (\E v \in Variants(program, s) : <<v, m, FALSE>> \in lent)
                      <=> DispatchIsMut(program, mut_self, s, m)

-----------------------------------------------------------------------------
(* Modules with bindings of their own.                                     *)

Num(v) == [k |-> "lit", of |-> 0, name |-> "", v |-> <<v>>]
Sevens == [Num(7) EXCEPT !.k = "list"]
Ref(k, of, name) == [k |-> k, of |-> of, name |-> name]
Do(k, name, e) == [k |-> k, of |-> 0, name |-> name, e |-> e]
Gives(e) == Do("return", "", e)
Global(name) == Do("global", name, Num(0))
Import(of) == [k |-> "import", of |-> of]
From(of, name) == [k |-> "from", of |-> of, name |-> name]
Binding(name, e) == [k |-> "bind", name |-> name, init |-> e]
Def(body) == [k |-> "def", body |-> body]

Own(k, name) == Ref(k, 0, name)
Counter == <<Global("n"), Do("add", "n", Num(1)), Gives(Own("read", "n"))>>
Setter == <<Global("n"), Do("set", "n", Num(5)), Gives(Own("read", "n"))>>
Pusher == <<Do("append", "xs", Num(1)), Do("store", "xs", Num(4)), Gives(Own("sum", "xs"))>>
\* modules other modules import: one that counts, one that keeps a list, one
\* with a constant
Libraries == {<<Binding("n", Num(0)), Def(Counter)>>,
              <<Binding("xs", Sevens), Def(Pusher)>>,
              <<Binding("n", Num(3))>>}
\* and one that runs a function of another when it is imported
Caller == <<Import(1), Binding("k", Ref("call", 1, "f"))>>
\* the lines a module may go on with: what they refer to is somewhere
ImportedBy(lines) == {s.of : s \in {t \in Range(lines) : t.k = "import"}}
Refs(P, lines) ==
    {Own("read", "n"), Own("sum", "xs")}
    \cup UNION {{Ref("read", m, n) : n \in Bindings(P, m) \ {"xs"}} \cup {Ref("sum", m, n) : n \in Bindings(P, m) \cap {"xs"}}
                \cup (IF Of(P, m, "def") # <<>> THEN {Ref("call", m, "f")} ELSE {}) : m \in ImportedBy(lines)}
GlobalBodies(P, lines) ==
    {Counter, Setter, Pusher,
     <<Do("set", "n", Num(5)), Gives(Own("read", "n"))>>,
     <<Do("add", "n", Num(1)), Gives(Num(0))>>,
     <<Do("show", "", Own("read", "n")), Global("n"), Do("set", "n", Num(5)), Gives(Num(0))>>}
    \cup {<<Gives(e)>> : e \in Refs(P, lines) \cup {Own("read", "k")}}
    \cup {<<[Do("set", "n", Num(5)) EXCEPT !.of = m], Gives(Num(0))>> : m \in ImportedBy(lines)}
Lines(P) ==
    LET m == Len(P)
    IN  {Import(i) : i \in 1 .. m - 1}
        \cup UNION {{From(i, n) : n \in Bindings(P, i) \cup {s.name : s \in Range(Of(P, i, "from"))}} : i \in 1 .. m - 1}
        \cup {Binding("n", Num(0)), Binding("xs", Sevens)}
        \cup {Binding("k", e) : e \in Refs(P, P[m]) \cup {Ref("call", 0, "f")}}
        \cup {Def(b) : b \in GlobalBodies(P, P[m])}
Again(P, s) == \E t \in Range(P[Len(P)]) : t.k = s.k /\ (s.k = "def" \/ (s.k = "bind" /\ t.name = s.name) \/ t = s)

-----------------------------------------------------------------------------
\* main: the functions of the root and of the modules it imports, what it
\* sees, and the functions again
Main(P) ==
    LET root == Root(P)
        calls == (IF Of(P, root, "def") # <<>> THEN <<Ref("call", 0, "f")>> ELSE <<>>)
                 \o SetToSeq({Ref("call", m, "f") : m \in {i \in ImportedBy(P[root]) : Of(P, i, "def") # <<>>}})
        seen == SetToSeq({Own(IF n = "xs" THEN "sum" ELSE "read", n) :
                            n \in Bindings(P, root) \cup {s.name : s \in Range(Of(P, root, "from"))}})
                \o SetToSeq({e \in Refs(P, P[root]) : e.of # 0 /\ e.k # "call"})
    IN  [i \in 1 .. Len(calls \o seen \o calls) |-> Do("show", "", (calls \o seen \o calls)[i])]

\* every module is one that the resolver lists: the root imports it, or one
\* that does
Reached(P) == LET found[n \in 0 .. Len(P)] ==
                      IF n = 0 THEN {Root(P)}
                      ELSE found[n - 1] \cup {s.of : s \in {t \in UNION {Range(P[m]) : m \in found[n - 1]} : t.k \in {"import", "from"}}}
              IN  found[Len(P)] = DOMAIN P
FromNames(P, m) == {s.name : s \in Range(Of(P, m, "from"))}
\* a name means one thing in a module: its binding, or that of the one module
\* it is imported from, which binds it
OneMeaning(P, m) ==
    /\ Bindings(P, m) \cap FromNames(P, m) = {}
    /\ \A s, t \in Range(Of(P, m, "from")) : s.name = t.name => s.of = t.of
    /\ \A s \in Range(Of(P, m, "from")) : s.name \in Bindings(P, s.of)
\* and a bare name is one of those
Bare(P, m) ==
    UNION {BareReads(Initializer(P, m, n)) : n \in Bindings(P, m)}
    \cup UNION {UNION {StepReads(s) : s \in Range(b)} \ LocalNames(b) : b \in FunctionBodies(P, m)}
Named(P, m) == Bare(P, m) \ {"f"} \subseteq Bindings(P, m) \cup FromNames(P, m)
\* a number a function rebinds is imported by no from-import, which would
\* have taken the value of before
Snapshot(P) == \E m \in DOMAIN P : \E s \in Range(Of(P, m, "from")) : s.name # "xs" /\ s.name \in ReboundUnderGlobal(P, s.of)
\* no statement runs a function before main, and imports come first
Quiet(P, m) ==
    /\ \A n \in Bindings(P, m) : Initializer(P, m, n).k # "call"
    /\ \A i, j \in DOMAIN P[m] : i < j /\ P[m][j].k \in {"import", "from"} => P[m][i].k \in {"import", "from"}
PlainModules(P) == Reached(P) /\ (\A m \in DOMAIN P : OneMeaning(P, m) /\ Named(P, m)) /\ ~Snapshot(P)

\* An accepted program of modules compiles, and where Python runs it, it
\* writes what Python writes: every binding is made once, in the order of the
\* imports, whatever functions the others call while they are made, and every
\* function changes and reads the binding of its own module.  A program whose
\* modules import first and call nothing starts as in Python.
ModulesAgree(P) ==
    PlainModules(P) /\ GlobalsAccepted(P) =>
        LET python == PyRunProgram(P, Main(P))
            emitted == EmittedRun(P, Main(P))
        IN  /\ GlobalsCompile(P)
            /\ ~python.raises /\ ~python.early => ~emitted.fails /\ emitted.out = python.out
            /\ (\A m \in DOMAIN P : Quiet(P, m)) => ~PyRunModules(P).raises

\* the lines after the libraries the program begins with
Grown(P) == Len(FlattenSeq(SelectSeq(Tail(P), LAMBDA lines : lines # Caller)))
\* what departs whatever comes next is not gone on from
AddModule == theme = "globals" /\ program[Newest(program)] # <<>> /\ Len(program) < MaxModules
    /\ OneMeaning(program, Newest(program)) /\ Named(program, Newest(program))
    /\ program' = Append(program, <<>>)
AddLine == theme = "globals" /\ Len(program) > 1 /\ Grown(program) < MaxLines
    /\ OneMeaning(program, Newest(program))
    /\ \E s \in {l \in Lines(program) : ~Again(program, l)} : program' = AddMember(program, Append(program[Newest(program)], s))
GlobalsAgree == theme = "globals" => ModulesAgree(program)

-----------------------------------------------------------------------------
\* a call is grown beside an empty program, and every other program beside a
\* call that stays as it is
Init ==
    \/ /\ theme = "objects" /\ program = <<>>
       /\ call = Uncalled("function")
    \/ /\ theme = "layout" /\ call = Uncalled("function")
       /\ \E n \in 2 .. MaxHolders : program \in {P \in [1 .. n -> {Class(<<>>, FALSE), Class(<<1>>, FALSE), Class(<<2>>, FALSE)}] :
             \A c \in 1 .. n : P[c].bases # <<>> => P[c].bases[1] < c}
    \/ theme = "calls" /\ program = <<>> /\ CallInit
    \/ theme = "receivers" /\ program \in Shapes /\ call = Uncalled("function")
    \/ theme = "globals" /\ program \in {<<library>> : library \in Libraries} /\ call = Uncalled("function")
Next == /\ UNCHANGED theme
        /\ \/ /\ UNCHANGED call
              /\ AddClass \/ AddField \/ AddMethod \/ HoldField \/ AddStatement \/ AddModule \/ AddLine
           \/ theme = "calls" /\ UNCHANGED program /\ CallNext
Spec == Init /\ [][Next]_vars
=============================================================================
