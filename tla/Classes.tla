------------------------------- MODULE Classes -------------------------------
(***************************************************************************)
(* Classes as the compiler has them: the hierarchy, what a class must not  *)
(* be, the struct and the methods it becomes - every method a class        *)
(* resolves is emitted again in its own impl, and the base's version of    *)
(* one it overrides beside it as `__super_m` - the enum a base with        *)
(* subclasses becomes, its constructors and its special methods.           *)
(*                                                                         *)
(* A program is a sequence of classes, named by their place in it, a base  *)
(* before the classes that have it.  Fields hold numbers, and what a       *)
(* method returns is the sequence of the numbers a text of it is made of.  *)
(***************************************************************************)
EXTENDS Calls
LOCAL INSTANCE SequencesExt
LOCAL INSTANCE Functions

Dunder == {"__str__", "__repr__", "__add__", "__eq__", "__lt__"}

\* outcomes that are no text: nothing is returned
Refused == <<-101>>
Uncompiled == <<-102>>
Overflow == <<-103>>
\* no run of the model calls deeper than this
Deepest == 8
Truth(b) == IF b THEN <<1>> ELSE <<0>>

-----------------------------------------------------------------------------
(* The hierarchy.                                                          *)

\* a class, its base, the base's base: only the first base counts
Chain(P, c) ==
    LET at[i \in 1 .. Len(P)] == IF P[i].bases = <<>> THEN <<i>> ELSE <<i>> \o at[P[i].bases[1]]
    IN  at[c]
IsSubclass(P, c, ancestor) == ancestor \in Range(Chain(P, c))
Variants(P, s) == {c \in DOMAIN P : IsSubclass(P, c, s)}
Polymorphic(P, s) == Variants(P, s) # {s}

\* extract_init_fields: what __init__ assigns is a field, where none is declared
OwnFields(P, c) ==
    LET declared == P[c].fields
        names == {f.name : f \in Range(declared)}
        set == IF "__init__" \in DOMAIN P[c].methods
               THEN SelectSeq(P[c].methods["__init__"].body,
                              LAMBDA s : s.k = "set" /\ s.field \notin names)
               ELSE <<>>
        first == SelectSeq([i \in DOMAIN set |-> <<i, set[i]>>],
                           LAMBDA e : \A j \in 1 .. e[1] - 1 : set[j].field # e[2].field)
    IN  declared \o [i \in DOMAIN first |-> [name |-> first[i][2].field, type |-> <<"int">>, default |-> <<>>]]
\* get_all_fields: the bases' first
AllFields(P, c) == FlattenSeq([i \in DOMAIN Chain(P, c) |-> OwnFields(P, Reverse(Chain(P, c))[i])])
\* of two fields of one name the struct has the first, which is the base's
StructFields(P, c) ==
    LET all == AllFields(P, c)
        first == {i \in DOMAIN all : \A j \in 1 .. i - 1 : all[j].name # all[i].name}
    IN  [k \in 1 .. Cardinality(first) |->
            all[CHOOSE i \in first : Cardinality({j \in first : j <= i}) = k]]

\* collect_resolved_methods, find_method: the class whose method it is
Resolved_farthest(P, c) ==
    LET chain == Chain(P, c)
        has(m) == {i \in DOMAIN chain : m \in DOMAIN P[chain[i]].methods}
    IN  [m \in UNION {DOMAIN P[k].methods : k \in Range(chain)} |->
            chain[CHOOSE i \in has(m) : \A j \in has(m) : j <= i]]
Resolved(P, c) ==
    LET chain == Chain(P, c)
        has(m) == {i \in DOMAIN chain : m \in DOMAIN P[chain[i]].methods}
    IN  [m \in UNION {DOMAIN P[k].methods : k \in Range(chain)} |->
            chain[CHOOSE i \in has(m) : \A j \in has(m) : i <= j]]
\* the base methods emitted beside the ones that override them
Aliases(P, c) ==
    IF P[c].bases = <<>> THEN {}
    ELSE (DOMAIN P[c].methods \cap DOMAIN P[P[c].bases[1]].methods) \ Dunder

-----------------------------------------------------------------------------
(* check_class_prelude.                                                    *)

\* the fields of the dataclass bases and its own: one declared again keeps
\* its place and has the new default
DataclassFields(P, c) ==
    LET from == SelectSeq(Reverse(Chain(P, c)), LAMBDA k : \A j \in DOMAIN P :
                    IsSubclass(P, c, j) /\ IsSubclass(P, j, k) => P[j].dataclass \/ j = c)
        put(fields, f) == IF \E i \in DOMAIN fields : fields[i].name = f.name
                          THEN [i \in DOMAIN fields |-> IF fields[i].name = f.name THEN f ELSE fields[i]]
                          ELSE Append(fields, f)
    IN  FoldLeft(put, <<>>, FlattenSeq([i \in DOMAIN from |-> P[from[i]].fields]))
DefaultsComeLast(fields) ==
    \A i, j \in DOMAIN fields : i < j /\ fields[i].default # <<>> => fields[j].default # <<>>

\* collect_inline_class_refs: the classes a field holds without a pointer
InlineRefs(type) ==
    CASE type[1] \in {"class", "optional"} -> {type[2]}
      [] type[1] = "pair" -> {type[2]}
      [] OTHER -> {}
SelfReferenceIsOptional(P, c) ==
    \A f \in Range(P[c].fields) : c \in InlineRefs(f.type) => f.type = <<"optional", c>>
InlineEdges_shallow(P, c) == UNION {InlineRefs(f.type) : f \in {g \in Range(P[c].fields) : g.type[1] = "class"}} \ {c}
InlineEdges(P, c) == UNION {InlineRefs(f.type) : f \in Range(P[c].fields)} \ {c}
InFieldCycle(P, c) ==
    LET grow(from) == from \cup UNION {InlineEdges(P, k) : k \in from}
        reached[i \in 0 .. Len(P)] == IF i = 0 THEN InlineEdges(P, c) ELSE grow(reached[i - 1])
    IN  c \in reached[Len(P)]
\* init_field_param_map: the fields __init__ gives a parameter
Seeded(P, c) ==
    IF "__init__" \notin DOMAIN P[c].methods THEN {}
    ELSE {s.field : s \in {t \in Range(P[c].methods["__init__"].body) : t.k = "set" /\ t.at > 0}}
CallablesAreSeeded(P, c) == \A f \in Range(P[c].fields) : f.type = <<"callable">> => f.name \in Seeded(P, c)
DeclaredOnce(fields) == \A i, j \in DOMAIN fields : i # j => fields[i].name # fields[j].name
ClassAccepted(P, c) ==
    /\ P[c].dataclass => DefaultsComeLast(DataclassFields(P, c))
    /\ Len(P[c].bases) <= 1
    /\ SelfReferenceIsOptional(P, c)
    /\ ~InFieldCycle(P, c)
    /\ DeclaredOnce(P[c].fields)
    /\ CallablesAreSeeded(P, c)
ProgramAccepted(P) == \A c \in DOMAIN P : ClassAccepted(P, c)

-----------------------------------------------------------------------------
(* The emitted methods.                                                    *)

\* what `super().m()` is in the impl of c: the body in the direct base
Above(P, c, m) == P[P[c].bases[1]].methods[m]
Bodies(P, c) == {P[Resolved(P, c)[m]].methods[m] : m \in DOMAIN Resolved(P, c)}
                \cup {Above(P, c, m) : m \in Aliases(P, c)}
\* rustc finds every method a body of the impl calls
BodiesCompile(P, c) ==
    \A b \in Bodies(P, c) : \A s \in Range(b.body) :
        /\ s.k = "above" => s.m \in Aliases(P, c)
        /\ s.k = "own" => s.m \in DOMAIN Resolved(P, c)
ProgramCompiles(P) == \A c \in DOMAIN P : BodiesCompile(P, c)

\* a method of one statement, run in the impl of c
RECURSIVE Evaluate(_, _, _, _, _, _)
Evaluate(P, c, body, self, other, depth) ==
    LET s == body.body[1]
        run(b) == Evaluate(P, c, b, self, other, depth - 1)
    IN  CASE depth = 0 -> Overflow
          [] s.k = "tag" -> <<s.v>>
          [] s.k = "field" -> <<self.fields[s.field]>>
          [] s.k = "own" -> run(P[Resolved(P, c)[s.m]].methods[s.m])
          [] s.k = "above" -> run(Above(P, c, s.m))
          [] s.k = "same" -> Truth(self.fields[s.field] = other.fields[s.field])
          [] s.k = "less" -> Truth(self.fields[s.field] < other.fields[s.field])
          [] s.k = "sum" -> <<self.fields[s.field] + other.fields[s.field]>>
\* a call of method m of a struct
RunMethod(P, self, m, other) ==
    LET c == self.class IN Evaluate(P, c, P[Resolved(P, c)[m]].methods[m], self, other, Deepest)

-----------------------------------------------------------------------------
(* Constructors.                                                           *)

HasInit(P, c) == "__init__" \in DOMAIN P[c].methods
\* the second field of a name answers to no keyword
FieldParams(P, c) ==
    LET all == AllFields(P, c)
    IN  [i \in DOMAIN all |-> [name |-> IF \E j \in 1 .. i - 1 : all[j].name = all[i].name THEN "" ELSE all[i].name,
                               type |-> "int", default |-> all[i].default # <<>>, byref |-> FALSE]]
Construction(P, c, args, kwargs) ==
    [site |-> IF HasInit(P, c) THEN "init" ELSE "fields", args |-> args, kwargs |-> kwargs,
     params |-> IF HasInit(P, c) THEN P[c].methods["__init__"].params ELSE FieldParams(P, c)]
NewAccepted(P, c, args, kwargs) ==
    \/ ~HasInit(P, c) /\ args = <<>> /\ kwargs = <<>>
    \/ CallAccepted(Construction(P, c, args, kwargs)) /\ Len(args) <= Len(StructFields(P, c))
    \/ HasInit(P, c) /\ CallAccepted(Construction(P, c, args, kwargs))

ValueOf(slots, params, given, p) == IF slots[p] = 0 THEN params[p].value ELSE given[slots[p]].value
Stuck(fields) == [fails |-> Overflow, fields |-> fields]
\* the statements of __init__ run on zeroed fields; `super().__init__()` runs
\* the alias, of the impl of c again
RECURSIVE RunInit(_, _, _, _, _, _)
RunInit(P, c, init, given, fields, depth) ==
    LET after[i \in 0 .. Len(init.body)] ==
            IF i = 0 THEN [fails |-> <<>>, fields |-> fields]
            ELSE LET s == init.body[i]
                     was == after[i - 1]
                 IN  CASE was.fails # <<>> -> was
                       [] s.k = "set" -> [was EXCEPT !.fields[s.field] = IF s.at > 0 THEN given[s.at] ELSE s.v]
                       [] s.k = "above" -> RunInit(P, c, Above(P, c, "__init__"),
                                                   [a \in DOMAIN s.args |-> given[s.args[a]]], was.fields, depth - 1)
    IN  IF depth = 0 THEN Stuck(fields) ELSE after[Len(init.body)]

NamesOf(fields) == {f.name : f \in Range(fields)}
FirstField(all, name) == all[CHOOSE i \in DOMAIN all : /\ all[i].name = name
                                                      /\ \A j \in 1 .. i - 1 : all[j].name # name]
\* without arguments: the default in the class or its direct base, or none
NearDefault(P, c, name) ==
    LET near == {i \in {1, 2} \cap DOMAIN Chain(P, c) : name \in NamesOf(OwnFields(P, Chain(P, c)[i]))}
        d == FirstField(OwnFields(P, Chain(P, c)[CHOOSE i \in near : \A j \in near : i <= j]), name).default
    IN  IF near = {} \/ d = <<>> THEN 0 ELSE d[1]
OmittedDefault(P, c, name) == FirstField(AllFields(P, c), name).default
New(P, c, args, kwargs) ==
    LET call == Construction(P, c, args, kwargs)
        given == Given(call)
        slots == Slots(call)
        names == NamesOf(StructFields(P, c))
        placeOf(f) == CHOOSE i \in DOMAIN StructFields(P, c) : StructFields(P, c)[i].name = f
        named(f) == {j \in DOMAIN kwargs : kwargs[j].name = f}
        init == P[c].methods["__init__"]
        run == RunInit(P, c, init, [p \in DOMAIN init.params |-> ValueOf(slots, init.params, given, p)],
                       [f \in names |-> 0], Deepest)
        field(f) ==
            CASE args = <<>> /\ kwargs = <<>> -> NearDefault(P, c, f)
              [] placeOf(f) <= Len(args) -> args[placeOf(f)].value
              [] named(f) # {} -> kwargs[CHOOSE j \in named(f) : TRUE].arg.value
              [] OTHER -> OmittedDefault(P, c, f)[1]
    IN  IF HasInit(P, c) THEN [class |-> c, fails |-> run.fails, fields |-> run.fields]
        ELSE [class |-> c, fails |-> <<>>, fields |-> [f \in names |-> field(f)]]

-----------------------------------------------------------------------------
(* Texts, comparisons and operators of a value in a slot of class s.       *)

Has(P, c, m) == m \in DOMAIN Resolved(P, c)
Shown(P, c) == Has(P, c, "__str__") \/ Has(P, c, "__repr__")
\* the text of a dataclass, where no method is its text
Synthesized(P, c) == P[c].dataclass /\ ~Shown(P, c)
AllFieldValues(P, o) == LET f == StructFields(P, o.class) IN [i \in DOMAIN f |-> o.fields[f[i].name]]
DataclassText(P, o) == <<-o.class>> \o AllFieldValues(P, o)

ReprAccepted(P, s) == Has(P, s, "__repr__")
    \/ (P[s].dataclass /\ DOMAIN P[s].methods \cap {"__str__", "__repr__"} = {})
StrCompiles(P, s) == IF Polymorphic(P, s) THEN \A v \in Variants(P, s) : Shown(P, v)
                     ELSE Shown(P, s) \/ Synthesized(P, s)
ReprCompiles(P, s) == ~Polymorphic(P, s) /\ (Has(P, s, "__repr__") \/ Synthesized(P, s))
StrOf(P, o) ==
    CASE Has(P, o.class, "__str__") -> RunMethod(P, o, "__str__", o)
      [] Has(P, o.class, "__repr__") -> RunMethod(P, o, "__repr__", o)
      [] OTHER -> DataclassText(P, o)
ReprOf(P, o) == IF Has(P, o.class, "__repr__") THEN RunMethod(P, o, "__repr__", o) ELSE DataclassText(P, o)

EqCompiles(P, s) == Polymorphic(P, s) => \A v \in Variants(P, s) : Has(P, v, "__eq__")
\* derived where there is no __eq__; two variants of an enum are never equal
EqualOf(P, a, b) ==
    CASE a.class # b.class -> Truth(FALSE)
      [] Has(P, a.class, "__eq__") -> RunMethod(P, a, "__eq__", b)
      [] OTHER -> Truth(a.fields = b.fields)
LessAccepted(P, s) == Has(P, s, "__lt__")
LessCompiles(P, s) == Polymorphic(P, s) =>
    \A v \in Variants(P, s) : Has(P, v, "__lt__") /\ Has(P, v, "__eq__")
\* partial_cmp of a struct, and none between two variants
PartialCmp(P, a, b) ==
    CASE a.class # b.class -> "none"
      [] RunMethod(P, a, "__lt__", b) = Truth(TRUE) -> "less"
      [] RunMethod(P, b, "__lt__", a) = Truth(TRUE) -> "greater"
      [] OTHER -> "equal"
Compared(P, op, a, b) ==
    Truth(PartialCmp(P, a, b) = IF op = "<" THEN "less" ELSE "greater")
\* `impl Add<C> for C`: an inherited one takes the base's type
AddCompiles(P, s) == ~Polymorphic(P, s) /\ Resolved(P, s)["__add__"] = s

\* x.m() of a slot: the struct's method, or the enum's arm for it
Operation(P, op, s, a, b) ==
    CASE op \in {"m", "n"} -> IF ~Has(P, s, op) THEN Refused ELSE RunMethod(P, a, op, a)
      [] op = "str" -> IF ~StrCompiles(P, s) THEN Uncompiled ELSE StrOf(P, a)
      [] op = "repr" -> IF ~ReprAccepted(P, s) THEN Refused
                        ELSE IF ~ReprCompiles(P, s) THEN Uncompiled ELSE ReprOf(P, a)
      [] op = "==" -> IF ~EqCompiles(P, s) THEN Uncompiled ELSE EqualOf(P, a, b)
      [] op \in {"<", ">"} -> IF ~LessAccepted(P, s) THEN Refused
                                         ELSE IF ~LessCompiles(P, s) THEN Uncompiled ELSE Compared(P, op, a, b)
      [] op = "+" -> IF ~Has(P, s, "__add__") THEN Refused
                     ELSE IF ~AddCompiles(P, s) THEN Uncompiled ELSE RunMethod(P, a, "__add__", b)

-----------------------------------------------------------------------------
(* Values where a base is expected, and lists of them: what is written is  *)
(* [new, class] - a construction, or a place of that class - and what is   *)
(* emitted is of a Rust type, the enum of a base or a struct, or refused.  *)

NearestCommonAncestor(P, a, b) ==
    LET shared == {i \in DOMAIN Chain(P, a) : IsSubclass(P, b, Chain(P, a)[i])}
    IN  IF shared = {} THEN 0 ELSE Chain(P, a)[CHOOSE i \in shared : \A j \in shared : i <= j]
\* unify_branch_types: 0 where the classes have nothing in common
UnifyClasses(P, a, b) ==
    CASE 0 \in {a, b} -> 0
      [] IsSubclass(P, a, b) -> b
      [] IsSubclass(P, b, a) -> a
      [] OTHER -> NearestCommonAncestor(P, a, b)
ElementClass(P, elems) == FoldLeft(LAMBDA acc, e : UnifyClasses(P, acc, e.class), elems[1].class, elems)
\* the base the elements of a list are wrapped for, or 0
list_poly_base(P, elems) == LET acc == ElementClass(P, elems) IN IF acc # 0 /\ Polymorphic(P, acc) THEN acc ELSE 0

RustType(P, c) == IF Polymorphic(P, c) THEN <<"enum", c>> ELSE <<"struct", c>>
AsWritten(P, value) == IF value.new THEN <<"struct", value.class>> ELSE RustType(P, value.class)
emit_into_base_slot(P, value, base) ==
    CASE value.new -> <<"enum", base>>
      [] Polymorphic(P, value.class) /\ value.class # base ->
            IF IsSubclass(P, value.class, base) THEN <<"refused">> ELSE AsWritten(P, value)
      [] OTHER -> <<"enum", base>>
IntoSlotOf(P, value, c) == IF Polymorphic(P, c) THEN emit_into_base_slot(P, value, c) ELSE AsWritten(P, value)
EmitList(P, elems) ==
    LET base == list_poly_base(P, elems)
    IN  {IF base = 0 THEN AsWritten(P, e) ELSE emit_into_base_slot(P, e, base) : e \in Range(elems)}

-----------------------------------------------------------------------------
(* The layout rustc gives the structs: what a class holds inline - its     *)
(* struct, or the enum of it and its subclasses - must not contain it.     *)

Boxed(type, c) == type = <<"optional", c>>
Holds(P, c) ==
    LET held(type) == UNION {Variants(P, k) : k \in InlineRefs(type)}
    IN  UNION {held(f.type) : f \in {g \in Range(AllFields(P, c)) : ~Boxed(g.type, c)}}
LayoutIsFinite(P) ==
    LET grow(from) == from \cup UNION {Holds(P, k) : k \in from}
        reached(c) == LET r[i \in 0 .. Len(P)] == IF i = 0 THEN Holds(P, c) ELSE grow(r[i - 1]) IN r[Len(P)]
    IN  \A c \in DOMAIN P : c \notin reached(c)
=============================================================================
