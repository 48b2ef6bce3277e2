------------------------------- MODULE MCBuiltins ------------------------------
(***************************************************************************)
(* The calls of built-in functions that MCValues tries, and where what     *)
(* they come to is known to differ from Python.                            *)
(***************************************************************************)
EXTENDS Builtins
LOCAL INSTANCE Functions
Py == INSTANCE PyFunctions

Seqs(S, n) == UNION {[1 .. k -> S] : k \in 0 .. n}
Of(type, S) == {Value(type, x) : x \in S}
One(S) == {<<x>> : x \in S}
Two(S, T) == {<<x, y>> : x \in S, y \in T}
None == {<<>>}

(***************************************************************************)
(* Inputs.                                                                 *)
(***************************************************************************)
Edges == {MinInt, -1, 0, 1, MaxInt}
Halves == {<<-3, 2>>, <<-1, 2>>, <<0, 1>>, <<1, 2>>, <<3, 2>>, <<5, 2>>, <<2, 1>>}
Big == <<1000, 1>>                       \* a float no number holds at this Width
BInts == Of("int", Edges \cup {2, 3, 97, 98})
BFloats == Of("float", Halves \cup {Big})
BBools == Of("bool", BOOLEAN)
BTexts == Of("str", Seqs({"a", "b"}, 2) \cup Seqs({"0", "1", " ", "-"}, 3) \cup [1 .. 8 -> {"1"}])
BBytes == Of("bytes", Seqs({"a", "b"}, 2))
BLists == Of("list_int", Seqs({1, 2, 10}, 3))
EdgeLists == Of("list_int", Seqs(Edges, 2) \cup {<<MaxInt, 1, -1>>, <<MinInt, -1, 1>>, <<255, 256>>, <<255, 0>>})
FloatLists == Of("list_float", Seqs({<<1, 2>>, <<0, 1>>, <<-3, 2>>}, 2))
BoolLists == Of("list_bool", Seqs(BOOLEAN, 3))
TextLists == Of("list_str", Seqs({<<"a">>, <<"b">>, <<>>, <<"a", "b">>}, 2))
BSets == Of("set_int", SUBSET {1, 2, 10})
BDicts == Of("dict", {<<>>, <<<<2, 1>>>>, <<<<2, 1>>, <<10, 1>>>>, <<<<10, 1>>, <<2, 2>>>>})
Optionals == Of("opt_int", {<<>>, <<1>>})
Scalars == BInts \cup BFloats \cup BBools \cup BTexts
Collections == BBytes \cup BLists \cup FloatLists \cup BoolLists \cup TextLists \cup BSets \cup BDicts
Anything == Scalars \cup Collections \cup Optionals
Keys == {<<"negate">>, <<"parity">>}
Steps == Of("int", {-3, -2, -1, 0, 1, 2})
Ends == Of("int", {MinInt, -3, 0, 2, MaxInt - 1, MaxInt})
Functions1 == Of("name", {"function", "class", "local"}) \cup Optionals \cup BBools
Classes == Of("type", TypeNames \cup {"Point"})
Lambda == Value("name", "function")

\* a set or a dict is gone through in any order
Unordered(args) == {args[i].v : i \in {i \in DOMAIN args : args[i].ty \in {"set_int"}}}
                   \cup {{e[1] : e \in Range(args[i].v)} : i \in {i \in DOMAIN args : args[i].ty = "dict"}}
Walks(args) == UNION {{w \in [1 .. Cardinality(S) -> S] : Range(w) = S} : S \in Unordered(args)}
                   \cup (IF Unordered(args) = {} THEN {<<>>} ELSE {})
Plainly(names, argLists) == [names |-> names, args |-> argLists, keys |-> None, reverses |-> None]
Keyword(names, argLists, reverses) ==
    [names |-> names, args |-> argLists, keys |-> None \cup Keys, reverses |-> reverses]
BuiltinCalls ==
    <<Plainly({"len", "str", "repr", "ascii", "list", "set", "tuple", "reversed", "type", "enumerate"}, One(Anything)),
      Plainly({"int", "float", "bool", "bytes", "abs", "round", "chr", "hex", "oct", "bin"},
              None \cup One(Scalars \cup BBytes \cup EdgeLists)),
      Plainly({"list", "set", "tuple", "str", "abs", "len", "min", "sorted", "sum", "zip"}, None),
      Plainly({"min", "max", "sum", "any", "all", "sorted"}, One(Collections \cup EdgeLists)),
      Keyword({"min", "max"}, One(Of("list_int", Seqs(1 .. 3, 3)) \cup BSets) \cup Two(BInts, BInts), None),
      Keyword({"sorted"}, One(Of("list_int", Seqs(1 .. 3, 4)) \cup TextLists \cup BSets), None \cup One(BOOLEAN)),
      Plainly({"min", "max"}, Two(Scalars, Scalars) \cup [1 .. 3 -> Of("int", {1, 2, 3})]),
      Plainly({"sum"}, Two(EdgeLists \cup FloatLists \cup BBytes, BInts \cup BFloats)),
      Plainly({"pow"}, Two(BInts \cup Of("float", Halves), Of("int", -3 .. 3) \cup BBools)),
      Plainly({"abs", "len", "chr"}, Two(BInts, BInts)),
      Plainly({"enumerate"}, Two(BLists \cup BSets \cup BBytes, BInts)),
      Plainly({"zip"}, Two(BLists \cup TextLists, BBytes \cup BoolLists) \cup [1 .. 3 -> Of("list_int", Seqs({1}, 2))]),
      Plainly({"range"}, One(Steps) \cup Two(Ends, Ends) \cup {<<a, b, s>> : a \in Ends, b \in Ends, s \in Steps}),
      Plainly({"map", "filter"}, {<<Lambda, x>> : x \in BLists \cup EdgeLists \cup BSets \cup BDicts}),
      Plainly({"ord"}, One(Of("str", Seqs({"a", "b"}, 2)))),
      Plainly({"callable"}, One(Functions1)),
      Plainly({"isinstance"}, Two(Anything, Classes))>>

(***************************************************************************)
(* Departures, each a choice of the emitted code.                          *)
(***************************************************************************)
Arg(c, i) == c.args[i]
\* a sorted text where Python has the order of insertion or of the set
SortedText(c) == c.name \in {"str", "repr", "ascii"} /\ TypeOfArg(c, 1) \in {"set_int", "dict"}
\* a HashMap keeps no order of insertion
AnyOrder(c) == c.name \in {"list", "tuple"} /\ TypeOfArg(c, 1) = "dict"
\* ascii() of a whole float leaves out its point
NoPoint(c) == c.name = "ascii" /\ TypeOfArg(c, 1) = "float"
\* names of types; True is no int, and a class of the program is any value's
ByStaticType(c) ==
    \/ c.name = "type" /\ TypeOfArg(c, 1) = "opt_int"
    \/ c.name = "isinstance" /\ \/ Arg(c, 2).v \notin TypeNames
                                \/ Arg(c, 2).v = "int" /\ TypeOfArg(c, 1) \in {"bool", "opt_int"}
    \/ c.name = "callable" /\ TypeOfArg(c, 1) = "name" /\ Arg(c, 1).v = "local"
\* tuple(xs) holds xs, set(d) the entries of d
AsOneElement(c) == Len(c.args) > 0 /\ (c.name = "tuple" \/ (c.name = "set" /\ TypeOfArg(c, 1) = "dict"))
\* floats go to a number by `as`: what has no place ends at the range's end
Clamped(c) == \/ c.name \in {"int", "round"} /\ TypeOfArg(c, 1) = "float" /\ ~Fits(RealTrunc(Arg(c, 1).v))
              \/ c.name = "int" /\ TypeOfArg(c, 1) = "str" /\ \E n \in Range(NumberIn(Arg(c, 1).v)) : ~Fits(n)
\* halves are rounded away from zero
HalfAway(c) == c.name = "round" /\ TypeOfArg(c, 1) = "float" /\ Arg(c, 1).v[2] = 2
\* pow() is computed in floats and made a number
PowAsFloat(c) ==
    /\ c.name = "pow"
    /\ LET exact == Py!PyBuiltin(c)
       IN  exact.ty # "int" \/ ~Fits(exact.v)
\* the bits of a negative number are shown as they are
TwosComplement(c) == c.name \in {"hex", "oct", "bin"} /\ Arg(c, 1).v < 0
\* ord() of anything but one character, chr() of what is none
NoOneCharacter(c) == \/ c.name = "ord" /\ Len(Arg(c, 1).v) # 1
                     \/ c.name = "chr" /\ Arg(c, 1).v \notin {97, 98}
\* the counter of a range is stepped once more than it is used; the total of
\* a sum is made before its start is added
OneTooFar(c) == \/ c.name = "range" /\ Len(c.args) = 3 /\ BuiltinResult(c).ty = "panic"
                \/ c.name = "sum" /\ BuiltinResult(c).ty = "panic"
\* the total of no floats is a float
EmptySum(c) == c.name = "sum" /\ TypeOfArg(c, 1) = "list_float" /\ Arg(c, 1).v = <<>>
\* arguments a function has no use for are dropped
Surplus(c) == Len(c.args) > BuiltinPlaces(c.name)
BuiltinDeparts(c) ==
    \/ SortedText(c) \/ AnyOrder(c) \/ NoPoint(c) \/ ByStaticType(c) \/ AsOneElement(c) \/ Clamped(c)
    \/ HalfAway(c) \/ PowAsFloat(c) \/ TwosComplement(c) \/ NoOneCharacter(c) \/ OneTooFar(c)
    \/ EmptySum(c) \/ Surplus(c)
=============================================================================
