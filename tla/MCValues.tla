------------------------------- MODULE MCValues -------------------------------
(***************************************************************************)
(* Every call of a built-in method on small values: what the program pyrst *)
(* makes of it comes to, against what Python's comes to.                   *)
(***************************************************************************)
EXTENDS Methods, MCBuiltins
LOCAL INSTANCE Functions

VARIABLES case, result

Words == Seqs({"a", "b"}, 3)
Short == Seqs({"a", "b"}, 2)
Tiny == Seqs({"a"}, 2)
Spaced == Seqs({"a", " ", "-"}, 3)
Odd == Seqs({"a", "B", "0"}, 2) \cup Seqs({"han", "half", "A", " "}, 2) \cup Seqs({"a", "A", " ", "-"}, 3)
Lined == Seqs({"a", "\n", "\r"}, 3)
Tabbed == Seqs({"a", "\t", "\n"}, 3)
Figures == Seqs({"-", "0"}, 3)
Widths == {-2, 0, 1, 2, 4, 5}
Fills == {<<"b">>, <<>>, <<"a", "b">>}
Numbers == Seqs({1, 2}, 3)
Indexes == -5 .. 5
Entries == UNION {[1 .. k -> {1, 2} \X {1, 2}] : k \in 0 .. 2}
Dicts == {d \in Entries : \A i, j \in DOMAIN d : d[i][1] = d[j][1] => i = j}

Calls(recvs, names, args) == [recv : recvs, name : names, args : args]

TextCalls(type) ==
       Calls(Of(type, Words), {"split", "rsplit"},
             One(Short) \cup (IF type = "str" THEN Two({<<"a">>, <<"a", "a">>, <<"b">>}, {-1, 0, 1, 2}) ELSE {}))
  \cup Calls(Of(type, Seqs({"a", "b"}, 4)), {"split", "rsplit", "count"}, One({<<"a", "a">>, <<"a", "b">>, <<"b">>}))
  \cup Calls(Of(type, Spaced), {"split"} \cup (IF type = "bytes" THEN {"rsplit"} ELSE {}), None)
  \cup Calls(Of(type, Words), {"replace"}, Two(Short, {<<>>, <<"b">>, <<"a", "a">>}))
  \cup Calls(Of(type, Words), {"find", "rfind", "index", "rindex", "startswith", "endswith", "count"}, One(Short))
  \cup Calls(Of(type, Spaced), {"strip", "lstrip", "rstrip"},
             None \cup One({<<>>, <<"a">>, <<"-", "a">>}))
  \cup Calls(Of(type, Short), {"join"}, One(Seqs(Short, 2) \cup [1 .. 3 -> {<<"a">>}]))
  \cup Calls(Of(type, Short), {"ljust", "rjust", "center"}, One(Widths) \cup Two(Widths, Fills))
  \cup Calls(Of(type, Figures), {"zfill"}, One(Widths))
  \cup Calls(Of(type, Spaced \cup IF type = "str" THEN Odd ELSE Seqs({"a", "B", "0"}, 2)), {"upper", "lower", "isdigit", "isalpha", "isalnum", "isspace"}, None)
StrCalls ==
       TextCalls("str")
  \cup Calls(Of("str", Words), {"partition", "rpartition", "removeprefix", "removesuffix"}, One(Short))
  \cup Calls(Of("str", Words), {"find", "rfind", "startswith", "endswith"}, Two(Tiny, {-1, 0, 1, 3}))
  \cup Calls(Of("str", Words), {"replace"}, {<<x, <<"b">>, n>> : x \in Tiny, n \in {-1, 0, 1}})
  \cup Calls(Of("str", Odd), {"title", "istitle", "capitalize", "swapcase", "casefold", "isupper",
                              "islower", "isidentifier", "isnumeric", "isprintable"}, None)
  \cup Calls(Of("str", Lined), {"splitlines", "isprintable"}, None)
  \cup Calls(Of("str", Tabbed), {"expandtabs"}, None \cup One({-1, 0, 2, 3}))
ContainerCalls ==
       Calls(Of("list_int", Numbers), {"append", "remove", "index", "count"}, One({1, 2}))
  \cup Calls(Of("list_int", Numbers), {"index"}, Two({1, 2}, {-1, 0, 1, 3}))
  \cup Calls(Of("list_int", Numbers), {"pop"}, None \cup One(Indexes))
  \cup Calls(Of("list_int", Numbers), {"insert"}, Two(Indexes, {1, 2}))
  \cup Calls(Of("list_int", Numbers), {"extend"}, One(Numbers))
  \cup Calls(Of("list_int", Seqs(1 .. 3, 3)), {"sort"}, None \cup One(BOOLEAN))
  \cup Calls(Of("list_int", Numbers), {"reverse", "clear", "copy"}, None)
  \cup Calls(Of("set_int", SUBSET (1 .. 3)), {"add", "discard", "remove"}, One(1 .. 3))
  \cup Calls(Of("set_int", SUBSET (1 .. 3)), {"update", "union", "intersection", "difference",
             "symmetric_difference", "issubset", "issuperset", "isdisjoint"}, One(SUBSET (1 .. 3)))
  \cup Calls(Of("set_int", SUBSET (1 .. 3)), {"clear", "copy"}, None)
  \cup Calls(Of("dict", Dicts), {"get", "pop"}, One({1, 2}) \cup Two({1, 2}, {0}))
  \cup Calls(Of("dict", Dicts), {"keys", "values", "items", "clear", "copy"}, None)
  \cup Calls(Of("dict", Dicts), {"update"}, One(Dicts))
Accepted(c) == CallAccepted(c.recv.ty, c.name, Len(c.args))

\* operands of every type, with the ends of the range among the numbers
Ints == {MinInt, -3, -2, -1, 0, 1, 2, 3, 9, MaxInt}
ASSUME InputsFit == \A n \in Ints : Fits(n)
Reals == {<<0, 1>>, <<1, 2>>, <<-3, 2>>, <<2, 1>>}
Plain == Of("int", Ints) \cup Of("float", Reals) \cup Of("bool", BOOLEAN)
Texts == Seqs({"a", "b"}, 2) \cup {<<"a", "b", "a">>}
Options == Of("opt_int", {<<>>, <<1>>})
Operands == [number |-> Plain, text |-> Of("str", Texts), octets |-> Of("bytes", Texts),
             list |-> Of("list_int", Seqs({1, 2}, 2)), set |-> Of("set_int", SUBSET (1 .. 2)),
             dict |-> Of("dict", {<<>>, <<<<1, 2>>>>}), optional |-> Options]
Kinds == DOMAIN Operands
\* the reference computes powers and shifts in numbers of a bounded size
Small(op, l, r) ==
    op \in {"**", "<<", ">>"} =>
        /\ l.ty \in {"int", "float", "bool"} /\ r.ty \in {"int", "float", "bool"}
        /\ IF r.ty = "float" THEN r.v[2] = 1 /\ op = "**" ELSE TRUE
        /\ r.ty = "int" => r.v \in -3 .. 3 \/ (r.v = 9 /\ l.ty = "int" /\ l.v \in -3 .. 3)

Idle == [out |-> Value("idle", "idle"), after |-> <<>>, order |-> <<>>, checked |-> "idle", oracle |-> "idle"]
Init == case = [kind |-> "none"] /\ result = Idle
Comes(kind, c, out, after, order, checked, oracle) ==
    /\ checked # "refused"
    /\ out.ty # "refused"
    /\ case' = [kind |-> kind, of |-> c]
    /\ result' = [out |-> out, after |-> after, order |-> order, checked |-> checked, oracle |-> oracle]

CallMethod(calls) ==
    \E c \in calls :
        LET e == Emitted(c.recv, c.name, c.args)
            t == MethodReturns(c.recv.ty, c.name, Len(c.args))
        IN  Accepted(c) /\ Comes("method", c, e.out, e.after, OperandOrder(c.recv, c.name, c.args), t, t)
TryBinary(op, l, r, written) ==
    Comes("binary", [op |-> op, left |-> l, right |-> r, written |-> written],
          BinaryResult(op, l, r, written), <<>>, BinaryOrder(op, l, r),
          BinaryType(op, l.ty, r.ty, written = "negative"),
          BinaryOracle(op, l.ty, r.ty, written = "negative"))
ApplyBinary ==
    \E a, b \in Kinds, op \in BinaryOps : \E l \in Operands[a], r \in Operands[b] :
    \E written \in {"variable", "literal", "negative"} :
        /\ written = "literal" => l.ty = "int" /\ r.ty = "int"
        /\ written = "negative" => r.ty = "int" /\ r.v < 0
        /\ Small(op, l, r)
        /\ TryBinary(op, l, r, written)
\* exponents at the end of an `as u32`
ApplyPower == \E a \in {-1, 0, 1, 2}, b \in {15, 16, 17} : TryBinary("**", Int64(a), Int64(b), "variable")
ApplyUnary ==
    \E a \in Kinds, op \in UnaryOps : \E x \in Operands[a] :
        Comes("unary", [op |-> op, right |-> x], UnaryResult(op, x), <<>>, <<>>,
              UnaryType(op, x.ty), UnaryOracle(op, x.ty))
TakeItem ==
    \E a \in {"text", "octets", "list", "dict"} : \E obj \in Operands[a], i \in -4 .. 4 :
        Comes("item", [obj |-> obj, i |-> i], IndexResult(obj, i), <<>>, IndexOrder(obj, i),
              IndexType(obj.ty), IndexOracle(obj.ty))
TakeSlice ==
    \E a \in {"text", "octets", "list"} : \E obj \in Operands[a] :
    \E start, stop, step \in {<<>>} \cup {<<i>> : i \in -4 .. 4} :
        Comes("slice", [obj |-> obj, start |-> start, stop |-> stop, step |-> step],
              SliceResult(obj, start, stop, step), <<>>, <<>>,
              SliceType(obj.ty, {"int"}), SliceOracle(obj.ty))
CallBuiltin ==
    \E i \in DOMAIN BuiltinCalls : LET b == BuiltinCalls[i] IN
    \E name \in b.names, args \in b.args, key \in b.keys, reverse \in b.reverses :
    \E walk \in Walks(args) :
        LET c == [name |-> name, args |-> args, key |-> key, reverse |-> reverse, walk |-> walk]
        IN  /\ BuiltinAccepted(c)
            /\ BuiltinCompiles(c)
            /\ Comes("builtin", c, BuiltinResult(c), <<>>, BuiltinOrder(c), BuiltinType(c), BuiltinOracle(c))
Next == /\ case.kind = "none"
        /\ \/ CallMethod(StrCalls) \/ CallMethod(TextCalls("bytes")) \/ CallMethod(ContainerCalls)
           \/ ApplyBinary \/ ApplyPower \/ ApplyUnary \/ TakeItem \/ TakeSlice \/ CallBuiltin
Spec == Init /\ [][Next]_<<case, result>>

Same(a, b) == a.ty = b.ty /\ a.v = b.v
\* a number Python has and an i64 has not ends the program
TooWide(a, b) ==
    /\ a.ty = "panic"
    /\ \/ b.ty = "int" /\ ~Fits(b.v)
       \/ b.ty = "list_int" /\ \E n \in Range(b.v) : ~Fits(n)
       \/ b.ty = "list_pairs" /\ \E pair \in Range(b.v) : ~Fits(pair[1])
Agrees(a, b) == Same(a, b) \/ TooWide(a, b)

(***************************************************************************)
(* Where the two are known to differ, each a choice of the emitted code.   *)
(***************************************************************************)
\* arguments beyond those the emission has a place for are dropped
Dropped(c) == Len(c.args) > PlacesFor(c.recv.ty, c.name)
\* Rust takes an empty separator as a match between all characters
EmptyNeedle(c) == /\ c.recv.ty = "str" /\ c.name \in {"split", "rsplit", "partition", "rpartition", "count"}
                  /\ c.args # <<>> /\ c.args[1] = <<>>
\* rsplit without a limit is split, which takes overlapping matches from the left
Overlaps(s, sep) == \E i, j \in Starts(s, sep) : i < j /\ j < i + Len(sep)
FromTheLeft(c) == /\ c.name = "rsplit" /\ c.args # <<>> /\ Overlaps(c.recv.v, c.args[1])
                  /\ (Len(c.args) = 2 => c.args[2] < 0)
\* a negative width, and an index past the list, is a number no memory holds
OutOfRange(c) ==
    \/ c.recv.ty = "str" /\ c.name \in {"zfill", "ljust", "rjust", "center"} /\ c.args[1] < 0
    \/ c.name = "insert" /\ c.args[1] \notin 0 .. Len(c.recv.v)
    \/ c.recv.ty = "list_int" /\ c.name = "pop" /\ c.args # <<>> /\ ~InList(Len(c.recv.v), c.args[1])
\* title() knows words by the blanks between them, and puts one blank back
Titled(s) == \A k \in DOMAIN s : \/ s[k] \in Py!Cased
                                 \/ s[k] = " " /\ k \in 2 .. Len(s) - 1 /\ s[k + 1] # " "
\* Rust's classes of characters, and its line ends, are not Python's
OtherClasses(c) ==
    \/ c.name \in {"isdigit", "isidentifier"} /\ "half" \in Range(c.recv.v)
    \/ c.name \in {"isupper", "islower"} /\ "han" \in Range(c.recv.v)
    \/ c.name = "title" /\ ~Titled(c.recv.v)
    \/ c.name = "splitlines" /\ \E k \in DOMAIN c.recv.v :
           c.recv.v[k] = "\r" /\ (k < Len(c.recv.v) => c.recv.v[k + 1] # "\n")
QuietRemove(c) == c.recv.ty = "set_int" /\ c.name = "remove" /\ c.args[1] \notin c.recv.v
MethodDeparts(c) == \/ Dropped(c) \/ EmptyNeedle(c) \/ FromTheLeft(c) \/ OutOfRange(c)
                    \/ OtherClasses(c) \/ QuietRemove(c)

\* floats divide by zero as IEEE has it; powers below 0 are refused or infinite
NoExact(c) == LET zero(x) == x.ty \in NumberTypes /\ AsReal(x)[1] = 0
                  below == c.right.ty \in NumberTypes /\ AsReal(c.right)[1] < 0
              IN  \/ c.op = "/" /\ zero(c.right)
                  \/ c.op = "//" /\ "float" \in {c.left.ty, c.right.ty} /\ zero(c.right)
                  \/ c.op = "**" /\ below /\ (zero(c.left) \/ (c.left.ty = "int" /\ c.written # "negative"))
\* the ends of an i64: literals fold without a check, << drops bits
PastTheEnds(c) == LET a == Py!PyBinary(c.op, c.left, c.right)
                  IN  \/ c.written = "literal" /\ a.ty = "int" /\ ~Fits(a.v)
                      \/ c.op = "<<" /\ (a.ty = "int" => ~Fits(a.v))
                      \/ c.op \in {"<<", ">>"} /\ c.right.v \notin 0 .. Width - 1
                      \/ c.op = "**" /\ c.right.ty = "int" /\ c.right.v >= 2^(Width \div 2)
                      \/ c.op = "%" /\ c.left.ty = "int" /\ c.right.ty = "int" /\ DivOverflows(c.left.v, c.right.v)
\* a list repeated fewer than no times is a capacity no memory has
FewerThanNone(c) == /\ c.op = "*" /\ "list_int" \in {c.left.ty, c.right.ty}
                    /\ \E x \in {c.left, c.right} : x.ty = "int" /\ x.v < 0
\* Python refuses operands the generated program formats or converts
RefusedByPython(a) == a.ty = "raise" /\ a.v = "TypeError"
BinaryDeparts(c) == NoExact(c) \/ PastTheEnds(c) \/ FewerThanNone(c)
\* & | ^ ~ of bools are Rust's: they stay bools, where the checker says int
BoolBits(c) == c.op \in {"&", "|", "^", "invert"} /\ c.right.ty = "bool"
UnaryDeparts(c) == BoolBits(c)
WholeNumbers(c) == c.left.ty = "int" /\ c.right.ty = "int" /\ c.op \in Arithmetic \cup Comparisons

\* an operand in a closure or a loop runs for every element; the missing key
\* is looked at again; a text's test and a short circuit decide as they go
Rescanned == \/ case.kind = "method" /\ \/ case.of.recv.ty = "list_int" /\ case.of.name \in {"count", "index", "remove"}
                                        \/ case.of.recv.ty = "str" /\ result.out.ty = "bool"
             \/ case.kind = "binary" /\ \/ case.of.op \in {"and", "or", "&"} \cup Identity
                                        \/ case.of.op \in Memberships /\ case.of.right.ty = "list_int"
                                        \/ case.of.op = "*" /\ "list_int" \in {case.of.left.ty, case.of.right.ty}
             \/ case.kind = "item" /\ result.out.ty = "raise"
\* the emitted Rust has the operands the other way round
TurnedRound == \/ case.kind = "method" /\ case.of.recv.ty = "str"
                    /\ case.of.name \in {"join", "zfill", "ljust", "rjust", "center"}
               \/ case.kind = "binary" /\ case.of.op \in Memberships \cup {"*"}
               \/ case.kind = "builtin" /\ case.of.name \in {"enumerate", "sum", "map", "filter"}

(***************************************************************************)
(* Properties.                                                             *)
(***************************************************************************)
MethodAnswer == Py!PyMethod(case.of.recv, case.of.name, case.of.args)
\* The methods of str, bytes, list, set and dict, and the built-in functions.
CallsAgree ==
    /\ case.kind = "method" /\ ~MethodDeparts(case.of) =>
           Same(result.out, MethodAnswer.out) /\ result.after = MethodAnswer.after
    /\ case.kind = "builtin" /\ ~BuiltinDeparts(case.of) => Agrees(result.out, Py!PyBuiltin(case.of))

\* The operators on every pair of types the checker and rustc let through.
OperatorsAgree ==
    /\ case.kind = "binary" /\ ~WholeNumbers(case.of) /\ ~BinaryDeparts(case.of) =>
           LET c == case.of
               answer == Py!PyBinary(c.op, c.left, c.right)
           IN  Agrees(result.out, answer) \/ RefusedByPython(answer)
    /\ case.kind = "unary" /\ ~UnaryDeparts(case.of) =>
           Agrees(result.out, Py!PyUnary(case.of.op, case.of.right))

\* Every method and built-in function that the checker lets through comes to
\* what Python's does - the value, the exception and what becomes of the
\* receiver - whichever way a set is gone through, with a key and reversed, at
\* the ends of the numbers and on empty collections; and so does every
\* operator, or the program ends where Python's number does not fit an i64:
\* powers, bits, mixed floats, `and`, chained sequences and set algebra among
\* them.  The departures are named above and in MCBuiltins.
OperationsAgree == CallsAgree /\ OperatorsAgree

\* Arithmetic and comparisons of two whole numbers of any signs.
IntegersAgree ==
    case.kind = "binary" /\ WholeNumbers(case.of) /\ ~BinaryDeparts(case.of) =>
        Agrees(result.out, Py!PyBinary(case.of.op, case.of.left, case.of.right))
\* An index of either sign into a text, bytes or a list, and a key of a dict.
ItemsAgree ==
    case.kind = "item" => Same(result.out, Py!PyIndex(case.of.obj, case.of.i))
\* A slice with bounds and a step of either sign, or left out.
SlicesAgree ==
    case.kind = "slice" =>
        LET c == case.of IN Same(result.out, Py!PySlice(c.obj, c.start, c.stop, c.step))

\* What whole numbers count is counted as Python counts it: sums, products and
\* comparisons in the machine's checked arithmetic or folded as literals, the
\* quotient and the remainder in the corrections __py_floordiv and __py_mod
\* make, the item an index takes, and the items a slice takes, with any signs,
\* at the ends and on empty collections.  It fails where Python's fails, and
\* ends the program where Python's number does not fit an i64.
NumbersAgree == IntegersAgree /\ ItemsAgree /\ SlicesAgree

\* The checker and the code generator find the type of an expression each in
\* its own way; where both name one it is the same, and it is the type of
\* what comes out.  (What Python refuses, and bits of bools, are left out.)
ListTypes == Lists \cup {"list_pairs", "list_tuples", "list_bytes"}
Is(o, type) == \/ type \in {"unknown", o.ty} \/ Fails(o)
               \/ type = "opt_int" /\ o.ty \in {"int", "none"}
               \/ type = "list" /\ o.ty \in ListTypes
Meets(t, u) == t = u \/ "unknown" \in {t, u} \/ (t = "list" /\ u \in ListTypes)
TypesPredicted ==
    LET c == case.of
    IN  \/ case.kind = "none"
        \/ case.kind = "binary" /\ (BoolBits(c) \/ RefusedByPython(Py!PyBinary(c.op, c.left, c.right)))
        \/ case.kind = "unary" /\ BoolBits(c)
        \/ case.kind = "builtin" /\ AsOneElement(c)
        \/ /\ Is(result.out, result.checked)
           /\ Is(result.out, result.oracle)
           /\ Meets(result.checked, result.oracle)

\* Every operand is evaluated once, from left to right, as Python does,
\* outside the loops and turned-round forms named above: the receiver of a
\* call and its arguments, and both sides of an operator.
Once(order) == \/ \E n \in 0 .. 3 : order = SubSeq(<<"receiver", "first", "second">>, 1, n)
               \/ order = <<"left", "right">>
OperandsOnce ==
    /\ case.kind \in {"method", "binary", "item"} /\ ~Rescanned /\ ~TurnedRound => Once(result.order)
    /\ case.kind = "builtin" /\ ~Surplus(case.of) /\ ~TurnedRound =>
           result.order = SubSeq(Ordinal, 1, Len(case.of.args))
=============================================================================
