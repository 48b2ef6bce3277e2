------------------------------ MODULE PyFunctions -----------------------------
(***************************************************************************)
(* What Python's built-in functions come to on the values of PyObjects:    *)
(* the reference for Builtins.  A call is [name, args, key, reverse, walk]; *)
(* `walk` is the order in which a set among the arguments is gone through, *)
(* which Python leaves open too.                                           *)
(***************************************************************************)
EXTENDS PyObjects
LOCAL INSTANCE SequencesExt

Lists1 == [list_int |-> "int", list_float |-> "float", list_bool |-> "bool", list_str |-> "str"]
IsList(t) == t \in DOMAIN Lists1
Items(x, walk) ==
    CASE x.ty = "set_int" -> [k \in DOMAIN walk |-> Int64(walk[k])]
      [] x.ty = "dict" -> [k \in DOMAIN x.v |-> Int64(x.v[k][1])]
      [] x.ty = "str" -> [k \in DOMAIN x.v |-> Text(<<x.v[k]>>)]
      [] x.ty = "bytes" -> [k \in DOMAIN x.v |-> Int64(Code(x.v[k]))]
      [] OTHER -> [k \in DOMAIN x.v |-> Value(Lists1[x.ty], x.v[k])]
Payload(items) == [k \in DOMAIN items |-> items[k].v]
ListFor(x) == IF IsList(x.ty) THEN x.ty ELSE IF x.ty = "str" THEN "list_str" ELSE "list_int"

PyKey(key, x) == CASE key = <<>> -> x
                   [] key[1] = "negate" -> Int64(-x.v)
                   [] key[1] = "parity" -> Int64(x.v % 2)
\* min keeps the first of equals, and so does max
PyExtreme(items, key, name) ==
    LET beats(a, b) == IF name = "min" THEN PyLess(PyKey(key, a), PyKey(key, b))
                                       ELSE PyLess(PyKey(key, b), PyKey(key, a))
        best == {i \in DOMAIN items : \A j \in DOMAIN items : ~beats(items[j], items[i])}
    IN  IF items = <<>> THEN Raise("ValueError") ELSE items[First(best)]
\* the order of the keys, and of the places where keys are equal; reverse
\* keeps equals in their order
PySorted(items, key, reverse) ==
    LET before(i, j) == LET a == PyKey(key, items[i])
                            b == PyKey(key, items[j])
                        IN  \/ IF reverse THEN PyLess(b, a) ELSE PyLess(a, b)
                            \/ i < j /\ ~PyLess(a, b) /\ ~PyLess(b, a)
        order == SetToSortSeq(DOMAIN items, before)
    IN  [k \in DOMAIN order |-> items[order[k]]]
PySum(items, start) ==
    LET upto[k \in 0 .. Len(items)] ==
            IF k = 0 THEN start ELSE PyArithmetic("+", upto[k - 1], items[k])
    IN  upto[Len(items)]

\* the whole number nearest x, the even one of two
HalfEven(x) ==
    LET low == RealFloor(x)[1]
        twice == 2 * (x[1] - low * x[2])
    IN  IF twice < x[2] \/ (twice = x[2] /\ low % 2 = 0) THEN low ELSE low + 1
PyParse(s) ==
    LET w == PyStrip(s, LAMBDA ch : ch \in Blank \cup {"\r"}, TRUE, TRUE)
        digits == IF w # <<>> /\ w[1] \in {"+", "-"} THEN Tail(w) ELSE w
        value[k \in 0 .. Len(digits)] ==
            IF k = 0 THEN 0 ELSE 10 * value[k - 1] + (IF digits[k] = "1" THEN 1 ELSE 0)
    IN  IF ~All(digits, Digits) THEN <<>>
        ELSE <<IF w[1] = "-" THEN -value[Len(digits)] ELSE value[Len(digits)]>>

\* a text is the sequence of its tokens; entries in the order they were put in
Word(s) == <<<<"mark", s>>>>
Listed(open, parts, close) == Word(open) \o Joined(parts, Word(", ")) \o Word(close)
PyRepr(x, walk) ==
    LET one(y) == CASE y.ty = "bool" -> Word(IF y.v THEN "True" ELSE "False")
                    [] y.ty = "str" -> <<<<"quoted", y.v>>>>
                    [] y.ty = "bytes" -> <<<<"octets", y.v>>>>
                    [] OTHER -> <<<<y.ty, y.v>>>>
        all == Items(x, walk)
    IN  CASE x.ty = "opt_int" -> IF x.v = <<>> THEN Word("None") ELSE <<<<"int", x.v[1]>>>>
          [] IsList(x.ty) -> Listed("[", [k \in DOMAIN all |-> one(all[k])], "]")
          [] x.ty = "set_int" -> IF x.v = {} THEN Word("set()")
                                 ELSE Listed("{", [k \in DOMAIN all |-> one(all[k])], "}")
          [] x.ty = "dict" -> Listed("{", [k \in DOMAIN x.v |->
                 <<<<"int", x.v[k][1]>>>> \o Word(": ") \o <<<<"int", x.v[k][2]>>>>], "}")
          [] OTHER -> one(x)
Printed(tokens) == Value("str", tokens)
PyTypeName(x) == CASE IsList(x.ty) -> "list" [] x.ty = "set_int" -> "set"
                   [] x.ty = "opt_int" -> (IF x.v = <<>> THEN "NoneType" ELSE "int")
                   [] OTHER -> x.ty
PyIsInstance(x, class) == PyTypeName(x) = class \/ (x.ty = "bool" /\ class = "int")

PyConversion(c) ==
    LET x == c.args[1]
        n == PyParse(x.v)
    IN  CASE c.name = "int" /\ c.args = <<>> -> Int64(0)
          [] c.name = "int" /\ x.ty = "str" -> IF n = <<>> THEN Raise("ValueError") ELSE Int64(n[1])
          [] c.name = "int" -> Int64(IF x.ty = "float" THEN RealTrunc(x.v) ELSE Whole1(x))
          [] c.name = "float" /\ c.args = <<>> -> Float(<<0, 1>>)
          [] c.name = "float" /\ x.ty = "str" -> IF n = <<>> THEN Raise("ValueError") ELSE Float(<<n[1], 1>>)
          [] c.name = "float" -> Float(Real(x))
          [] c.name = "bool" -> Truth(c.args # <<>> /\ x.v # 0)
          [] c.name = "bytes" /\ c.args = <<>> -> Octets(<<>>)
          [] c.name = "bytes" /\ x.ty = "int" ->
                 IF x.v < 0 THEN Raise("ValueError") ELSE Octets(Copies("nul", x.v))
          [] c.name = "bytes" /\ x.ty = "bytes" -> x
          [] c.name = "bytes" -> IF \A k \in DOMAIN x.v : x.v[k] \in ByteRange THEN Octets(x.v)
                                 ELSE Raise("ValueError")
          [] c.name = "str" /\ c.args = <<>> -> Printed(<<<<"bare", <<>>>>>>)
          [] c.name = "str" /\ x.ty = "str" -> Printed(<<<<"bare", x.v>>>>)
          [] c.name \in {"str", "repr", "ascii"} -> Printed(PyRepr(x, c.walk))
          [] c.name = "list" -> IF c.args = <<>> THEN Value("list_int", <<>>)
                                ELSE Value(ListFor(x), Payload(Items(x, c.walk)))
          [] c.name = "tuple" -> Value("tuple", IF c.args = <<>> THEN <<>> ELSE Payload(Items(x, c.walk)))
          [] c.name = "set" -> Value("set_int", IF c.args = <<>> THEN {} ELSE ToSet(Payload(Items(x, c.walk))))

PyNumeric(c) ==
    LET x == c.args[1]
    IN  CASE c.name = "abs" -> IF x.ty = "int" THEN Int64(Magnitude(x.v)) ELSE Float(<<Magnitude(x.v[1]), x.v[2]>>)
          [] c.name = "round" -> Int64(HalfEven(Real(x)))
          [] c.name = "pow" -> PyArithmetic("**", x, c.args[2])
          [] c.name = "chr" -> IF x.v \in {97, 98} THEN Text(IF x.v = 97 THEN <<"a">> ELSE <<"b">>)
                               ELSE Raise("ValueError")
          [] c.name = "ord" -> IF Len(x.v) = 1 THEN Int64(Code(x.v[1])) ELSE TypeError
          [] c.name \in {"hex", "oct", "bin"} -> Value("str", <<<<c.name, x.v>>>>)

\* the multiples of step from start before stop
PyRange(start, stop, step) ==
    LET most == Magnitude(stop - start)
        inside == {k \in 0 .. most : IF step > 0 THEN start + k * step < stop ELSE start + k * step > stop}
    IN  IF step = 0 THEN Raise("ValueError")
        ELSE Value("list_int", [k \in 1 .. Cardinality(inside) |-> start + (k - 1) * step])
PyIteration(c) ==
    LET its == [i \in DOMAIN c.args |-> Items(c.args[i], c.walk)]
        arg(i, default) == IF i \in DOMAIN c.args THEN c.args[i].v ELSE default
    IN  CASE c.name = "range" -> (CASE Len(c.args) = 1 -> PyRange(0, c.args[1].v, 1)
                                    [] OTHER -> PyRange(c.args[1].v, c.args[2].v, arg(3, 1)))
          [] c.name = "len" -> Int64(Len(Items(c.args[1], c.walk)))
          [] c.name = "enumerate" -> LET s == Payload(Items(c.args[1], c.walk))
                                     IN  Value("list_pairs", [k \in DOMAIN s |-> <<arg(2, 0) + k - 1, s[k]>>])
          [] c.name = "zip" -> LET n == CHOOSE n \in {Len(its[i]) : i \in DOMAIN its} :
                                            \A i \in DOMAIN its : n <= Len(its[i])
                               IN  Value("list_tuples", [k \in 1 .. n |-> [i \in DOMAIN its |-> its[i][k].v]])
          [] c.name = "any" -> Truth(\E k \in DOMAIN c.args[1].v : c.args[1].v[k])
          [] c.name = "all" -> Truth(\A k \in DOMAIN c.args[1].v : c.args[1].v[k])
          [] c.name = "reversed" -> Value(ListFor(c.args[1]), Reversed(Payload(Items(c.args[1], c.walk))))
          [] c.name = "map" -> LET s == Payload(Items(c.args[2], c.walk))
                               IN  Value("list_int", [k \in DOMAIN s |-> s[k] + 1])
          [] c.name = "filter" -> LET s == Payload(Items(c.args[2], c.walk))
                                  IN  Value("list_int", SelectSeq(s, LAMBDA n : n % 2 = 0))

PyBuiltin(c) ==
    LET x == c.args[1]
        items == IF Len(c.args) = 1 THEN Items(x, c.walk) ELSE c.args
    IN  CASE c.name \in {"min", "max"} -> PyExtreme(items, c.key, c.name)
          [] c.name = "sorted" -> Value(ListFor(x), Payload(PySorted(items, c.key, c.reverse = <<TRUE>>)))
          [] c.name = "sum" -> PySum(Items(x, c.walk), IF Len(c.args) = 2 THEN c.args[2] ELSE Int64(0))
          [] c.name \in {"int", "float", "bool", "bytes", "str", "repr", "ascii", "list", "set", "tuple"} -> PyConversion(c)
          [] c.name \in {"abs", "round", "pow", "chr", "ord", "hex", "oct", "bin"} -> PyNumeric(c)
          [] c.name = "isinstance" -> Truth(PyIsInstance(x, c.args[2].v))
          [] c.name = "type" -> Printed(Word(PyTypeName(x)))
          [] c.name = "callable" -> Truth(x.ty = "name")
          [] OTHER -> PyIteration(c)
=============================================================================
