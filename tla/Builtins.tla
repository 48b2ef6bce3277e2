-------------------------------- MODULE Builtins -------------------------------
(***************************************************************************)
(* Calls of the built-in functions: which ones the checker lets through    *)
(* and with what type (typeck/exprs.rs, the table of typeck/types.rs), the *)
(* type the code generator takes the call to have (infer_expr_ty), and     *)
(* what the Rust emitted for it computes (emit_builtin_call in             *)
(* codegen/exprs.rs).                                                      *)
(*                                                                         *)
(* A call is [name, args, key, reverse, walk]: the arguments with their    *)
(* static types, the keyword arguments (<<>> where absent), and the order  *)
(* in which a HashSet or HashMap among the arguments is gone through.      *)
(***************************************************************************)
EXTENDS Operators
LOCAL INSTANCE SequencesExt

Lists == {"list_int", "list_float", "list_bool", "list_str"}
ElementOf(t) == CASE t \in {"list_int", "set_int"} -> "int" [] t = "list_float" -> "float"
                  [] t = "list_bool" -> "bool" [] t = "list_str" -> "str" [] OTHER -> "unknown"
ListOf(t) == CASE t = "int" -> "list_int" [] t = "float" -> "list_float" [] t = "bool" -> "list_bool"
               [] t = "str" -> "list_str" [] OTHER -> "list"
TypeOfArg(c, i) == IF i <= Len(c.args) THEN c.args[i].ty ELSE "absent"
Keywords(c) == (IF c.key = <<>> THEN {} ELSE {"key"}) \cup (IF c.reverse = <<>> THEN {} ELSE {"reverse"})

(***************************************************************************)
(* The checker.                                                            *)
(***************************************************************************)
Variadic == {"range", "len", "str", "int", "float", "bool", "enumerate", "zip", "abs", "min", "max",
             "sorted", "sum", "list", "tuple", "set", "bytes"}
Unary == {"any", "all", "round", "chr", "ord", "reversed", "type", "hex", "oct", "bin", "callable",
          "repr", "ascii"}
Binary == {"pow", "map", "filter", "isinstance"}
Builtins == Variadic \cup Unary \cup Binary
\* a signature without defaults requires nothing: only its length is a bound
MostArgs(name) == CASE name \in Unary -> 1 [] name \in Binary -> 2
                    [] name = "zip" -> 4 [] name = "sum" -> 2 [] name = "int" -> 1 [] OTHER -> 99
LeastArgs(name) == CASE name \in {"pow", "map", "filter"} -> 2
                     [] name \in {"abs", "len", "ord", "chr", "hex", "oct", "bin", "any", "all", "round",
                                  "sum", "sorted", "reversed", "min", "max"} -> 1
                     [] OTHER -> 0
Modeled(name) == CASE name = "sorted" -> {"key", "reverse"} [] name \in {"min", "max"} -> {"key"}
                   [] OTHER -> {}
\* the declared parameter types that are not unknown
Demanded(name) == CASE name \in {"chr", "hex", "oct", "bin"} -> {"int"} [] name = "ord" -> {"str"}
                    [] OTHER -> {}
BuiltinAccepted(c) ==
    /\ c.name \in Builtins
    /\ Len(c.args) \in LeastArgs(c.name) .. MostArgs(c.name)
    /\ Keywords(c) \subseteq Modeled(c.name)
    /\ c.name \in {"min", "max"} /\ c.key # <<>> => Len(c.args) = 1
    /\ Demanded(c.name) # {} => \A i \in DOMAIN c.args : c.args[i].ty \in Demanded(c.name)

\* the type of a call, where the table or a rule of its own names one
BuiltinType(c) ==
    LET t == TypeOfArg(c, 1)
    IN  CASE c.name \in {"min", "max"} -> IF Len(c.args) = 1 THEN ElementOf(t) ELSE t
          [] c.name = "enumerate" -> IF t = "str" \/ ElementOf(t) # "unknown" THEN "list_pairs" ELSE "unknown"
          [] c.name = "zip" -> IF c.args # <<>> /\ \A i \in DOMAIN c.args :
                                      c.args[i].ty = "str" \/ ElementOf(c.args[i].ty) # "unknown"
                               THEN "list_tuples" ELSE "unknown"
          [] c.name = "map" -> IF TypeOfArg(c, 2) \in Lists THEN "list" ELSE "unknown"
          [] c.name = "filter" -> IF TypeOfArg(c, 2) \in Lists THEN TypeOfArg(c, 2) ELSE "unknown"
          [] c.name = "range" -> "list_int"
          [] c.name \in {"len", "int", "round", "pow", "ord"} -> "int"
          [] c.name \in {"str", "chr", "type", "hex", "oct", "bin", "repr", "ascii"} -> "str"
          [] c.name = "float" -> "float"
          [] c.name \in {"bool", "any", "all", "isinstance", "callable"} -> "bool"
          [] c.name \in {"sorted", "reversed", "list"} -> "list"
          [] c.name = "set" -> "set_int"
          [] c.name = "bytes" -> "bytes"
          [] c.name = "tuple" -> "tuple"
          [] OTHER -> "unknown"
BuiltinOracle(c) ==
    LET t == TypeOfArg(c, 1)
    IN  CASE c.name = "abs" -> t
          [] c.name = "sum" -> LET base == IF ElementOf(t) = "unknown" THEN "int" ELSE ElementOf(t)
                               IN  IF TypeOfArg(c, 2) = "float" THEN "float" ELSE base
          [] c.name \in {"sorted", "list", "reversed"} ->
                 (CASE t = "str" -> "list_str" [] t \in {"bytes", "dict"} -> "list_int"
                    [] OTHER -> ListOf(ElementOf(t)))
          [] OTHER -> BuiltinType(c)

(***************************************************************************)
(* What rustc says of the emitted form on arguments of these types.        *)
(***************************************************************************)
Sized == Lists \cup {"str", "bytes", "set_int", "dict"}
Ordered1 == {"list_int", "list_bool", "list_str", "set_int"}
Displayed == {"int", "float", "bool", "str"}
BuiltinCompiles(c) ==
    LET n == Len(c.args)
        t == TypeOfArg(c, 1)
        u == TypeOfArg(c, 2)
    IN  CASE c.name = "range" -> n \in 1 .. 3 /\ \A i \in DOMAIN c.args : c.args[i].ty = "int"
          [] c.name = "enumerate" -> n \in 1 .. 2 /\ t \in Sized \ {"dict"} /\ u \in {"int", "absent"}
          [] c.name = "zip" -> n \in 2 .. 4 /\ \A i \in DOMAIN c.args : c.args[i].ty \in Sized \ {"dict"}
          [] c.name = "len" -> n = 1 /\ t \in Sized
          [] c.name = "bytes" -> n = 0 \/ t \in {"int", "bytes", "list_int"}
          [] c.name = "int" -> n = 0 \/ t \in Displayed
          [] c.name = "float" -> n = 0 \/ t \in {"int", "float", "str"}
          [] c.name = "bool" -> n = 0 \/ t = "int"
          [] c.name = "abs" -> t \in NumberTypes
          [] c.name \in {"min", "max"} ->
                 IF n # 1 THEN \A i \in 2 .. n : c.args[i].ty = t /\ t \in Displayed \cup {"bytes", "list_int"}
                 ELSE t \in (IF c.key # <<>> THEN {"list_int", "set_int"} ELSE Ordered1 \cup {"list_float", "bytes"})
          [] c.name = "sorted" -> t \in (IF c.key # <<>> THEN {"list_int"} ELSE Lists \cup {"set_int", "dict", "bytes"})
          [] c.name = "sum" -> /\ t \in {"list_int", "list_float", "set_int", "bytes"}
                               /\ t = "list_float" => u \in NumberTypes \cup {"absent"}
                               /\ t = "bytes" => u \in {"int", "absent"}
                               /\ u \in NumberTypes \cup {"absent"}
          [] c.name \in {"any", "all"} -> t = "list_bool"
          [] c.name = "round" -> t \in NumberTypes
          [] c.name = "pow" -> t \in NumberTypes /\ u \in {"int", "float", "bool"}
          [] c.name = "reversed" -> t \in Lists \cup {"bytes"}
          [] c.name \in {"map", "filter"} -> u \in {"list_int", "set_int"}
          [] c.name = "isinstance" -> n = 2
          [] c.name \in {"callable", "type", "repr"} -> n = 1
          [] c.name = "ascii" -> n = 1 /\ t \in Displayed
          [] c.name = "list" -> n = 0 \/ t \in Lists \cup {"set_int", "dict", "bytes"}
          [] c.name = "set" -> n = 0 \/ t \in {"list_int", "set_int", "dict"}
          [] OTHER -> TRUE

(***************************************************************************)
(* Rendering: a text as the sequence of its tokens.  print, str and        *)
(* f-strings choose the form by the type the code generator finds.         *)
(***************************************************************************)
Mark(s) == <<<<"mark", s>>>>
\* the figures of a number below 100, by which texts of numbers are sorted
Figures1(n) == IF n < 10 THEN <<n>> ELSE <<n \div 10, n % 10>>
TextBefore(a, b) == SequenceLess(Figures1(a), Figures1(b))
Between(open, parts, close) ==
    Mark(open) \o Joined(parts, Mark(", ")) \o Mark(close)
Repr(t, v) ==
    LET entry(e) == <<<<"int", e[1]>>>> \o Mark(": ") \o <<<<"int", e[2]>>>>
    IN  CASE t = "int" -> <<<<"int", v>>>>
          [] t = "float" -> <<<<"float", v>>>>
          [] t = "bool" -> Mark(IF v THEN "True" ELSE "False")
          [] t = "str" -> <<<<"quoted", v>>>>
          [] t = "bytes" -> <<<<"octets", v>>>>
          [] t \in Lists -> Between("[", [k \in DOMAIN v |->
                CASE t = "list_int" -> <<<<"int", v[k]>>>> [] t = "list_float" -> <<<<"float", v[k]>>>>
                  [] t = "list_bool" -> Mark(IF v[k] THEN "True" ELSE "False")
                  [] t = "list_str" -> <<<<"quoted", v[k]>>>>], "]")
          [] t = "set_int" -> IF v = {} THEN Mark("set()")
                ELSE LET s == SetToSortSeq(v, TextBefore)
                     IN  Between("{", [k \in DOMAIN s |-> <<<<"int", s[k]>>>>], "}")
          [] t = "dict" -> LET s == SortSeq(v, LAMBDA a, b : TextBefore(a[1], b[1]))
                           IN  Between("{", [k \in DOMAIN s |-> entry(s[k])], "}")
          [] t = "opt_int" -> IF v = <<>> THEN Mark("None") ELSE <<<<"int", v[1]>>>>
Shown(t, v) == IF t = "str" THEN <<<<"bare", v>>>> ELSE Repr(t, v)
Rendered(tokens) == Value("str", tokens)
\* Rust's own Display of an f64 leaves the point off a whole number
RustFloat(v) == IF v[2] = 1 THEN <<<<"int", v[1]>>>> ELSE <<<<"float", v>>>>

(***************************************************************************)
(* What the calls compute.                                                 *)
(***************************************************************************)
Iterated(x, walk) ==
    CASE x.ty \in {"set_int", "dict"} -> walk
      [] x.ty = "bytes" -> Coded(x)
      [] x.ty = "str" -> [k \in DOMAIN x.v |-> <<x.v[k]>>]
      [] OTHER -> x.v
Keyed(key, x) == CASE key = <<>> -> x [] key[1] = "negate" -> -x [] key[1] = "parity" -> x % 2
Before(t, a, b) ==
    CASE t = "float" -> RealLess(a, b)
      [] t = "bool" -> ~a /\ b
      [] t \in {"str", "bytes"} -> SequenceLess([k \in DOMAIN a |-> Code(a[k])], [k \in DOMAIN b |-> Code(b[k])])
      [] t = "list_int" -> SequenceLess(a, b)
      [] OTHER -> a < b
\* the first of the best: a later one replaces it only when it is better
BestOf(s, better(_, _)) ==
    s[CHOOSE i \in DOMAIN s : /\ \A j \in DOMAIN s : ~better(s[j], s[i])
                              /\ \A j \in 1 .. i - 1 : better(s[i], s[j])]
Extreme(c) ==
    LET less(a, b, t) == IF c.name = "min" THEN Before(t, a, b) ELSE Before(t, b, a)
        x == c.args[1]
        s == Iterated(x, c.walk)
        e == IF x.ty = "bytes" THEN "int" ELSE ElementOf(x.ty)
    IN  IF Len(c.args) = 1
        THEN IF s = <<>> THEN Raise("ValueError")
             ELSE Value(e, BestOf(s, LAMBDA a, b : less(Keyed(c.key, a), Keyed(c.key, b), e)))
        ELSE Value(x.ty, BestOf([i \in DOMAIN c.args |-> c.args[i].v], LAMBDA a, b : less(a, b, x.ty)))

\* a stable sort: with a key, reverse turns the comparison round; without one
\* the sorted list is turned round
StableSort(s, before(_, _)) ==
    LET rank(i) == Cardinality({j \in DOMAIN s : before(s[j], s[i]) \/ (j < i /\ ~before(s[i], s[j]))}) + 1
    IN  [k \in DOMAIN s |-> s[CHOOSE i \in DOMAIN s : rank(i) = k]]
SortedList(c) ==
    LET s == Iterated(c.args[1], c.walk)
        e == IF c.args[1].ty \in {"bytes", "dict"} THEN "int" ELSE ElementOf(c.args[1].ty)
        turned == c.reverse = <<TRUE>>
        up == StableSort(s, LAMBDA a, b : Before(e, a, b))
    IN  Value(ListOf(e),
              IF c.key = <<>> THEN (IF turned THEN Reverse(up) ELSE up)
              ELSE StableSort(s, LAMBDA a, b : IF turned THEN Keyed(c.key, b) < Keyed(c.key, a)
                                                         ELSE Keyed(c.key, a) < Keyed(c.key, b)))

\* start + (the total): the total is made first, and may be too wide by itself
Total(c) ==
    LET s == Iterated(c.args[1], c.walk)
        real(t, x) == IF t = "float" THEN x ELSE Whole(x)
        float == "float" \in {ElementOf(c.args[1].ty), TypeOfArg(c, 2)}
        plus(x, y) == Ratio(x[1] * y[2] + y[1] * x[2], x[2] * y[2])
        upto[k \in 0 .. Len(s)] == IF k = 0 THEN 0 ELSE upto[k - 1] + s[k]
        reals[k \in 0 .. Len(s)] ==
            IF k = 0 THEN <<0, 1>> ELSE plus(reals[k - 1], real(ElementOf(c.args[1].ty), s[k]))
        start == IF Len(c.args) = 2 THEN c.args[2] ELSE Int64(0)
    IN  IF float THEN Float(plus(AsReal(start), reals[Len(s)]))
        ELSE IF \E k \in DOMAIN s : ~Fits(upto[k]) THEN Panic
        ELSE Checked(start.v + upto[Len(s)])

Saturated(n) == Clamp(n, MinInt, MaxInt)
RoundAway(x) == Sign(x[1]) * FloorDiv(2 * Magnitude(x[1]) + x[2], 2 * x[2])
\* a sign and figures between blanks
Trimmed(s) == BytesStrip(s, <<" ", "\t", "\n", "\r">>, TRUE, TRUE)
NumberIn(s) ==
    LET w == Trimmed(s)
        body == IF Signed(w) THEN Tail(w) ELSE w
        value[k \in 0 .. Len(body)] == IF k = 0 THEN 0 ELSE 10 * value[k - 1] + (IF body[k] = "1" THEN 1 ELSE 0)
        n == IF Signed(w) /\ w[1] = "-" THEN -value[Len(body)] ELSE value[Len(body)]
    IN  IF body = <<>> \/ \E k \in DOMAIN body : body[k] \notin {"0", "1"} THEN <<>> ELSE <<n>>
FromText(s) == IF NumberIn(s) = <<>> \/ ~Fits(NumberIn(s)[1]) THEN Raise("ValueError") ELSE Int64(NumberIn(s)[1])
Based(name, n) == Value("str", <<<<name, IF n < 0 THEN n + 2^Width ELSE n>>>>)

\* the call without an argument, and of the argument x
Empty(name) ==
    CASE name = "int" -> Int64(0) [] name = "float" -> Float(<<0, 1>>) [] name = "bool" -> Truth(FALSE)
      [] name = "bytes" -> Octets(<<>>) [] name = "str" -> Rendered(Shown("str", <<>>))
      [] name = "list" -> Value("list_int", <<>>) [] name = "set" -> Value("set_int", {})
      [] name = "tuple" -> Value("tuple", <<>>)
Converted(name, x, walk) ==
    CASE name = "int" -> IF x.ty = "str" THEN FromText(x.v) ELSE Int64(Saturated(AsInt(x)))
      [] name = "float" -> IF x.ty # "str" THEN Float(AsReal(x))
                           ELSE IF NumberIn(x.v) = <<>> THEN Raise("ValueError")
                           ELSE Float(Whole(NumberIn(x.v)[1]))
      [] name = "bool" -> Truth(x.v # 0)
      [] name = "bytes" -> IF x.ty = "int" THEN IF x.v < 0 THEN Raise("ValueError") ELSE Octets(Copies("nul", x.v))
                           ELSE IF x.ty = "bytes" THEN x
                           ELSE IF \E k \in DOMAIN x.v : x.v[k] \notin ByteRange THEN Raise("ValueError")
                           ELSE Octets(x.v)
      [] name = "str" -> Rendered(Shown(x.ty, x.v))
      [] name = "repr" -> Rendered(Repr(x.ty, x.v))
      [] name = "ascii" -> Rendered(IF x.ty = "float" THEN RustFloat(x.v) ELSE Repr(x.ty, x.v))
      [] name = "list" -> IF x.ty \in Lists THEN x ELSE Value("list_int", Iterated(x, walk))
      [] name = "set" -> CASE x.ty = "set_int" -> x
                           [] x.ty = "dict" -> Value("set_pairs", ToSet(x.v))
                           [] OTHER -> Value("set_int", ToSet(x.v))
      \* a tuple of one element, whatever it is
      [] name = "tuple" -> Value("tuple", <<x.v>>)
Conversion(c) == IF Len(c.args) = 0 THEN Empty(c.name) ELSE Converted(c.name, c.args[1], c.walk)

Number1(c) ==
    LET x == c.args[1]
    IN  CASE c.name = "abs" -> IF x.ty = "int" THEN Checked(Magnitude(x.v)) ELSE Float(<<Magnitude(x.v[1]), x.v[2]>>)
          [] c.name = "round" -> Int64(Saturated(RoundAway(AsReal(x))))
          [] c.name = "pow" -> LET p == RealPower(AsReal(x), AsInt(c.args[2]))
                               IN  Int64(IF p[2] = 0 THEN Saturated(p[1] * 2 * HalfRange) ELSE Saturated(RealTrunc(p)))
          [] c.name = "chr" -> IF x.v = 97 THEN Text(<<"a">>) ELSE IF x.v = 98 THEN Text(<<"b">>) ELSE Panic
          [] c.name = "ord" -> IF x.v = <<>> THEN Panic ELSE Int64(Code(x.v[1]))
          [] c.name \in {"hex", "oct", "bin"} -> Based(c.name, x.v)

\* the functions mapped and filtered with: x + 1, and x is even
Mapping(c) ==
    LET s == Iterated(c.args[2], c.walk)
    IN  IF c.name = "map"
        THEN IF \E k \in DOMAIN s : ~Fits(s[k] + 1) THEN Panic ELSE Value("list_int", [k \in DOMAIN s |-> s[k] + 1])
        ELSE Value("list_int", SelectSeq(s, LAMBDA x : x % 2 = 0))

TypeNames == {"int", "str", "float", "bool", "list", "dict", "set", "bytes"}
TypeName(t) == CASE t \in Lists -> "list" [] t = "set_int" -> "set" [] t = "opt_int" -> "object"
                 [] t \in TypeNames -> t [] OTHER -> "object"
\* decided by the static type; a class of the program always matches
Inspect(c) ==
    CASE c.name = "isinstance" -> Truth(c.args[2].v \notin TypeNames \/ TypeName(c.args[1].ty) = c.args[2].v)
      [] c.name = "type" -> Rendered(Mark(TypeName(c.args[1].ty)))
      [] c.name = "callable" -> Truth(c.args[1].ty = "name" /\ c.args[1].v \in {"function", "class"})

Lazily(c) ==
    LET it == [i \in DOMAIN c.args |-> Iterated(c.args[i], c.walk)]
        shortest == CHOOSE n \in {Len(it[i]) : i \in DOMAIN it} : \A i \in DOMAIN it : n <= Len(it[i])
    IN  CASE c.name = "range" ->
                 IF Len(c.args) = 3 THEN RangeStep(c.args[1].v, c.args[2].v, c.args[3].v)
                 ELSE Value("list_int", IF Len(c.args) = 1 THEN Progression(0, c.args[1].v, 1)
                                        ELSE Progression(c.args[1].v, c.args[2].v, 1))
          [] c.name = "enumerate" ->
                 LET start == IF Len(c.args) = 2 THEN c.args[2].v ELSE 0
                 IN  IF it[1] # <<>> /\ ~Fits(start + Len(it[1]) - 1) THEN Panic
                     ELSE Value("list_pairs", [k \in DOMAIN it[1] |-> <<start + k - 1, it[1][k]>>])
          [] c.name = "zip" -> Value("list_tuples", [k \in 1 .. shortest |-> [i \in DOMAIN it |-> it[i][k]]])
          [] c.name = "len" -> Int64(IF c.args[1].ty = "set_int" THEN Cardinality(c.args[1].v) ELSE Len(c.args[1].v))
          [] c.name \in {"any", "all"} -> LET s == c.args[1].v
                                          IN  Truth(IF c.name = "any" THEN \E k \in DOMAIN s : s[k]
                                                                      ELSE \A k \in DOMAIN s : s[k])
          [] c.name = "reversed" -> Value(IF c.args[1].ty = "bytes" THEN "list_int" ELSE c.args[1].ty, Reverse(it[1]))

BuiltinResult(c) ==
    CASE c.name \in {"min", "max"} -> Extreme(c)
      [] c.name = "sorted" -> SortedList(c)
      [] c.name = "sum" -> Total(c)
      [] c.name \in {"int", "float", "bool", "bytes", "str", "repr", "ascii", "list", "set", "tuple"} -> Conversion(c)
      [] c.name \in {"abs", "round", "pow", "chr", "ord", "hex", "oct", "bin"} -> Number1(c)
      [] c.name \in {"map", "filter"} -> Mapping(c)
      [] c.name \in {"isinstance", "type", "callable"} -> Inspect(c)
      [] OTHER -> Lazily(c)

\* the start of an enumeration is bound before the iterable is looked at
Ordinal == <<"first", "second", "third", "fourth">>
BuiltinPlaces(name) ==
    CASE name \in {"zip", "min", "max"} -> 4 [] name = "range" -> 3
      [] name \in Binary \cup {"enumerate", "sum"} -> 2 [] OTHER -> 1
BuiltinOrder(c) ==
    CASE c.name = "enumerate" /\ Len(c.args) = 2 -> <<"second", "first">>
      [] c.name = "sum" /\ Len(c.args) = 2 -> <<"second", "first">>
      [] c.name \in {"map", "filter"} -> <<"second", "first">>
      [] OTHER -> SubSeq(Ordinal, 1, Least(Len(c.args), BuiltinPlaces(c.name)))
=============================================================================
