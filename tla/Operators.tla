------------------------------- MODULE Operators -------------------------------
(***************************************************************************)
(* Operators, subscripts and slices on built-in values: the type the       *)
(* checker gives them (check_expr in typeck/exprs.rs), the type the code   *)
(* generator takes them to have (infer_expr_ty), and what the Rust emitted *)
(* for them computes (emit_expr in codegen/exprs.rs).  An operand is a     *)
(* value with its static type; opt_int is an Optional[int].                *)
(***************************************************************************)
EXTENDS Runtime, FiniteSets

Comparisons == {"==", "!=", "<", "<=", ">", ">="}
Orderings == {"<", "<=", ">", ">="}
Memberships == {"in", "not_in"}
Logic == {"and", "or"}
Identity == {"is", "is_not"}              \* here always against None
BitOps == {"&", "|", "^", "<<", ">>"}
SetAlgebra == {"&", "|", "^", "-"}
Arithmetic == {"+", "-", "*", "%", "//"}
BinaryOps == Comparisons \cup Memberships \cup Logic \cup Identity \cup BitOps
                 \cup Arithmetic \cup {"/", "**"}
UnaryOps == {"neg", "not", "invert"}

(***************************************************************************)
(* The checker.                                                            *)
(***************************************************************************)
BytesBinary(op, l, r) ==
    CASE op = "+" /\ l = r -> "bytes"
      [] op = "*" /\ {l, r} = {"bytes", "int"} -> "bytes"
      [] op \in Comparisons /\ l = r -> "bool"
      [] op \in Memberships /\ l \in {"int", "bytes"} -> "bool"
      [] OTHER -> "refused"
IsBytesBinary(op, l, r) == IF op \in Memberships THEN r = "bytes" ELSE "bytes" \in {l, r}
PowYieldsInt(l, r, negative) == l = "int" /\ r = "int" /\ ~negative

\* `negative`: the right operand is written as a negative literal
BinaryType(op, l, r, negative) ==
    IF \/ "opt_int" \in {l, r} /\ op \notin Identity \cup {"==", "!="}
       \/ op = "%" /\ l = "str"
    THEN "refused"
    ELSE IF op \in SetAlgebra /\ l = "set_int" /\ r = "set_int" THEN "set_int"
    ELSE IF IsBytesBinary(op, l, r) THEN BytesBinary(op, l, r)
    ELSE CASE op \in Comparisons \cup Logic \cup Identity \cup Memberships -> "bool"
           [] op = "/" -> "float"
           [] op = "**" -> IF PowYieldsInt(l, r, negative) THEN "int" ELSE "float"
           [] op \in BitOps -> "int"
           [] OTHER -> IF l = r THEN l ELSE IF {l, r} = {"int", "float"} THEN "float" ELSE "unknown"
UnaryType(op, t) ==
    CASE op = "not" -> IF t = "opt_int" THEN "refused" ELSE "bool"
      [] op = "neg" -> t
      [] op = "invert" -> "int"
IndexType_like_slice(obj) == IF obj \in {"str", "bytes"} THEN obj ELSE "int"
IndexType(obj) == CASE obj = "list_int" -> "int" [] obj = "dict" -> "int" [] obj = "str" -> "str"
                    [] obj = "bytes" -> "int" [] obj = "opt_int" -> "refused" [] OTHER -> "unknown"
SliceType(obj, bounds) ==
    CASE \E t \in bounds : t \notin {"int", "unknown"} -> "refused"
      [] obj \in {"list_int", "str", "bytes"} -> obj
      [] OTHER -> "unknown"

(***************************************************************************)
(* The type the code generator goes by, found a second time.               *)
(***************************************************************************)
BinaryOracle(op, l, r, negative) ==
    LET counts(t) == t \in {"int", "bool"}
        repeats(t) == op = "*" /\ ((l = t /\ counts(r)) \/ (r = t /\ counts(l)))
    IN  IF op \in SetAlgebra /\ l = "set_int" /\ r = "set_int" THEN "set_int"
        ELSE IF op \in {"+", "*"} /\ "bytes" \in {l, r} THEN "bytes"
        ELSE IF repeats("list_int") THEN "list_int"
        ELSE IF repeats("str") \/ (op = "+" /\ "str" \in {l, r}) THEN "str"
        ELSE CASE op = "**" -> IF PowYieldsInt(l, r, negative) THEN "int" ELSE "float"
               [] op = "/" -> "float"
               [] op \in Arithmetic -> IF "float" \in {l, r} THEN "float" ELSE "int"
               [] op \in Comparisons \cup Logic \cup Identity \cup Memberships -> "bool"
               [] OTHER -> "unknown"
UnaryOracle(op, t) == CASE op = "neg" -> t [] op = "not" -> "bool" [] op = "invert" -> "int"
IndexOracle(obj) == IF IndexType(obj) = "refused" THEN "unknown" ELSE IndexType(obj)
SliceOracle(obj) == IF obj \in {"list_int", "str", "bytes"} THEN obj ELSE "unknown"

(***************************************************************************)
(* Literals: both operands written as numbers are folded by the compiler   *)
(* itself, in arithmetic that wraps where pyrst is built for release.      *)
(***************************************************************************)
Folds(op, a, b) == \/ op \in {"+", "-", "*"}
                   \/ op \in {"//", "%"} /\ b # 0
                   \/ op = "**" /\ b \in 0 .. Width - 1
Folded(op, a, b) ==
    CASE op = "+" -> Int64(Wrapped(a + b))
      [] op = "-" -> Int64(Wrapped(a - b))
      [] op = "*" -> Int64(Wrapped(a * b))
      [] op = "**" -> Int64(Wrapped(Power(a, b)))
      [] op \in {"//", "%"} -> IF DivOverflows(a, b) THEN Value("refused", "panic")
                               ELSE Int64(IF op = "//" THEN FloorDiv(a, b) ELSE FloorMod(a, b))

(***************************************************************************)
(* The form of Rust chosen for an operator, by the types of its operands.  *)
(***************************************************************************)
Form(op, l, r, negative) ==
    CASE op = "*" -> IF "str" \in {l, r} THEN "repeat"
                     ELSE IF "list_int" \in {l, r} THEN "repeat_list"
                     ELSE IF "bytes" \in {l, r} THEN "repeat" ELSE "infix"
      [] op = "/" -> "divide"
      [] op \in SetAlgebra /\ "set_int" \in {l, r} -> "set"
      [] op = "+" /\ "str" \in {l, r} -> "format"
      [] op = "+" /\ l = "bytes" /\ r = "bytes" -> "concat"
      [] op = "+" /\ l = "list_int" /\ r = "list_int" -> "refused"
      [] op \in Identity -> "is_none"
      [] op = "**" -> IF PowYieldsInt(l, r, negative) THEN "ipow" ELSE "powf"
      [] op \in Memberships -> "contains"
      [] op = "//" -> IF "float" \in {l, r} THEN "floor" ELSE "floordiv"
      [] op = "%" -> IF "float" \in {l, r} THEN "fmod" ELSE "mod"
      [] OTHER -> "infix"

NumberTypes == {"int", "float"}
\* what rustc says of the form on operands of these types
InfixCompiles(op, l, r) ==
    CASE op \in Logic -> l = "bool" /\ r = "bool"
      [] op \in {"==", "!="} -> l = r \/ {l, r} = NumberTypes
      [] op \in Orderings -> (l = r /\ l \notin {"set_int", "dict"}) \/ {l, r} = NumberTypes
      [] op \in {"<<", ">>"} -> l = "int" /\ r = "int"
      [] op \in {"&", "|", "^"} -> l = r /\ l \in {"int", "bool"}
      [] OTHER -> l \in NumberTypes /\ r \in NumberTypes
Compiles(form, op, l, r) ==
    CASE form = "refused" -> FALSE
      [] form \in {"repeat", "repeat_list"} -> l \in {"int", "float", "bool"} \/ r \in {"int", "float", "bool"}
      [] form \in {"divide", "powf", "floor", "fmod"} -> l \in NumberTypes /\ r \in NumberTypes
      [] form = "set" -> l = "set_int" /\ r = "set_int"
      [] form = "format" -> {l, r} \subseteq {"str", "int", "float", "bool"}
      [] form = "concat" -> TRUE
      [] form = "is_none" -> l = "opt_int"
      [] form \in {"ipow", "floordiv", "mod"} -> l = "int" /\ r = "int"
      [] form = "contains" -> \/ r \in {"dict", "list_int", "set_int"} /\ l = "int"
                              \/ r = "bytes" /\ l \in {"int", "bytes"}
                              \/ r = "str" /\ l = "str"
      [] form = "infix" -> InfixCompiles(op, l, r)

(***************************************************************************)
(* What the emitted forms compute.                                         *)
(***************************************************************************)
AsReal(x) == IF x.ty = "float" THEN x.v ELSE Whole(x.v)
AsInt(x) == CASE x.ty = "bool" -> (IF x.v THEN 1 ELSE 0)
              [] x.ty = "float" -> RealTrunc(x.v)
              [] OTHER -> x.v
Repeated(s, n) ==
    LET times[k \in 0 .. n] == IF k = 0 THEN <<>> ELSE times[k - 1] \o s IN times[n]
Repeatable == {"str", "bytes", "list_int"}
Most0(n) == IF n < 0 THEN 0 ELSE n
Repeat(l, r) ==
    LET s == IF l.ty \in Repeatable THEN l ELSE r
        n == AsInt(IF l.ty \in Repeatable THEN r ELSE l)
    IN  CASE s.ty = "list_int" /\ n < 0 -> Hangs
          [] OTHER -> Value(s.ty, Repeated(s.v, Most0(n)))

SetOperation(op, a, b) == Value("set_int",
    CASE op = "|" -> a \cup b
      [] op = "&" -> {x \in a : x \in b}
      [] op = "^" -> (a \ b) \cup (b \ a)
      [] op = "-" -> a \ b)

Holds(op, less, equal) ==
    CASE op = "==" -> equal [] op = "!=" -> ~equal
      [] op = "<" -> less [] op = ">=" -> ~less
      [] op = "<=" -> less \/ equal [] op = ">" -> ~(less \/ equal)
\* sequences compare at the first place they differ, else by length
SequenceLess(s, t) ==
    LET n == CHOOSE n \in 0 .. Len(s) : n <= Len(t) /\ SubSeq(s, 1, n) = SubSeq(t, 1, n)
                 /\ (n = Len(s) \/ n = Len(t) \/ s[n + 1] # t[n + 1])
    IN  IF n = Len(s) \/ n = Len(t) THEN Len(s) < Len(t)
        ELSE s[n + 1] < t[n + 1]
Coded(x) == IF x.ty \in {"str", "bytes"} THEN [k \in DOMAIN x.v |-> Code(x.v[k])] ELSE x.v
Compare(op, l, r) ==
    CASE l.ty \in NumberTypes -> Holds(op, RealLess(AsReal(l), AsReal(r)), AsReal(l) = AsReal(r))
      [] l.ty = "bool" -> Holds(op, ~l.v /\ r.v, l.v = r.v)
      [] l.ty \in Repeatable -> Holds(op, SequenceLess(Coded(l), Coded(r)), l.v = r.v)
      [] l.ty = "dict" -> Holds(op, FALSE, {l.v[k] : k \in DOMAIN l.v} = {r.v[k] : k \in DOMAIN r.v})
      [] OTHER -> Holds(op, FALSE, l.v = r.v)

BitsOf(n) == AsUsize(n)
BitAt(n, k) == (n \div 2^k) % 2
Signed64(n) == IF n > MaxInt THEN n - 2^Width ELSE n
Bitwise64(op, a, b) ==
    LET bit(k) == LET x == BitAt(BitsOf(a), k)
                      y == BitAt(BitsOf(b), k)
                  IN  CASE op = "&" -> x * y
                        [] op = "|" -> x + y - x * y
                        [] op = "^" -> (x + y) % 2
        sum[k \in 0 .. Width] == IF k = 0 THEN 0 ELSE sum[k - 1] + bit(k - 1) * 2^(k - 1)
    IN  Int64(Signed64(sum[Width]))
\* << drops the bits pushed out; both panic on a shift by Width or more
Shift(op, a, b) ==
    IF b \notin 0 .. Width - 1 THEN Panic
    ELSE CASE op = "<<" -> Int64(Wrapped(a * 2^b))
           [] op = ">>" -> Int64(FloorDiv(a, 2^b))

Infix(op, l, r) ==
    CASE op \in Comparisons -> Truth(Compare(op, l, r))
      [] op = "and" -> Truth(l.v /\ r.v)
      [] op = "or" -> Truth(l.v \/ r.v)
      [] op \in {"<<", ">>"} -> Shift(op, l.v, r.v)
      [] op \in {"&", "|", "^"} ->
             IF l.ty = "bool"
             THEN Truth(CASE op = "&" -> l.v /\ r.v [] op = "|" -> l.v \/ r.v [] op = "^" -> l.v # r.v)
             ELSE Bitwise64(op, l.v, r.v)
      [] op \in {"+", "-", "*"} ->
             LET x == AsReal(l)
                 y == AsReal(r)
             IN  IF l.ty = "int" /\ r.ty = "int"
                 THEN Checked(CASE op = "+" -> l.v + r.v [] op = "-" -> l.v - r.v [] op = "*" -> l.v * r.v)
                 ELSE Float(CASE op = "+" -> Ratio(x[1] * y[2] + y[1] * x[2], x[2] * y[2])
                              [] op = "-" -> Ratio(x[1] * y[2] - y[1] * x[2], x[2] * y[2])
                              [] op = "*" -> Ratio(x[1] * y[1], x[2] * y[2]))

Membership(l, r) ==
    CASE r.ty = "dict" -> Truth(\E k \in DOMAIN r.v : r.v[k][1] = l.v)
      [] r.ty = "list_int" -> Truth(\E k \in DOMAIN r.v : r.v[k] = l.v)
      [] r.ty = "set_int" -> Truth(l.v \in r.v)
      [] r.ty = "bytes" /\ l.ty = "int" -> IntInBytes(l.v, r.v)
      [] OTHER -> Truth(Starts(r.v, l.v) # {})
Denied(o) == IF o.ty = "bool" THEN Truth(~o.v) ELSE o

\* format! puts the Display of both operands side by side; only texts here
Formatted(l, r) == IF l.ty = "str" /\ r.ty = "str" THEN Text(l.v \o r.v) ELSE Value("mixed", "text")
BinaryForm(form, op, l, r) ==
    CASE form \in {"repeat", "repeat_list"} -> Repeat(l, r)
      [] form = "divide" -> Float(RealQuotient(AsReal(l), AsReal(r)))
      [] form = "set" -> SetOperation(op, l.v, r.v)
      [] form = "format" -> Formatted(l, r)
      [] form = "concat" -> Octets(l.v \o r.v)
      [] form = "is_none" -> Truth((l.v = <<>>) = (op = "is"))
      [] form = "ipow" -> PyIpow(l.v, r.v)
      [] form = "powf" -> Float(RealPower(AsReal(l), RealTrunc(AsReal(r))))
      [] form = "contains" -> IF op = "in" THEN Membership(l, r) ELSE Denied(Membership(l, r))
      [] form = "floor" -> Float(RealFloor(RealQuotient(AsReal(l), AsReal(r))))
      [] form = "fmod" -> PyFmod(AsReal(l), AsReal(r))
      [] form = "floordiv" -> PyFloorDiv(l.v, r.v)
      [] form = "mod" -> PyMod(l.v, r.v)
      [] form = "infix" -> Infix(op, l, r)

\* rhs: "literal", "negative" (a literal below 0) or "variable"
BinaryResult(op, l, r, written) ==
    LET form == Form(op, l.ty, r.ty, written = "negative")
    IN  IF written = "literal" /\ l.ty = "int" /\ r.ty = "int" /\ Folds(op, l.v, r.v) THEN Folded(op, l.v, r.v)
        ELSE IF ~Compiles(form, op, l.ty, r.ty) THEN Value("refused", "rustc")
        ELSE BinaryForm(form, op, l, r)
UnaryResult(op, x) ==
    CASE op = "neg" /\ x.ty = "int" -> Checked(-x.v)
      [] op = "neg" /\ x.ty = "float" -> Float(<<-x.v[1], x.v[2]>>)
      [] op = "invert" /\ x.ty = "int" -> Int64(-1 - x.v)
      [] op \in {"not", "invert"} /\ x.ty = "bool" -> Truth(~x.v)
      [] OTHER -> Value("refused", "rustc")

IndexResult(obj, i) ==
    CASE obj.ty = "dict" -> LET at == {k \in DOMAIN obj.v : obj.v[k][1] = i}
                            IN  IF at = {} THEN Raise("KeyError") ELSE Int64(obj.v[First(at)][2])
      [] obj.ty = "str" -> IF InList(Len(obj.v), i) THEN Text(<<obj.v[Place(Len(obj.v), i) + 1]>>)
                           ELSE Raise("IndexError")
      [] obj.ty = "bytes" -> BytesIndex(obj.v, i)
      [] obj.ty = "list_int" -> ListGet(obj.v, i, "int")
\* a bound is <<>> or <<number>>
SliceResult(obj, start, stop, step) ==
    IF obj.ty # "str" /\ start # <<>> /\ stop # <<>> /\ step = <<>>
    THEN Value(obj.ty, ListSlice(obj.v, start[1], stop[1]))
    ELSE SliceStep(obj.v, start, stop, IF step = <<>> THEN 1 ELSE step[1], obj.ty)

(***************************************************************************)
(* The order the operands are evaluated in.                                *)
(***************************************************************************)
Again(x, n) == [k \in 1 .. n |-> x]
Scanned(s, x) == LET at == {k \in DOMAIN s : s[k] = x} IN IF at = {} THEN Len(s) ELSE First(at)
BinaryOrder(op, l, r) ==
    LET form == Form(op, l.ty, r.ty, FALSE)
    IN  CASE form = "repeat" /\ r.ty \in Repeatable -> <<"right", "left">>
          [] form = "repeat_list" -> IF l.ty = "list_int" THEN <<"right">> \o Again("left", Most0(AsInt(r)))
                                     ELSE <<"left">> \o Again("right", Most0(AsInt(l)))
          [] form = "set" /\ op = "&" -> <<"left">> \o Again("right", Cardinality(l.v))
          [] form = "is_none" -> <<"left">>
          [] form = "contains" -> CASE r.ty = "bytes" -> <<"left", "right">>
                                    [] r.ty = "list_int" -> <<"right">> \o Again("left", Scanned(r.v, l.v))
                                    [] OTHER -> <<"right", "left">>
          [] op = "and" /\ l.ty = "bool" -> IF l.v THEN <<"left", "right">> ELSE <<"left">>
          [] op = "or" /\ l.ty = "bool" -> IF l.v THEN <<"left">> ELSE <<"left", "right">>
          [] OTHER -> <<"left", "right">>
\* the text of the index put into the code three times
IndexOrder_thrice(obj, i) == <<"left", "right", "right", "right">>
IndexOrder(obj, i) ==
    IF obj.ty = "dict" /\ ~\E k \in DOMAIN obj.v : obj.v[k][1] = i
    THEN <<"left", "right", "right">> ELSE <<"left", "right">>
=============================================================================
