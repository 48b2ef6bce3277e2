------------------------------ MODULE PyObjects ------------------------------
(***************************************************************************)
(* What Python's methods, operators and functions on built-in values come  *)
(* to: the reference the generated programs are compared with.  Stated     *)
(* from the language's documentation, without regard to how pyrst gets     *)
(* there.  A method's answer is its outcome and what the receiver is after *)
(* the call.                                                               *)
(***************************************************************************)
EXTENDS Runtime, FiniteSets
LOCAL INSTANCE TLC

Ascending(S) ==
    [k \in 1 .. Cardinality(S) |-> CHOOSE x \in S : Cardinality({y \in S : y < x}) = k - 1]
Has(s, x) == \E k \in DOMAIN s : s[k] = x
Digits == {"0", "1"}
Lowers == {"a", "b"}
Uppers == {"A", "B"}
Cased == Lowers \cup Uppers
Letters == Cased \cup {"han"}               \* "han": a letter without case
Numbers == Digits \cup {"half"}             \* "half": a number that is no digit
PyUpper(c) == CASE c = "a" -> "A" [] c = "b" -> "B" [] OTHER -> c
PyLower(c) == CASE c = "A" -> "a" [] c = "B" -> "b" [] OTHER -> c
Each(s, Op(_)) == [k \in DOMAIN s |-> Op(s[k])]

(***************************************************************************)
(* Occurrences.  Python takes them from the left, each after the end of    *)
(* the one before it (rsplit: from the right).                             *)
(***************************************************************************)
Covers(j, i, n) == j < i /\ i < j + n
FromLeft(s, sub) ==
    LET n == Len(sub)
    IN  CHOOSE P \in SUBSET Starts(s, sub) :
            /\ \A i, j \in P : ~Covers(j, i, n)
            /\ \A i \in Starts(s, sub) \ P : \E j \in P : Covers(j, i, n)
FromRight(s, sub) ==
    LET n == Len(sub)
    IN  CHOOSE P \in SUBSET Starts(s, sub) :
            /\ \A i, j \in P : ~Covers(j, i, n)
            /\ \A i \in Starts(s, sub) \ P : \E j \in P : Covers(i, j, n)
\* the pieces of s between the occurrences at the positions of `at`
Pieces(s, n, at) ==
    [k \in 1 .. Len(at) + 1 |->
        SubSeq(s, IF k = 1 THEN 1 ELSE at[k - 1] + n + 1,
                  IF k > Len(at) THEN Len(s) ELSE at[k])]
FirstOf(seq, limit) == IF limit < 0 THEN seq ELSE SubSeq(seq, 1, Least(limit, Len(seq)))
LastOf(seq, limit) ==
    IF limit < 0 THEN seq ELSE SubSeq(seq, Len(seq) - Least(limit, Len(seq)) + 1, Len(seq))
\* maximal runs of characters that are not blank
Runs(s) ==
    LET solid(i) == i \in DOMAIN s /\ s[i] \notin Blank
        heads == Ascending({i \in DOMAIN s : solid(i) /\ ~solid(i - 1)})
        ends  == Ascending({i \in DOMAIN s : solid(i) /\ ~solid(i + 1)})
    IN  [k \in DOMAIN heads |-> SubSeq(s, heads[k], ends[k])]

PyStrip(s, isIn(_), left, right) ==
    LET keep == {i \in DOMAIN s : ~isIn(s[i])}
        lo == IF left THEN First(keep) ELSE 1
        hi == IF right THEN Final(keep) ELSE Len(s)
    IN  IF keep = {} THEN (IF left \/ right THEN <<>> ELSE s) ELSE SubSeq(s, lo, hi)

\* the positions a search may start at, from the optional start
After(s, args, k) == IF Len(args) < k THEN 0
                     ELSE IF args[k] < 0 THEN Most(0, args[k] + Len(s)) ELSE args[k]
FoundAt(s, args) == {i \in Starts(s, args[1]) : i >= After(s, args, 2)}

PyPad(s, name, width, fill) ==
    LET total == width - Len(s)
        before == CASE name = "rjust" -> total
                    [] name = "ljust" -> 0
                    [] OTHER -> total \div 2 + (IF total % 2 = 1 /\ width % 2 = 1 THEN 1 ELSE 0)
    IN  IF total <= 0 THEN s ELSE Copies(fill, before) \o s \o Copies(fill, total - before)
PyZfill(s, width) ==
    IF Signed(s) THEN <<s[1]>> \o PyPad(Tail(s), "rjust", width - 1, "0")
                 ELSE PyPad(s, "rjust", width, "0")

\* str.title: a letter is a capital unless a letter with case stands before it
PyTitle(s) == [k \in DOMAIN s |->
    IF k > 1 /\ s[k - 1] \in Cased THEN PyLower(s[k]) ELSE PyUpper(s[k])]
PyIsTitle(s) == /\ \E k \in DOMAIN s : s[k] \in Cased
                /\ \A k \in DOMAIN s : s[k] \in Cased =>
                       s[k] = PyTitle(s)[k]
\* lines end at a line feed, a carriage return, or both together
PySplitlines(s) ==
    LET isEnd(i) == s[i] \in {"\n", "\r"} /\ ~(s[i] = "\r" /\ i < Len(s) /\ s[i + 1] = "\n")
        width(i) == IF s[i] = "\n" /\ i > 1 /\ s[i - 1] = "\r" THEN 2 ELSE 1
        ends == Ascending({i \in DOMAIN s : isEnd(i)})
        all == [k \in 1 .. Len(ends) + 1 |->
                   SubSeq(s, IF k = 1 THEN 1 ELSE ends[k - 1] + 1,
                             IF k > Len(ends) THEN Len(s) ELSE ends[k] - width(ends[k]))]
    IN  IF all[Len(all)] = <<>> THEN SubSeq(all, 1, Len(all) - 1) ELSE all

PyPartition(s, sep, at) ==
    IF sep = <<>> THEN Raise("ValueError")
    ELSE Value("tuple_str", <<SubSeq(s, 1, at), sep, SubSeq(s, at + Len(sep) + 1, Len(s))>>)
\* tabs go to the next column that is a multiple of the tab size
PyExpandTabs(s, size) ==
    LET upto[k \in 0 .. Len(s)] ==
            IF k = 0 THEN [text |-> <<>>, col |-> 0]
            ELSE LET done == upto[k - 1]
                     pad == IF size > 0 THEN size - (done.col % size) ELSE 0
                 IN  CASE s[k] = "\t" -> [text |-> done.text \o Copies(" ", pad), col |-> done.col + pad]
                       [] s[k] \in {"\n", "\r"} -> [text |-> Append(done.text, s[k]), col |-> 0]
                       [] OTHER -> [text |-> Append(done.text, s[k]), col |-> done.col + 1]
    IN  upto[Len(s)].text

(***************************************************************************)
(* Methods of str and of bytes; `own` makes a value of the receiver's type *)
(* and `owns` a list of them.                                              *)
(***************************************************************************)
All(s, S) == s # <<>> /\ \A k \in DOMAIN s : s[k] \in S
SomeCased(s) == \E k \in DOMAIN s : s[k] \in Cased
Count(args, k) == IF Len(args) < k THEN -1 ELSE args[k]

PyTextMethod(own(_), owns(_), s, name, args) ==
    CASE name = "strip"  -> own(PyStrip(s, LAMBDA c : IF args = <<>> THEN c \in Blank \cup {"\r"} ELSE Has(args[1], c), TRUE, TRUE))
      [] name = "lstrip" -> own(PyStrip(s, LAMBDA c : IF args = <<>> THEN c \in Blank \cup {"\r"} ELSE Has(args[1], c), TRUE, FALSE))
      [] name = "rstrip" -> own(PyStrip(s, LAMBDA c : IF args = <<>> THEN c \in Blank \cup {"\r"} ELSE Has(args[1], c), FALSE, TRUE))
      [] name \in {"split", "rsplit"} /\ args = <<>> -> owns(Runs(s))
      [] name \in {"split", "rsplit"} /\ args # <<>> /\ args[1] = <<>> -> Raise("ValueError")
      [] name = "split" -> owns(Pieces(s, Len(args[1]),
                                 FirstOf(Ascending(FromLeft(s, args[1])), Count(args, 2))))
      [] name = "rsplit" -> owns(Pieces(s, Len(args[1]),
                                 LastOf(Ascending(FromRight(s, args[1])), Count(args, 2))))
      [] name = "replace" -> own(Joined(Pieces(s, Len(args[1]),
                                 FirstOf(Ascending(FromLeft(s, args[1])), Count(args, 3))), args[2]))
      [] name = "join" -> own(Joined(args[1], s))
      [] name = "count" -> Int64(Cardinality(FromLeft(s, args[1])))
      [] name = "find" -> Int64(IF FoundAt(s, args) = {} THEN -1 ELSE First(FoundAt(s, args)))
      [] name = "rfind" -> Int64(IF FoundAt(s, args) = {} THEN -1 ELSE Final(FoundAt(s, args)))
      [] name = "index" -> IF FoundAt(s, args) = {} THEN Raise("ValueError") ELSE Int64(First(FoundAt(s, args)))
      [] name = "rindex" -> IF FoundAt(s, args) = {} THEN Raise("ValueError") ELSE Int64(Final(FoundAt(s, args)))
      [] name = "startswith" -> Truth(After(s, args, 2) \in Starts(s, args[1]))
      [] name = "endswith" -> Truth(/\ Len(s) - Len(args[1]) \in Starts(s, args[1])
                                    /\ Len(s) - Len(args[1]) >= After(s, args, 2))
      [] name \in {"ljust", "rjust", "center"} ->
             IF Len(args) = 2 /\ Len(args[2]) # 1 THEN Raise("TypeError")
             ELSE own(PyPad(s, name, args[1], IF Len(args) = 2 THEN args[2][1] ELSE " "))
      [] name = "zfill" -> own(PyZfill(s, args[1]))
      [] name = "upper" -> own(Each(s, PyUpper))
      [] name \in {"lower", "casefold"} -> own(Each(s, PyLower))
      [] name = "isdigit" -> Truth(All(s, Digits))
      [] name = "isalpha" -> Truth(All(s, Letters))
      [] name = "isalnum" -> Truth(All(s, Letters \cup Numbers))
      [] name = "isspace" -> Truth(All(s, Blank \cup {"\r"}))

PyStrMethod(s, name, args) ==
    CASE name = "removeprefix" -> Text(IF 0 \in Starts(s, args[1]) THEN SubSeq(s, Len(args[1]) + 1, Len(s)) ELSE s)
      [] name = "removesuffix" -> Text(IF Len(s) - Len(args[1]) \in Starts(s, args[1])
                                       THEN SubSeq(s, 1, Len(s) - Len(args[1])) ELSE s)
      [] name = "partition" ->
             IF args[1] # <<>> /\ Starts(s, args[1]) = {} THEN Value("tuple_str", <<s, <<>>, <<>>>>)
             ELSE PyPartition(s, args[1], First(Starts(s, args[1])))
      [] name = "rpartition" ->
             IF args[1] # <<>> /\ Starts(s, args[1]) = {} THEN Value("tuple_str", <<<<>>, <<>>, s>>)
             ELSE PyPartition(s, args[1], Final(Starts(s, args[1])))
      [] name = "expandtabs" -> Text(PyExpandTabs(s, IF args = <<>> THEN 8 ELSE args[1]))
      [] name = "splitlines" -> Value("list_str", PySplitlines(s))
      [] name = "capitalize" -> Text([k \in DOMAIN s |-> IF k = 1 THEN PyUpper(s[k]) ELSE PyLower(s[k])])
      [] name = "title" -> Text(PyTitle(s))
      [] name = "istitle" -> Truth(PyIsTitle(s))
      [] name = "swapcase" -> Text([k \in DOMAIN s |-> IF s[k] \in Uppers THEN PyLower(s[k]) ELSE PyUpper(s[k])])
      [] name = "isupper" -> Truth(SomeCased(s) /\ \A k \in DOMAIN s : s[k] \notin Lowers)
      [] name = "islower" -> Truth(SomeCased(s) /\ \A k \in DOMAIN s : s[k] \notin Uppers)
      [] name = "isidentifier" -> Truth(s # <<>> /\ s[1] \in Letters /\ All(s, Letters \cup Digits))
      [] name = "isnumeric" -> Truth(All(s, Numbers))
      [] name = "isprintable" -> Truth(\A k \in DOMAIN s : s[k] \notin {"\t", "\n", "\r"})
      [] OTHER -> PyTextMethod(Text, LAMBDA x : Value("list_str", x), s, name, args)

PyBytesMethod(b, name, args) ==
    PyTextMethod(Octets, LAMBDA x : Value("list_bytes", x), b, name, args)
(***************************************************************************)
(* Methods of list, set and dict.  A dict is the sequence of its entries   *)
(* <<key, value>> in the order they were put in; keys and values here are  *)
(* numbers.                                                                *)
(***************************************************************************)
Answer(out, after) == [out |-> out, after |-> after]
Without(s, k) == [i \in 1 .. Len(s) - 1 |-> IF i < k THEN s[i] ELSE s[i + 1]]
With(s, k, x) == [i \in 1 .. Len(s) + 1 |-> IF i < k THEN s[i] ELSE IF i = k THEN x ELSE s[i - 1]]
Where(s, x, from) == {k \in DOMAIN s : s[k] = x /\ k > from}
Reversed(s) == [k \in DOMAIN s |-> s[Len(s) + 1 - k]]
Sorted(s) == SortSeq(s, <)

PyListMethod(s, name, args) ==
    CASE name = "append" -> Answer(NoneValue, Append(s, args[1]))
      [] name = "extend" -> Answer(NoneValue, s \o args[1])
      [] name = "insert" -> Answer(NoneValue, With(s, SliceEnd(Len(s), args[1]) + 1, args[2]))
      [] name = "remove" -> IF Where(s, args[1], 0) = {} THEN Answer(Raise("ValueError"), s)
                            ELSE Answer(NoneValue, Without(s, First(Where(s, args[1], 0))))
      [] name = "pop" -> LET i == IF args = <<>> THEN -1 ELSE args[1]
                             k == FromEnd(Len(s), i) + 1
                         IN  IF k \in DOMAIN s THEN Answer(Int64(s[k]), Without(s, k))
                             ELSE Answer(Raise("IndexError"), s)
      [] name = "index" -> LET at == Where(s, args[1], After(s, args, 2))
                           IN  IF at = {} THEN Answer(Raise("ValueError"), s)
                               ELSE Answer(Int64(First(at) - 1), s)
      [] name = "count" -> Answer(Int64(Cardinality(Where(s, args[1], 0))), s)
      [] name = "reverse" -> Answer(NoneValue, Reversed(s))
      [] name = "sort" -> Answer(NoneValue, IF args = <<>> \/ ~args[1] THEN Sorted(s) ELSE Reversed(Sorted(s)))
      [] name = "clear" -> Answer(NoneValue, <<>>)
      [] name = "copy" -> Answer(Value("list_int", s), s)

PySetMethod(s, name, args) ==
    CASE name = "add" -> Answer(NoneValue, s \cup {args[1]})
      [] name = "discard" -> Answer(NoneValue, s \ {args[1]})
      [] name = "remove" -> IF args[1] \in s THEN Answer(NoneValue, s \ {args[1]})
                            ELSE Answer(Raise("KeyError"), s)
      [] name = "clear" -> Answer(NoneValue, {})
      [] name = "copy" -> Answer(Value("set_int", s), s)
      [] name = "union" -> Answer(Value("set_int", s \cup args[1]), s)
      [] name = "intersection" -> Answer(Value("set_int", s \cap args[1]), s)
      [] name = "difference" -> Answer(Value("set_int", s \ args[1]), s)
      [] name = "symmetric_difference" -> Answer(Value("set_int", (s \ args[1]) \cup (args[1] \ s)), s)
      [] name = "issubset" -> Answer(Truth(s \subseteq args[1]), s)
      [] name = "issuperset" -> Answer(Truth(args[1] \subseteq s), s)
      [] name = "isdisjoint" -> Answer(Truth(s \cap args[1] = {}), s)
      [] name = "update" -> Answer(NoneValue, s \cup args[1])

KeyAt(d, key) == {k \in DOMAIN d : d[k][1] = key}
Put(d, entry) == LET at == KeyAt(d, entry[1])
                 IN  IF at = {} THEN Append(d, entry) ELSE [d EXCEPT ![First(at)] = entry]
PutAll(d, entries) ==
    LET upto[k \in 0 .. Len(entries)] == IF k = 0 THEN d ELSE Put(upto[k - 1], entries[k])
    IN  upto[Len(entries)]
PyDictMethod(d, name, args) ==
    LET at == KeyAt(d, args[1])
    IN  CASE name = "get" -> Answer(CASE at # {} -> Int64(d[First(at)][2])
                                      [] Len(args) = 2 -> Int64(args[2])
                                      [] OTHER -> NoneValue, d)
          [] name = "pop" -> CASE at # {} -> Answer(Int64(d[First(at)][2]), Without(d, First(at)))
                               [] Len(args) = 2 -> Answer(Int64(args[2]), d)
                               [] OTHER -> Answer(Raise("KeyError"), d)
          [] name = "keys" -> Answer(Value("list_int", [k \in DOMAIN d |-> d[k][1]]), d)
          [] name = "values" -> Answer(Value("list_int", [k \in DOMAIN d |-> d[k][2]]), d)
          [] name = "items" -> Answer(Value("list_pairs", d), d)
          [] name = "clear" -> Answer(NoneValue, <<>>)
          [] name = "copy" -> Answer(Value("dict", d), d)
          [] name = "update" -> Answer(NoneValue, PutAll(d, args[1]))

(***************************************************************************)
(* Operators.  Numbers have no width; a bool is a number too.              *)
(***************************************************************************)
IsNumber(x) == x.ty \in {"int", "bool", "float"}
Whole1(x) == IF x.ty = "bool" THEN (IF x.v THEN 1 ELSE 0) ELSE x.v
Real(x) == IF x.ty = "float" THEN x.v ELSE <<Whole1(x), 1>>
TypeError == Raise("TypeError")
ZeroDivision == Raise("ZeroDivisionError")
Sequential == {"str", "bytes", "list_int"}
FloorRatio(x) == x[1] \div x[2]              \* of a ratio with a divisor above 0
Over(x, y) == Ratio(x[1] * y[2], x[2] * y[1])
Minus(x, y) == Ratio(x[1] * y[2] - y[1] * x[2], x[2] * y[2])

\* the answer is whole unless an operand is a float
Number(l, r, x) == IF "float" \in {l.ty, r.ty} THEN Float(x) ELSE Int64(x[1])
PyPower(l, r) ==
    LET x == Real(l)
        n == Real(r)[1]
    IN  CASE n >= 0 -> Number(l, r, Ratio(Power(x[1], n), Power(x[2], n)))
          [] x[1] = 0 -> ZeroDivision
          [] OTHER -> Float(Ratio(Power(x[2], -n), Power(x[1], -n)))
PyArithmetic(op, l, r) ==
    LET x == Real(l)
        y == Real(r)
        floor == FloorRatio(Over(x, y))
    IN  CASE op = "+" -> Number(l, r, Minus(x, <<-y[1], y[2]>>))
          [] op = "-" -> Number(l, r, Minus(x, y))
          [] op = "*" -> Number(l, r, Ratio(x[1] * y[1], x[2] * y[2]))
          [] op = "**" -> PyPower(l, r)
          [] op \in {"/", "//", "%"} ->
                 IF y[1] = 0 THEN ZeroDivision
                 ELSE CASE op = "/" -> Float(Over(x, y))
                        [] op = "//" -> Number(l, r, <<floor, 1>>)
                        [] op = "%" -> Number(l, r, Minus(x, Ratio(floor * y[1], y[2])))

\* bits of a whole number, which go on for ever to the left
Bits(op, a, b) ==
    LET bits[p \in Int \X Int] ==
            IF p[1] \in {0, -1} /\ p[2] \in {0, -1}
            THEN CASE op = "&" -> (IF p[1] = -1 /\ p[2] = -1 THEN -1 ELSE 0)
                   [] op = "|" -> (IF p[1] = -1 \/ p[2] = -1 THEN -1 ELSE 0)
                   [] op = "^" -> (IF p[1] # p[2] THEN -1 ELSE 0)
            ELSE 2 * bits[<<p[1] \div 2, p[2] \div 2>>]
                 + Magnitude(bits[<<-(p[1] % 2), -(p[2] % 2)>>])
    IN  bits[<<a, b>>]
PyBits(op, l, r) ==
    LET a == Whole1(l)
        b == Whole1(r)
    IN  CASE op \in {"<<", ">>"} /\ b < 0 -> Raise("ValueError")
          [] op = "<<" -> Int64(a * 2^b)
          [] op = ">>" -> Int64(a \div 2^b)
          [] l.ty = "bool" /\ r.ty = "bool" -> Truth(Bits(op, a, b) # 0)
          [] OTHER -> Int64(Bits(op, a, b))

SeqLess(s, t) == \E n \in 0 .. Least(Len(s), Len(t)) :
    /\ SubSeq(s, 1, n) = SubSeq(t, 1, n)
    /\ n < Len(t)
    /\ n = Len(s) \/ s[n + 1] < t[n + 1]
Codes(x) == IF x.ty = "list_int" THEN x.v ELSE [k \in DOMAIN x.v |-> Code(x.v[k])]
Pairs(d) == {d[k] : k \in DOMAIN d}
PyEqual(l, r) ==
    CASE IsNumber(l) /\ IsNumber(r) -> Real(l) = Real(r)
      [] l.ty # r.ty -> FALSE
      [] l.ty = "dict" -> Pairs(l.v) = Pairs(r.v)
      [] OTHER -> l.v = r.v
PyLess(l, r) ==
    CASE IsNumber(l) -> Real(l)[1] * Real(r)[2] < Real(r)[1] * Real(l)[2]
      [] l.ty = "set_int" -> l.v \subseteq r.v /\ l.v # r.v
      [] OTHER -> SeqLess(Codes(l), Codes(r))
Ordered(l, r) == \/ IsNumber(l) /\ IsNumber(r)
                 \/ l.ty = r.ty /\ l.ty \in Sequential \cup {"set_int"}
PyCompare(op, l, r) ==
    CASE op = "==" -> Truth(PyEqual(l, r))
      [] op = "!=" -> Truth(~PyEqual(l, r))
      [] op \in {"<", ">", "<=", ">="} ->
             IF ~Ordered(l, r) THEN TypeError
             ELSE CASE op = "<" -> Truth(PyLess(l, r))
                    [] op = ">" -> Truth(PyLess(r, l))
                    [] op = "<=" -> Truth(PyLess(l, r) \/ PyEqual(l, r))
                    [] op = ">=" -> Truth(PyLess(r, l) \/ PyEqual(l, r))

Among(x, S) == \E y \in S : PyEqual(x, Int64(y))
PyIn(l, r) ==
    CASE r.ty = "dict" -> Truth(Among(l, {e[1] : e \in Pairs(r.v)}))
      [] r.ty = "list_int" -> Truth(Among(l, Pairs(r.v)))
      [] r.ty = "set_int" -> Truth(Among(l, r.v))
      [] r.ty = "bytes" /\ l.ty \in {"int", "bool"} ->
             IF Whole1(l) \notin ByteRange THEN Raise("ValueError")
             ELSE Truth(\E k \in DOMAIN r.v : Code(r.v[k]) = Whole1(l))
      [] r.ty \in {"str", "bytes"} /\ l.ty = r.ty -> Truth(\E i \in 0 .. Len(r.v) : At(r.v, l.v, i))
      [] OTHER -> TypeError

Over1(s, n) ==
    LET over[k \in 0 .. Most(0, n)] == IF k = 0 THEN <<>> ELSE s \o over[k - 1] IN over[Most(0, n)]
PySets(op, a, b) == CASE op = "&" -> a \cap b [] op = "|" -> a \cup b [] op = "-" -> a \ b
                      [] op = "^" -> (a \cup b) \ (a \cap b)
PyBinary(op, l, r) ==
    LET counts(x) == x.ty \in {"int", "bool"}
        negated(o) == IF o.ty = "bool" THEN Truth(~o.v) ELSE o
    IN  CASE op \in {"is", "is_not"} -> Truth((l.v = <<>>) = (op = "is"))
          [] op \in {"==", "!=", "<", "<=", ">", ">="} -> PyCompare(op, l, r)
          [] op = "in" -> PyIn(l, r)
          [] op = "not_in" -> negated(PyIn(l, r))
          [] op \in {"and", "or"} /\ l.ty = "bool" -> IF l.v = (op = "and") THEN r ELSE l
          [] op \in {"&", "|", "^", "-"} /\ l.ty = "set_int" /\ r.ty = "set_int" ->
                 Value("set_int", PySets(op, l.v, r.v))
          [] op \in {"&", "|", "^", "<<", ">>"} /\ counts(l) /\ counts(r) -> PyBits(op, l, r)
          [] op \in {"+", "-", "*", "/", "//", "%", "**"} /\ IsNumber(l) /\ IsNumber(r) ->
                 PyArithmetic(op, l, r)
          [] op = "+" /\ l.ty \in Sequential /\ l.ty = r.ty -> Value(l.ty, l.v \o r.v)
          [] op = "*" /\ l.ty \in Sequential /\ counts(r) -> Value(l.ty, Over1(l.v, Whole1(r)))
          [] op = "*" /\ r.ty \in Sequential /\ counts(l) -> Value(r.ty, Over1(r.v, Whole1(l)))
          [] OTHER -> TypeError
PyUnary(op, x) ==
    CASE op = "not" /\ x.ty = "bool" -> Truth(~x.v)
      [] op = "neg" /\ IsNumber(x) -> Number(x, x, <<-Real(x)[1], Real(x)[2]>>)
      [] op = "invert" /\ x.ty \in {"int", "bool"} -> Int64(-Whole1(x) - 1)
      [] OTHER -> TypeError

PyIndex(obj, i) ==
    LET k == FromEnd(Len(obj.v), i) + 1
    IN  CASE obj.ty = "dict" -> IF KeyAt(obj.v, i) = {} THEN Raise("KeyError")
                                ELSE Int64(obj.v[First(KeyAt(obj.v, i))][2])
          [] obj.ty \in Sequential ->
                 IF k \notin DOMAIN obj.v THEN Raise("IndexError")
                 ELSE CASE obj.ty = "str" -> Text(<<obj.v[k]>>)
                        [] obj.ty = "bytes" -> Int64(Code(obj.v[k]))
                        [] obj.ty = "list_int" -> Int64(obj.v[k])
\* the items at i, i + k, i + 2k, ... before j, of the n there are
Begins(n, start, k) ==
    IF start = <<>> THEN IF k > 0 THEN 0 ELSE n - 1
    ELSE LET near == FromEnd(n, start[1]) IN IF k > 0 THEN Most(0, near) ELSE Least(n - 1, near)
Stops(n, stop, k) ==
    IF stop = <<>> THEN IF k > 0 THEN n ELSE -1 ELSE Most(-1, FromEnd(n, stop[1]))
Taken(n, i, j, k) == {x \in 0 .. n - 1 : /\ (x - i) % Magnitude(k) = 0
                                        /\ IF k > 0 THEN i <= x /\ x < j ELSE i >= x /\ x > j}
PySlice(obj, start, stop, step) ==
    LET n == Len(obj.v)
        k == IF step = <<>> THEN 1 ELSE step[1]
        taken == Ascending(Taken(n, Begins(n, start, k), Stops(n, stop, k), k))
        order == IF k > 0 THEN taken ELSE Reversed(taken)
    IN  IF k = 0 THEN Raise("ValueError")
        ELSE Value(obj.ty, [m \in DOMAIN order |-> obj.v[order[m] + 1]])

PyMethod(recv, name, args) ==
    CASE recv.ty = "str" -> Answer(PyStrMethod(recv.v, name, args), recv.v)
      [] recv.ty = "bytes" -> Answer(PyBytesMethod(recv.v, name, args), recv.v)
      [] recv.ty = "list_int" -> PyListMethod(recv.v, name, args)
      [] recv.ty = "set_int" -> PySetMethod(recv.v, name, args)
      [] recv.ty = "dict" -> PyDictMethod(recv.v, name, args)
=============================================================================
