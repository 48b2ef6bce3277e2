------------------------------- MODULE Runtime -------------------------------
(***************************************************************************)
(* The helper functions the code generator puts before every program       *)
(* (codegen/mod.rs): integer arithmetic with Python's signs, indexing,     *)
(* slicing, ranges, and the methods of bytes.  A text or a bytes is a      *)
(* sequence of characters, a list a sequence of its elements.  An outcome  *)
(* is a value, or a failure that carries its Python exception.             *)
(***************************************************************************)
EXTENDS Integers, Sequences

CONSTANT Width                   \* a number is an i64: here Width bits
ASSUME WidthAssumption == Width \in Nat \ {0, 1}

(***************************************************************************)
(* Outcomes: what an operation of the generated program comes to.          *)
(***************************************************************************)
Value(type, v) == [ty |-> type, v |-> v]
Int64(n) == Value("int", n)
Truth(b) == Value("bool", b)
Text(s) == Value("str", s)
Octets(s) == Value("bytes", s)
NoneValue == Value("none", "None")
Raise(exception) == Value("raise", exception)
Panic == Value("panic", "rust")          \* a panic that names no Python exception
Hangs == Value("hangs", "loop")
Fails(o) == o.ty \in {"raise", "panic", "hangs"}

(***************************************************************************)
(* Machine integers.  A program is built with overflow checks, so its      *)
(* arithmetic panics where the result has no i64; `as usize` wraps.        *)
(***************************************************************************)
HalfRange == 2^(Width - 1)
\* (what powers of two are, which the prover does not know)
ASSUME PowersAssumption == HalfRange \in Nat \ {0, 1} /\ 2^Width = 2 * HalfRange
MinInt == -HalfRange
MaxInt == HalfRange - 1
Fits(n) == MinInt <= n /\ n <= MaxInt
Checked(n) == IF Fits(n) THEN Int64(n) ELSE Panic
AsUsize(n) == IF n < 0 THEN n + 2^Width ELSE n
AsU32(n) == n % 2^(Width \div 2)         \* `as u32` keeps the low half
Wrapped(n) == ((n + HalfRange) % 2^Width) - HalfRange

Magnitude(n) == IF n < 0 THEN -n ELSE n
\* Rust's / and % truncate towards zero
Quot(a, b) == LET q == Magnitude(a) \div Magnitude(b)
              IN  IF (a < 0) = (b < 0) THEN q ELSE -q
Rem(a, b) == LET r == Magnitude(a) % Magnitude(b) IN IF a < 0 THEN -r ELSE r

\* the sign corrections of __py_mod and __py_floordiv for b # 0
FloorMod(a, b) == LET m == Rem(a, b)
                  IN  IF m # 0 /\ (m < 0) # (b < 0) THEN m + b ELSE m
FloorDiv(a, b) == LET q == Quot(a, b)
                      m == Rem(a, b)
                  IN  IF m # 0 /\ (m < 0) # (b < 0) THEN q - 1 ELSE q

\* i64::MIN / -1 and i64::MIN % -1 overflow before any correction
DivOverflows(a, b) == a = MinInt /\ b = -1
PyMod(a, b) == CASE b = 0 -> Raise("ZeroDivisionError")
                 [] DivOverflows(a, b) -> Panic
                 [] OTHER -> Int64(FloorMod(a, b))
PyFloorDiv_trunc(a, b) == CASE b = 0 -> Raise("ZeroDivisionError")
                            [] DivOverflows(a, b) -> Panic
                            [] OTHER -> Int64(Quot(a, b))
PyFloorDiv(a, b) == CASE b = 0 -> Raise("ZeroDivisionError")
                      [] DivOverflows(a, b) -> Panic
                      [] OTHER -> Int64(FloorDiv(a, b))
Power(a, n) == IF n = 0 THEN 1 ELSE a^n
PyIpow(a, b) == IF b < 0 THEN Raise("ValueError") ELSE Checked(Power(a, AsU32(b)))

(***************************************************************************)
(* Floats.  An f64 is the exact ratio <<n, d>> it stands for, in lowest    *)
(* terms, with <<1, 0>>, <<-1, 0>> and <<0, 0>> for inf, -inf and nan; its *)
(* rounding is left out.                                                   *)
(***************************************************************************)
Sign(n) == CASE n < 0 -> -1 [] n > 0 -> 1 [] OTHER -> 0
CommonDivisor(a, b) ==
    CHOOSE g \in 1 .. Magnitude(b) :
        /\ Magnitude(a) % g = 0 /\ Magnitude(b) % g = 0
        /\ \A h \in g + 1 .. Magnitude(b) : Magnitude(a) % h # 0 \/ Magnitude(b) % h # 0
Ratio(n, d) ==
    IF d = 0 THEN <<Sign(n), 0>>
    ELSE LET g == CommonDivisor(n, d)
         IN  <<Sign(d) * (Sign(n) * (Magnitude(n) \div g)), Magnitude(d) \div g>>
Float(x) == Value("float", x)
Whole(n) == <<n, 1>>
RealLess(x, y) == x[1] * y[2] < y[1] * x[2]
RealQuotient(x, y) == Ratio(x[1] * y[2], x[2] * y[1])
RealFloor(x) == IF x[2] = 0 THEN x ELSE Whole(FloorDiv(x[1], x[2]))
RealTrunc(x) == Quot(x[1], x[2])
\* x^n for a whole n; a power of 0 below 0 is inf
RealPower(x, n) == IF n >= 0 THEN Ratio(Power(x[1], n), Power(x[2], n))
                   ELSE Ratio(Power(x[2], -n), Power(x[1], -n))

\* fmod, then the sign of the divisor (__py_fmod); the sign of a zero is left out
PyFmod(x, y) ==
    LET d == x[2] * y[2]
    IN  IF y[1] = 0 THEN Raise("ZeroDivisionError")
        ELSE Float(Ratio(FloorMod(x[1] * y[2], y[1] * x[2]), d))

(***************************************************************************)
(* Indexing and slicing; sequences here count from 1, Python from 0.       *)
(***************************************************************************)
\* __py_list_get and the index of a text: a negative index counts from the
\* end, and one that is still negative wraps to a number no list is long for
Place(len, i) == AsUsize(IF i < 0 THEN len + i ELSE i)
InList(len, i) == Place(len, i) < len
ListGet(s, i, type) ==
    IF InList(Len(s), i) THEN Value(type, s[Place(Len(s), i) + 1])
                         ELSE Raise("IndexError")

Least(a, b) == IF a < b THEN a ELSE b
Most(a, b) == IF a > b THEN a ELSE b
FromEnd(len, i) == IF i < 0 THEN i + len ELSE i
Clamp(i, low, high) == CASE i < low -> low [] i > high -> high [] OTHER -> i

\* __py_list_slice: without a step, both ends given
SliceEnd(len, i) == Clamp(FromEnd(len, i), 0, len)
ListSlice(s, start, stop) ==
    LET from == SliceEnd(Len(s), start)
        to   == SliceEnd(Len(s), stop)
    IN  IF to > from THEN SubSeq(s, from + 1, to) ELSE <<>>

\* __py_list_slice_step and __py_str_slice_step
Lower(step) == IF step < 0 THEN -1 ELSE 0
Upper(len, step) == IF step < 0 THEN len - 1 ELSE len
StepEnd(len, given, bound, step, absent) ==
    IF given THEN Clamp(FromEnd(len, bound), Lower(step), Upper(len, step))
             ELSE absent
StepStart(len, given, bound, step) ==
    StepEnd(len, given, bound, step, IF step < 0 THEN len - 1 ELSE 0)
StepStop(len, given, bound, step) ==
    StepEnd(len, given, bound, step, IF step < 0 THEN -1 ELSE len)

\* the numbers start, start + step, ... before stop (__py_range_step; the
\* loops of the slices push the elements at these indices)
StepCount(start, stop, step) ==
    CASE step > 0 /\ start < stop -> (stop - start - 1) \div step + 1
      [] step < 0 /\ start > stop -> (start - stop - 1) \div (-step) + 1
      [] OTHER -> 0
Progression(start, stop, step) ==
    [k \in 1 .. StepCount(start, stop, step) |-> start + (k - 1) * step]
\* the counter of the loop is stepped once past its last number
RangeStep(start, stop, step) ==
    CASE step = 0 -> Raise("ValueError")
      [] ~Fits(start + StepCount(start, stop, step) * step) -> Panic
      [] OTHER -> Value("list_int", Progression(start, stop, step))
SliceStep(s, start, stop, step, type) ==
    LET n == Len(s)
        at == Progression(StepStart(n, start # <<>>, IF start = <<>> THEN 0 ELSE start[1], step),
                          StepStop(n, stop # <<>>, IF stop = <<>> THEN 0 ELSE stop[1], step), step)
    IN  IF step = 0 THEN Raise("ValueError")
        ELSE IF at # <<>> /\ ~Fits(at[Len(at)] + step) THEN Panic
        ELSE Value(type, [k \in DOMAIN at |-> s[at[k] + 1]])

\* __py_unpack_list
UnpackList(s, n, type) == IF Len(s) = n THEN Value(type, s) ELSE Raise("ValueError")

(***************************************************************************)
(* Bytes: the loops of BYTES_PRELUDE, each as the function its position    *)
(* computes from there to the end.                                         *)
(***************************************************************************)
At(hay, needle, i) == /\ i + Len(needle) <= Len(hay)
                      /\ SubSeq(hay, i + 1, i + Len(needle)) = needle
Starts(hay, needle) == {i \in 0 .. Len(hay) : At(hay, needle, i)}
First(S) == CHOOSE i \in S : \A j \in S : i <= j
Final(S) == CHOOSE i \in S : \A j \in S : i >= j

BytesFind(hay, needle) == IF Starts(hay, needle) = {} THEN -1 ELSE First(Starts(hay, needle))
BytesRfind(hay, needle) == IF Starts(hay, needle) = {} THEN -1 ELSE Final(Starts(hay, needle))
OrSubsection(r) == IF r < 0 THEN Raise("ValueError") ELSE Int64(r)

\* count: a match is skipped whole
BytesCount_overlapping(hay, needle) ==
    IF needle = <<>> THEN Len(hay) + 1
    ELSE LET from[i \in 0 .. Len(hay)] ==
             IF i = Len(hay) THEN 0
             ELSE (IF At(hay, needle, i) THEN 1 ELSE 0) + from[i + 1]
         IN  from[0]
BytesCount(hay, needle) ==
    IF needle = <<>> THEN Len(hay) + 1
    ELSE LET from[i \in 0 .. Len(hay)] ==
             IF i = Len(hay) THEN 0
             ELSE IF At(hay, needle, i) THEN 1 + from[i + Len(needle)] ELSE from[i + 1]
         IN  from[0]

BytesReplace(hay, old, new) ==
    LET between[i \in 0 .. Len(hay)] ==
            IF i = Len(hay) THEN new ELSE new \o <<hay[i + 1]>> \o between[i + 1]
        from[i \in 0 .. Len(hay)] ==
            IF i = Len(hay) THEN <<>>
            ELSE IF At(hay, old, i) THEN new \o from[i + Len(old)]
            ELSE <<hay[i + 1]>> \o from[i + 1]
    IN  IF old = <<>> THEN between[0] ELSE from[0]

\* split: the pieces from i on, the first of them still growing
BytesSplit(hay, sep) ==
    LET from[i \in 0 .. Len(hay)] ==
            IF i = Len(hay) THEN <<<<>>>>
            ELSE IF At(hay, sep, i) THEN <<<<>>>> \o from[i + Len(sep)]
            ELSE <<<<hay[i + 1]>> \o from[i + 1][1]>> \o Tail(from[i + 1])
    IN  IF sep = <<>> THEN Raise("ValueError") ELSE Value("list_bytes", from[0])

Blank == {" ", "\t", "\n"}
\* split at runs of blanks: no piece is empty
BytesSplitWs(hay) ==
    LET from[i \in 0 .. Len(hay)] ==
            IF i = Len(hay) THEN <<<<>>>>
            ELSE IF hay[i + 1] \in Blank THEN <<<<>>>> \o from[i + 1]
            ELSE <<<<hay[i + 1]>> \o from[i + 1][1]>> \o Tail(from[i + 1])
    IN  SelectSeq(from[0], LAMBDA piece : piece # <<>>)

\* strip: the ends move inwards over the characters of the set
BytesStrip(b, set, left, right) ==
    LET in(i) == \E k \in DOMAIN set : set[k] = b[i]
        lo == IF left THEN First({i \in 1 .. Len(b) + 1 : i = Len(b) + 1 \/ ~in(i)}) ELSE 1
        hi == IF right THEN Final({i \in lo - 1 .. Len(b) : i = lo - 1 \/ ~in(i)}) ELSE Len(b)
    IN  SubSeq(b, lo, hi)

\* the byte of a character, and __py_bytes_index, __py_int_in_bytes
Code(c) == CASE c = " " -> 32 [] c = "-" -> 45 [] c = "0" -> 48 [] c = "1" -> 49 [] c = "A" -> 65
             [] c = "B" -> 66 [] c = "a" -> 97 [] c = "b" -> 98
BytesIndex(b, i) ==
    LET j == FromEnd(Len(b), i)
    IN  IF j < 0 \/ j >= Len(b) THEN Raise("IndexError") ELSE Int64(Code(b[j + 1]))
ByteRange == 0 .. 100                    \* stands for 0 .. 255
IntInBytes(v, b) ==
    IF v \notin ByteRange THEN Raise("ValueError")
    ELSE Truth(\E k \in DOMAIN b : Code(b[k]) = v)

Copies(c, n) == [k \in 1 .. n |-> c]
\* the odd one of an uneven margin goes left where the width is odd
LeftMargin(total, width) == total \div 2 + (IF total % 2 = 1 /\ width % 2 = 1 THEN 1 ELSE 0)
BytesPad(b, width, fill, left, right) ==
    LET w == Most(width, 0)
        total == w - Len(b)
        before == CASE left /\ right -> LeftMargin(total, w)
                    [] left -> total
                    [] OTHER -> 0
    IN  CASE Len(fill) # 1 -> Raise("TypeError")
          [] Len(b) >= w -> Octets(b)
          [] OTHER -> Octets(Copies(fill[1], before) \o b \o Copies(fill[1], total - before))

Signed(b) == b # <<>> /\ b[1] \in {"+", "-"}
BytesZfill(b, width) ==
    LET pad == Copies("0", Most(width, 0) - Len(b))
    IN  IF Len(b) >= Most(width, 0) THEN b
        ELSE IF Signed(b) THEN <<b[1]>> \o pad \o Tail(b)
        ELSE pad \o b

Joined(pieces, sep) ==
    LET upto[k \in 0 .. Len(pieces)] ==
            CASE k = 0 -> <<>>
              [] k = 1 -> pieces[1]
              [] OTHER -> upto[k - 1] \o sep \o pieces[k]
    IN  upto[Len(pieces)]
=============================================================================
