------------------------------ MODULE ValueProofs ------------------------------
(***************************************************************************)
(* Proofs about the built-in values, case by case over every method,       *)
(* operator, subscript, slice and function the runs try: an operand is     *)
(* evaluated once, and the types the checker and the code generator find   *)
(* are those of what the emitted Rust comes to.  Below them the numbers:   *)
(* the sign corrections of the helpers against the quotient rounded down,  *)
(* and what is emitted for two whole numbers, for an index and for a slice *)
(* against what Python makes of them.                                      *)
(***************************************************************************)
EXTENDS MCValues, Indices, FiniteSetTheorems, SequenceTheorems, TLAPS

-----------------------------------------------------------------------------
(* The order of the operands                                                 *)

Operand == {"receiver", "first", "second"}

\* A receiver and the arguments that have a place are named once, in order.
LEMMA ReceiverFirst ==
    ASSUME NEW n \in 0 .. 2
    PROVE  Once(<<"receiver">> \o Arguments(n))
<1> DEFINE all == <<"receiver", "first", "second">>
           given == <<"first", "second">>
           s == <<"receiver">> \o SubSeq(given, 1, n)
           t == SubSeq(all, 1, n + 1)
<1>1. /\ all \in Seq(Operand) /\ Len(all) = 3 /\ all[1] = "receiver" /\ all[2] = "first" /\ all[3] = "second"
      /\ given \in Seq(Operand) /\ Len(given) = 2 /\ given[1] = "first" /\ given[2] = "second"
      /\ <<"receiver">> \in Seq(Operand) /\ Len(<<"receiver">>) = 1 /\ <<"receiver">>[1] = "receiver"
  BY DEF Operand
<1> HIDE DEF all, given
<1>2. /\ SubSeq(given, 1, n) \in Seq(Operand) /\ Len(SubSeq(given, 1, n)) = n
      /\ \A i \in 1 .. n : SubSeq(given, 1, n)[i] = given[i]
  BY <1>1, SubSeqProperties
<1>3. t \in Seq(Operand) /\ Len(t) = n + 1 /\ \A i \in 1 .. n + 1 : t[i] = all[i]
  BY <1>1, SubSeqProperties
<1>4. /\ s \in Seq(Operand) /\ Len(s) = n + 1
      /\ \A i \in 1 .. n + 1 : s[i] = IF i <= 1 THEN "receiver" ELSE SubSeq(given, 1, n)[i - 1]
  BY <1>1, <1>2, ConcatProperties
<1> HIDE DEF s, t
<1>5. \A i \in 1 .. n + 1 : s[i] = t[i]
  BY <1>1, <1>2, <1>3, <1>4
<1>6. s = t
  BY <1>3, <1>4, <1>5, SeqEqual
<1>7. n + 1 \in 0 .. 3
  OBVIOUS
<1> QED
  BY <1>6, <1>7 DEF Once, Arguments, s, t, all, given

LEMMA FewPlaces ==
    ASSUME NEW type, NEW name
    PROVE  PlacesFor(type, name) \in 0 .. 2
BY DEF PlacesFor

\* The tests of a text are those whose answer is a truth value.
LEMMA TestsAnswer ==
    ASSUME NEW recv, NEW name, NEW args, recv.ty = "str",
           name \in {"isdigit", "isalpha", "isupper", "islower", "isspace", "isalnum", "isidentifier", "isnumeric"}
    PROVE  Emitted(recv, name, args).out.ty = "bool"
<1>1. Emitted(recv, name, args) = Done(StrMethod(recv.v, name, args), recv.v)
  BY Zenon DEF Emitted
<1>2. StrMethod(recv.v, name, args) = StrTest(recv.v, name)
  BY DEF StrMethod
<1>3. StrTest(recv.v, name).ty = "bool"
  BY DEF StrTest, Truth, Value
<1> QED
  BY <1>1, <1>2, <1>3 DEF Done

LEMMA MethodOnce ==
    ASSUME NEW recv, NEW name, NEW args, Len(args) \in Nat,
           ~(recv.ty = "list_int" /\ name \in {"count", "index", "remove"}),
           ~(recv.ty = "str" /\ Emitted(recv, name, args).out.ty = "bool"),
           ~(recv.ty = "str" /\ name \in {"join", "zfill", "ljust", "rjust", "center"})
    PROVE  Once(OperandOrder(recv, name, args))
<1> DEFINE n == Least(Len(args), PlacesFor(recv.ty, name))
<1>1. n \in 0 .. 2
  <2>1. PlacesFor(recv.ty, name) \in 0 .. 2
    BY FewPlaces
  <2> QED
    BY <2>1 DEF Least
<1>2. OperandOrder(recv, name, args) = <<"receiver">> \o Arguments(n)
  <2> HIDE DEF n
  <2>1. ~(recv.ty = "str" /\ name \in {"isdigit", "isalpha", "isupper", "islower", "isspace",
                                       "isalnum", "isidentifier", "isnumeric"})
    BY TestsAnswer
  <2> QED
    BY <2>1 DEF OperandOrder, n
<1> HIDE DEF n
<1> QED
  BY <1>1, <1>2, ReceiverFirst

LEMMA BinaryOnce ==
    ASSUME NEW op \in BinaryOps, NEW l, NEW r, op \notin {"and", "or", "&"} \cup Identity \cup Memberships \cup {"*"}
    PROVE  BinaryOrder(op, l, r) = <<"left", "right">>
<1> DEFINE form == Form(op, l.ty, r.ty, FALSE)
<1>1. form \notin {"repeat", "repeat_list", "is_none", "contains"}
  BY DEF Form, Memberships, Identity
<1>2. ~(form = "set" /\ op = "&")
  OBVIOUS
<1> HIDE DEF form
<1> QED
  BY <1>1, <1>2 DEF BinaryOrder, form

\* The arguments of the calls that are tried.
Counted(A) == \A args \in A : Len(args) \in Nat
LEMMA OneCounted == ASSUME NEW S PROVE Counted(One(S))
BY DEF Counted, One
LEMMA TwoCounted == ASSUME NEW S, NEW T PROVE Counted(Two(S, T))
BY DEF Counted, Two
LEMMA NoneCounted == Counted(None)
BY DEF Counted, None
LEMMA ArgsOf == ASSUME NEW R, NEW N, NEW A, Counted(A), NEW c \in Calls(R, N, A) PROVE Len(c.args) \in Nat
BY DEF Calls, Counted
LEMMA BothCounted == ASSUME NEW A, NEW B, Counted(A), Counted(B) PROVE Counted(A \cup B)
BY DEF Counted

LEMMA TextCounted ==
    ASSUME NEW type, NEW c \in TextCalls(type)
    PROVE  Len(c.args) \in Nat
BY OneCounted, TwoCounted, NoneCounted, ArgsOf, BothCounted DEF TextCalls

LEMMA StrCounted ==
    ASSUME NEW c \in StrCalls
    PROVE  Len(c.args) \in Nat
<1>1. Counted({<<x, <<"b">>, n>> : x \in Tiny, n \in {-1, 0, 1}})
  BY DEF Counted
<1> QED
  BY <1>1, OneCounted, TwoCounted, NoneCounted, ArgsOf, BothCounted, TextCounted DEF StrCalls
LEMMA ContainersCounted ==
    ASSUME NEW c \in ContainerCalls
    PROVE  Len(c.args) \in Nat
BY OneCounted, TwoCounted, NoneCounted, ArgsOf, BothCounted DEF ContainerCalls

LEMMA InitOnce == Init => OperandsOnce
BY DEF Init, OperandsOnce

\* What a step leaves, by the kind of what was tried.
LEMMA MethodTried ==
    ASSUME NEW calls, \A c \in calls : Len(c.args) \in Nat, CallMethod(calls)
    PROVE  OperandsOnce'
<1>1. PICK c \in calls :
        /\ case' = [kind |-> "method", of |-> c]
        /\ result'.out = Emitted(c.recv, c.name, c.args).out
        /\ result'.order = OperandOrder(c.recv, c.name, c.args)
  BY DEF CallMethod, Comes
<1>2. Len(c.args) \in Nat
  OBVIOUS
<1>3. case'.kind = "method" /\ case'.of = c
  BY <1>1
<1>4. ASSUME ~Rescanned', ~TurnedRound' PROVE Once(result'.order)
  <2>1. ~(c.recv.ty = "list_int" /\ c.name \in {"count", "index", "remove"})
    BY <1>3, <1>4 DEF Rescanned
  <2>2. ~(c.recv.ty = "str" /\ Emitted(c.recv, c.name, c.args).out.ty = "bool")
    BY <1>1, <1>3, <1>4 DEF Rescanned
  <2>3. ~(c.recv.ty = "str" /\ c.name \in {"join", "zfill", "ljust", "rjust", "center"})
    BY <1>3, <1>4 DEF TurnedRound
  <2> QED
    BY <1>1, <1>2, <2>1, <2>2, <2>3, MethodOnce
<1> QED
  BY <1>3, <1>4 DEF OperandsOnce

LEMMA BinaryTried == ApplyBinary => OperandsOnce'
<1> SUFFICES ASSUME ApplyBinary PROVE OperandsOnce'
  OBVIOUS
<1>1. PICK op, l, r :
        /\ op \in BinaryOps
        /\ case'.kind = "binary" /\ case'.of.op = op
        /\ result'.order = BinaryOrder(op, l, r)
  BY DEF ApplyBinary, TryBinary, Comes
<1>2. ASSUME ~Rescanned', ~TurnedRound' PROVE result'.order = <<"left", "right">>
  <2>1. op \notin {"and", "or", "&"} \cup Identity
    BY <1>1, <1>2 DEF Rescanned
  <2>2. op \notin Memberships \cup {"*"}
    BY <1>1, <1>2 DEF TurnedRound
  <2> QED
    BY <1>1, <2>1, <2>2, BinaryOnce
<1> QED
  BY <1>1, <1>2 DEF OperandsOnce, Once

LEMMA PowerTried == ApplyPower => OperandsOnce'
<1> SUFFICES ASSUME ApplyPower PROVE OperandsOnce'
  OBVIOUS
<1>1. PICK l, r : case'.kind = "binary" /\ result'.order = BinaryOrder("**", l, r)
  BY DEF ApplyPower, TryBinary, Comes
<1>2. result'.order = <<"left", "right">>
  <2>1. "**" \in BinaryOps /\ "**" \notin {"and", "or", "&", "*"} \cup Identity \cup Memberships
    BY DEF BinaryOps, Identity, Memberships
  <2> QED
    BY <1>1, <2>1, BinaryOnce
<1> QED
  BY <1>1, <1>2 DEF OperandsOnce, Once

LEMMA UnaryTried == ApplyUnary => OperandsOnce'
BY DEF ApplyUnary, Comes, OperandsOnce
LEMMA SliceTried == TakeSlice => OperandsOnce'
BY DEF TakeSlice, Comes, OperandsOnce

LEMMA ItemTried == TakeItem => OperandsOnce'
<1> SUFFICES ASSUME TakeItem PROVE OperandsOnce'
  OBVIOUS
<1>1. PICK obj, i :
        /\ case'.kind = "item"
        /\ result'.out = IndexResult(obj, i)
        /\ result'.order = IndexOrder(obj, i)
  BY DEF TakeItem, Comes
<1>2. ASSUME ~Rescanned' PROVE result'.order = <<"left", "right">>
  <2>1. IndexResult(obj, i).ty # "raise"
    BY <1>1, <1>2 DEF Rescanned
  <2>2. obj.ty = "dict" => \E k \in DOMAIN obj.v : obj.v[k][1] = i
    <3> SUFFICES ASSUME obj.ty = "dict", {k \in DOMAIN obj.v : obj.v[k][1] = i} = {} PROVE FALSE
      OBVIOUS
    <3>1. IndexResult(obj, i) = Raise("KeyError")
      BY Zenon DEF IndexResult
    <3> QED
      BY <2>1, <3>1 DEF Raise, Value
  <2> QED
    BY <1>1, <2>2 DEF IndexOrder
<1> QED
  BY <1>1, <1>2 DEF OperandsOnce, Once

\* A call without surplus arguments, of a function whose second operand is not
\* bound before its first, names them in the order they are written.
LEMMA BuiltinOnce ==
    ASSUME NEW c, Len(c.args) \in Nat, ~Surplus(c), c.name \notin {"enumerate", "sum", "map", "filter"}
    PROVE  BuiltinOrder(c) = SubSeq(Ordinal, 1, Len(c.args))
<1>1. BuiltinPlaces(c.name) \in Nat
  BY DEF BuiltinPlaces
<1>2. Least(Len(c.args), BuiltinPlaces(c.name)) = Len(c.args)
  BY <1>1 DEF Least, Surplus
<1> QED
  BY <1>2 DEF BuiltinOrder

LEMMA BuiltinTried == CallBuiltin => OperandsOnce'
<1> SUFFICES ASSUME CallBuiltin PROVE OperandsOnce'
  OBVIOUS
<1>1. PICK c :
        /\ case'.kind = "builtin" /\ case'.of = c
        /\ result'.order = BuiltinOrder(c)
        /\ BuiltinAccepted(c)
  BY DEF CallBuiltin, Comes
<1>2. Len(c.args) \in Nat
  BY <1>1 DEF BuiltinAccepted, LeastArgs, MostArgs
<1>3. ASSUME ~Surplus(c), ~TurnedRound' PROVE result'.order = SubSeq(Ordinal, 1, Len(c.args))
  <2>1. c.name \notin {"enumerate", "sum", "map", "filter"}
    BY <1>1, <1>3 DEF TurnedRound
  <2> QED
    BY <1>1, <1>2, <1>3, <2>1, BuiltinOnce
<1> QED
  BY <1>1, <1>3 DEF OperandsOnce

LEMMA NextOnce == OperandsOnce /\ [Next]_<<case, result>> => OperandsOnce'
<1> SUFFICES ASSUME OperandsOnce, [Next]_<<case, result>> PROVE OperandsOnce'
  OBVIOUS
<1>1. CASE CallMethod(StrCalls)
  BY <1>1, MethodTried, StrCounted
<1>2. CASE CallMethod(TextCalls("bytes"))
  BY <1>2, MethodTried, TextCounted
<1>3. CASE CallMethod(ContainerCalls)
  BY <1>3, MethodTried, ContainersCounted
<1>4. CASE ApplyBinary
  BY <1>4, BinaryTried
<1>5. CASE ApplyPower
  BY <1>5, PowerTried
<1>6. CASE ApplyUnary
  BY <1>6, UnaryTried
<1>7. CASE TakeItem
  BY <1>7, ItemTried
<1>8. CASE TakeSlice
  BY <1>8, SliceTried
<1>9. CASE CallBuiltin
  BY <1>9, BuiltinTried
<1>10. CASE UNCHANGED <<case, result>>
  BY <1>10 DEF OperandsOnce, Rescanned, TurnedRound
<1> QED
  BY <1>1, <1>2, <1>3, <1>4, <1>5, <1>6, <1>7, <1>8, <1>9, <1>10 DEF Next

\* Every operand is evaluated once and from left to right, outside the loops
\* and turned-round forms that are named, however wide a number is.
THEOREM OperandsAlwaysOnce == Spec => []OperandsOnce
<1>1. Init => OperandsOnce
  BY InitOnce
<1>2. OperandsOnce /\ [Next]_<<case, result>> => OperandsOnce'
  BY NextOnce
<1> QED
  BY <1>1, <1>2, PTL DEF Spec

-----------------------------------------------------------------------------
(* The types                                                                 *)

\* What is shown of a result: that it is of the types two places name for it.
Typed(out, checked, oracle) == Is(out, checked) /\ Is(out, oracle) /\ Meets(checked, oracle)

LEMMA TypedAlike ==
    ASSUME NEW out, NEW type, out.ty = type \/ Fails(out)
    PROVE  Typed(out, type, type)
BY DEF Typed, Is, Meets

LEMMA UnknownTyped ==
    ASSUME NEW out
    PROVE  Typed(out, "unknown", "unknown")
BY DEF Typed, Is, Meets

LEMMA Outcomes ==
    /\ \A t, v : Value(t, v).ty = t
    /\ \A n : Int64(n).ty = "int"
    /\ \A b : Truth(b).ty = "bool"
    /\ \A s : Text(s).ty = "str"
    /\ \A s : Octets(s).ty = "bytes"
    /\ \A x : Float(x).ty = "float"
    /\ \A e : Fails(Raise(e))
    /\ Fails(Panic) /\ Fails(Hangs)
    /\ \A n : Checked(n).ty = "int" \/ Fails(Checked(n))
    /\ NoneValue.ty = "none"
BY DEF Value, Int64, Truth, Text, Octets, Float, Fails, Raise, Panic, Hangs, Checked, NoneValue

Yields(out, type) == out.ty = type \/ Fails(out)

\* Methods of str.
LEMMA SplitYields ==
    ASSUME NEW s, NEW name \in {"split", "rsplit"}, NEW args, StrSplit(s, name, args).ty # "refused"
    PROVE  StrSplit(s, name, args).ty = "list_str"
BY Outcomes DEF StrSplit
LEMMA AffixYields ==
    ASSUME NEW s, NEW name \in {"startswith", "endswith", "removeprefix", "removesuffix"}, NEW args
    PROVE  StrAffix(s, name, args).ty = IF name \in {"startswith", "endswith"} THEN "bool" ELSE "str"
BY Outcomes DEF StrAffix
LEMMA SearchYields ==
    ASSUME NEW s, NEW name \in {"find", "rfind", "index", "rindex"}, NEW sub
    PROVE  Yields(StrSearch(s, name, sub), "int")
BY Outcomes DEF StrSearch, OrSubsection, Yields
LEMMA JustifyYields ==
    ASSUME NEW s, NEW name \in {"zfill", "ljust", "rjust", "center"}, NEW args
    PROVE  Yields(StrJustify(s, name, args), "str")
<1> DEFINE width == AsUsize(args[1])
           total == width - Len(s)
           fill == IF Len(args) = 2 THEN args[2] ELSE <<" ">>
           before == CASE name = "rjust" -> total
                       [] name = "ljust" -> 0
                       [] name = "center" -> LeftMargin(total, width)
<1>1. StrJustify(s, name, args) =
          CASE name # "zfill" /\ Len(fill) # 1 -> Raise("TypeError")
            [] width <= Len(s) -> Text(s)
            [] ~Repeats(total) -> Panic
            [] name = "zfill" -> Text(BytesZfill(s, width))
            [] OTHER -> Text(Copies(fill[1], before) \o s \o Copies(fill[1], total - before))
  BY Zenon DEF StrJustify
<1> HIDE DEF width, total, fill, before
<1> QED
  BY <1>1, Outcomes DEF Yields

StrNames == {"strip", "lstrip", "rstrip", "split", "rsplit", "join", "startswith", "endswith",
    "removeprefix", "removesuffix", "replace", "expandtabs", "partition", "rpartition", "find",
    "rfind", "index", "rindex", "count", "isdigit", "isalpha", "isupper", "islower", "isspace",
    "isalnum", "isidentifier", "isnumeric", "isprintable", "istitle", "upper", "lower", "casefold",
    "capitalize", "title", "swapcase", "zfill", "ljust", "rjust", "center", "splitlines"}
LEMMA StrYields ==
    ASSUME NEW s, NEW name \in StrNames, NEW args, StrMethod(s, name, args).ty # "refused"
    PROVE  Yields(StrMethod(s, name, args), StrReturns(name))
<1>1. CASE name \in {"strip", "lstrip", "rstrip"}
  <2>1. StrMethod(s, name, args) = StrStrip(s, name)
    BY <1>1, Zenon DEF StrMethod
  <2>2. StrReturns(name) = "str"
    BY <1>1 DEF StrReturns
  <2> QED
    BY <2>1, <2>2, Outcomes DEF StrStrip, Yields
<1>2. CASE name \in {"split", "rsplit"}
  <2>1. StrMethod(s, name, args) = StrSplit(s, name, args)
    BY <1>2 DEF StrMethod
  <2>2. StrReturns(name) = "list_str"
    BY <1>2 DEF StrReturns
  <2> QED
    BY <1>2, <2>1, <2>2, SplitYields DEF Yields
<1>3. CASE name = "join"
  BY <1>3, Outcomes DEF StrMethod, StrReturns, Yields
<1>4. CASE name \in {"startswith", "endswith", "removeprefix", "removesuffix"}
  <2>1. StrMethod(s, name, args) = StrAffix(s, name, args)
    BY <1>4 DEF StrMethod
  <2>2. StrReturns(name) = IF name \in {"startswith", "endswith"} THEN "bool" ELSE "str"
    BY <1>4 DEF StrReturns
  <2> QED
    BY <1>4, <2>1, <2>2, AffixYields DEF Yields
<1>5. CASE name \in {"replace", "expandtabs"}
  BY <1>5, Outcomes DEF StrMethod, StrReturns, Yields, StrExpandTabs
<1>6. CASE name \in {"partition", "rpartition"}
  BY <1>6, Outcomes DEF StrMethod, StrReturns, Yields, StrPartition
<1>7. CASE name \in {"find", "rfind", "index", "rindex"}
  <2>1. StrMethod(s, name, args) = StrSearch(s, name, args[1])
    BY <1>7 DEF StrMethod
  <2>2. StrReturns(name) = "int"
    BY <1>7 DEF StrReturns
  <2> QED
    BY <1>7, <2>1, <2>2, SearchYields
<1>8. CASE name = "count"
  BY <1>8, Outcomes DEF StrMethod, StrReturns, Yields, StrCount
<1>9. CASE name \in {"isdigit", "isalpha", "isupper", "islower", "isspace", "isalnum", "isidentifier",
                     "isnumeric", "isprintable"}
  <2>1. StrMethod(s, name, args) = StrTest(s, name)
    BY <1>9 DEF StrMethod
  <2>2. StrReturns(name) = "bool"
    BY <1>9 DEF StrReturns
  <2> QED
    BY <2>1, <2>2, Outcomes DEF StrTest, Yields
<1>10. CASE name = "istitle"
  BY <1>10, Outcomes DEF StrMethod, StrReturns, Yields, StrIsTitle
<1>11. CASE name \in {"upper", "lower", "casefold", "capitalize", "title", "swapcase"}
  <2>1. StrMethod(s, name, args) = StrCase(s, name)
    BY <1>11 DEF StrMethod
  <2>2. StrReturns(name) = "str"
    BY <1>11 DEF StrReturns
  <2> QED
    BY <2>1, <2>2, Outcomes DEF StrCase, Yields
<1>12. CASE name \in {"zfill", "ljust", "rjust", "center"}
  <2>1. StrMethod(s, name, args) = StrJustify(s, name, args)
    BY <1>12 DEF StrMethod
  <2>2. StrReturns(name) = "str"
    BY <1>12 DEF StrReturns
  <2> QED
    BY <1>12, <2>1, <2>2, JustifyYields
<1>13. CASE name = "splitlines"
  BY <1>13, Outcomes DEF StrMethod, StrReturns, Yields
<1> QED
  BY <1>1, <1>2, <1>3, <1>4, <1>5, <1>6, <1>7, <1>8, <1>9, <1>10, <1>11, <1>12, <1>13 DEF StrNames

\* Methods of bytes.
LEMMA PadYields ==
    ASSUME NEW b, NEW width, NEW fill, NEW left, NEW right
    PROVE  Yields(BytesPad(b, width, fill, left, right), "bytes")
BY Outcomes DEF BytesPad, Yields
LEMMA BytesSplitYields ==
    ASSUME NEW b, NEW sep
    PROVE  Yields(BytesSplit(b, sep), "list_bytes")
<1> DEFINE from == BytesSplit(b, sep).v
<1>1. BytesSplit(b, sep) = Raise("ValueError") \/ \E v : BytesSplit(b, sep) = Value("list_bytes", v)
  BY DEF BytesSplit
<1> QED
  BY <1>1, Outcomes DEF Yields

BytesNames == {"find", "rfind", "index", "rindex", "count", "startswith", "endswith", "replace", "split",
    "rsplit", "join", "strip", "lstrip", "rstrip", "upper", "lower", "ljust", "rjust", "center", "zfill",
    "isdigit", "isalpha", "isalnum", "isspace"}
LEMMA BytesYields ==
    ASSUME NEW b, NEW name \in BytesNames, NEW args
    PROVE  Yields(BytesMethod(b, name, args), BytesReturns(name))
<1>1. CASE name \in {"find", "rfind", "index", "rindex"}
  <2>1. BytesMethod(b, name, args) = StrSearch(b, name, args[1])
    BY <1>1, Zenon DEF BytesMethod
  <2>2. BytesReturns(name) = "int"
    BY <1>1 DEF BytesReturns
  <2> QED
    BY <1>1, <2>1, <2>2, SearchYields
<1>2. CASE name = "count"
  <2>1. BytesMethod(b, name, args) = Int64(BytesCount(b, args[1]))
    BY <1>2, Zenon DEF BytesMethod
  <2> QED
    BY <1>2, <2>1, Outcomes DEF BytesReturns, Yields
<1>3. CASE name = "startswith"
  <2>1. BytesMethod(b, name, args) = Truth(At(b, args[1], 0))
    BY <1>3, Zenon DEF BytesMethod
  <2> QED
    BY <1>3, <2>1, Outcomes DEF BytesReturns, Yields
<1>4. CASE name = "endswith"
  <2>1. BytesMethod(b, name, args) = Truth(Len(b) - Len(args[1]) \in Starts(b, args[1]))
    BY <1>4, Zenon DEF BytesMethod
  <2> QED
    BY <1>4, <2>1, Outcomes DEF BytesReturns, Yields
<1>5. CASE name \in {"replace", "join", "strip", "lstrip", "rstrip", "upper", "lower", "zfill"}
  <2>1. \E x : BytesMethod(b, name, args) = Octets(x)
    BY <1>5, Zenon DEF BytesMethod
  <2>2. BytesReturns(name) = "bytes"
    BY <1>5 DEF BytesReturns
  <2> QED
    BY <2>1, <2>2, Outcomes DEF Yields
<1>6. CASE name \in {"split", "rsplit"}
  <2>1. BytesMethod(b, name, args) =
            IF args = <<>> THEN Value("list_bytes", BytesSplitWs(b)) ELSE BytesSplit(b, args[1])
    BY <1>6, Zenon DEF BytesMethod
  <2>2. BytesReturns(name) = "list_bytes"
    BY <1>6 DEF BytesReturns
  <2> QED
    BY <2>1, <2>2, Outcomes, BytesSplitYields DEF Yields
<1>7. CASE name \in {"ljust", "rjust", "center"}
  <2>1. \E fill : BytesMethod(b, name, args) = BytesPad(b, args[1], fill, name # "ljust", name # "rjust")
    BY <1>7, Zenon DEF BytesMethod
  <2>2. BytesReturns(name) = "bytes"
    BY <1>7 DEF BytesReturns
  <2> QED
    BY <2>1, <2>2, PadYields
<1>8. CASE name \in {"isdigit", "isalpha", "isalnum", "isspace"}
  <2>1. \E x : BytesMethod(b, name, args) = Truth(x)
    BY <1>8, Zenon DEF BytesMethod
  <2>2. BytesReturns(name) = "bool"
    BY <1>8 DEF BytesReturns
  <2> QED
    BY <2>1, <2>2, Outcomes DEF Yields
<1> QED
  BY <1>1, <1>2, <1>3, <1>4, <1>5, <1>6, <1>7, <1>8 DEF BytesNames

\* Methods of list, set and dict.
\* What a container's method yields; an optional number is a number or nothing.
YieldsOptional(out, type) == Yields(out, type) \/ (type = "opt_int" /\ out.ty \in {"int", "none"})
ListNames == {"append", "extend", "insert", "remove", "pop", "index", "count", "reverse", "sort", "clear", "copy"}
SetNames == {"add", "discard", "remove", "update", "union", "intersection", "difference",
    "symmetric_difference", "issubset", "issuperset", "isdisjoint", "clear", "copy"}
DictNames == {"get", "pop", "keys", "values", "items", "update", "clear", "copy"}
LEMMA ListYields ==
    ASSUME NEW s, NEW name \in ListNames, NEW args
    PROVE  Yields(ListMethod(s, name, args).out, ContainerReturns("list_int", name, Len(args)))
BY Outcomes DEF ListNames, ListMethod, ContainerReturns, ListInsert, ListRemove, ListPop, Done, Yields
LEMMA SetYields ==
    ASSUME NEW s, NEW name \in SetNames, NEW args
    PROVE  Yields(SetMethod(s, name, args).out, ContainerReturns("set_int", name, Len(args)))
BY Outcomes DEF SetNames, SetMethod, ContainerReturns, Done, Yields
LEMMA DictYields ==
    ASSUME NEW d, NEW name \in DictNames, NEW args, Len(args) \in 1 .. 2 \/ name \notin {"get", "pop"}
    PROVE  YieldsOptional(DictMethod(d, name, args).out, ContainerReturns("dict", name, Len(args)))
<1> DEFINE at == Entry(d, args[1])
           found == Int64(d[First(at)][2])
           out == DictMethod(d, name, args).out
<1>0. found.ty = "int" /\ Int64(args[2]).ty = "int"
  BY Outcomes
<1>1. CASE name = "get"
  <2>1. out = CASE at # {} -> found [] Len(args) = 2 -> Int64(args[2]) [] OTHER -> NoneValue
    BY <1>1, Zenon DEF DictMethod, Done
  <2> HIDE DEF out, found, at
  <2>2. ContainerReturns("dict", name, Len(args)) = IF Len(args) <= 1 THEN "opt_int" ELSE "int"
    BY <1>1 DEF ContainerReturns
  <2>3. Len(args) = 1 \/ Len(args) = 2
    BY <1>1
  <2> QED
    BY <1>0, <2>1, <2>2, <2>3, Outcomes DEF Yields, YieldsOptional, out
<1>2. CASE name = "pop"
  <2>1. out = CASE at # {} -> found [] Len(args) = 2 -> Int64(args[2]) [] OTHER -> Raise("KeyError")
    <3>1. PICK rest : DictMethod(d, name, args) = CASE at # {} -> Done(found, rest)
                                                    [] Len(args) = 2 -> Done(Int64(args[2]), d)
                                                    [] OTHER -> Done(Raise("KeyError"), d)
      BY <1>2, Zenon DEF DictMethod
    <3> HIDE DEF found, at
    <3> QED
      BY <3>1 DEF Done
  <2> HIDE DEF out, found, at
  <2>2. ContainerReturns("dict", name, Len(args)) = "int"
    BY <1>2 DEF ContainerReturns
  <2> QED
    BY <1>0, <2>1, <2>2, Outcomes DEF Yields, YieldsOptional, out
<1>3. CASE name = "update"
  <2>1. out = NoneValue
    BY <1>3, Zenon DEF DictMethod, Done
  <2>2. ContainerReturns("dict", name, Len(args)) = "none"
    BY <1>3 DEF ContainerReturns
  <2> QED
    BY <2>1, <2>2, Outcomes DEF Yields, YieldsOptional, out
<1>4. CASE name \in {"keys", "values"}
  <2>1. \E v : out = Value("list_int", v)
    BY <1>4, Zenon DEF DictMethod, Done
  <2>2. ContainerReturns("dict", name, Len(args)) = "list_int"
    BY <1>4 DEF ContainerReturns
  <2> QED
    BY <2>1, <2>2, Outcomes DEF Yields, YieldsOptional, out
<1>5. CASE name = "items"
  <2>1. out = Value("list_pairs", d)
    BY <1>5, Zenon DEF DictMethod, Done
  <2>2. ContainerReturns("dict", name, Len(args)) = "list_pairs"
    BY <1>5 DEF ContainerReturns
  <2> QED
    BY <2>1, <2>2, Outcomes DEF Yields, YieldsOptional, out
<1>6. CASE name = "clear"
  <2>1. out = NoneValue
    BY <1>6, Zenon DEF DictMethod, Done
  <2>2. ContainerReturns("dict", name, Len(args)) = "none"
    BY <1>6 DEF ContainerReturns
  <2> QED
    BY <2>1, <2>2, Outcomes DEF Yields, YieldsOptional, out
<1>7. CASE name = "copy"
  <2>1. out = Value("dict", d)
    BY <1>7, Zenon DEF DictMethod, Done
  <2>2. ContainerReturns("dict", name, Len(args)) = "dict"
    BY <1>7 DEF ContainerReturns
  <2> QED
    BY <2>1, <2>2, Outcomes DEF Yields, YieldsOptional, out
<1> QED
  BY <1>1, <1>2, <1>3, <1>4, <1>5, <1>6, <1>7 DEF DictNames

\* The methods that are tried, by the type of their receiver.
NamesOf(type) ==
    CASE type = "str" -> StrNames [] type = "bytes" -> BytesNames [] type = "list_int" -> ListNames
      [] type = "set_int" -> SetNames [] type = "dict" -> DictNames
Receivable == {"str", "bytes", "list_int", "set_int", "dict"}
Callable(c) == /\ c.recv.ty \in Receivable /\ c.name \in NamesOf(c.recv.ty)
               /\ c.recv.ty = "dict" /\ c.name \in {"get", "pop"} => Len(c.args) \in 1 .. 2
LEMMA Received ==
    ASSUME NEW type, NEW X, NEW N, NEW A, NEW c \in Calls(Of(type, X), N, A)
    PROVE  c.recv.ty = type /\ c.name \in N /\ c.args \in A
BY Outcomes DEF Calls, Of
LEMMA TextCallable ==
    ASSUME NEW type \in {"str", "bytes"}, NEW c \in TextCalls(type)
    PROVE  c.recv.ty = type /\ c.name \in StrNames /\ c.name \in NamesOf(type)
<1> DEFINE N == StrNames \cap BytesNames
<1>1. c.recv.ty = type /\ (c.name \in N \/ (type = "str" /\ c.name \in StrNames))
  BY Received DEF TextCalls, StrNames, BytesNames
<1> QED
  BY <1>1 DEF NamesOf
LEMMA StrCallable ==
    ASSUME NEW c \in StrCalls
    PROVE  Callable(c)
<1>1. c.recv.ty = "str" /\ c.name \in StrNames
  <2>1. CASE c \in TextCalls("str")
    BY <2>1, TextCallable
  <2>2. CASE c \notin TextCalls("str")
    BY <2>2, Received DEF StrCalls, StrNames
  <2> QED
    BY <2>1, <2>2
<1> QED
  BY <1>1 DEF Callable, NamesOf, Receivable
LEMMA ContainerCallable ==
    ASSUME NEW c \in ContainerCalls
    PROVE  Callable(c)
<1>1. \A S, args : args \in One(S) => Len(args) = 1
  BY DEF One
<1>2. \A S, T, args : args \in Two(S, T) => Len(args) = 2
  BY DEF Two
<1>3. \/ c.recv.ty = "list_int" /\ c.name \in ListNames
      \/ c.recv.ty = "set_int" /\ c.name \in SetNames
      \/ /\ c.recv.ty = "dict" /\ c.name \in DictNames
         /\ c.name \in {"get", "pop"} => Len(c.args) \in 1 .. 2
  BY <1>1, <1>2, Received DEF ContainerCalls, ListNames, SetNames, DictNames
<1> QED
  BY <1>3 DEF Callable, NamesOf, Receivable

LEMMA MethodTyped ==
    ASSUME NEW c, Callable(c), Emitted(c.recv, c.name, c.args).out.ty # "refused"
    PROVE  Typed(Emitted(c.recv, c.name, c.args).out, MethodReturns(c.recv.ty, c.name, Len(c.args)),
                 MethodReturns(c.recv.ty, c.name, Len(c.args)))
<1> DEFINE out == Emitted(c.recv, c.name, c.args).out
           type == MethodReturns(c.recv.ty, c.name, Len(c.args))
<1>1. CASE c.recv.ty = "str"
  <2>1. out = StrMethod(c.recv.v, c.name, c.args) /\ type = StrReturns(c.name)
    BY <1>1, Zenon DEF Emitted, Done, MethodReturns
  <2>2. c.name \in StrNames
    BY <1>1 DEF Callable, NamesOf
  <2> QED
    BY <2>1, <2>2, StrYields, TypedAlike DEF Yields
<1>2. CASE c.recv.ty = "bytes"
  <2>1. out = BytesMethod(c.recv.v, c.name, c.args) /\ type = BytesReturns(c.name)
    BY <1>2 DEF Emitted, Done, MethodReturns
  <2>2. c.name \in BytesNames
    BY <1>2 DEF Callable, NamesOf
  <2> QED
    BY <2>1, <2>2, BytesYields, TypedAlike DEF Yields
<1>3. CASE c.recv.ty = "list_int"
  <2>1. /\ out = ListMethod(c.recv.v, c.name, c.args).out
        /\ type = ContainerReturns("list_int", c.name, Len(c.args))
    BY <1>3 DEF Emitted, MethodReturns
  <2>2. c.name \in ListNames
    BY <1>3 DEF Callable, NamesOf
  <2> QED
    BY <2>1, <2>2, ListYields, TypedAlike DEF Yields
<1>4. CASE c.recv.ty = "set_int"
  <2>1. /\ out = SetMethod(c.recv.v, c.name, c.args).out
        /\ type = ContainerReturns("set_int", c.name, Len(c.args))
    BY <1>4 DEF Emitted, MethodReturns
  <2>2. c.name \in SetNames
    BY <1>4 DEF Callable, NamesOf
  <2> QED
    BY <2>1, <2>2, SetYields, TypedAlike DEF Yields
<1>5. CASE c.recv.ty = "dict"
  <2>1. /\ out = DictMethod(c.recv.v, c.name, c.args).out
        /\ type = ContainerReturns("dict", c.name, Len(c.args))
    BY <1>5 DEF Emitted, MethodReturns
  <2>2. c.name \in DictNames /\ (Len(c.args) \in 1 .. 2 \/ c.name \notin {"get", "pop"})
    BY <1>5 DEF Callable, NamesOf
  <2>3. YieldsOptional(out, type)
    BY <2>1, <2>2, DictYields
  <2> HIDE DEF out, type
  <2> QED
    BY <2>3, TypedAlike DEF Yields, YieldsOptional, Typed, Is, Meets, out, type
<1> QED
  BY <1>1, <1>2, <1>3, <1>4, <1>5 DEF Callable, Receivable

\* Operators: the two types of an expression by the form it is emitted in.
OperandTypes == {"int", "float", "bool", "str", "bytes", "list_int", "set_int", "dict", "opt_int"}
Named(op, l, r, negative, type) ==
    /\ BinaryType(op, l, r, negative) \in {type, "unknown"}
    /\ BinaryOracle(op, l, r, negative) \in {type, "unknown"}
LEMMA NamedTyped ==
    ASSUME NEW op, NEW l, NEW r, NEW negative, NEW type, NEW out,
           Named(op, l, r, negative, type), Yields(out, type)
    PROVE  Typed(out, BinaryType(op, l, r, negative), BinaryOracle(op, l, r, negative))
BY DEF Named, Yields, Typed, Is, Meets

Emits(form, op, l, r, negative) ==
    /\ form = Form(op, l, r, negative) /\ Compiles(form, op, l, r)
    /\ BinaryType(op, l, r, negative) # "refused"
    /\ ~(op \in {"&", "|", "^"} /\ r = "bool")
LEMMA FloatForms ==
    ASSUME NEW form \in {"divide", "powf", "floor", "fmod"}, NEW op \in BinaryOps, NEW l \in OperandTypes,
           NEW r \in OperandTypes, NEW negative \in BOOLEAN, Emits(form, op, l, r, negative)
    PROVE  Named(op, l, r, negative, "float")
<1>1. l \in {"int", "float"} /\ r \in {"int", "float"}
  BY DEF Emits, Compiles, NumberTypes
<1>2. CASE form = "divide"
  <2>1. op = "/"
    BY <1>2 DEF Emits, Form
  <2> QED
    BY <1>1, <2>1 DEF Named, BinaryType, BinaryOracle, SetAlgebra, Identity, IsBytesBinary, Memberships, Comparisons, Logic, BitOps, Arithmetic
<1>3. CASE form = "powf"
  <2>1. op = "**" /\ ~PowYieldsInt(l, r, negative)
    BY <1>3 DEF Emits, Form
  <2> QED
    BY <1>1, <2>1 DEF Named, BinaryType, BinaryOracle, SetAlgebra, Identity, IsBytesBinary, Memberships, Comparisons, Logic, BitOps, Arithmetic
<1>4. CASE form = "floor"
  <2>1. op = "//" /\ "float" \in {l, r}
    BY <1>4 DEF Emits, Form
  <2> QED
    BY <1>1, <2>1 DEF Named, BinaryType, BinaryOracle, SetAlgebra, Identity, IsBytesBinary, Memberships, Comparisons, Logic, BitOps, Arithmetic
<1>5. CASE form = "fmod"
  <2>1. op = "%" /\ "float" \in {l, r}
    BY <1>5 DEF Emits, Form
  <2> QED
    BY <1>1, <2>1 DEF Named, BinaryType, BinaryOracle, SetAlgebra, Identity, IsBytesBinary, Memberships, Comparisons, Logic, BitOps, Arithmetic
<1> QED
  BY <1>2, <1>3, <1>4, <1>5
LEMMA NumberForms ==
    ASSUME NEW form \in {"ipow", "floordiv", "mod"}, NEW op \in BinaryOps, NEW l \in OperandTypes,
           NEW r \in OperandTypes, NEW negative \in BOOLEAN, Emits(form, op, l, r, negative)
    PROVE  Named(op, l, r, negative, "int")
<1>1. l = "int" /\ r = "int"
  BY DEF Emits, Compiles, NumberTypes
<1>2. CASE form = "ipow"
  <2>1. op = "**" /\ PowYieldsInt(l, r, negative)
    BY <1>2 DEF Emits, Form
  <2> QED
    BY <1>1, <2>1 DEF Named, BinaryType, BinaryOracle, SetAlgebra, Identity, IsBytesBinary, Memberships, Comparisons, Logic, BitOps, Arithmetic
<1>3. CASE form \in {"floordiv", "mod"}
  <2>1. op \in {"//", "%"}
    BY <1>3 DEF Emits, Form
  <2> QED
    BY <1>1, <2>1 DEF Named, BinaryType, BinaryOracle, SetAlgebra, Identity, IsBytesBinary, Memberships, Comparisons, Logic, BitOps, Arithmetic
<1> QED
  BY <1>2, <1>3
LEMMA TruthForms ==
    ASSUME NEW form \in {"contains", "is_none"}, NEW op \in BinaryOps, NEW l \in OperandTypes,
           NEW r \in OperandTypes, NEW negative \in BOOLEAN, Emits(form, op, l, r, negative)
    PROVE  Named(op, l, r, negative, "bool")
<1>1. op \in Memberships \cup Identity
  BY DEF Emits, Form
<1>2. CASE op \in Memberships
  <2>1. "opt_int" \notin {l, r} /\ op \in {"in", "not_in"}
    BY <1>2 DEF Emits, BinaryType, Memberships, Identity
  <2>2. BinaryType(op, l, r, negative) = "bool"
    <3>1. CASE r = "bytes"
      BY <2>1, <3>1 DEF Emits, BinaryType, BytesBinary, IsBytesBinary, SetAlgebra, Memberships, Identity, Comparisons, Logic, BitOps
    <3>2. CASE r # "bytes"
      BY <2>1, <3>2 DEF Emits, BinaryType, BytesBinary, IsBytesBinary, SetAlgebra, Memberships, Identity, Comparisons, Logic, BitOps
    <3> QED
      BY <3>1, <3>2
  <2>3. BinaryOracle(op, l, r, negative) = "bool"
    BY <2>1 DEF BinaryOracle, SetAlgebra, Memberships, Arithmetic, Identity, Comparisons, Logic
  <2> QED
    BY <2>2, <2>3 DEF Named
<1>3. CASE op \in Identity
  <2>1. op \in {"is", "is_not"}
    BY <1>3 DEF Identity
  <2>2. BinaryType(op, l, r, negative) = "bool"
    BY <2>1 DEF Emits, BinaryType, BytesBinary, IsBytesBinary, SetAlgebra, Memberships, Identity, Comparisons, Logic, BitOps
  <2>3. BinaryOracle(op, l, r, negative) = "bool"
    BY <2>1 DEF BinaryOracle, SetAlgebra, Memberships, Arithmetic, Identity, Comparisons, Logic
  <2> QED
    BY <2>2, <2>3 DEF Named
<1> QED
  BY <1>1, <1>2, <1>3

\* The forms that make texts, bytes, lists and sets.
LEMMA SetForms ==
    ASSUME NEW op \in BinaryOps, NEW l \in OperandTypes, NEW r \in OperandTypes, NEW negative \in BOOLEAN,
           Emits("set", op, l, r, negative)
    PROVE  Named(op, l, r, negative, "set_int")
<1>1. l = "set_int" /\ r = "set_int"
  BY DEF Emits, Compiles
<1>2. op \in SetAlgebra
  BY <1>1 DEF Emits, Form, SetAlgebra, Identity, Memberships
<1> QED
  BY <1>1, <1>2 DEF Named, BinaryType, BinaryOracle, SetAlgebra, Identity
LEMMA ConcatForms ==
    ASSUME NEW op \in BinaryOps, NEW l \in OperandTypes, NEW r \in OperandTypes, NEW negative \in BOOLEAN,
           Emits("concat", op, l, r, negative)
    PROVE  Named(op, l, r, negative, "bytes")
<1>1. op = "+" /\ l = "bytes" /\ r = "bytes"
  BY DEF Emits, Form
<1>2. BinaryOracle(op, l, r, negative) = "bytes"
  BY <1>1 DEF BinaryOracle, SetAlgebra
<1>3. BinaryType(op, l, r, negative) = BytesBinary(op, l, r)
  BY <1>1 DEF BinaryType, IsBytesBinary, SetAlgebra, Identity, Memberships
<1>4. BytesBinary(op, l, r) = "bytes"
  BY <1>1 DEF BytesBinary, Comparisons, Memberships
<1> QED
  BY <1>2, <1>3, <1>4 DEF Named
LEMMA FormatForms ==
    ASSUME NEW op \in BinaryOps, NEW l \in OperandTypes, NEW r \in OperandTypes, NEW negative \in BOOLEAN,
           Emits("format", op, l, r, negative)
    PROVE  op = "+" /\ l \in {"str", "int", "float", "bool"} /\ r \in {"str", "int", "float", "bool"}
               /\ "str" \in {l, r} /\ Named(op, l, r, negative, "str")
<1>1. op = "+" /\ "str" \in {l, r}
  BY DEF Emits, Form
<1>2. l \in {"str", "int", "float", "bool"} /\ r \in {"str", "int", "float", "bool"}
  BY DEF Emits, Compiles
<1>3. BinaryOracle(op, l, r, negative) = "str"
  BY <1>1, <1>2 DEF BinaryOracle, SetAlgebra
<1>4. BinaryType(op, l, r, negative) = IF l = r THEN l ELSE "unknown"
  <2>1. BinaryType(op, l, r, negative) = IF l = r THEN l ELSE IF {l, r} = {"int", "float"} THEN "float" ELSE "unknown"
    BY <1>1, <1>2 DEF BinaryType, IsBytesBinary, SetAlgebra, Identity, Memberships, Comparisons, Logic, BitOps
  <2> QED
    BY <1>1, <2>1
<1> QED
  BY <1>1, <1>2, <1>3, <1>4 DEF Named
LEMMA RepeatForms ==
    ASSUME NEW form \in {"repeat", "repeat_list"}, NEW op \in BinaryOps, NEW l \in OperandTypes,
           NEW r \in OperandTypes, NEW negative \in BOOLEAN, Emits(form, op, l, r, negative)
    PROVE  /\ op = "*"
           /\ \/ l \in Repeatable /\ r \in {"int", "float", "bool"}
              \/ r \in Repeatable /\ l \in {"int", "float", "bool"}
           /\ "float" \notin {l, r} => Named(op, l, r, negative, IF l \in Repeatable THEN l ELSE r)
<1>1. op = "*" /\ \E t \in Repeatable : t \in {l, r}
  BY DEF Emits, Form, Repeatable
<1>2. l \in {"int", "float", "bool"} \/ r \in {"int", "float", "bool"}
  BY DEF Emits, Compiles
<1>3. \/ l \in Repeatable /\ r \in {"int", "float", "bool"}
      \/ r \in Repeatable /\ l \in {"int", "float", "bool"}
  BY <1>1, <1>2 DEF Repeatable
<1>4. ASSUME "float" \notin {l, r}
      PROVE  Named(op, l, r, negative, IF l \in Repeatable THEN l ELSE r)
  <2> DEFINE type == IF l \in Repeatable THEN l ELSE r
  <2>1. BinaryOracle(op, l, r, negative) = type
    BY <1>1, <1>3, <1>4 DEF BinaryOracle, SetAlgebra, Repeatable
  <2>2. CASE "bytes" \in {l, r}
    <3>1. BinaryType(op, l, r, negative) = BytesBinary(op, l, r)
      BY <1>1, <1>3, <2>2 DEF BinaryType, IsBytesBinary, SetAlgebra, Identity, Memberships, Repeatable
    <3>2. BytesBinary(op, l, r) \in {"bytes", "refused"}
      BY <1>1 DEF BytesBinary, Comparisons, Memberships
    <3>3. type = "bytes"
      BY <1>3, <2>2 DEF Repeatable
    <3> QED
      BY <2>1, <3>1, <3>2, <3>3 DEF Named, Emits
  <2>3. CASE "bytes" \notin {l, r}
    <3>1. BinaryType(op, l, r, negative) =
              IF l = r THEN l ELSE IF {l, r} = {"int", "float"} THEN "float" ELSE "unknown"
      BY <1>1, <1>3, <2>3 DEF BinaryType, IsBytesBinary, SetAlgebra, Identity, Memberships, Comparisons, Logic, BitOps, Repeatable
    <3>2. l # r /\ {l, r} # {"int", "float"}
      BY <1>3 DEF Repeatable
    <3> QED
      BY <2>1, <3>1, <3>2 DEF Named
  <2> QED
    BY <2>2, <2>3
<1> QED
  BY <1>1, <1>3, <1>4

\* The forms of Rust's own operators.
LEMMA InfixForms ==
    ASSUME NEW op \in BinaryOps, NEW l \in OperandTypes, NEW r \in OperandTypes, NEW negative \in BOOLEAN,
           Emits("infix", op, l, r, negative)
    PROVE  \/ op \in Comparisons \cup Logic /\ Named(op, l, r, negative, "bool")
           \/ op \in {"<<", ">>"} /\ Named(op, l, r, negative, "int")
           \/ op \in {"&", "|", "^"} /\ l = "int" /\ r = "int" /\ Named(op, l, r, negative, "int")
           \/ op \in {"+", "-", "*"} /\ l = "int" /\ r = "int" /\ Named(op, l, r, negative, "int")
           \/ op \in {"+", "-", "*"} /\ ~(l = "int" /\ r = "int") /\ Named(op, l, r, negative, "float")
<1>1. InfixCompiles(op, l, r)
  BY DEF Emits, Compiles
<1>2. op \in Comparisons \cup Logic \cup BitOps \cup {"+", "-", "*"}
  BY DEF Emits, Form, BinaryOps, Memberships, Identity, Arithmetic, Comparisons, Logic, BitOps
<1>3. CASE op \in Comparisons \cup Logic
  <2>1. BinaryOracle(op, l, r, negative) = "bool"
    BY <1>3 DEF BinaryOracle, SetAlgebra, Memberships, Arithmetic, Identity, Comparisons, Logic
  <2>2. CASE "bytes" \in {l, r}
    <3>1. BinaryType(op, l, r, negative) = BytesBinary(op, l, r)
      BY <1>3, <2>2 DEF Emits, BinaryType, IsBytesBinary, SetAlgebra, Identity, Memberships, Comparisons, Logic
    <3>2. BytesBinary(op, l, r) \in {"bool", "refused"}
      BY <1>3 DEF BytesBinary, Comparisons, Memberships, Logic
    <3> QED
      BY <1>3, <2>1, <3>1, <3>2 DEF Named, Emits
  <2>3. CASE "bytes" \notin {l, r}
    <3>1. BinaryType(op, l, r, negative) = "bool"
      BY <1>3, <2>3 DEF Emits, BinaryType, IsBytesBinary, SetAlgebra, Identity, Memberships, Comparisons, Logic, BitOps
    <3> QED
      BY <1>3, <2>1, <3>1 DEF Named
  <2> QED
    BY <2>2, <2>3
<1>4. CASE op \in BitOps
  <2>1. l = "int" /\ r = "int"
    BY <1>1, <1>4 DEF InfixCompiles, Emits, BitOps, Logic, Orderings
  <2>2. BinaryType(op, l, r, negative) = "int"
    BY <1>4, <2>1 DEF BinaryType, IsBytesBinary, SetAlgebra, Identity, Memberships, Comparisons, Logic, BitOps
  <2>3. BinaryOracle(op, l, r, negative) = "unknown"
    BY <1>4, <2>1 DEF BinaryOracle, SetAlgebra, Memberships, Arithmetic, Identity, Comparisons, Logic, BitOps
  <2> QED
    BY <1>4, <2>1, <2>2, <2>3 DEF Named, BitOps
<1>5. CASE op \in {"+", "-", "*"}
  <2>1. l \in NumberTypes /\ r \in NumberTypes
    BY <1>1, <1>5 DEF InfixCompiles, Logic, Orderings
  <2>2. BinaryType(op, l, r, negative) = IF l = "int" /\ r = "int" THEN "int" ELSE "float"
    BY <1>5, <2>1 DEF BinaryType, IsBytesBinary, SetAlgebra, Identity, Memberships, Comparisons, Logic, BitOps, NumberTypes
  <2>3. BinaryOracle(op, l, r, negative) = IF l = "int" /\ r = "int" THEN "int" ELSE "float"
    BY <1>5, <2>1 DEF BinaryOracle, SetAlgebra, Memberships, Arithmetic, Identity, Comparisons, Logic, NumberTypes
  <2> QED
    BY <1>5, <2>1, <2>2, <2>3 DEF Named
<1> QED
  BY <1>2, <1>3, <1>4, <1>5

\* What each form comes to.
LEMMA FormYields ==
    ASSUME NEW op, NEW l, NEW r
    PROVE  /\ \A form \in {"divide", "powf", "floor", "fmod"} : Yields(BinaryForm(form, op, l, r), "float")
           /\ \A form \in {"ipow", "floordiv", "mod"} : Yields(BinaryForm(form, op, l, r), "int")
           /\ Yields(BinaryForm("set", op, l, r), "set_int")
           /\ Yields(BinaryForm("concat", op, l, r), "bytes")
           /\ Yields(BinaryForm("is_none", op, l, r), "bool")
           /\ \A form \in {"repeat", "repeat_list"} : BinaryForm(form, op, l, r) = Repeat(l, r)
           /\ BinaryForm("format", op, l, r) = Formatted(l, r)
           /\ BinaryForm("infix", op, l, r) = Infix(op, l, r)
           /\ BinaryForm("contains", op, l, r) =
                  IF op = "in" THEN Membership(l, r) ELSE Denied(Membership(l, r))
<1>1. Yields(BinaryForm("divide", op, l, r), "float")
  BY Outcomes DEF BinaryForm, Yields
<1>2. Yields(BinaryForm("powf", op, l, r), "float")
  BY Outcomes DEF BinaryForm, Yields
<1>3. Yields(BinaryForm("floor", op, l, r), "float")
  BY Outcomes DEF BinaryForm, Yields
<1>4. Yields(BinaryForm("fmod", op, l, r), "float")
  BY Outcomes DEF BinaryForm, Yields, PyFmod
<1>5. Yields(BinaryForm("ipow", op, l, r), "int")
  BY Outcomes DEF BinaryForm, Yields, PyIpow
<1>6. Yields(BinaryForm("floordiv", op, l, r), "int")
  BY Outcomes DEF BinaryForm, Yields, PyFloorDiv
<1>7. Yields(BinaryForm("mod", op, l, r), "int")
  BY Outcomes DEF BinaryForm, Yields, PyMod
<1>8. Yields(BinaryForm("set", op, l, r), "set_int")
  BY Outcomes DEF BinaryForm, Yields, SetOperation
<1>9. Yields(BinaryForm("concat", op, l, r), "bytes")
  BY Outcomes DEF BinaryForm, Yields
<1>10. Yields(BinaryForm("is_none", op, l, r), "bool")
  BY Outcomes DEF BinaryForm, Yields
<1>11. \A form \in {"repeat", "repeat_list"} : BinaryForm(form, op, l, r) = Repeat(l, r)
  BY DEF BinaryForm
<1>12. BinaryForm("format", op, l, r) = Formatted(l, r)
  BY DEF BinaryForm
<1>13. BinaryForm("infix", op, l, r) = Infix(op, l, r)
  BY DEF BinaryForm
<1>14. BinaryForm("contains", op, l, r) = IF op = "in" THEN Membership(l, r) ELSE Denied(Membership(l, r))
  BY DEF BinaryForm
<1> QED
  BY <1>1, <1>2, <1>3, <1>4, <1>5, <1>6, <1>7, <1>8, <1>9, <1>10, <1>11, <1>12, <1>13, <1>14

LEMMA MembershipYields ==
    ASSUME NEW l, NEW r
    PROVE  Yields(Membership(l, r), "bool") /\ Yields(Denied(Membership(l, r)), "bool")
<1>1. Yields(Membership(l, r), "bool")
  BY Outcomes DEF Membership, IntInBytes, Yields
<1>2. Yields(Denied(Membership(l, r)), "bool")
  BY <1>1, Outcomes DEF Denied, Yields
<1> QED
  BY <1>1, <1>2
LEMMA InfixYields ==
    ASSUME NEW op, NEW l, NEW r
    PROVE  /\ op \in Comparisons \cup Logic => Yields(Infix(op, l, r), "bool")
           /\ op \in {"<<", ">>"} => Yields(Infix(op, l, r), "int")
           /\ op \in {"&", "|", "^"} /\ l.ty = "int" => Yields(Infix(op, l, r), "int")
           /\ op \in {"+", "-", "*"} =>
                  Yields(Infix(op, l, r), IF l.ty = "int" /\ r.ty = "int" THEN "int" ELSE "float")
<1>1. ASSUME op \in Comparisons \cup Logic PROVE \E b : Infix(op, l, r) = Truth(b)
  BY <1>1, Zenon DEF Infix, Comparisons, Logic
<1>2. ASSUME op \in {"<<", ">>"} PROVE Yields(Infix(op, l, r), "int")
  <2>1. Infix(op, l, r) = Shift(op, l.v, r.v)
    BY <1>2, Zenon DEF Infix, Comparisons
  <2>2. \A n : Yields(Int64(n), "int") /\ Yields(Panic, "int")
    BY Outcomes DEF Yields
  <2>3. Shift(op, l.v, r.v) = Panic \/ \E n : Shift(op, l.v, r.v) = Int64(n)
    <3> DEFINE out == r.v \notin 0 .. Width - 1
               left == Int64(Wrapped(l.v * 2^r.v))
               right == Int64(FloorDiv(l.v, 2^r.v))
    <3>1. Shift(op, l.v, r.v) = IF out THEN Panic ELSE CASE op = "<<" -> left [] op = ">>" -> right
      BY Zenon DEF Shift
    <3>2. (\E n : left = Int64(n)) /\ (\E n : right = Int64(n))
      BY Zenon
    <3> HIDE DEF out, left, right
    <3>3. CASE out
      BY <1>2, <3>1, <3>3
    <3>4. CASE ~out
      BY <1>2, <3>1, <3>2, <3>4
    <3> QED
      BY <3>3, <3>4
  <2> QED
    BY <2>1, <2>2, <2>3
<1>3. ASSUME op \in {"&", "|", "^"}, l.ty = "int" PROVE \E n : Infix(op, l, r) = Int64(n)
  <2>1. Infix(op, l, r) = Bitwise64(op, l.v, r.v)
    BY <1>3, Zenon DEF Infix, Comparisons
  <2> QED
    BY <2>1, Zenon DEF Bitwise64
<1>4. ASSUME op \in {"+", "-", "*"}
      PROVE  Yields(Infix(op, l, r), IF l.ty = "int" /\ r.ty = "int" THEN "int" ELSE "float")
  <2>1. IF l.ty = "int" /\ r.ty = "int" THEN \E n : Infix(op, l, r) = Checked(n)
        ELSE \E x : Infix(op, l, r) = Float(x)
    BY <1>4, Zenon DEF Infix, Comparisons
  <2> QED
    BY <2>1, Outcomes DEF Yields
<1> QED
  BY <1>1, <1>2, <1>3, <1>4, Outcomes DEF Yields

\* Python refuses to put a text and a number together, and to repeat by a float.
LEMMA RefusedMixes ==
    ASSUME NEW l, NEW r
    PROVE  /\ /\ l.ty \in {"str", "int", "float", "bool"} /\ r.ty \in {"str", "int", "float", "bool"}
              /\ "str" \in {l.ty, r.ty} /\ l.ty # r.ty
              => RefusedByPython(Py!PyBinary("+", l, r))
           /\ \/ l.ty \in Repeatable /\ r.ty = "float"
              \/ r.ty \in Repeatable /\ l.ty = "float"
              => RefusedByPython(Py!PyBinary("*", l, r))
<1>1. RefusedByPython(Py!TypeError)
  BY DEF RefusedByPython, Py!TypeError, Py!Raise, Py!Value
<1>2. ASSUME l.ty \in {"str", "int", "float", "bool"}, r.ty \in {"str", "int", "float", "bool"},
             "str" \in {l.ty, r.ty}, l.ty # r.ty
      PROVE  Py!PyBinary("+", l, r) = Py!TypeError
  BY <1>2 DEF Py!PyBinary, Py!IsNumber, Py!Sequential
<1>3. ASSUME \/ l.ty \in Repeatable /\ r.ty = "float"
             \/ r.ty \in Repeatable /\ l.ty = "float"
      PROVE  Py!PyBinary("*", l, r) = Py!TypeError
  BY <1>3 DEF Py!PyBinary, Py!IsNumber, Py!Sequential, Repeatable
<1> QED
  BY <1>1, <1>2, <1>3
LEMMA RepeatYields ==
    ASSUME NEW l, NEW r
    PROVE  Yields(Repeat(l, r), IF l.ty \in Repeatable THEN l.ty ELSE r.ty)
BY Outcomes DEF Repeat, Yields

\* A folded expression is of two numbers and is one.
LEMMA FoldedTyped ==
    ASSUME NEW op \in BinaryOps, NEW a, NEW b, Folds(op, a, b), Folded(op, a, b).ty # "refused"
    PROVE  Yields(Folded(op, a, b), "int") /\ Named(op, "int", "int", FALSE, "int")
<1>1. op \in {"+", "-", "*", "//", "%", "**"}
  BY DEF Folds
<1>2. Folded(op, a, b).ty = "int"
  BY <1>1, Outcomes DEF Folded
<1>3. Named(op, "int", "int", FALSE, "int")
  BY <1>1 DEF Named, BinaryType, BinaryOracle, SetAlgebra, Identity, IsBytesBinary, Memberships, Comparisons, Logic,
     BitOps, Arithmetic, PowYieldsInt
<1> QED
  BY <1>2, <1>3 DEF Yields

LEMMA FormTyped ==
    ASSUME NEW form, NEW op \in BinaryOps, NEW l, NEW r, l.ty \in OperandTypes, r.ty \in OperandTypes,
           NEW negative \in BOOLEAN, Emits(form, op, l.ty, r.ty, negative),
           ~RefusedByPython(Py!PyBinary(op, l, r))
    PROVE  \E type : Named(op, l.ty, r.ty, negative, type) /\ Yields(BinaryForm(form, op, l, r), type)
<1> DEFINE out == BinaryForm(form, op, l, r)
           Both(type) == Named(op, l.ty, r.ty, negative, type) /\ Yields(out, type)
<1>1. CASE form \in {"divide", "powf", "floor", "fmod"}
  <2>1. Named(op, l.ty, r.ty, negative, "float")
    BY <1>1, FloatForms
  <2>2. Yields(out, "float")
    BY <1>1, FormYields
  <2> QED
    BY <2>1, <2>2
<1>2. CASE form \in {"ipow", "floordiv", "mod"}
  <2>1. Named(op, l.ty, r.ty, negative, "int")
    BY <1>2, NumberForms
  <2>2. Yields(out, "int")
    BY <1>2, FormYields
  <2> QED
    BY <2>1, <2>2
<1>3. CASE form = "set"
  <2>1. Named(op, l.ty, r.ty, negative, "set_int")
    BY <1>3, SetForms
  <2>2. Yields(out, "set_int")
    BY <1>3, FormYields
  <2> QED
    BY <2>1, <2>2
<1>4. CASE form = "concat"
  <2>1. Named(op, l.ty, r.ty, negative, "bytes")
    BY <1>4, ConcatForms
  <2>2. Yields(out, "bytes")
    BY <1>4, FormYields
  <2> QED
    BY <2>1, <2>2
<1>5. CASE form \in {"contains", "is_none"}
  <2>1. Named(op, l.ty, r.ty, negative, "bool")
    BY <1>5, TruthForms
  <2>2. Yields(out, "bool")
    BY <1>5, FormYields, MembershipYields
  <2> QED
    BY <2>1, <2>2
<1>6. CASE form = "format"
  <2>1. /\ op = "+" /\ l.ty \in {"str", "int", "float", "bool"} /\ r.ty \in {"str", "int", "float", "bool"}
        /\ "str" \in {l.ty, r.ty} /\ Named(op, l.ty, r.ty, negative, "str")
    BY <1>6, FormatForms
  <2>2. l.ty = "str" /\ r.ty = "str"
    BY <2>1, RefusedMixes
  <2>3. out = Formatted(l, r)
    BY <1>6, FormYields
  <2>4. Yields(out, "str")
    BY <2>2, <2>3, Outcomes DEF Formatted, Yields
  <2> QED
    BY <2>1, <2>4
<1>7. CASE form \in {"repeat", "repeat_list"}
  <2> DEFINE type == IF l.ty \in Repeatable THEN l.ty ELSE r.ty
  <2>1. /\ op = "*"
        /\ \/ l.ty \in Repeatable /\ r.ty \in {"int", "float", "bool"}
           \/ r.ty \in Repeatable /\ l.ty \in {"int", "float", "bool"}
        /\ "float" \notin {l.ty, r.ty} => Named(op, l.ty, r.ty, negative, type)
    BY <1>7, RepeatForms
  <2>2. "float" \notin {l.ty, r.ty}
    BY <2>1, RefusedMixes DEF Repeatable
  <2>3. out = Repeat(l, r)
    BY <1>7, FormYields
  <2>4. Yields(out, type)
    BY <2>3, RepeatYields
  <2> HIDE DEF out, type
  <2> QED
    BY <2>1, <2>2, <2>4 DEF out
<1>8. CASE form = "infix"
  <2>1. out = Infix(op, l, r)
    BY <1>8, FormYields
  <2> HIDE DEF out
  <2>2. \/ op \in Comparisons \cup Logic /\ Named(op, l.ty, r.ty, negative, "bool")
        \/ op \in {"<<", ">>"} /\ Named(op, l.ty, r.ty, negative, "int")
        \/ op \in {"&", "|", "^"} /\ l.ty = "int" /\ r.ty = "int" /\ Named(op, l.ty, r.ty, negative, "int")
        \/ op \in {"+", "-", "*"} /\ l.ty = "int" /\ r.ty = "int" /\ Named(op, l.ty, r.ty, negative, "int")
        \/ op \in {"+", "-", "*"} /\ ~(l.ty = "int" /\ r.ty = "int") /\ Named(op, l.ty, r.ty, negative, "float")
    BY <1>8, InfixForms
  <2>3. Both("bool") \/ Both("int") \/ Both("float")
    BY <2>1, <2>2, InfixYields
  <2> QED
    BY <2>3 DEF out
<1>9. form \notin {"refused"}
  BY DEF Emits, Compiles
<1>10. form \in {"repeat", "repeat_list", "infix", "divide", "set", "format", "concat", "refused", "is_none",
            "ipow", "powf", "contains", "floor", "floordiv", "fmod", "mod"}
  BY Zenon DEF Emits, Form
<1> QED
  BY <1>1, <1>2, <1>3, <1>4, <1>5, <1>6, <1>7, <1>8, <1>9, <1>10

\* An operator that is accepted, and that Python has for its operands.
LEMMA BinaryTyped ==
    ASSUME NEW op \in BinaryOps, NEW l, NEW r, l.ty \in OperandTypes, r.ty \in OperandTypes, NEW written,
           written = "literal" => l.ty = "int" /\ r.ty = "int",
           BinaryType(op, l.ty, r.ty, written = "negative") # "refused",
           BinaryResult(op, l, r, written).ty # "refused",
           ~(op \in {"&", "|", "^"} /\ r.ty = "bool"), ~RefusedByPython(Py!PyBinary(op, l, r))
    PROVE  Typed(BinaryResult(op, l, r, written), BinaryType(op, l.ty, r.ty, written = "negative"),
                 BinaryOracle(op, l.ty, r.ty, written = "negative"))
<1> DEFINE negative == written = "negative"
           form == Form(op, l.ty, r.ty, negative)
           out == BinaryResult(op, l, r, written)
           folds == written = "literal" /\ l.ty = "int" /\ r.ty = "int" /\ Folds(op, l.v, r.v)
<1>1. out = IF folds THEN Folded(op, l.v, r.v)
            ELSE IF ~Compiles(form, op, l.ty, r.ty) THEN Value("refused", "rustc")
            ELSE BinaryForm(form, op, l, r)
  BY Zenon DEF BinaryResult
<1>2. negative \in BOOLEAN
  OBVIOUS
<1>3. Value("refused", "rustc").ty = "refused"
  BY Outcomes
<1>4. \E type : Named(op, l.ty, r.ty, negative, type) /\ Yields(out, type)
  <2>1. CASE folds
    <3>1. Folded(op, l.v, r.v).ty # "refused" /\ l.ty = "int" /\ r.ty = "int" /\ negative = FALSE
      BY <1>1, <2>1
    <3>2. Yields(Folded(op, l.v, r.v), "int") /\ Named(op, "int", "int", FALSE, "int")
      BY <2>1, <3>1, FoldedTyped
    <3> QED
      BY <1>1, <2>1, <3>1, <3>2
  <2>2. CASE ~folds
    <3>1. Compiles(form, op, l.ty, r.ty) /\ out = BinaryForm(form, op, l, r)
      BY <1>1, <1>3, <2>2
    <3>2. Emits(form, op, l.ty, r.ty, negative)
      BY <3>1 DEF Emits
    <3> HIDE DEF form, negative
    <3> QED
      BY <1>2, <3>1, <3>2, FormTyped
  <2> QED
    BY <2>1, <2>2
<1> HIDE DEF out
<1> QED
  BY <1>4, NamedTyped DEF out

LEMMA OperandsTyped ==
    ASSUME NEW a \in Kinds, NEW x \in Operands[a]
    PROVE  /\ x.ty \in OperandTypes
           /\ a = "text" => x.ty = "str"
           /\ a = "octets" => x.ty = "bytes"
           /\ a = "list" => x.ty = "list_int"
           /\ a = "dict" => x.ty = "dict"
<1>1. \A t, S, y : y \in Of(t, S) => y.ty = t
  BY Outcomes DEF Of
<1>2. a \in {"number", "text", "octets", "list", "set", "dict", "optional"}
  BY Zenon DEF Kinds, Operands
<1> DEFINE T == Of("str", Texts)
           B == Of("bytes", Texts)
           L == Of("list_int", Seqs({1, 2}, 2))
           S == Of("set_int", SUBSET (1 .. 2))
           D == Of("dict", {<<>>, <<<<1, 2>>>>})
<1>3. /\ \A y \in T : y.ty = "str"
      /\ \A y \in B : y.ty = "bytes"
      /\ \A y \in L : y.ty = "list_int"
      /\ \A y \in S : y.ty = "set_int"
      /\ \A y \in D : y.ty = "dict"
      /\ \A y \in Plain : y.ty \in {"int", "float", "bool"}
      /\ \A y \in Options : y.ty = "opt_int"
  BY <1>1, Zenon DEF Plain, Options
<1>4. Operands = [number |-> Plain, text |-> T, octets |-> B, list |-> L, set |-> S, dict |-> D, optional |-> Options]
  BY Zenon DEF Operands
<1> HIDE DEF T, B, L, S, D
<1> QED
  BY <1>2, <1>3, <1>4 DEF OperandTypes

LEMMA BinaryTypesTried ==
    ASSUME NEW op \in BinaryOps, NEW l, NEW r, l.ty \in OperandTypes, r.ty \in OperandTypes, NEW written,
           written = "literal" => l.ty = "int" /\ r.ty = "int", TryBinary(op, l, r, written)
    PROVE  TypesPredicted'
<1> DEFINE out == BinaryResult(op, l, r, written)
           checked == BinaryType(op, l.ty, r.ty, written = "negative")
           oracle == BinaryOracle(op, l.ty, r.ty, written = "negative")
<1>2. /\ checked # "refused" /\ out.ty # "refused"
      /\ case'.kind = "binary" /\ case'.of.op = op /\ case'.of.left = l /\ case'.of.right = r
      /\ result'.out = out /\ result'.checked = checked /\ result'.oracle = oracle
  <2> DEFINE order == BinaryOrder(op, l, r)
  <2> HIDE DEF out, checked, oracle, order
  <2> QED
    BY DEF TryBinary, Comes, out, checked, oracle, order
<1>3. ASSUME ~(op \in {"&", "|", "^"} /\ r.ty = "bool"), ~RefusedByPython(Py!PyBinary(op, l, r))
      PROVE  Typed(out, checked, oracle)
  BY <1>2, <1>3, BinaryTyped
<1> HIDE DEF out, checked, oracle
<1>4. CASE op \in {"&", "|", "^"} /\ r.ty = "bool"
  BY <1>2, <1>4 DEF TypesPredicted, BoolBits
<1>5. CASE RefusedByPython(Py!PyBinary(op, l, r))
  BY <1>2, <1>5 DEF TypesPredicted
<1>6. CASE Typed(out, checked, oracle)
  BY <1>2, <1>6 DEF TypesPredicted, Typed
<1> QED
  BY <1>3, <1>4, <1>5, <1>6

LEMMA OperatorTypesTried == ApplyBinary \/ ApplyPower => TypesPredicted'
<1>1. ASSUME ApplyBinary PROVE TypesPredicted'
  <2>1. PICK a \in Kinds, b \in Kinds, op \in BinaryOps :
            \E l \in Operands[a], r \in Operands[b], written \in {"variable", "literal", "negative"} :
                (written = "literal" => l.ty = "int" /\ r.ty = "int") /\ TryBinary(op, l, r, written)
    BY <1>1 DEF ApplyBinary
  <2>2. PICK l \in Operands[a], r \in Operands[b], written \in {"variable", "literal", "negative"} :
            (written = "literal" => l.ty = "int" /\ r.ty = "int") /\ TryBinary(op, l, r, written)
    BY <2>1
  <2>3. l.ty \in OperandTypes /\ r.ty \in OperandTypes
    BY OperandsTyped
  <2> QED
    BY <2>2, <2>3, BinaryTypesTried
<1>2. ASSUME ApplyPower PROVE TypesPredicted'
  <2>1. PICK a, b : TryBinary("**", Int64(a), Int64(b), "variable")
    BY <1>2 DEF ApplyPower
  <2>2. "**" \in BinaryOps /\ Int64(a).ty \in OperandTypes /\ Int64(b).ty \in OperandTypes
    BY Outcomes DEF BinaryOps, OperandTypes
  <2> QED
    BY <2>1, <2>2, BinaryTypesTried
<1> QED
  BY <1>1, <1>2

\* Signs and denials, subscripts and slices.
LEMMA UnaryTypesTried == ApplyUnary => TypesPredicted'
<1> SUFFICES ASSUME ApplyUnary PROVE TypesPredicted'
  OBVIOUS
<1>1. PICK a \in Kinds, op \in UnaryOps : \E x \in Operands[a] :
          Comes("unary", [op |-> op, right |-> x], UnaryResult(op, x), <<>>, <<>>,
                UnaryType(op, x.ty), UnaryOracle(op, x.ty))
  BY DEF ApplyUnary
<1>2. PICK x \in Operands[a] :
          Comes("unary", [op |-> op, right |-> x], UnaryResult(op, x), <<>>, <<>>,
                UnaryType(op, x.ty), UnaryOracle(op, x.ty))
  BY <1>1
<1> DEFINE out == UnaryResult(op, x)
           checked == UnaryType(op, x.ty)
           oracle == UnaryOracle(op, x.ty)
<1>3. /\ checked # "refused" /\ out.ty # "refused"
      /\ case'.kind = "unary" /\ case'.of.op = op /\ case'.of.right = x
      /\ result'.out = out /\ result'.checked = checked /\ result'.oracle = oracle
  <2> HIDE DEF out, checked, oracle
  <2> QED
    BY <1>2 DEF Comes, out, checked, oracle
<1>4. \/ op = "invert" /\ x.ty = "bool"
      \/ \E type : checked = type /\ oracle = type /\ Yields(out, type)
  <2>1. op \in {"neg", "not", "invert"}
    BY DEF UnaryOps
  <2>2. CASE op = "neg"
    <3>1. checked = x.ty /\ oracle = x.ty
      BY <2>2 DEF UnaryType, UnaryOracle
    <3>2. x.ty \in {"int", "float"}
      BY <1>3, <2>2, Outcomes DEF UnaryResult
    <3>3. Yields(out, x.ty)
      BY <2>2, <3>2, Outcomes DEF UnaryResult, Yields
    <3> HIDE DEF out, checked, oracle
    <3> QED
      BY <3>1, <3>3
  <2>3. CASE op = "not"
    <3>1. checked = "bool" /\ oracle = "bool"
      BY <1>3, <2>3 DEF UnaryType, UnaryOracle
    <3>2. x.ty = "bool"
      BY <1>3, <2>3, Outcomes DEF UnaryResult
    <3>3. Yields(out, "bool")
      BY <2>3, <3>2, Outcomes DEF UnaryResult, Yields
    <3> HIDE DEF out, checked, oracle
    <3> QED
      BY <3>1, <3>3
  <2>4. CASE op = "invert" /\ x.ty # "bool"
    <3>1. checked = "int" /\ oracle = "int"
      BY <2>4 DEF UnaryType, UnaryOracle
    <3>2. x.ty = "int"
      BY <1>3, <2>4, Outcomes DEF UnaryResult
    <3>3. Yields(out, "int")
      BY <2>4, <3>2, Outcomes DEF UnaryResult, Yields
    <3> HIDE DEF out, checked, oracle
    <3> QED
      BY <3>1, <3>3
  <2> QED
    BY <2>1, <2>2, <2>3, <2>4
<1> HIDE DEF out, checked, oracle
<1>5. CASE op = "invert" /\ x.ty = "bool"
  BY <1>3, <1>5 DEF TypesPredicted, BoolBits
<1>6. CASE Typed(out, checked, oracle)
  BY <1>3, <1>6 DEF TypesPredicted, Typed
<1> QED
  BY <1>4, <1>5, <1>6, TypedAlike DEF Yields

LEMMA ItemTypesTried == TakeItem => TypesPredicted'
<1> SUFFICES ASSUME TakeItem PROVE TypesPredicted'
  OBVIOUS
<1>1. PICK a \in {"text", "octets", "list", "dict"} : \E obj \in Operands[a], i \in -4 .. 4 :
          Comes("item", [obj |-> obj, i |-> i], IndexResult(obj, i), <<>>, IndexOrder(obj, i),
                IndexType(obj.ty), IndexOracle(obj.ty))
  BY DEF TakeItem
<1>2. PICK obj \in Operands[a], i \in -4 .. 4 :
          Comes("item", [obj |-> obj, i |-> i], IndexResult(obj, i), <<>>, IndexOrder(obj, i),
                IndexType(obj.ty), IndexOracle(obj.ty))
  BY <1>1
<1> DEFINE out == IndexResult(obj, i)
           checked == IndexType(obj.ty)
           oracle == IndexOracle(obj.ty)
           order == IndexOrder(obj, i)
<1>3. /\ case'.kind = "item"
      /\ result'.out = out /\ result'.checked = checked /\ result'.oracle = oracle
  <2> HIDE DEF out, checked, oracle, order
  <2> QED
    BY <1>2 DEF Comes, out, checked, oracle, order
<1>4. a \in Kinds
  BY DEF Kinds, Operands
<1>5. obj.ty \in {"str", "bytes", "list_int", "dict"}
  BY <1>4, OperandsTyped
<1>6. Yields(out, checked) /\ oracle = checked
  <2>1. CASE obj.ty = "str"
    BY <2>1, Outcomes DEF IndexResult, IndexType, IndexOracle, Yields
  <2>2. CASE obj.ty = "bytes"
    BY <2>2, Outcomes DEF IndexResult, IndexType, IndexOracle, Yields, BytesIndex
  <2>3. CASE obj.ty = "list_int"
    BY <2>3, Outcomes DEF IndexResult, IndexType, IndexOracle, Yields, ListGet
  <2>4. CASE obj.ty = "dict"
    BY <2>4, Outcomes DEF IndexResult, IndexType, IndexOracle, Yields
  <2> QED
    BY <1>5, <2>1, <2>2, <2>3, <2>4
<1> HIDE DEF out, checked, oracle, order
<1> QED
  BY <1>3, <1>6, TypedAlike DEF Yields, Typed, TypesPredicted

LEMMA SliceYields ==
    ASSUME NEW obj, NEW start, NEW stop, NEW step
    PROVE  Yields(SliceResult(obj, start, stop, step), obj.ty)
<1>1. ASSUME NEW k PROVE Yields(SliceStep(obj.v, start, stop, k, obj.ty), obj.ty)
  <2> DEFINE n == Len(obj.v)
             from == StepStart(n, start # <<>>, IF start = <<>> THEN 0 ELSE start[1], k)
             to == StepStop(n, stop # <<>>, IF stop = <<>> THEN 0 ELSE stop[1], k)
             at == Progression(from, to, k)
             wide == at # <<>> /\ ~Fits(at[Len(at)] + k)
             taken == [j \in DOMAIN at |-> obj.v[at[j] + 1]]
  <2>1. SliceStep(obj.v, start, stop, k, obj.ty) =
            IF k = 0 THEN Raise("ValueError") ELSE IF wide THEN Panic ELSE Value(obj.ty, taken)
    BY DEF SliceStep
  <2> HIDE DEF wide, taken
  <2> QED
    BY <2>1, Outcomes DEF Yields
<1>2. \/ \E v : SliceResult(obj, start, stop, step) = Value(obj.ty, v)
      \/ \E k : SliceResult(obj, start, stop, step) = SliceStep(obj.v, start, stop, k, obj.ty)
  BY Zenon DEF SliceResult
<1> QED
  BY <1>1, <1>2, Outcomes DEF Yields

LEMMA SliceTypesTried == TakeSlice => TypesPredicted'
<1> SUFFICES ASSUME TakeSlice PROVE TypesPredicted'
  OBVIOUS
<1>1. PICK a \in {"text", "octets", "list"} : \E obj \in Operands[a] : \E start, stop, step :
          Comes("slice", [obj |-> obj, start |-> start, stop |-> stop, step |-> step],
                SliceResult(obj, start, stop, step), <<>>, <<>>,
                SliceType(obj.ty, {"int"}), SliceOracle(obj.ty))
  BY DEF TakeSlice
<1>2. PICK obj \in Operands[a] : \E start, stop, step :
          Comes("slice", [obj |-> obj, start |-> start, stop |-> stop, step |-> step],
                SliceResult(obj, start, stop, step), <<>>, <<>>,
                SliceType(obj.ty, {"int"}), SliceOracle(obj.ty))
  BY <1>1
<1>3. PICK start, stop, step :
          Comes("slice", [obj |-> obj, start |-> start, stop |-> stop, step |-> step],
                SliceResult(obj, start, stop, step), <<>>, <<>>,
                SliceType(obj.ty, {"int"}), SliceOracle(obj.ty))
  BY <1>2
<1> DEFINE out == SliceResult(obj, start, stop, step)
           checked == SliceType(obj.ty, {"int"})
           oracle == SliceOracle(obj.ty)
<1>4. /\ case'.kind = "slice"
      /\ result'.out = out /\ result'.checked = checked /\ result'.oracle = oracle
  <2> HIDE DEF out, checked, oracle
  <2> QED
    BY <1>3 DEF Comes, out, checked, oracle
<1>5. a \in Kinds
  BY DEF Kinds, Operands
<1>6. obj.ty \in {"str", "bytes", "list_int"}
  BY <1>5, OperandsTyped
<1>7. checked = obj.ty /\ oracle = obj.ty
  BY <1>6 DEF SliceType, SliceOracle
<1>8. Yields(out, obj.ty)
  BY SliceYields
<1> HIDE DEF out, checked, oracle
<1> QED
  BY <1>4, <1>7, <1>8, TypedAlike DEF Yields, Typed, TypesPredicted

\* The built-in functions, by what they make.
BothTyped(c, type) == BuiltinType(c) = type /\ BuiltinOracle(c) = type
LEMMA Named1 ==
    ASSUME NEW c, NEW type, Yields(BuiltinResult(c), type),
           BuiltinType(c) \in {type, "unknown"}, BuiltinOracle(c) \in {type, "unknown"}
    PROVE  Typed(BuiltinResult(c), BuiltinType(c), BuiltinOracle(c))
BY DEF Yields, Typed, Is, Meets
LEMMA TypedAsInt ==
    ASSUME NEW c, c.name \in {"len", "int", "round", "pow", "ord"}
    PROVE  BuiltinType(c) = "int" /\ BuiltinOracle(c) = "int" /\ Yields(BuiltinResult(c), "int")
<1>1. BuiltinType(c) = "int" /\ BuiltinOracle(c) = "int"
  BY DEF BuiltinType, BuiltinOracle
<1>2. CASE c.name = "len"
  <2>1. BuiltinResult(c) = Lazily(c)
    BY <1>2 DEF BuiltinResult
  <2>2. \E n : Lazily(c) = Int64(n)
    BY <1>2, Zenon DEF Lazily
  <2> QED
    BY <1>1, <2>1, <2>2, Outcomes DEF Yields
<1>3. CASE c.name = "int"
  <2>1. BuiltinResult(c) = Conversion(c)
    BY <1>3 DEF BuiltinResult
  <2>2. \/ \E n : Conversion(c) = Int64(n)
        \/ \E s : Conversion(c) = FromText(s)
    BY <1>3, Zenon DEF Conversion, Empty, Converted
  <2>3. \A s : Yields(FromText(s), "int")
    BY Outcomes DEF FromText, Yields
  <2> QED
    BY <1>1, <2>1, <2>2, <2>3, Outcomes DEF Yields
<1>4. CASE c.name \in {"round", "pow", "ord"}
  <2>1. BuiltinResult(c) = Number1(c)
    BY <1>4 DEF BuiltinResult
  <2>2. Number1(c) = Panic \/ \E n : Number1(c) = Int64(n)
    BY <1>4, Zenon DEF Number1
  <2> QED
    BY <1>1, <2>1, <2>2, Outcomes DEF Yields
<1> QED
  BY <1>2, <1>3, <1>4
LEMMA TypedAsText ==
    ASSUME NEW c, c.name \in {"str", "chr", "type", "hex", "oct", "bin", "repr", "ascii"},
           Len(c.args) = 0 => c.name = "str"
    PROVE  BuiltinType(c) = "str" /\ BuiltinOracle(c) = "str" /\ Yields(BuiltinResult(c), "str")
<1>1. BuiltinType(c) = "str" /\ BuiltinOracle(c) = "str"
  BY DEF BuiltinType, BuiltinOracle
<1>2. CASE c.name \in {"str", "repr", "ascii"}
  <2>1. BuiltinResult(c) = Conversion(c)
    BY <1>2 DEF BuiltinResult
  <2>2. \E s : Conversion(c) = Rendered(s)
    BY <1>2, Zenon DEF Conversion, Empty, Converted
  <2> QED
    BY <1>1, <2>1, <2>2, Outcomes DEF Yields, Rendered
<1>3. CASE c.name = "type"
  <2>1. BuiltinResult(c) = Inspect(c)
    BY <1>3 DEF BuiltinResult
  <2>2. \E s : Inspect(c) = Rendered(s)
    BY <1>3, Zenon DEF Inspect
  <2> QED
    BY <1>1, <2>1, <2>2, Outcomes DEF Yields, Rendered
<1>4. CASE c.name = "chr"
  <2>1. BuiltinResult(c) = Number1(c)
    BY <1>4 DEF BuiltinResult
  <2>2. Number1(c) = Panic \/ \E s : Number1(c) = Text(s)
    BY <1>4, Zenon DEF Number1
  <2> QED
    BY <1>1, <2>1, <2>2, Outcomes DEF Yields
<1>5. CASE c.name \in {"hex", "oct", "bin"}
  <2>1. BuiltinResult(c) = Number1(c)
    BY <1>5 DEF BuiltinResult
  <2>2. \E n : Number1(c) = Based(c.name, n)
    BY <1>5, Zenon DEF Number1
  <2> QED
    BY <1>1, <2>1, <2>2, Outcomes DEF Yields, Based
<1> QED
  BY <1>2, <1>3, <1>4, <1>5
LEMMA TypedAsTruth ==
    ASSUME NEW c, c.name \in {"bool", "any", "all", "isinstance", "callable"}
    PROVE  BuiltinType(c) = "bool" /\ BuiltinOracle(c) = "bool" /\ Yields(BuiltinResult(c), "bool")
<1>1. BuiltinType(c) = "bool" /\ BuiltinOracle(c) = "bool"
  BY DEF BuiltinType, BuiltinOracle
<1>2. CASE c.name = "bool"
  <2>1. BuiltinResult(c) = Conversion(c)
    BY <1>2 DEF BuiltinResult
  <2>2. \E b : Conversion(c) = Truth(b)
    BY <1>2, Zenon DEF Conversion, Empty, Converted
  <2> QED
    BY <1>1, <2>1, <2>2, Outcomes DEF Yields
<1>3. CASE c.name \in {"any", "all"}
  <2>1. BuiltinResult(c) = Lazily(c)
    BY <1>3 DEF BuiltinResult
  <2>2. \E b : Lazily(c) = Truth(b)
    BY <1>3, Zenon DEF Lazily
  <2> QED
    BY <1>1, <2>1, <2>2, Outcomes DEF Yields
<1>4. CASE c.name \in {"isinstance", "callable"}
  <2>1. BuiltinResult(c) = Inspect(c)
    BY <1>4 DEF BuiltinResult
  <2>2. \E b : Inspect(c) = Truth(b)
    BY <1>4, Zenon DEF Inspect
  <2> QED
    BY <1>1, <2>1, <2>2, Outcomes DEF Yields
<1> QED
  BY <1>2, <1>3, <1>4

\* What the arguments are of a call that is accepted and compiled.
Called(c) == BuiltinAccepted(c) /\ BuiltinCompiles(c) /\ ~AsOneElement(c)
LEMMA CalledWith ==
    ASSUME NEW c, Called(c)
    PROVE  /\ Len(c.args) \in Nat
           /\ TypeOfArg(c, 1) = IF Len(c.args) = 0 THEN "absent" ELSE c.args[1].ty
           /\ TypeOfArg(c, 2) = IF Len(c.args) < 2 THEN "absent" ELSE c.args[2].ty
<1>1. Len(c.args) \in Nat
  BY DEF Called, BuiltinAccepted, LeastArgs, MostArgs
<1> QED
  BY <1>1 DEF TypeOfArg
LEMMA AtLeastOne ==
    ASSUME NEW c, Called(c),
           c.name \in {"abs", "sum", "sorted", "reversed", "min", "max"}
    PROVE  Len(c.args) >= 1 /\ TypeOfArg(c, 1) = c.args[1].ty
<1>1. Len(c.args) >= 1
  BY DEF Called, BuiltinAccepted, LeastArgs, MostArgs
<1> QED
  BY <1>1, CalledWith

LEMMA FloatTyped ==
    ASSUME NEW c, c.name = "float"
    PROVE  Typed(BuiltinResult(c), BuiltinType(c), BuiltinOracle(c))
<1>1. BuiltinType(c) = "float" /\ BuiltinOracle(c) = "float"
  BY DEF BuiltinType, BuiltinOracle
<1>2. BuiltinResult(c) = Conversion(c)
  BY DEF BuiltinResult
<1>3. Conversion(c) = Raise("ValueError") \/ \E x : Conversion(c) = Float(x)
  BY Zenon DEF Conversion, Empty, Converted
<1> QED
  BY <1>1, <1>2, <1>3, Outcomes, Named1 DEF Yields
LEMMA BytesTyped ==
    ASSUME NEW c, c.name = "bytes"
    PROVE  Typed(BuiltinResult(c), BuiltinType(c), BuiltinOracle(c))
<1>1. BuiltinType(c) = "bytes" /\ BuiltinOracle(c) = "bytes"
  BY DEF BuiltinType, BuiltinOracle
<1>2. BuiltinResult(c) = Conversion(c)
  BY DEF BuiltinResult
<1> DEFINE x == c.args[1]
<1>3. \/ Conversion(c) = Raise("ValueError")
      \/ x.ty = "bytes" /\ Conversion(c) = x
      \/ \E b : Conversion(c) = Octets(b)
  BY Zenon DEF Conversion, Empty, Converted
<1> QED
  BY <1>1, <1>2, <1>3, Outcomes, Named1 DEF Yields
LEMMA ListTyped ==
    ASSUME NEW c, c.name = "list", Called(c)
    PROVE  Typed(BuiltinResult(c), BuiltinType(c), BuiltinOracle(c))
<1> DEFINE t == TypeOfArg(c, 1)
           x == c.args[1]
           other == Value("list_int", Iterated(x, c.walk))
<1>1. BuiltinType(c) = "list"
  BY DEF BuiltinType
<1>2. BuiltinOracle(c) = CASE t = "str" -> "list_str" [] t \in {"bytes", "dict"} -> "list_int"
                           [] OTHER -> ListOf(ElementOf(t))
  BY DEF BuiltinOracle
<1>3. BuiltinResult(c) = IF Len(c.args) = 0 THEN Value("list_int", <<>>) ELSE IF x.ty \in Lists THEN x ELSE other
  <2>1. BuiltinResult(c) = Conversion(c)
    BY DEF BuiltinResult
  <2> QED
    BY <2>1, Zenon DEF Conversion, Empty, Converted
<1>4. t = IF Len(c.args) = 0 THEN "absent" ELSE x.ty
  BY CalledWith
<1>5. t \in Lists \cup {"set_int", "dict", "bytes"} \/ Len(c.args) = 0
  BY DEF Called, BuiltinCompiles
<1>6. BuiltinResult(c).ty = IF t \in Lists THEN t ELSE "list_int"
  <2>1. other.ty = "list_int" /\ Value("list_int", <<>>).ty = "list_int"
    BY Outcomes
  <2> HIDE DEF other, t
  <2>2. "absent" \notin Lists
    BY DEF Lists
  <2> QED
    BY <1>3, <1>4, <2>1, <2>2
<1> HIDE DEF t
<1>7. BuiltinOracle(c) \in {BuiltinResult(c).ty, "list"}
  BY <1>2, <1>4, <1>5, <1>6 DEF Lists, ListOf, ElementOf
<1>8. BuiltinResult(c).ty \in ListTypes
  BY <1>6 DEF ListTypes, Lists
<1> QED
  BY <1>1, <1>7, <1>8 DEF Typed, Is, Meets
LEMMA SetTyped ==
    ASSUME NEW c, c.name = "set", Called(c)
    PROVE  Typed(BuiltinResult(c), BuiltinType(c), BuiltinOracle(c))
<1> DEFINE x == c.args[1]
<1>1. BuiltinType(c) = "set_int" /\ BuiltinOracle(c) = "set_int"
  BY DEF BuiltinType, BuiltinOracle
<1>2. BuiltinResult(c) = Conversion(c)
  BY DEF BuiltinResult
<1>3. x.ty # "dict" \/ Len(c.args) = 0
  BY CalledWith DEF Called, AsOneElement
<1>4. \/ x.ty = "set_int" /\ Conversion(c) = x
      \/ \E b : Conversion(c) = Value("set_int", b)
  BY <1>3, Zenon DEF Conversion, Empty, Converted
<1> QED
  BY <1>1, <1>2, <1>4, Outcomes, Named1 DEF Yields
LEMMA TupleTyped ==
    ASSUME NEW c, c.name = "tuple", Called(c)
    PROVE  Typed(BuiltinResult(c), BuiltinType(c), BuiltinOracle(c))
<1>1. BuiltinType(c) = "tuple" /\ BuiltinOracle(c) = "tuple"
  BY DEF BuiltinType, BuiltinOracle
<1>2. BuiltinResult(c) = Conversion(c)
  BY DEF BuiltinResult
<1>3. \E b : Conversion(c) = Value("tuple", b)
  BY Zenon DEF Conversion, Empty, Converted
<1> QED
  BY <1>1, <1>2, <1>3, Outcomes, Named1 DEF Yields
LEMMA SortedTyped ==
    ASSUME NEW c, c.name \in {"sorted", "reversed"}, Called(c)
    PROVE  Typed(BuiltinResult(c), BuiltinType(c), BuiltinOracle(c))
<1> DEFINE t == c.args[1].ty
           e == IF t \in {"bytes", "dict"} THEN "int" ELSE ElementOf(t)
<1>1. BuiltinType(c) = "list"
  BY DEF BuiltinType
<1>2. BuiltinOracle(c) = CASE t = "str" -> "list_str" [] t \in {"bytes", "dict"} -> "list_int"
                           [] OTHER -> ListOf(ElementOf(t))
  BY AtLeastOne DEF BuiltinOracle
<1>3. t \in Lists \cup {"set_int", "dict", "bytes"}
  BY AtLeastOne DEF Called, BuiltinCompiles, Lists
<1>4. BuiltinResult(c).ty = ListOf(e)
  <2>1. CASE c.name = "sorted"
    <3>1. BuiltinResult(c) = SortedList(c)
      BY <2>1 DEF BuiltinResult
    <3>2. \E s : SortedList(c) = Value(ListOf(e), s)
      BY Zenon DEF SortedList
    <3> QED
      BY <3>1, <3>2, Outcomes
  <2>2. CASE c.name = "reversed"
    <3>1. BuiltinResult(c) = Lazily(c)
      BY <2>2 DEF BuiltinResult
    <3>2. \E s : Lazily(c) = Value(IF t = "bytes" THEN "list_int" ELSE t, s)
      BY <2>2, Zenon DEF Lazily
    <3>3. t \in Lists \cup {"bytes"}
      BY <2>2, AtLeastOne DEF Called, BuiltinCompiles
    <3>4. (IF t = "bytes" THEN "list_int" ELSE t) = ListOf(e)
      BY <3>3 DEF Lists, ListOf, ElementOf
    <3> QED
      BY <3>1, <3>2, <3>4, Outcomes
  <2> QED
    BY <2>1, <2>2
<1>5. BuiltinOracle(c) = ListOf(e) /\ ListOf(e) \in ListTypes
  BY <1>2, <1>3 DEF ListTypes, Lists, ListOf, ElementOf
<1> HIDE DEF t, e
<1> QED
  BY <1>1, <1>4, <1>5 DEF Typed, Is, Meets

LEMMA AbsTyped ==
    ASSUME NEW c, c.name = "abs", Called(c)
    PROVE  Typed(BuiltinResult(c), BuiltinType(c), BuiltinOracle(c))
<1> DEFINE x == c.args[1]
<1>1. BuiltinType(c) = "unknown" /\ BuiltinOracle(c) = x.ty
  BY AtLeastOne DEF BuiltinType, BuiltinOracle
<1>2. x.ty \in NumberTypes
  BY AtLeastOne DEF Called, BuiltinCompiles
<1>3. BuiltinResult(c) = Number1(c)
  BY DEF BuiltinResult
<1>4. IF x.ty = "int" THEN \E n : Number1(c) = Checked(n) ELSE \E r : Number1(c) = Float(r)
  BY Zenon DEF Number1
<1>5. Yields(BuiltinResult(c), x.ty)
  BY <1>2, <1>3, <1>4, Outcomes DEF Yields, NumberTypes
<1> QED
  BY <1>1, <1>5, Named1
LEMMA SumTyped ==
    ASSUME NEW c, c.name = "sum", Called(c)
    PROVE  Typed(BuiltinResult(c), BuiltinType(c), BuiltinOracle(c))
<1> DEFINE t == c.args[1].ty
           u == TypeOfArg(c, 2)
           type == IF "float" \in {ElementOf(t), u} THEN "float" ELSE "int"
<1>1. BuiltinType(c) = "unknown"
  BY DEF BuiltinType
<1>2. t \in {"list_int", "list_float", "set_int", "bytes"}
  BY AtLeastOne DEF Called, BuiltinCompiles
<1>3. BuiltinOracle(c) = IF u = "float" THEN "float" ELSE IF ElementOf(t) = "unknown" THEN "int" ELSE ElementOf(t)
  BY AtLeastOne DEF BuiltinOracle
<1>4. BuiltinOracle(c) = type
  <2> HIDE DEF u
  <2> QED
    BY <1>2, <1>3 DEF ElementOf
<1>5. BuiltinResult(c) = Total(c)
  BY DEF BuiltinResult
<1>6. IF "float" \in {ElementOf(t), u} THEN \E r : Total(c) = Float(r)
      ELSE Total(c) = Panic \/ \E n : Total(c) = Checked(n)
  BY Zenon DEF Total
<1>7. Yields(BuiltinResult(c), type)
  <2> HIDE DEF t, u
  <2> QED
    BY <1>5, <1>6, Outcomes DEF Yields
<1> HIDE DEF type
<1> QED
  BY <1>1, <1>4, <1>7, Named1
LEMMA ExtremeTyped ==
    ASSUME NEW c, c.name \in {"min", "max"}, Called(c)
    PROVE  Typed(BuiltinResult(c), BuiltinType(c), BuiltinOracle(c))
<1> DEFINE t == c.args[1].ty
           e == IF t = "bytes" THEN "int" ELSE ElementOf(t)
           type == IF Len(c.args) = 1 THEN ElementOf(t) ELSE t
<1>1. BuiltinType(c) = type /\ BuiltinOracle(c) = type
  BY AtLeastOne DEF BuiltinType, BuiltinOracle
<1>2. BuiltinResult(c) = Extreme(c)
  BY DEF BuiltinResult
<1>3. IF Len(c.args) = 1 THEN Extreme(c) = Raise("ValueError") \/ \E v : Extreme(c) = Value(e, v)
      ELSE \E v : Extreme(c) = Value(t, v)
  BY Zenon DEF Extreme
<1>4. e = ElementOf(t) \/ ElementOf(t) = "unknown"
  BY DEF ElementOf
<1>5. Yields(BuiltinResult(c), type) \/ type = "unknown"
  <2> HIDE DEF t, e
  <2> QED
    BY <1>2, <1>3, <1>4, Outcomes DEF Yields
<1> HIDE DEF type
<1> QED
  BY <1>1, <1>5 DEF Yields, Typed, Is, Meets
LEMMA LazilyTyped ==
    ASSUME NEW c, c.name \in {"enumerate", "zip", "range"}, Called(c)
    PROVE  Typed(BuiltinResult(c), BuiltinType(c), BuiltinOracle(c))
<1>1. BuiltinResult(c) = Lazily(c) /\ BuiltinOracle(c) = BuiltinType(c)
  BY DEF BuiltinResult, BuiltinOracle
<1>2. CASE c.name = "enumerate"
  <2>1. BuiltinType(c) \in {"list_pairs", "unknown"}
    BY <1>2 DEF BuiltinType
  <2>2. Lazily(c) = Panic \/ \E s : Lazily(c) = Value("list_pairs", s)
    BY <1>2, Zenon DEF Lazily
  <2>3. Yields(BuiltinResult(c), "list_pairs")
    BY <1>1, <2>2, Outcomes DEF Yields
  <2> QED
    BY <1>1, <2>1, <2>3, Named1
<1>3. CASE c.name = "zip"
  <2>1. BuiltinType(c) \in {"list_tuples", "unknown"}
    BY <1>3 DEF BuiltinType
  <2>2. \E s : Lazily(c) = Value("list_tuples", s)
    BY <1>3, Zenon DEF Lazily
  <2>3. Yields(BuiltinResult(c), "list_tuples")
    BY <1>1, <2>2, Outcomes DEF Yields
  <2> QED
    BY <1>1, <2>1, <2>3, Named1
<1>4. CASE c.name = "range"
  <2>1. BuiltinType(c) = "list_int"
    BY <1>4 DEF BuiltinType
  <2>2. \/ \E s : Lazily(c) = Value("list_int", s)
        \/ \E i, j, k : Lazily(c) = RangeStep(i, j, k)
    BY <1>4, Zenon DEF Lazily
  <2>3. ASSUME NEW i, NEW j, NEW k PROVE Yields(RangeStep(i, j, k), "list_int")
    BY Outcomes DEF RangeStep, Yields
  <2> QED
    BY <1>1, <2>1, <2>2, <2>3, Outcomes, Named1 DEF Yields
<1> QED
  BY <1>2, <1>3, <1>4
LEMMA MappingTyped ==
    ASSUME NEW c, c.name \in {"map", "filter"}, Called(c)
    PROVE  Typed(BuiltinResult(c), BuiltinType(c), BuiltinOracle(c))
<1> DEFINE u == TypeOfArg(c, 2)
<1>1. BuiltinOracle(c) = BuiltinType(c) /\ BuiltinResult(c) = Mapping(c)
  BY DEF BuiltinOracle, BuiltinResult
<1>2. u \in {"list_int", "set_int"}
  BY DEF Called, BuiltinCompiles
<1>3. BuiltinType(c) = CASE c.name = "map" -> IF u \in Lists THEN "list" ELSE "unknown"
                         [] c.name = "filter" -> IF u \in Lists THEN u ELSE "unknown"
  BY DEF BuiltinType
<1>4. Mapping(c) = Panic \/ \E s : Mapping(c) = Value("list_int", s)
  BY Zenon DEF Mapping
<1>5. Yields(BuiltinResult(c), "list_int")
  BY <1>1, <1>4, Outcomes DEF Yields
<1> HIDE DEF u
<1>6. BuiltinType(c) \in {"list", "list_int", "unknown"}
  BY <1>2, <1>3 DEF Lists
<1> QED
  BY <1>1, <1>5, <1>6 DEF Typed, Is, Meets, Yields, ListTypes, Lists
LEMMA BuiltinTyped ==
    ASSUME NEW c, Called(c)
    PROVE  Typed(BuiltinResult(c), BuiltinType(c), BuiltinOracle(c))
<1>1. c.name \in Builtins
  BY DEF Called, BuiltinAccepted
<1>2. CASE c.name \in {"len", "int", "round", "pow", "ord"}
  BY <1>2, TypedAsInt, Named1
<1>3. CASE c.name \in {"str", "chr", "type", "hex", "oct", "bin", "repr", "ascii"}
  <2>1. Len(c.args) = 0 => c.name = "str"
    BY <1>3 DEF Called, BuiltinAccepted, BuiltinCompiles, LeastArgs, MostArgs
  <2> QED
    BY <1>3, <2>1, TypedAsText, Named1
<1>4. CASE c.name \in {"bool", "any", "all", "isinstance", "callable"}
  BY <1>4, TypedAsTruth, Named1
<1>5. CASE c.name \in {"float", "bytes", "list", "set", "tuple"}
  BY <1>5, FloatTyped, BytesTyped, ListTyped, SetTyped, TupleTyped
<1>6. CASE c.name \in {"sorted", "reversed", "abs", "sum", "min", "max"}
  BY <1>6, SortedTyped, AbsTyped, SumTyped, ExtremeTyped
<1>7. CASE c.name \in {"enumerate", "zip", "range", "map", "filter"}
  BY <1>7, LazilyTyped, MappingTyped
<1> QED
  BY <1>1, <1>2, <1>3, <1>4, <1>5, <1>6, <1>7 DEF Builtins, Variadic, Unary, Binary

LEMMA BuiltinTypesTried == CallBuiltin => TypesPredicted'
<1> SUFFICES ASSUME CallBuiltin PROVE TypesPredicted'
  OBVIOUS
<1>1. PICK c :
        /\ case'.kind = "builtin" /\ case'.of = c
        /\ result'.out = BuiltinResult(c) /\ result'.checked = BuiltinType(c) /\ result'.oracle = BuiltinOracle(c)
        /\ BuiltinAccepted(c) /\ BuiltinCompiles(c)
  BY DEF CallBuiltin, Comes
<1>2. CASE AsOneElement(c)
  BY <1>1, <1>2 DEF TypesPredicted
<1>3. CASE Typed(BuiltinResult(c), BuiltinType(c), BuiltinOracle(c))
  BY <1>1, <1>3 DEF TypesPredicted, Typed
<1> QED
  BY <1>1, <1>2, <1>3, BuiltinTyped DEF Called
LEMMA MethodTypesTried ==
    ASSUME NEW calls, \A c \in calls : Callable(c), CallMethod(calls)
    PROVE  TypesPredicted'
<1>1. PICK c \in calls :
        /\ Emitted(c.recv, c.name, c.args).out.ty # "refused"
        /\ case'.kind = "method"
        /\ result'.out = Emitted(c.recv, c.name, c.args).out
        /\ result'.checked = MethodReturns(c.recv.ty, c.name, Len(c.args))
        /\ result'.oracle = MethodReturns(c.recv.ty, c.name, Len(c.args))
  BY DEF CallMethod, Comes
<1>2. Typed(Emitted(c.recv, c.name, c.args).out, MethodReturns(c.recv.ty, c.name, Len(c.args)),
            MethodReturns(c.recv.ty, c.name, Len(c.args)))
  BY <1>1, MethodTyped
<1> QED
  BY <1>1, <1>2 DEF TypesPredicted, Typed

LEMMA NextTypes == TypesPredicted /\ [Next]_<<case, result>> => TypesPredicted'
<1> SUFFICES ASSUME TypesPredicted, [Next]_<<case, result>> PROVE TypesPredicted'
  OBVIOUS
<1>1. CASE CallMethod(StrCalls)
  BY <1>1, MethodTypesTried, StrCallable
<1>2. CASE CallMethod(TextCalls("bytes"))
  <2>1. \A c \in TextCalls("bytes") : Callable(c)
    BY TextCallable DEF Callable, Receivable
  <2> QED
    BY <1>2, <2>1, MethodTypesTried
<1>3. CASE CallMethod(ContainerCalls)
  BY <1>3, MethodTypesTried, ContainerCallable
<1>4. CASE ApplyBinary \/ ApplyPower
  BY <1>4, OperatorTypesTried
<1>5. CASE ApplyUnary
  BY <1>5, UnaryTypesTried
<1>6. CASE TakeItem
  BY <1>6, ItemTypesTried
<1>7. CASE TakeSlice
  BY <1>7, SliceTypesTried
<1>8. CASE CallBuiltin
  BY <1>8, BuiltinTypesTried
<1>9. CASE UNCHANGED <<case, result>>
  BY <1>9 DEF TypesPredicted, BoolBits, RefusedByPython, AsOneElement
<1> QED
  BY <1>1, <1>2, <1>3, <1>4, <1>5, <1>6, <1>7, <1>8, <1>9 DEF Next

\* The checker and the code generator find the type of an expression each in
\* its own way (check_expr, infer_expr_ty): where both name one it is the
\* same, and it is the type of what the emitted Rust comes to, for every
\* method, operator, subscript, slice and built-in function, and every width.
THEOREM TypesAlwaysPredicted == Spec => []TypesPredicted
<1>1. Init => TypesPredicted
  BY DEF Init, TypesPredicted
<1>2. TypesPredicted /\ [Next]_<<case, result>> => TypesPredicted'
  BY NextTypes
<1> QED
  BY <1>1, <1>2, PTL DEF Spec

-----------------------------------------------------------------------------
(* The numbers                                                               *)

LEMMA Division ==
    ASSUME NEW a \in Nat, NEW b \in Nat, b > 0
    PROVE  a \div b \in Nat /\ a % b \in 0 .. b - 1 /\ a = b * (a \div b) + (a % b)
OBVIOUS
LEMMA FloorQuotient ==
    ASSUME NEW a \in Int, NEW b \in Nat, b > 0
    PROVE  a \div b \in Int /\ b * (a \div b) <= a /\ a < b * (a \div b) + b
OBVIOUS

\* What __py_floordiv and __py_mod compute is the quotient rounded down and the
\* remainder of the divisor's sign, whatever the signs are.
THEOREM Corrected ==
    ASSUME NEW a \in Int, NEW b \in Int, b # 0
    PROVE  /\ FloorDiv(a, b) \in Int /\ FloorMod(a, b) \in Int
           /\ a = b * FloorDiv(a, b) + FloorMod(a, b)
           /\ IF b > 0 THEN FloorMod(a, b) \in 0 .. b - 1 ELSE FloorMod(a, b) \in b + 1 .. 0
<1>1. Magnitude(a) \in Nat /\ Magnitude(b) \in Nat /\ Magnitude(b) > 0
  BY DEF Magnitude
<1> DEFINE q == Magnitude(a) \div Magnitude(b)
           r == Magnitude(a) % Magnitude(b)
<1>2. q \in Nat /\ r \in 0 .. Magnitude(b) - 1 /\ Magnitude(a) = Magnitude(b) * q + r
  BY <1>1, Division
<1>3. Quot(a, b) = IF (a < 0) = (b < 0) THEN q ELSE -q
  BY DEF Quot
<1>4. Rem(a, b) = IF a < 0 THEN -r ELSE r
  BY DEF Rem
<1> HIDE DEF q, r
<1>5. CASE a >= 0 /\ b > 0
  BY <1>2, <1>3, <1>4, <1>5 DEF Magnitude, FloorDiv, FloorMod
<1>6. CASE a >= 0 /\ b < 0
  BY <1>2, <1>3, <1>4, <1>6 DEF Magnitude, FloorDiv, FloorMod
<1>7. CASE a < 0 /\ b > 0
  BY <1>2, <1>3, <1>4, <1>7 DEF Magnitude, FloorDiv, FloorMod
<1>8. CASE a < 0 /\ b < 0
  BY <1>2, <1>3, <1>4, <1>8 DEF Magnitude, FloorDiv, FloorMod
<1> QED
  BY <1>5, <1>6, <1>7, <1>8

\* The greatest common divisor there is, by which a ratio is reduced.
Divides(g, n) == Magnitude(n) % g = 0
LEMMA CommonDivisorIs ==
    ASSUME NEW a \in Int, NEW b \in Int, b # 0
    PROVE  /\ CommonDivisor(a, b) \in 1 .. Magnitude(b)
           /\ Divides(CommonDivisor(a, b), a) /\ Divides(CommonDivisor(a, b), b)
<1> DEFINE m == Magnitude(b)
           Common(g) == g \in 1 .. m /\ Magnitude(a) % g = 0 /\ Magnitude(b) % g = 0
           S == {h \in 0 .. m : Common(m - h)}
<1>1. m \in Nat /\ m > 0 /\ Magnitude(a) \in Nat
  BY DEF Magnitude
<1> HIDE DEF m
<1>2. Common(1)
  BY <1>1 DEF m
<1>3. m - 1 \in S
  <2>1. m - (m - 1) = 1
    BY <1>1
  <2> QED
    BY <1>1, <1>2, <2>1
<1>4. PICK h \in S : \A j \in S : h <= j
  <2>1. S \subseteq Nat
    OBVIOUS
  <2> HIDE DEF S
  <2> QED
    BY <1>3, <2>1, LeastOf
<1>5. Common(m - h)
  OBVIOUS
<1>6. \A g \in (m - h) + 1 .. m : ~Common(g)
  <2> SUFFICES ASSUME NEW g \in (m - h) + 1 .. m, Common(g) PROVE FALSE
    OBVIOUS
  <2>1. m - g \in 0 .. m /\ m - (m - g) = g /\ m - g < h
    BY <1>1
  <2> QED
    BY <1>1, <1>4, <2>1
<1>7. \E g \in 1 .. m :
          /\ Magnitude(a) % g = 0 /\ Magnitude(b) % g = 0
          /\ \A k \in g + 1 .. m : Magnitude(a) % k # 0 \/ Magnitude(b) % k # 0
  <2>1. WITNESS m - h \in 1 .. m
  <2> QED
    BY <1>1, <1>5, <1>6
<1> QED
  BY <1>7 DEF CommonDivisor, Divides, m

\* A ratio in lowest terms is rounded down to where the quotient is.
LEMMA FloorsAlike ==
    ASSUME NEW a \in Int, NEW b \in Int, b # 0, NEW q \in Int,
           IF b > 0 THEN b * q <= a /\ a < b * q + b ELSE b * q >= a /\ a > b * q + b
    PROVE  Ratio(a, b)[1] \div Ratio(a, b)[2] = q
<1> DEFINE g == CommonDivisor(a, b)
           x == Magnitude(a) \div g
           y == Magnitude(b) \div g
           n == Sign(b) * (Sign(a) * x)
<1>1. g \in Nat /\ g > 0 /\ Magnitude(a) % g = 0 /\ Magnitude(b) % g = 0
  BY CommonDivisorIs DEF Divides, Magnitude
<1>2. Magnitude(a) \in Nat /\ Magnitude(b) \in Nat /\ Magnitude(b) > 0
  BY DEF Magnitude
<1> HIDE DEF g
<1>3. x \in Nat /\ Magnitude(a) = g * x
  BY <1>1, <1>2, Division
<1>4. y \in Nat /\ Magnitude(b) = g * y
  BY <1>1, <1>2, Division
<1>5. Ratio(a, b) = <<n, y>>
  BY DEF Ratio, g
<1> HIDE DEF x, y
<1>6. n \in Int /\ y > 0 /\ (IF b > 0 THEN a ELSE -a) = g * n
  <2>1. y > 0
    BY <1>1, <1>2, <1>4
  <2>2. n \in Int /\ n = IF (a < 0) = (b < 0) THEN x ELSE -x
    <3>1. Sign(a) = 0 => x = 0
      BY <1>1, <1>3 DEF Sign, Magnitude
    <3> QED
      BY <1>3, <3>1 DEF Sign, Magnitude
  <2> HIDE DEF n
  <2>3. (IF b > 0 THEN a ELSE -a) = IF (a < 0) = (b < 0) THEN Magnitude(a) ELSE -Magnitude(a)
    BY DEF Magnitude
  <2> QED
    BY <1>1, <1>3, <2>1, <2>2, <2>3
<1> HIDE DEF n
<1> DEFINE p == n \div y
<1>7. p \in Int /\ y * p <= n /\ n < y * p + y
  BY <1>4, <1>6, FloorQuotient
<1> HIDE DEF p
<1>8. g * y * p <= g * n /\ g * n < g * y * p + g * y
  BY <1>1, <1>4, <1>6, <1>7
<1>9. LET s == IF b > 0 THEN a ELSE -a
          m == Magnitude(b)
      IN  m * p <= s /\ s < m * p + m /\ m * q <= s /\ s < m * q + m
  BY <1>4, <1>6, <1>8 DEF Magnitude
<1>10. p = q
  BY <1>2, <1>7, <1>9
<1> QED
  BY <1>5, <1>10 DEF p

\* The reference stands on the same words.
LEMMA SameWords ==
    /\ \A t, v : Py!Value(t, v) = Value(t, v)
    /\ \A n : Py!Int64(n) = Int64(n)
    /\ \A b : Py!Truth(b) = Truth(b)
    /\ \A s : Py!Text(s) = Text(s)
    /\ \A e : Py!Raise(e) = Raise(e)
    /\ \A n : Py!Magnitude(n) = Magnitude(n)
    /\ \A n, d : Py!Ratio(n, d) = Ratio(n, d)
<1>1. \A n, d : Py!CommonDivisor(n, d) = CommonDivisor(n, d)
  BY Zenon DEF Py!CommonDivisor, CommonDivisor, Py!Magnitude, Magnitude
<1>2. \A n, d : Py!Ratio(n, d) = Ratio(n, d)
  <2>1. \A n : Py!Sign(n) = Sign(n) /\ Py!Magnitude(n) = Magnitude(n)
    BY DEF Py!Sign, Sign, Py!Magnitude, Magnitude
  <2> QED
    BY <1>1, <2>1, Zenon DEF Py!Ratio, Ratio
<1> QED
  BY <1>2 DEF Py!Value, Value, Py!Int64, Int64, Py!Truth, Truth, Py!Text, Text, Py!Raise, Raise, Py!Magnitude, Magnitude

LEMMA WholeRatio ==
    ASSUME NEW n \in Int
    PROVE  Ratio(n, 1) = <<n, 1>>
<1>1. CommonDivisor(n, 1) \in 1 .. 1
  BY CommonDivisorIs DEF Magnitude
<1>2. CommonDivisor(n, 1) = 1
  BY <1>1
<1>3. Ratio(n, 1) = <<Sign(1) * (Sign(n) * (Magnitude(n) \div 1)), Magnitude(1) \div 1>>
  BY <1>2 DEF Ratio
<1>4. Sign(1) * (Sign(n) * (Magnitude(n) \div 1)) = n /\ Magnitude(1) \div 1 = 1
  BY DEF Sign, Magnitude
<1> QED
  BY <1>3, <1>4

\* What Python makes of two whole numbers.
LEMMA PythonsSums ==
    ASSUME NEW a \in Int, NEW b \in Int
    PROVE  /\ Py!PyBinary("+", Int64(a), Int64(b)) = Int64(a + b)
           /\ Py!PyBinary("-", Int64(a), Int64(b)) = Int64(a - b)
           /\ Py!PyBinary("*", Int64(a), Int64(b)) = Int64(a * b)
<1> DEFINE l == Int64(a)
           r == Int64(b)
<1>1. l.ty = "int" /\ r.ty = "int" /\ l.v = a /\ r.v = b
  BY DEF Int64, Value
<1> HIDE DEF l, r
<1>2. Py!Real(l) = <<a, 1>> /\ Py!Real(r) = <<b, 1>>
  BY <1>1 DEF Py!Real, Py!Whole1
<1>3. \A op \in {"+", "-", "*"} : Py!PyBinary(op, l, r) = Py!PyArithmetic(op, l, r)
  BY <1>1 DEF Py!PyBinary, Py!IsNumber, Py!Sequential
<1>4. \A n, d : Py!Number(l, r, <<n, d>>) = Int64(n)
  BY <1>1, SameWords DEF Py!Number
<1>5. Py!PyArithmetic("+", l, r) = Int64(a + b)
  <2>1. Py!PyArithmetic("+", l, r) = Py!Number(l, r, Py!Minus(<<a, 1>>, <<-b, 1>>))
    BY <1>2 DEF Py!PyArithmetic
  <2>2. Py!Minus(<<a, 1>>, <<-b, 1>>) = Ratio(a + b, 1)
    <3>1. a * 1 - (-b) * 1 = a + b /\ 1 * 1 = 1
      OBVIOUS
    <3> QED
      BY <3>1, SameWords DEF Py!Minus
  <2>3. Ratio(a + b, 1) = <<a + b, 1>>
    BY WholeRatio
  <2> QED
    BY <1>4, <2>1, <2>2, <2>3
<1>6. Py!PyArithmetic("-", l, r) = Int64(a - b)
  <2>1. Py!PyArithmetic("-", l, r) = Py!Number(l, r, Py!Minus(<<a, 1>>, <<b, 1>>))
    BY <1>2 DEF Py!PyArithmetic
  <2>2. Py!Minus(<<a, 1>>, <<b, 1>>) = Ratio(a - b, 1)
    <3>1. a * 1 - b * 1 = a - b /\ 1 * 1 = 1
      OBVIOUS
    <3> QED
      BY <3>1, SameWords DEF Py!Minus
  <2>3. Ratio(a - b, 1) = <<a - b, 1>>
    BY WholeRatio
  <2> QED
    BY <1>4, <2>1, <2>2, <2>3
<1>7. Py!PyArithmetic("*", l, r) = Int64(a * b)
  <2>1. Py!PyArithmetic("*", l, r) = Py!Number(l, r, Ratio(a * b, 1))
    BY <1>2, SameWords DEF Py!PyArithmetic
  <2>2. Ratio(a * b, 1) = <<a * b, 1>>
    BY WholeRatio
  <2> QED
    BY <1>4, <2>1, <2>2
<1> QED
  BY <1>3, <1>5, <1>6, <1>7 DEF l, r

LEMMA PythonsQuotients ==
    ASSUME NEW a \in Int, NEW b \in Int
    PROVE  /\ b = 0 => \A op \in {"//", "%"} : Py!PyBinary(op, Int64(a), Int64(b)) = Raise("ZeroDivisionError")
           /\ b # 0 => /\ Py!PyBinary("//", Int64(a), Int64(b)) = Int64(FloorDiv(a, b))
                       /\ Py!PyBinary("%", Int64(a), Int64(b)) = Int64(FloorMod(a, b))
<1> DEFINE l == Int64(a)
           r == Int64(b)
           q == FloorDiv(a, b)
<1>1. l.ty = "int" /\ r.ty = "int" /\ l.v = a /\ r.v = b
  BY DEF Int64, Value
<1> HIDE DEF l, r
<1>2. Py!Real(l) = <<a, 1>> /\ Py!Real(r) = <<b, 1>>
  BY <1>1 DEF Py!Real, Py!Whole1
<1>3. \A op \in {"//", "%"} : Py!PyBinary(op, l, r) = Py!PyArithmetic(op, l, r)
  BY <1>1 DEF Py!PyBinary, Py!IsNumber, Py!Sequential
<1>4. \A n, d : Py!Number(l, r, <<n, d>>) = Int64(n)
  BY <1>1, SameWords DEF Py!Number
<1>5. b = 0 => \A op \in {"//", "%"} : Py!PyArithmetic(op, l, r) = Raise("ZeroDivisionError")
  BY <1>2, SameWords DEF Py!PyArithmetic, Py!ZeroDivision
<1>6. ASSUME b # 0
      PROVE  /\ Py!PyArithmetic("//", l, r) = Int64(q)
             /\ Py!PyArithmetic("%", l, r) = Int64(FloorMod(a, b))
  <2> DEFINE floor == Py!FloorRatio(Py!Over(<<a, 1>>, <<b, 1>>))
  <2>1. floor = q
    <3>1. a * 1 = a /\ 1 * b = b
      OBVIOUS
    <3>2. Py!Over(<<a, 1>>, <<b, 1>>) = Ratio(a, b)
      BY <3>1, SameWords DEF Py!Over
    <3>3. q \in Int /\ IF b > 0 THEN b * q <= a /\ a < b * q + b ELSE b * q >= a /\ a > b * q + b
      BY <1>6, Corrected
    <3>4. Ratio(a, b)[1] \div Ratio(a, b)[2] = q
      <4> HIDE DEF q
      <4> QED
        BY <1>6, <3>3, FloorsAlike
    <3> QED
      BY <3>2, <3>4 DEF Py!FloorRatio
  <2>2. /\ Py!PyArithmetic("//", l, r) = Py!Number(l, r, <<floor, 1>>)
        /\ Py!PyArithmetic("%", l, r) = Py!Number(l, r, Py!Minus(<<a, 1>>, Py!Ratio(floor * b, 1)))
    <3> HIDE DEF floor
    <3> QED
      BY <1>2, <1>6 DEF Py!PyArithmetic, floor
  <2>3. Py!Minus(<<a, 1>>, Py!Ratio(q * b, 1)) = <<FloorMod(a, b), 1>>
    <3>1. q \in Int /\ FloorMod(a, b) \in Int /\ a = b * q + FloorMod(a, b)
      BY <1>6, Corrected
    <3> HIDE DEF q
    <3>2. Py!Ratio(q * b, 1) = <<q * b, 1>>
      BY <3>1, WholeRatio, SameWords
    <3>3. a * 1 - (q * b) * 1 = FloorMod(a, b) /\ 1 * 1 = 1
      BY <3>1
    <3>4. Py!Minus(<<a, 1>>, <<q * b, 1>>) = Ratio(FloorMod(a, b), 1)
      BY <3>3, SameWords DEF Py!Minus
    <3> QED
      BY <3>1, <3>2, <3>4, WholeRatio
  <2> HIDE DEF floor, q
  <2> QED
    BY <1>4, <2>1, <2>2, <2>3
<1> QED
  BY <1>3, <1>5, <1>6 DEF l, r

LEMMA PythonsComparisons ==
    ASSUME NEW a \in Int, NEW b \in Int, NEW op \in Comparisons
    PROVE  Py!PyBinary(op, Int64(a), Int64(b)) = Truth(Holds(op, a < b, a = b))
<1> DEFINE l == Int64(a)
           r == Int64(b)
<1>1. l.ty = "int" /\ r.ty = "int" /\ l.v = a /\ r.v = b
  BY DEF Int64, Value
<1> HIDE DEF l, r
<1>2. Py!Real(l) = <<a, 1>> /\ Py!Real(r) = <<b, 1>>
  BY <1>1 DEF Py!Real, Py!Whole1
<1>3. Py!PyBinary(op, l, r) = Py!PyCompare(op, l, r)
  BY <1>1 DEF Py!PyBinary, Comparisons
<1>4. Py!IsNumber(l) /\ Py!IsNumber(r) /\ Py!Ordered(l, r)
  BY <1>1 DEF Py!IsNumber, Py!Ordered
<1>5. Py!PyEqual(l, r) = (a = b)
  BY <1>1, <1>2, <1>4 DEF Py!PyEqual
<1>6. Py!PyLess(l, r) = (a < b) /\ Py!PyLess(r, l) = (b < a)
  BY <1>1, <1>2, <1>4 DEF Py!PyLess
<1>7. Py!PyCompare(op, l, r) = Truth(Holds(op, a < b, a = b))
  <2>0. (b < a \/ a = b) = ~(a < b) /\ (b < a) = ~(a < b \/ a = b)
    OBVIOUS
  <2>1. CASE op = "=="
    BY <1>5, <2>1, SameWords DEF Py!PyCompare, Holds
  <2>2. CASE op = "!="
    BY <1>5, <2>2, SameWords DEF Py!PyCompare, Holds
  <2>3. CASE op = "<"
    BY <1>4, <1>6, <2>3, SameWords DEF Py!PyCompare, Holds
  <2>4. CASE op = ">"
    BY <1>4, <1>6, <2>0, <2>4, SameWords DEF Py!PyCompare, Holds
  <2>5. CASE op = "<="
    BY <1>4, <1>5, <1>6, <2>5, SameWords DEF Py!PyCompare, Holds
  <2>6. CASE op = ">="
    BY <1>4, <1>5, <1>6, <2>0, <2>6, SameWords DEF Py!PyCompare, Holds
  <2> QED
    BY <2>1, <2>2, <2>3, <2>4, <2>5, <2>6 DEF Comparisons
<1> QED
  BY <1>3, <1>7 DEF l, r

\* Literals that an i64 can hold are folded to what they come to.
LEMMA WrapsToItself ==
    ASSUME NEW n \in Int, Fits(n)
    PROVE  Wrapped(n) = n
<1>1. HalfRange \in Nat /\ HalfRange > 0 /\ 2^Width = 2 * HalfRange
  BY PowersAssumption
<1>2. n + HalfRange \in 0 .. 2 * HalfRange - 1
  BY <1>1 DEF Fits, MinInt, MaxInt
<1> DEFINE w == 2^Width
<1>3. w = 2 * HalfRange
  BY <1>1
<1>4. Wrapped(n) = ((n + HalfRange) % w) - HalfRange
  BY DEF Wrapped
<1> HIDE DEF w
<1>5. (n + HalfRange) % w = n + HalfRange
  BY <1>1, <1>2, <1>3
<1> QED
  BY <1>1, <1>4, <1>5

\* What is emitted for two whole numbers: the checked operation of the machine,
\* a helper of the prelude, or a comparison.
LEMMA EmittedSums ==
    ASSUME NEW a \in Int, NEW b \in Int, NEW written
    PROVE  \A op \in {"+", "-", "*"} : LET n == CASE op = "+" -> a + b [] op = "-" -> a - b [] op = "*" -> a * b
           IN  BinaryResult(op, Int64(a), Int64(b), written) = IF written = "literal" THEN Int64(Wrapped(n)) ELSE Checked(n)
<1> SUFFICES ASSUME NEW op \in {"+", "-", "*"}
             PROVE  LET n == CASE op = "+" -> a + b [] op = "-" -> a - b [] op = "*" -> a * b
                    IN  BinaryResult(op, Int64(a), Int64(b), written) = IF written = "literal" THEN Int64(Wrapped(n)) ELSE Checked(n)
  OBVIOUS
<1> DEFINE l == Int64(a)
           r == Int64(b)
           n == CASE op = "+" -> a + b [] op = "-" -> a - b [] op = "*" -> a * b
<1>1. l.ty = "int" /\ r.ty = "int" /\ l.v = a /\ r.v = b
  BY DEF Int64, Value
<1> HIDE DEF l, r
<1>2. Folds(op, a, b) /\ Folded(op, a, b) = Int64(Wrapped(n))
  BY DEF Folds, Folded
<1>3. Form(op, "int", "int", written = "negative") = "infix"
  BY DEF Form, SetAlgebra, Identity, Memberships
<1>4. Compiles("infix", op, "int", "int")
  BY DEF Compiles, InfixCompiles, Logic, Orderings, NumberTypes
<1>5. Infix(op, l, r) = Checked(n)
  BY <1>1 DEF Infix, Comparisons
<1>6. BinaryForm("infix", op, l, r) = Infix(op, l, r)
  BY DEF BinaryForm
<1>7. BinaryResult(op, l, r, written) = IF written = "literal" THEN Int64(Wrapped(n)) ELSE Checked(n)
  BY <1>1, <1>2, <1>3, <1>4, <1>5, <1>6 DEF BinaryResult
<1> QED
  BY <1>7 DEF l, r
LEMMA EmittedQuotients ==
    ASSUME NEW a \in Int, NEW b \in Int, NEW written
    PROVE  /\ BinaryResult("//", Int64(a), Int64(b), written) =
                  IF written = "literal" /\ DivOverflows(a, b) THEN Value("refused", "panic") ELSE PyFloorDiv(a, b)
           /\ BinaryResult("%", Int64(a), Int64(b), written) =
                  IF written = "literal" /\ DivOverflows(a, b) THEN Value("refused", "panic") ELSE PyMod(a, b)
<1> DEFINE l == Int64(a)
           r == Int64(b)
<1>1. l.ty = "int" /\ r.ty = "int" /\ l.v = a /\ r.v = b
  BY DEF Int64, Value
<1> HIDE DEF l, r
<1>2. \A op \in {"//", "%"} : Folds(op, a, b) = (b # 0)
  BY DEF Folds
<1>3. b # 0 => /\ Folded("//", a, b) = IF DivOverflows(a, b) THEN Value("refused", "panic") ELSE PyFloorDiv(a, b)
               /\ Folded("%", a, b) = IF DivOverflows(a, b) THEN Value("refused", "panic") ELSE PyMod(a, b)
  BY DEF Folded, PyFloorDiv, PyMod
<1>4. Form("//", "int", "int", written = "negative") = "floordiv" /\ Form("%", "int", "int", written = "negative") = "mod"
  BY DEF Form, SetAlgebra, Identity, Memberships
<1>5. Compiles("floordiv", "//", "int", "int") /\ Compiles("mod", "%", "int", "int")
  BY DEF Compiles
<1>6. BinaryForm("floordiv", "//", l, r) = PyFloorDiv(a, b) /\ BinaryForm("mod", "%", l, r) = PyMod(a, b)
  BY <1>1 DEF BinaryForm
<1>7. b = 0 => ~DivOverflows(a, b)
  BY DEF DivOverflows
<1>8. /\ BinaryResult("//", l, r, written) =
             IF written = "literal" /\ DivOverflows(a, b) THEN Value("refused", "panic") ELSE PyFloorDiv(a, b)
      /\ BinaryResult("%", l, r, written) =
             IF written = "literal" /\ DivOverflows(a, b) THEN Value("refused", "panic") ELSE PyMod(a, b)
  BY <1>1, <1>2, <1>3, <1>4, <1>5, <1>6, <1>7 DEF BinaryResult
<1> QED
  BY <1>8 DEF l, r
LEMMA EmittedComparisons ==
    ASSUME NEW a \in Int, NEW b \in Int, NEW op \in Comparisons, NEW written
    PROVE  BinaryResult(op, Int64(a), Int64(b), written) = Truth(Holds(op, a < b, a = b))
<1> DEFINE l == Int64(a)
           r == Int64(b)
<1>1. l.ty = "int" /\ r.ty = "int" /\ l.v = a /\ r.v = b
  BY DEF Int64, Value
<1> HIDE DEF l, r
<1>2. ~Folds(op, a, b)
  BY DEF Folds, Comparisons
<1>3. Form(op, "int", "int", written = "negative") = "infix"
  BY DEF Form, SetAlgebra, Identity, Memberships, Comparisons
<1>4. Compiles("infix", op, "int", "int")
  BY DEF Compiles, InfixCompiles, Logic, Orderings, NumberTypes, Comparisons
<1>5. AsReal(l) = <<a, 1>> /\ AsReal(r) = <<b, 1>>
  BY <1>1 DEF AsReal, Whole
<1>6. Compare(op, l, r) = Holds(op, a < b, a = b)
  <2>1. RealLess(<<a, 1>>, <<b, 1>>) = (a < b)
    <3>1. a * 1 = a /\ b * 1 = b
      OBVIOUS
    <3> QED
      BY <3>1 DEF RealLess
  <2>2. (<<a, 1>> = <<b, 1>>) = (a = b)
    OBVIOUS
  <2> QED
    BY <1>1, <1>5, <2>1, <2>2 DEF Compare, NumberTypes, Repeatable
<1>7. BinaryForm("infix", op, l, r) = Truth(Compare(op, l, r))
  BY DEF BinaryForm, Infix, Comparisons
<1>8. BinaryResult(op, l, r, written) = Truth(Holds(op, a < b, a = b))
  BY <1>1, <1>2, <1>3, <1>4, <1>6, <1>7 DEF BinaryResult
<1> QED
  BY <1>8 DEF l, r

\* Whole numbers as Python has them: whatever the operands are and however the
\* right one is written, outside the named departures.
THEOREM IntegersAlike ==
    ASSUME NEW a \in Int, NEW b \in Int, NEW op \in Arithmetic \cup Comparisons, NEW written,
           NEW out, out = BinaryResult(op, Int64(a), Int64(b), written), out.ty # "refused",
           NEW answer, answer = Py!PyBinary(op, Int64(a), Int64(b)),
           written = "literal" /\ answer.ty = "int" => Fits(answer.v),
           op = "%" => ~DivOverflows(a, b)
    PROVE  Agrees(out, answer)
<1>1. CASE op \in {"+", "-", "*"}
  <2> DEFINE n == CASE op = "+" -> a + b [] op = "-" -> a - b [] op = "*" -> a * b
  <2>1. n \in Int /\ answer = Int64(n)
    BY <1>1, PythonsSums
  <2>2. out = IF written = "literal" THEN Int64(Wrapped(n)) ELSE Checked(n)
    BY <1>1, EmittedSums
  <2> HIDE DEF n
  <2>3. answer.ty = "int" /\ answer.v = n
    BY <2>1 DEF Int64, Value
  <2>4. CASE written = "literal"
    BY <2>1, <2>2, <2>3, <2>4, WrapsToItself DEF Agrees, Same
  <2>5. CASE Fits(n)
    BY <2>1, <2>2, <2>5, WrapsToItself DEF Agrees, Same, Checked
  <2>6. CASE written # "literal" /\ ~Fits(n)
    BY <2>2, <2>3, <2>6 DEF Agrees, TooWide, Checked, Panic, Value
  <2> QED
    BY <2>4, <2>5, <2>6
<1>2. CASE op = "//"
  <2>1. out = PyFloorDiv(a, b)
    BY <1>2, EmittedQuotients DEF Value
  <2>2. CASE b = 0
    <3>1. ~DivOverflows(a, b)
      BY <2>2 DEF DivOverflows
    <3> QED
      BY <1>2, <2>1, <2>2, <3>1, PythonsQuotients DEF PyFloorDiv, Agrees, Same
  <2>3. CASE b # 0 /\ ~DivOverflows(a, b)
    BY <1>2, <2>1, <2>3, PythonsQuotients DEF PyFloorDiv, Agrees, Same
  <2>4. CASE DivOverflows(a, b)
    <3>1. b = -1 /\ a = -HalfRange /\ HalfRange \in Nat
      BY <2>4, PowersAssumption DEF DivOverflows, MinInt
    <3>2. FloorDiv(a, b) = HalfRange
      <4>1. /\ FloorDiv(a, b) \in Int /\ FloorMod(a, b) \in 0 .. 0
            /\ a = b * FloorDiv(a, b) + FloorMod(a, b)
        BY <3>1, Corrected
      <4> DEFINE q == FloorDiv(a, b)
      <4>2. q \in Int /\ a = (-1) * q
        BY <3>1, <4>1
      <4> HIDE DEF q
      <4>3. q = HalfRange
        BY <3>1, <4>2
      <4> QED
        BY <4>3 DEF q
    <3>3. ~Fits(HalfRange)
      BY <3>1 DEF Fits, MaxInt
    <3>4. answer = Int64(HalfRange)
      BY <1>2, <3>1, <3>2, PythonsQuotients
    <3>5. out = Panic
      BY <2>1, <2>4, <3>1 DEF PyFloorDiv
    <3>6. out.ty = "panic" /\ answer.ty = "int" /\ answer.v = HalfRange
      BY <3>4, <3>5 DEF Panic, Int64, Value
    <3> QED
      BY <3>3, <3>6 DEF Agrees, TooWide
  <2> QED
    BY <2>2, <2>3, <2>4
<1>3. CASE op = "%"
  BY <1>3, EmittedQuotients, PythonsQuotients DEF PyMod, Agrees, Same
<1>4. CASE op \in Comparisons
  BY <1>4, EmittedComparisons, PythonsComparisons DEF Agrees, Same
<1> QED
  BY <1>1, <1>2, <1>3, <1>4 DEF Arithmetic

LEMMA WholeOperands ==
    ASSUME NEW a \in Kinds, NEW x \in Operands[a], x.ty = "int"
    PROVE  \E n \in Int : x = Int64(n)
<1>1. \A t, S, y : y \in Of(t, S) => y.ty = t /\ \E n \in S : y = Value(t, n)
  BY Outcomes DEF Of
<1>2. a \in {"number", "text", "octets", "list", "set", "dict", "optional"}
  BY Zenon DEF Kinds, Operands
<1> DEFINE T == Of("str", Texts)
           B == Of("bytes", Texts)
           L == Of("list_int", Seqs({1, 2}, 2))
           S == Of("set_int", SUBSET (1 .. 2))
           D == Of("dict", {<<>>, <<<<1, 2>>>>})
<1>3. /\ \A y \in T : y.ty = "str"
      /\ \A y \in B : y.ty = "bytes"
      /\ \A y \in L : y.ty = "list_int"
      /\ \A y \in S : y.ty = "set_int"
      /\ \A y \in D : y.ty = "dict"
      /\ \A y \in Plain : y \in Of("int", Ints) \/ y.ty = "float" \/ y.ty = "bool"
      /\ \A y \in Options : y.ty = "opt_int"
  BY <1>1, Zenon DEF Plain, Options
<1>4. Operands = [number |-> Plain, text |-> T, octets |-> B, list |-> L, set |-> S, dict |-> D, optional |-> Options]
  BY Zenon DEF Operands
<1> HIDE DEF T, B, L, S, D
<1>5. x \in Of("int", Ints)
  BY <1>2, <1>3, <1>4
<1>6. Ints \subseteq Int
  BY PowersAssumption DEF Ints, MinInt, MaxInt
<1>7. PICK n \in Ints : x = Value("int", n)
  BY <1>1, <1>5
<1> QED
  BY <1>6, <1>7, Zenon DEF Int64

LEMMA IntegersTried ==
    ASSUME NEW op, NEW l, NEW r, NEW written, TryBinary(op, l, r, written),
           l.ty = "int" => \E n \in Int : l = Int64(n), r.ty = "int" => \E n \in Int : r = Int64(n)
    PROVE  IntegersAgree'
<1> DEFINE c == [op |-> op, left |-> l, right |-> r, written |-> written]
           out == BinaryResult(op, l, r, written)
           order == BinaryOrder(op, l, r)
           checked == BinaryType(op, l.ty, r.ty, written = "negative")
           oracle == BinaryOracle(op, l.ty, r.ty, written = "negative")
           answer == Py!PyBinary(op, l, r)
<1>1. case'.of = c /\ result'.out = out /\ out.ty # "refused"
  <2> HIDE DEF c, out, checked, oracle, order
  <2> QED
    BY DEF TryBinary, Comes, c, out, checked, oracle, order
<1>2. c.op = op /\ c.left = l /\ c.right = r /\ c.written = written
  OBVIOUS
<1> HIDE DEF c
<1>3. ASSUME WholeNumbers(c), ~BinaryDeparts(c) PROVE Agrees(out, answer)
  <2>1. PICK a \in Int : l = Int64(a)
    BY <1>2, <1>3 DEF WholeNumbers
  <2>2. PICK b \in Int : r = Int64(b)
    BY <1>2, <1>3 DEF WholeNumbers
  <2>3. op \in Arithmetic \cup Comparisons
    BY <1>2, <1>3 DEF WholeNumbers
  <2>4. ~PastTheEnds(c)
    BY <1>3 DEF BinaryDeparts
  <2>5. written = "literal" /\ answer.ty = "int" => Fits(answer.v)
    BY <1>2, <2>4 DEF PastTheEnds
  <2>6. l.ty = "int" /\ r.ty = "int" /\ l.v = a /\ r.v = b
    BY <2>1, <2>2 DEF Int64, Value
  <2>7. op = "%" => ~DivOverflows(a, b)
    BY <1>2, <2>4, <2>6 DEF PastTheEnds
  <2>8. answer = Py!PyBinary(op, Int64(a), Int64(b)) /\ out = BinaryResult(op, Int64(a), Int64(b), written)
    BY <2>1, <2>2
  <2> HIDE DEF out, answer
  <2> QED
    BY <1>1, <2>3, <2>5, <2>7, <2>8, IntegersAlike
<1>4. WholeNumbers(c) /\ ~BinaryDeparts(c) => Agrees(result'.out, Py!PyBinary(c.op, c.left, c.right))
  BY <1>1, <1>2, <1>3
<1> QED
  BY <1>1, <1>4 DEF IntegersAgree

LEMMA OtherKinds ==
    /\ \A calls : CallMethod(calls) => case'.kind = "method"
    /\ ApplyUnary => case'.kind = "unary"
    /\ TakeItem => case'.kind = "item"
    /\ TakeSlice => case'.kind = "slice"
    /\ CallBuiltin => case'.kind = "builtin"
    /\ ApplyBinary \/ ApplyPower => case'.kind = "binary"
<1>1. \A kind, c, out, after, order, checked, oracle :
          Comes(kind, c, out, after, order, checked, oracle) => case'.kind = kind
  BY DEF Comes
<1>2. \A calls : CallMethod(calls) => case'.kind = "method"
  BY <1>1, Zenon DEF CallMethod
<1>3. ApplyUnary => case'.kind = "unary"
  BY <1>1, Zenon DEF ApplyUnary
<1>4. TakeItem => case'.kind = "item"
  BY <1>1, Zenon DEF TakeItem
<1>5. TakeSlice => case'.kind = "slice"
  BY <1>1, Zenon DEF TakeSlice
<1>6. CallBuiltin => case'.kind = "builtin"
  BY DEF CallBuiltin, Comes
<1>7. ApplyBinary \/ ApplyPower => case'.kind = "binary"
  <2>1. \A op, l, r, written : TryBinary(op, l, r, written) => case'.kind = "binary"
    BY <1>1, Zenon DEF TryBinary
  <2> QED
    BY <2>1, Zenon DEF ApplyBinary, ApplyPower
<1> QED
  BY <1>2, <1>3, <1>4, <1>5, <1>6, <1>7

LEMMA NextIntegers == IntegersAgree /\ [Next]_<<case, result>> => IntegersAgree'
<1> SUFFICES ASSUME IntegersAgree, [Next]_<<case, result>> PROVE IntegersAgree'
  OBVIOUS
<1>1. CASE ApplyBinary
  <2>1. PICK a \in Kinds, b \in Kinds, op \in BinaryOps :
            \E l \in Operands[a], r \in Operands[b], written \in {"variable", "literal", "negative"} : TryBinary(op, l, r, written)
    BY <1>1 DEF ApplyBinary
  <2>2. PICK l \in Operands[a], r \in Operands[b], written \in {"variable", "literal", "negative"} : TryBinary(op, l, r, written)
    BY <2>1
  <2> QED
    BY <2>2, WholeOperands, IntegersTried
<1>2. CASE ApplyPower
  <2>1. PICK a \in {-1, 0, 1, 2}, b \in {15, 16, 17} : TryBinary("**", Int64(a), Int64(b), "variable")
    BY <1>2 DEF ApplyPower
  <2> QED
    BY <2>1, IntegersTried
<1>3. CASE UNCHANGED <<case, result>>
  BY <1>3 DEF IntegersAgree
<1>4. CASE case'.kind # "binary"
  BY <1>4 DEF IntegersAgree
<1> QED
  BY <1>1, <1>2, <1>3, <1>4, OtherKinds DEF Next

\* Two whole numbers add, subtract, multiply, divide, leave the remainder and
\* compare in the emitted Rust as in Python, or the program ends where Python's
\* number does not fit an i64 (__py_floordiv, __py_mod, the checked arithmetic
\* and the folding of literals), for every width.
LEMMA IntegersAlwaysAgree == Spec => []IntegersAgree
<1>1. Init => IntegersAgree
  BY DEF Init, IntegersAgree
<1>2. IntegersAgree /\ [Next]_<<case, result>> => IntegersAgree'
  BY NextIntegers
<1> QED
  BY <1>1, <1>2, PTL DEF Spec

\* An index of either sign, on whatever sequence and however long, and a key.
THEOREM ItemsAlike ==
    ASSUME NEW obj, NEW i \in Int, i >= -(2^Width),
           \/ obj.ty = "dict"
           \/ obj.ty \in {"str", "bytes", "list_int"} /\ Len(obj.v) \in Nat /\ DOMAIN obj.v = 1 .. Len(obj.v)
    PROVE  Same(IndexResult(obj, i), Py!PyIndex(obj, i))
<1>1. CASE obj.ty = "dict"
  <2> DEFINE at == {k \in DOMAIN obj.v : obj.v[k][1] = i}
  <2>1. Py!KeyAt(obj.v, i) = at /\ Py!First(at) = First(at)
    BY DEF Py!KeyAt, Py!First, First
  <2>2. IndexResult(obj, i) = IF at = {} THEN Raise("KeyError") ELSE Int64(obj.v[First(at)][2])
    BY <1>1 DEF IndexResult
  <2>3. Py!PyIndex(obj, i) = IF Py!KeyAt(obj.v, i) = {} THEN Py!Raise("KeyError")
                             ELSE Py!Int64(obj.v[Py!First(Py!KeyAt(obj.v, i))][2])
    BY <1>1 DEF Py!PyIndex, Py!Sequential
  <2> HIDE DEF at
  <2> QED
    BY <2>1, <2>2, <2>3, SameWords DEF Same
<1>2. CASE obj.ty \in {"str", "bytes", "list_int"} /\ Len(obj.v) \in Nat /\ DOMAIN obj.v = 1 .. Len(obj.v)
  <2> DEFINE len == Len(obj.v)
             k == FromEnd(len, i) + 1
             w == 2^Width
  <2>1. w \in Nat /\ w > 0 /\ i >= -w
    BY PowersAssumption
  <2>2. len \in Nat /\ k \in Int /\ k - 1 = IF i < 0 THEN i + len ELSE i
    BY <1>2 DEF FromEnd
  <2>3. Place(len, i) = IF k - 1 < 0 THEN k - 1 + w ELSE k - 1
    BY <2>2 DEF Place, AsUsize
  <2>4. Py!FromEnd(len, i) + 1 = k
    BY DEF Py!FromEnd, FromEnd
  <2> HIDE DEF k, w
  <2>5. InList(len, i) = (k \in 1 .. len) /\ (k \in 1 .. len => Place(len, i) + 1 = k)
    BY <2>1, <2>2, <2>3 DEF InList
  <2>6. Py!PyIndex(obj, i) = IF k \notin 1 .. len THEN Raise("IndexError")
                             ELSE CASE obj.ty = "str" -> Text(<<obj.v[k]>>)
                                    [] obj.ty = "bytes" -> Int64(Py!Code(obj.v[k]))
                                    [] obj.ty = "list_int" -> Int64(obj.v[k])
    BY <1>2, <2>4, SameWords DEF Py!PyIndex, Py!Sequential
  <2>7. CASE obj.ty = "str"
    BY <2>5, <2>6, <2>7 DEF IndexResult, Same
  <2>8. CASE obj.ty = "bytes"
    <3>1. \A c : Py!Code(c) = Code(c)
      BY DEF Py!Code, Code
    <3>2. IndexResult(obj, i) = IF k - 1 < 0 \/ k - 1 >= len THEN Raise("IndexError") ELSE Int64(Code(obj.v[k]))
      <4>1. IndexResult(obj, i) = BytesIndex(obj.v, i)
        BY <2>8 DEF IndexResult
      <4>2. FromEnd(len, i) = k - 1
        BY <1>2 DEF FromEnd, k
      <4>3. BytesIndex(obj.v, i) = IF k - 1 < 0 \/ k - 1 >= len THEN Raise("IndexError")
                                  ELSE Int64(Code(obj.v[k - 1 + 1]))
        BY <4>2 DEF BytesIndex
      <4>4. k - 1 + 1 = k
        BY <2>2
      <4> QED
        BY <4>1, <4>3, <4>4
    <3> QED
      BY <2>2, <2>6, <2>8, <3>1, <3>2 DEF Same
  <2>9. CASE obj.ty = "list_int"
    <3>1. IndexResult(obj, i) = IF InList(len, i) THEN Value("int", obj.v[Place(len, i) + 1]) ELSE Raise("IndexError")
      BY <2>9 DEF IndexResult, ListGet
    <3>2. Py!PyIndex(obj, i) = IF k \notin 1 .. len THEN Raise("IndexError") ELSE Value("int", obj.v[k])
      BY <2>6, <2>9 DEF Int64
    <3>3. IndexResult(obj, i) = Py!PyIndex(obj, i)
      <4> DEFINE inside == k \in 1 .. len
                 found == InList(len, i)
                 place == Place(len, i) + 1
                 s == obj.v
      <4>1. (found <=> inside) /\ (inside => place = k)
        BY <2>5
      <4>2. IndexResult(obj, i) = IF found THEN Value("int", s[place]) ELSE Raise("IndexError")
        BY <3>1
      <4>3. Py!PyIndex(obj, i) = IF inside THEN Value("int", s[k]) ELSE Raise("IndexError")
        BY <3>2
      <4> HIDE DEF inside, found, place, s
      <4> QED
        BY <4>1, <4>2, <4>3
    <3> QED
      BY <3>3 DEF Same
  <2> QED
    BY <1>2, <2>7, <2>8, <2>9
<1> QED
  BY <1>1, <1>2

LEMMA SeqsAre ==
    ASSUME NEW S, NEW n \in Nat, NEW s \in Seqs(S, n)
    PROVE  Len(s) \in Nat /\ DOMAIN s = 1 .. Len(s) /\ \A k \in DOMAIN s : s[k] \in S
<1>1. PICK k \in 0 .. n : s \in [1 .. k -> S]
  BY DEF Seqs
<1>2. s \in Seq(S) /\ Len(s) = k
  BY <1>1
<1> QED
  BY <1>1, <1>2

LEMMA ItemsTried == TakeItem => ItemsAgree'
<1> SUFFICES ASSUME TakeItem PROVE ItemsAgree'
  OBVIOUS
<1>1. PICK a \in {"text", "octets", "list", "dict"} : \E obj \in Operands[a], i \in -4 .. 4 :
          Comes("item", [obj |-> obj, i |-> i], IndexResult(obj, i), <<>>, IndexOrder(obj, i),
                IndexType(obj.ty), IndexOracle(obj.ty))
  BY DEF TakeItem
<1>2. PICK obj \in Operands[a], i \in -4 .. 4 :
          Comes("item", [obj |-> obj, i |-> i], IndexResult(obj, i), <<>>, IndexOrder(obj, i),
                IndexType(obj.ty), IndexOracle(obj.ty))
  BY <1>1
<1> DEFINE c == [obj |-> obj, i |-> i]
           out == IndexResult(obj, i)
           order == IndexOrder(obj, i)
           checked == IndexType(obj.ty)
           oracle == IndexOracle(obj.ty)
<1>3. case'.of = c /\ result'.out = out
  <2> HIDE DEF c, out, checked, oracle, order
  <2> QED
    BY <1>2 DEF Comes, c, out, checked, oracle, order
<1>4. a \in Kinds
  BY DEF Kinds, Operands
<1>5. obj.ty = "dict" \/ (obj.ty \in {"str", "bytes", "list_int"} /\ Len(obj.v) \in Nat /\ DOMAIN obj.v = 1 .. Len(obj.v))
  <2>1. ASSUME NEW t, NEW S, obj \in Of(t, S) PROVE obj.ty = t /\ obj.v \in S
    BY <2>1 DEF Of, Value
  <2>2. \A s \in Texts : Len(s) \in Nat /\ DOMAIN s = 1 .. Len(s)
    <3>1. Len(<<"a", "b", "a">>) \in Nat /\ DOMAIN <<"a", "b", "a">> = 1 .. Len(<<"a", "b", "a">>)
      OBVIOUS
    <3> QED
      BY <3>1, SeqsAre DEF Texts
  <2>3. CASE a = "text"
    BY <2>1, <2>2, <2>3, OperandsTyped, <1>4 DEF Operands
  <2>4. CASE a = "octets"
    BY <2>1, <2>2, <2>4, OperandsTyped, <1>4 DEF Operands
  <2>5. CASE a = "list"
    <3>1. obj \in Of("list_int", Seqs({1, 2}, 2))
      BY <2>5, Zenon DEF Operands
    <3> QED
      BY <2>1, <3>1, SeqsAre
  <2>6. CASE a = "dict"
    BY <2>6, OperandsTyped, <1>4
  <2> QED
    BY <2>3, <2>4, <2>5, <2>6
<1>6. i >= -(2^Width)
  <2> DEFINE w == 2^Width
  <2>1. w \in Nat /\ w >= 4
    BY PowersAssumption
  <2> HIDE DEF w
  <2>2. i >= -w
    BY <2>1
  <2> QED
    BY <2>2 DEF w
<1>7. Same(out, Py!PyIndex(obj, i))
  BY <1>5, <1>6, ItemsAlike
<1> HIDE DEF out
<1>8. Same(result'.out, Py!PyIndex(case'.of.obj, case'.of.i))
  BY <1>3, <1>7
<1> QED
  BY <1>8 DEF ItemsAgree

\* An index of either sign takes the item Python's takes, and fails where
\* Python's fails, on texts, bytes and lists (__py_list_get, __py_bytes_index)
\* and on dicts.
LEMMA ItemsAlwaysAgree == Spec => []ItemsAgree
<1>1. Init => ItemsAgree
  BY DEF Init, ItemsAgree
<1>2. ItemsAgree /\ [Next]_<<case, result>> => ItemsAgree'
  <2> SUFFICES ASSUME ItemsAgree, [Next]_<<case, result>> PROVE ItemsAgree'
    OBVIOUS
  <2>1. CASE TakeItem
    BY <2>1, ItemsTried
  <2>2. CASE UNCHANGED <<case, result>>
    BY <2>2 DEF ItemsAgree
  <2>3. CASE case'.kind # "item"
    BY <2>3 DEF ItemsAgree
  <2> QED
    BY <2>1, <2>2, <2>3, OtherKinds DEF Next
<1> QED
  BY <1>1, <1>2, PTL DEF Spec

-----------------------------------------------------------------------------
(* Slices                                                                    *)

\* How many numbers a sequence without repetitions names.
LEMMA HowMany ==
    ASSUME NEW c \in Nat, NEW p \in [1 .. c -> Int], \A a, b \in 1 .. c : a # b => p[a] # p[b], NEW j \in 0 .. c
    PROVE  Cardinality({p[m] : m \in 1 .. j}) = j
<1> DEFINE T(k) == {p[m] : m \in 1 .. k}
           G == {k \in 0 .. c : IsFiniteSet(T(k)) /\ Cardinality(T(k)) = k}
<1>1. 0 \in G
  <2>1. T(0) = {}
    OBVIOUS
  <2> HIDE DEF T
  <2>2. IsFiniteSet(T(0)) /\ Cardinality(T(0)) = 0
    BY <2>1, FS_EmptySet, Zenon
  <2> QED
    BY <2>2
<1>2. ASSUME NEW k \in 0 .. c, k \in G, k < c PROVE k + 1 \in G
  <2>1. T(k + 1) = T(k) \cup {p[k + 1]}
    <3>1. 1 .. k + 1 = (1 .. k) \cup {k + 1}
      OBVIOUS
    <3> QED
      BY <3>1
  <2>2. p[k + 1] \notin T(k)
    <3>1. \A m \in 1 .. k : m \in 1 .. c /\ m # k + 1 /\ k + 1 \in 1 .. c
      BY <1>2
    <3>2. \A m \in 1 .. k : p[m] # p[k + 1]
      BY <3>1
    <3> QED
      BY <3>2
  <2>3. IsFiniteSet(T(k)) /\ Cardinality(T(k)) = k /\ k + 1 \in 0 .. c
    BY <1>2
  <2> HIDE DEF T
  <2>4. IsFiniteSet(T(k) \cup {p[k + 1]}) /\ Cardinality(T(k) \cup {p[k + 1]}) = k + 1
    BY <2>2, <2>3, FS_AddElement
  <2> QED
    BY <2>1, <2>3, <2>4
<1> HIDE DEF G
<1>3. j \in G
  BY <1>1, <1>2, UpTo
<1> QED
  BY <1>3 DEF G

\* The numbers of a rising sequence, gone through upwards, are that sequence.
LEMMA GoneThroughUpwards ==
    ASSUME NEW c \in Nat, NEW p \in [1 .. c -> Int], \A a, b \in 1 .. c : a < b => p[a] < p[b]
    PROVE  Py!Ascending({p[m] : m \in 1 .. c}) = p
<1> DEFINE S == {p[m] : m \in 1 .. c}
           Below(x) == {y \in S : y < x}
           Nth(k) == CHOOSE x \in S : Py!Cardinality(Below(x)) = k - 1
<1>0. \A T : Py!Cardinality(T) = Cardinality(T)
  BY Zenon DEF Py!Cardinality, Cardinality
<1>1. \A a, b \in 1 .. c : a # b => p[a] # p[b]
  OBVIOUS
<1>2. Py!Cardinality(S) = c
  BY <1>0, <1>1, HowMany
<1>3. ASSUME NEW k \in 1 .. c PROVE Py!Cardinality(Below(p[k])) = k - 1
  <2>1. Below(p[k]) = {p[m] : m \in 1 .. k - 1}
    <3>1. \A m \in 1 .. c : p[m] < p[k] <=> m \in 1 .. k - 1
      OBVIOUS
    <3>2. 1 .. k - 1 \subseteq 1 .. c
      OBVIOUS
    <3> QED
      BY <3>1, <3>2
  <2>2. k - 1 \in 0 .. c
    OBVIOUS
  <2> QED
    BY <1>0, <1>1, <2>1, <2>2, HowMany
<1>4. ASSUME NEW k \in 1 .. c PROVE Nth(k) = p[k]
  <2>1. p[k] \in S /\ Py!Cardinality(Below(p[k])) = k - 1
    BY <1>3
  <2>2. \A x \in S : Py!Cardinality(Below(x)) = k - 1 => x = p[k]
    <3>1. \A m \in 1 .. c : Py!Cardinality(Below(p[m])) = m - 1
      BY <1>3
    <3> HIDE DEF Below
    <3>2. SUFFICES ASSUME NEW m \in 1 .. c, Py!Cardinality(Below(p[m])) = k - 1 PROVE p[m] = p[k]
      BY Zenon
    <3>3. m = k
      BY <3>1, <3>2
    <3> QED
      BY <3>3
  <2> HIDE DEF S, Below
  <2> QED
    BY <2>1, <2>2
<1>5. \A T : Py!Ascending(T) =
                 [k \in 1 .. Py!Cardinality(T) |-> CHOOSE x \in T : Py!Cardinality({y \in T : y < x}) = k - 1]
  BY DEF Py!Ascending
<1>6. Py!Ascending(S) = [k \in 1 .. c |-> Nth(k)]
  BY <1>2, <1>5, Zenon
<1> HIDE DEF S, Nth
<1>7. Py!Ascending(S) = [k \in 1 .. c |-> p[k]]
  BY <1>4, <1>6
<1> QED
  BY <1>7 DEF S

\* A bound of a slice is left out, or a number.
Bound(b) == b = <<>> \/ \E i \in Int : b = <<i>>
BoundValue(b) == IF b = <<>> THEN 0 ELSE b[1]

\* The ends the helpers clamp to hold the same items as the ends of Python,
\* and a slice that takes any starts at the same place.
LEMMA EndsUpwards ==
    ASSUME NEW n \in Nat, NEW k \in Int, k > 0, NEW start, NEW stop, Bound(start), Bound(stop)
    PROVE  LET i == Py!Begins(n, start, k)
               j == Py!Stops(n, stop, k)
               from == StepStart(n, start # <<>>, BoundValue(start), k)
               to == StepStop(n, stop # <<>>, BoundValue(stop), k)
           IN  /\ i \in Int /\ j \in Int /\ from \in 0 .. n /\ to \in 0 .. n
               /\ \A x \in 0 .. n - 1 : (i <= x <=> from <= x) /\ (i <= x => i = from) /\ (x < j <=> x < to)
<1> DEFINE i == Py!Begins(n, start, k)
           j == Py!Stops(n, stop, k)
           from == StepStart(n, start # <<>>, BoundValue(start), k)
           to == StepStop(n, stop # <<>>, BoundValue(stop), k)
<1>1. i \in Int /\ from \in 0 .. n /\ \A x \in 0 .. n - 1 : (i <= x <=> from <= x) /\ (i <= x => i = from)
  <2>1. CASE start = <<>>
    BY <2>1 DEF Py!Begins, StepStart, StepEnd
  <2>2. ASSUME NEW b \in Int, start = <<b>>
        PROVE  i \in Int /\ from \in 0 .. n /\ \A x \in 0 .. n - 1 : (i <= x <=> from <= x) /\ (i <= x => i = from)
    <3>1. start # <<>> /\ start[1] = b /\ BoundValue(start) = b
      BY <2>2 DEF BoundValue
    <3> DEFINE near == IF b < 0 THEN b + n ELSE b
    <3>2. near \in Int /\ i = (IF 0 > near THEN 0 ELSE near)
      BY <3>1 DEF Py!Begins, Py!FromEnd, Py!Most
    <3>3. from = (IF near < 0 THEN 0 ELSE IF near > n THEN n ELSE near)
      BY <3>1 DEF StepStart, StepEnd, Clamp, Lower, Upper, FromEnd
    <3> HIDE DEF near, i, from
    <3> QED
      BY <3>2, <3>3
  <2> QED
    BY <2>1, <2>2 DEF Bound
<1>2. j \in Int /\ to \in 0 .. n /\ \A x \in 0 .. n - 1 : x < j <=> x < to
  <2>1. CASE stop = <<>>
    BY <2>1 DEF Py!Stops, StepStop, StepEnd
  <2>2. ASSUME NEW b \in Int, stop = <<b>>
        PROVE  j \in Int /\ to \in 0 .. n /\ \A x \in 0 .. n - 1 : x < j <=> x < to
    <3>1. stop # <<>> /\ stop[1] = b /\ BoundValue(stop) = b
      BY <2>2 DEF BoundValue
    <3> DEFINE near == IF b < 0 THEN b + n ELSE b
    <3>2. near \in Int /\ j = (IF -1 > near THEN -1 ELSE near)
      BY <3>1 DEF Py!Stops, Py!FromEnd, Py!Most
    <3>3. to = (IF near < 0 THEN 0 ELSE IF near > n THEN n ELSE near)
      BY <3>1 DEF StepStop, StepEnd, Clamp, Lower, Upper, FromEnd
    <3> HIDE DEF near, j, to
    <3> QED
      BY <3>2, <3>3
  <2> QED
    BY <2>1, <2>2 DEF Bound
<1> QED
  BY <1>1, <1>2
LEMMA EndsDownwards ==
    ASSUME NEW n \in Nat, NEW k \in Int, k < 0, NEW start, NEW stop, Bound(start), Bound(stop)
    PROVE  LET i == Py!Begins(n, start, k)
               j == Py!Stops(n, stop, k)
               from == StepStart(n, start # <<>>, BoundValue(start), k)
               to == StepStop(n, stop # <<>>, BoundValue(stop), k)
           IN  /\ i \in Int /\ j \in Int /\ from \in -1 .. n - 1 /\ to \in -1 .. n - 1
               /\ \A x \in 0 .. n - 1 : (i >= x <=> from >= x) /\ (i >= x => i = from) /\ (x > j <=> x > to)
<1> DEFINE i == Py!Begins(n, start, k)
           j == Py!Stops(n, stop, k)
           from == StepStart(n, start # <<>>, BoundValue(start), k)
           to == StepStop(n, stop # <<>>, BoundValue(stop), k)
<1>0. ~(k > 0)
  OBVIOUS
<1>1. i \in Int /\ from \in -1 .. n - 1 /\ \A x \in 0 .. n - 1 : (i >= x <=> from >= x) /\ (i >= x => i = from)
  <2>1. CASE start = <<>>
    BY <1>0, <2>1 DEF Py!Begins, StepStart, StepEnd
  <2>2. ASSUME NEW b \in Int, start = <<b>>
        PROVE  i \in Int /\ from \in -1 .. n - 1 /\ \A x \in 0 .. n - 1 : (i >= x <=> from >= x) /\ (i >= x => i = from)
    <3>1. start # <<>> /\ start[1] = b /\ BoundValue(start) = b
      BY <2>2 DEF BoundValue
    <3> DEFINE near == IF b < 0 THEN b + n ELSE b
    <3>2. near \in Int /\ i = (IF n - 1 < near THEN n - 1 ELSE near)
      BY <1>0, <3>1 DEF Py!Begins, Py!FromEnd, Py!Least
    <3>3. from = (IF near < -1 THEN -1 ELSE IF near > n - 1 THEN n - 1 ELSE near)
      BY <3>1 DEF StepStart, StepEnd, Clamp, Lower, Upper, FromEnd
    <3> HIDE DEF near, i, from
    <3> QED
      BY <3>2, <3>3
  <2> QED
    BY <2>1, <2>2 DEF Bound
<1>2. j \in Int /\ to \in -1 .. n - 1 /\ \A x \in 0 .. n - 1 : x > j <=> x > to
  <2>1. CASE stop = <<>>
    BY <1>0, <2>1 DEF Py!Stops, StepStop, StepEnd
  <2>2. ASSUME NEW b \in Int, stop = <<b>>
        PROVE  j \in Int /\ to \in -1 .. n - 1 /\ \A x \in 0 .. n - 1 : x > j <=> x > to
    <3>1. stop # <<>> /\ stop[1] = b /\ BoundValue(stop) = b
      BY <2>2 DEF BoundValue
    <3> DEFINE near == IF b < 0 THEN b + n ELSE b
    <3>2. near \in Int /\ j = (IF -1 > near THEN -1 ELSE near)
      BY <3>1 DEF Py!Stops, Py!FromEnd, Py!Most
    <3>3. to = (IF near < -1 THEN -1 ELSE IF near > n - 1 THEN n - 1 ELSE near)
      BY <3>1 DEF StepStop, StepEnd, Clamp, Lower, Upper, FromEnd
    <3> HIDE DEF near, j, to
    <3> QED
      BY <3>2, <3>3
  <2> QED
    BY <2>1, <2>2 DEF Bound
<1> QED
  BY <1>1, <1>2

LEMMA Multiples ==
    ASSUME NEW a \in Int, NEW h \in Nat, h > 0, a % h = 0
    PROVE  a \div h \in Int /\ a = h * (a \div h)
OBVIOUS
LEMMA MultipleOf ==
    ASSUME NEW t \in Int, NEW h \in Nat, h > 0
    PROVE  (h * t) % h = 0
OBVIOUS
LEMMA StepsGrow ==
    ASSUME NEW h \in Nat, h > 0, NEW a \in Int, NEW b \in Int
    PROVE  /\ a < b => h * a < h * b
           /\ h * a < h * b + h => a <= b
           /\ a <= b => h * a <= h * b
OBVIOUS

\* The numbers a loop steps through are those of its step's multiples that lie
\* between its ends, each once and in order.
OnStep(x, from, k) == (x - from) % k = 0
\* The first c places of p are all those from `from` up (down) to `to`, k apart.
RisesThrough(p, c, n, k, from, to) ==
    /\ c \in Nat /\ p \in [1 .. c -> 0 .. n - 1]
    /\ \A a, b \in 1 .. c : a < b => p[a] < p[b]
    /\ \A m \in 1 .. c : OnStep(p[m], from, k) /\ from <= p[m] /\ p[m] < to
    /\ \A x \in 0 .. n - 1 : OnStep(x, from, k) /\ from <= x /\ x < to => \E m \in 1 .. c : p[m] = x
FallsThrough(p, c, n, k, from, to) ==
    /\ c \in Nat /\ p \in [1 .. c -> 0 .. n - 1]
    /\ \A a, b \in 1 .. c : a < b => p[b] < p[a]
    /\ \A m \in 1 .. c : OnStep(p[m], from, k) /\ from >= p[m] /\ p[m] > to
    /\ \A x \in 0 .. n - 1 : OnStep(x, from, k) /\ from >= x /\ x > to => \E m \in 1 .. c : p[m] = x
LEMMA SteppedUpwards ==
    ASSUME NEW n \in Nat, NEW k \in Nat, k > 0, NEW from \in 0 .. n, NEW to \in 0 .. n
    PROVE  RisesThrough(Progression(from, to, k), StepCount(from, to, k), n, k, from, to)
<1> DEFINE c == StepCount(from, to, k)
           p == Progression(from, to, k)
           q == (to - from - 1) \div k
           S == {x \in 0 .. n - 1 : OnStep(x, from, k) /\ from <= x /\ x < to}
<1>1. c = IF from < to THEN q + 1 ELSE 0
  BY DEF StepCount
<1>2. from < to => q \in Nat /\ k * q <= to - from - 1 /\ to - from - 1 < k * q + k
  <2> SUFFICES ASSUME from < to PROVE q \in Nat /\ k * q <= to - from - 1 /\ to - from - 1 < k * q + k
    OBVIOUS
  <2>1. to - from - 1 \in Nat
    OBVIOUS
  <2> QED
    BY <2>1, Division
<1> HIDE DEF q
<1>3. c \in Nat
  BY <1>1, <1>2
<1>4. p = [m \in 1 .. c |-> from + (m - 1) * k]
  BY DEF Progression
<1> HIDE DEF p, c
<1>5. ASSUME NEW m \in 1 .. c PROVE p[m] = from + k * (m - 1) /\ p[m] \in S
  <2>1. p[m] = from + k * (m - 1)
    BY <1>4
  <2>2. from < to /\ m - 1 \in Nat /\ m - 1 <= q
    BY <1>1, <1>2
  <2>3. k * (m - 1) <= k * q /\ k * (m - 1) \in Nat
    BY <1>2, <2>2, StepsGrow
  <2>4. (k * (m - 1)) % k = 0
    BY <2>2, MultipleOf
  <2> DEFINE d == k * (m - 1)
  <2> HIDE DEF d
  <2>5. d \in Nat /\ d <= to - from - 1 /\ d % k = 0 /\ p[m] = from + d
    BY <1>2, <2>1, <2>2, <2>3, <2>4 DEF d
  <2>6. p[m] \in 0 .. n - 1 /\ from <= p[m] /\ p[m] < to /\ p[m] - from = d
    BY <2>5
  <2> QED
    BY <2>1, <2>5, <2>6 DEF OnStep
<1>6. ASSUME NEW a \in 1 .. c, NEW b \in 1 .. c, a < b PROVE p[a] < p[b]
  <2>1. a - 1 \in Int /\ b - 1 \in Int /\ a - 1 < b - 1
    BY <1>6
  <2>2. k * (a - 1) < k * (b - 1)
    BY <2>1, StepsGrow
  <2> QED
    BY <1>5, <2>2
<1>7. ASSUME NEW x \in S PROVE \E m \in 1 .. c : p[m] = x
  <2> DEFINE t == (x - from) \div k
  <2>1. x - from \in Nat /\ OnStep(x, from, k) /\ x - from <= to - from - 1 /\ from < to
    OBVIOUS
  <2>2. t \in Int /\ x - from = k * t
    BY <2>1, Multiples DEF OnStep
  <2>3. t \in Nat
    BY <2>1, Division
  <2> HIDE DEF t
  <2>4. k * t < k * q + k
    BY <1>2, <2>1, <2>2
  <2>5. t <= q
    BY <1>2, <2>1, <2>2, <2>4, StepsGrow
  <2>6. t + 1 \in 1 .. c /\ (t + 1) - 1 = t
    BY <1>1, <1>2, <2>1, <2>3, <2>5
  <2>7. p[t + 1] = from + k * t
    BY <1>5, <2>6
  <2>8. p[t + 1] = x
    BY <2>2, <2>7
  <2> QED
    BY <2>6, <2>8
<1>9. p \in [1 .. c -> 0 .. n - 1]
  BY <1>4, <1>5
<1> QED
  <2>1. RisesThrough(p, c, n, k, from, to)
    BY <1>3, <1>5, <1>6, <1>7, <1>9 DEF RisesThrough
  <2> QED
    BY <2>1 DEF c, p
LEMMA SteppedDownwards ==
    ASSUME NEW n \in Nat, NEW h \in Nat, h > 0, NEW from \in -1 .. n - 1, NEW to \in -1 .. n - 1
    PROVE  FallsThrough(Progression(from, to, -h), StepCount(from, to, -h), n, h, from, to)
<1> DEFINE c == StepCount(from, to, -h)
           p == Progression(from, to, -h)
           q == (from - to - 1) \div h
           S == {x \in 0 .. n - 1 : OnStep(x, from, h) /\ from >= x /\ x > to}
<1>1. c = IF to < from THEN q + 1 ELSE 0
  <2>1. -h < 0 /\ ~(-h > 0) /\ -(-h) = h
    OBVIOUS
  <2> QED
    BY <2>1 DEF StepCount
<1>2. to < from => q \in Nat /\ h * q <= from - to - 1 /\ from - to - 1 < h * q + h
  <2> SUFFICES ASSUME to < from PROVE q \in Nat /\ h * q <= from - to - 1 /\ from - to - 1 < h * q + h
    OBVIOUS
  <2>1. from - to - 1 \in Nat
    OBVIOUS
  <2> QED
    BY <2>1, Division
<1> HIDE DEF q
<1>3. c \in Nat
  BY <1>1, <1>2
<1>4. p = [m \in 1 .. c |-> from + (m - 1) * (-h)]
  BY DEF Progression
<1> HIDE DEF p, c
<1>5. ASSUME NEW m \in 1 .. c PROVE p[m] = from - h * (m - 1) /\ p[m] \in S
  <2>1. p[m] = from - h * (m - 1)
    BY <1>4
  <2>2. to < from /\ m - 1 \in Nat /\ m - 1 <= q
    BY <1>1, <1>2
  <2>3. h * (m - 1) <= h * q /\ h * (m - 1) \in Nat
    BY <1>2, <2>2, StepsGrow
  <2>4. (h * (-(m - 1))) % h = 0
    BY <2>2, MultipleOf
  <2> DEFINE d == h * (m - 1)
  <2>5. h * (-(m - 1)) = -d
    OBVIOUS
  <2> HIDE DEF d
  <2>6. d \in Nat /\ d <= from - to - 1 /\ (-d) % h = 0 /\ p[m] = from - d
    BY <1>2, <2>1, <2>2, <2>3, <2>4, <2>5 DEF d
  <2>7. p[m] \in 0 .. n - 1 /\ from >= p[m] /\ p[m] > to /\ p[m] - from = -d
    BY <2>6
  <2> QED
    BY <2>1, <2>6, <2>7 DEF OnStep
<1>6. ASSUME NEW a \in 1 .. c, NEW b \in 1 .. c, a < b PROVE p[b] < p[a]
  <2>1. a - 1 \in Int /\ b - 1 \in Int /\ a - 1 < b - 1
    BY <1>6
  <2>2. h * (a - 1) < h * (b - 1)
    BY <2>1, StepsGrow
  <2> QED
    BY <1>5, <2>2
<1>7. ASSUME NEW x \in S PROVE \E m \in 1 .. c : p[m] = x
  <2> DEFINE s == (x - from) \div h
             t == -s
  <2>1. x - from \in Int /\ OnStep(x, from, h) /\ from - x \in Nat /\ from - x <= from - to - 1 /\ to < from
    OBVIOUS
  <2>2. s \in Int /\ x - from = h * s
    BY <2>1, Multiples DEF OnStep
  <2> HIDE DEF s
  <2>3. t \in Int /\ from - x = h * t
    BY <2>1, <2>2
  <2> HIDE DEF t
  <2>4. t >= 0
    BY <2>1, <2>3
  <2>5. h * t < h * q + h
    BY <1>2, <2>1, <2>3
  <2>6. t <= q
    BY <1>2, <2>1, <2>3, <2>5, StepsGrow
  <2>7. t + 1 \in 1 .. c /\ (t + 1) - 1 = t
    BY <1>1, <1>2, <2>1, <2>3, <2>4, <2>6
  <2>8. p[t + 1] = from - h * t
    BY <1>5, <2>7
  <2>9. p[t + 1] = x
    BY <2>1, <2>3, <2>8
  <2> QED
    BY <2>7, <2>9
<1>9. p \in [1 .. c -> 0 .. n - 1]
  BY <1>4, <1>5
<1> QED
  <2>1. FallsThrough(p, c, n, h, from, to)
    BY <1>3, <1>5, <1>6, <1>7, <1>9 DEF FallsThrough
  <2> QED
    BY <2>1 DEF c, p

\* The places the loops go through are those Python's slice is made of.
LEMMA PlacesAlike ==
    ASSUME NEW n \in Nat, NEW k \in Int, k # 0, NEW start, NEW stop, Bound(start), Bound(stop)
    PROVE  LET from == StepStart(n, start # <<>>, BoundValue(start), k)
               to == StepStop(n, stop # <<>>, BoundValue(stop), k)
               c == StepCount(from, to, k)
               at == Progression(from, to, k)
               taken == Py!Ascending(Py!Taken(n, Py!Begins(n, start, k), Py!Stops(n, stop, k), k))
           IN  /\ c \in Nat /\ at \in [1 .. c -> 0 .. n - 1]
               /\ at = IF k > 0 THEN taken ELSE Py!Reversed(taken)
<1> DEFINE i == Py!Begins(n, start, k)
           j == Py!Stops(n, stop, k)
           from == StepStart(n, start # <<>>, BoundValue(start), k)
           to == StepStop(n, stop # <<>>, BoundValue(stop), k)
           c == StepCount(from, to, k)
           at == Progression(from, to, k)
           S == Py!Taken(n, i, j, k)
           taken == Py!Ascending(S)
<1>1. CASE k > 0
  <2>1. /\ i \in Int /\ j \in Int /\ from \in 0 .. n /\ to \in 0 .. n
        /\ \A x \in 0 .. n - 1 : (i <= x <=> from <= x) /\ (i <= x => i = from) /\ (x < j <=> x < to)
    BY <1>1, EndsUpwards
  <2>2. Py!Magnitude(k) = k
    BY <1>1 DEF Py!Magnitude
  <2> HIDE DEF i, j, from, to
  <2>3. /\ c \in Nat /\ at \in [1 .. c -> 0 .. n - 1]
        /\ \A a, b \in 1 .. c : a < b => at[a] < at[b]
        /\ \A m \in 1 .. c : OnStep(at[m], from, k) /\ from <= at[m] /\ at[m] < to
        /\ \A x \in 0 .. n - 1 : OnStep(x, from, k) /\ from <= x /\ x < to => \E m \in 1 .. c : at[m] = x
    <3>1. k \in Nat
      BY <1>1
    <3>2. RisesThrough(at, c, n, k, from, to)
      BY <1>1, <2>1, <3>1, SteppedUpwards
    <3> HIDE DEF at, c
    <3> QED
      BY <3>2 DEF RisesThrough
  <2>4. S = {x \in 0 .. n - 1 : OnStep(x, i, k) /\ i <= x /\ x < j}
    BY <1>1, <2>2 DEF Py!Taken, OnStep
  <2>5. \A x \in 0 .. n - 1 : (OnStep(x, i, k) /\ i <= x /\ x < j) <=> (OnStep(x, from, k) /\ from <= x /\ x < to)
    BY <2>1
  <2>6. S = {at[m] : m \in 1 .. c}
    BY <2>3, <2>4, <2>5
  <2> HIDE DEF c, at, S
  <2>7. at \in [1 .. c -> Int]
    BY <2>3
  <2>8. taken = at
    BY <2>3, <2>6, <2>7, GoneThroughUpwards
  <2> QED
    BY <1>1, <2>3, <2>8 DEF c, at, S, i, j, from, to
<1>2. CASE k < 0
  <2>1. /\ i \in Int /\ j \in Int /\ from \in -1 .. n - 1 /\ to \in -1 .. n - 1
        /\ \A x \in 0 .. n - 1 : (i >= x <=> from >= x) /\ (i >= x => i = from) /\ (x > j <=> x > to)
    BY <1>2, EndsDownwards
  <2> DEFINE h == -k
             r == [m \in 1 .. c |-> at[c + 1 - m]]
  <2>2. Py!Magnitude(k) = h /\ h \in Nat /\ h > 0 /\ -h = k /\ ~(k > 0)
    BY <1>2 DEF Py!Magnitude
  <2> HIDE DEF i, j, from, to, h
  <2>3. /\ c \in Nat /\ at \in [1 .. c -> 0 .. n - 1]
        /\ \A a, b \in 1 .. c : a < b => at[b] < at[a]
        /\ \A m \in 1 .. c : OnStep(at[m], from, h) /\ from >= at[m] /\ at[m] > to
        /\ \A x \in 0 .. n - 1 : OnStep(x, from, h) /\ from >= x /\ x > to => \E m \in 1 .. c : at[m] = x
    <3>1. FallsThrough(Progression(from, to, -h), StepCount(from, to, -h), n, h, from, to)
      BY <2>1, <2>2, SteppedDownwards
    <3>2. FallsThrough(at, c, n, h, from, to)
      BY <2>2, <3>1
    <3> HIDE DEF at, c
    <3> QED
      BY <3>2 DEF FallsThrough
  <2>4. S = {x \in 0 .. n - 1 : OnStep(x, i, h) /\ i >= x /\ x > j}
    BY <2>2 DEF Py!Taken, OnStep
  <2>5. \A x \in 0 .. n - 1 : (OnStep(x, i, h) /\ i >= x /\ x > j) <=> (OnStep(x, from, h) /\ from >= x /\ x > to)
    BY <2>1
  <2>6. S = {at[m] : m \in 1 .. c}
    BY <2>3, <2>4, <2>5
  <2> HIDE DEF c, at, S
  <2>7. r \in [1 .. c -> Int] /\ \A m \in 1 .. c : r[m] = at[c + 1 - m] /\ c + 1 - m \in 1 .. c
    BY <2>3
  <2>8. \A a, b \in 1 .. c : a < b => r[a] < r[b]
    <3> SUFFICES ASSUME NEW a \in 1 .. c, NEW b \in 1 .. c, a < b PROVE r[a] < r[b]
      OBVIOUS
    <3>1. c + 1 - b \in 1 .. c /\ c + 1 - a \in 1 .. c /\ c + 1 - b < c + 1 - a
      BY <2>3
    <3> QED
      BY <2>3, <2>7, <3>1
  <2>9. S = {r[m] : m \in 1 .. c}
    <3>1. \A m \in 1 .. c : c + 1 - m \in 1 .. c /\ r[c + 1 - m] = at[m]
      <4>1. \A m \in 1 .. c : c + 1 - m \in 1 .. c /\ c + 1 - (c + 1 - m) = m
        BY <2>3
      <4> QED
        BY <2>7, <4>1
    <3> HIDE DEF r
    <3> QED
      BY <2>6, <2>7, <3>1
  <2> HIDE DEF r
  <2>10. taken = r
    BY <2>3, <2>7, <2>8, <2>9, GoneThroughUpwards
  <2>11. Py!Reversed(r) = at
    <3>1. DOMAIN r = 1 .. c /\ Len(r) = c
      BY <2>3, <2>7
    <3>2. Py!Reversed(r) = [m \in 1 .. c |-> r[c + 1 - m]]
      BY <3>1 DEF Py!Reversed
    <3>3. \A m \in 1 .. c : r[c + 1 - m] = at[m]
      <4>1. \A m \in 1 .. c : c + 1 - m \in 1 .. c /\ c + 1 - (c + 1 - m) = m
        BY <2>3
      <4> QED
        BY <2>7, <4>1
    <3>4. at = [m \in 1 .. c |-> at[m]]
      BY <2>3
    <3> QED
      BY <3>2, <3>3, <3>4
  <2> QED
    BY <2>2, <2>3, <2>10, <2>11 DEF c, at, S, i, j, from, to
<1> QED
  BY <1>1, <1>2

\* A step is left out, or a number whose multiples the counter of the loop can
\* step past the end by.
StepFits(step, n) == step = <<>> \/ \E k \in Int : step = <<k>> /\ MinInt <= k /\ n + k <= HalfRange

\* A slice of a text, bytes or list of any length, with any ends and any step.
THEOREM SlicesAlike ==
    ASSUME NEW obj, Len(obj.v) \in Nat, Len(obj.v) < HalfRange, NEW S, obj.v \in Seq(S),
           NEW start, NEW stop, NEW step, Bound(start), Bound(stop), StepFits(step, Len(obj.v))
    PROVE  Same(SliceResult(obj, start, stop, step), Py!PySlice(obj, start, stop, step))
<1> DEFINE n == Len(obj.v)
           k == IF step = <<>> THEN 1 ELSE step[1]
           from == StepStart(n, start # <<>>, BoundValue(start), k)
           to == StepStop(n, stop # <<>>, BoundValue(stop), k)
           c == StepCount(from, to, k)
           at == Progression(from, to, k)
           items == [m \in 1 .. c |-> obj.v[at[m] + 1]]
<1>0. k \in Int /\ MinInt <= k /\ n + k <= HalfRange /\ n \in Nat
  <2>1. <<>> # <<k>>
    OBVIOUS
  <2>2. HalfRange \in Nat /\ HalfRange > 1
    BY PowersAssumption
  <2>3. CASE step = <<>>
    BY <2>2, <2>3 DEF MinInt
  <2>4. CASE step # <<>>
    BY <2>4 DEF StepFits
  <2> QED
    BY <2>3, <2>4
<1>1. Py!PySlice(obj, start, stop, step) =
          LET taken == Py!Ascending(Py!Taken(n, Py!Begins(n, start, k), Py!Stops(n, stop, k), k))
              order == IF k > 0 THEN taken ELSE Py!Reversed(taken)
          IN  IF k = 0 THEN Raise("ValueError") ELSE Value(obj.ty, [m \in DOMAIN order |-> obj.v[order[m] + 1]])
  BY SameWords, Zenon DEF Py!PySlice
<1>2. SliceStep(obj.v, start, stop, k, obj.ty) =
          IF k = 0 THEN Raise("ValueError")
          ELSE IF at # <<>> /\ ~Fits(at[Len(at)] + k) THEN Panic
          ELSE Value(obj.ty, [m \in DOMAIN at |-> obj.v[at[m] + 1]])
  BY DEF SliceStep, BoundValue
<1>3. ASSUME k # 0
      PROVE  /\ Py!PySlice(obj, start, stop, step) = Value(obj.ty, items)
             /\ SliceStep(obj.v, start, stop, k, obj.ty) = Value(obj.ty, items)
             /\ c \in Nat /\ at \in [1 .. c -> 0 .. n - 1]
  <2> DEFINE taken == Py!Ascending(Py!Taken(n, Py!Begins(n, start, k), Py!Stops(n, stop, k), k))
             order == IF k > 0 THEN taken ELSE Py!Reversed(taken)
  <2>1. c \in Nat /\ at \in [1 .. c -> 0 .. n - 1] /\ order = at
    <3>1. Bound(start) /\ Bound(stop)
      OBVIOUS
    <3> HIDE DEF n, k
    <3> QED
      BY <1>0, <1>3, <3>1, PlacesAlike, Zenon
  <2> HIDE DEF order
  <2>2. Py!PySlice(obj, start, stop, step) = Value(obj.ty, [m \in DOMAIN order |-> obj.v[order[m] + 1]])
    BY <1>1, <1>3 DEF order
  <2> HIDE DEF at, c, n, k
  <2>3. DOMAIN at = 1 .. c
    BY <2>1
  <2>4. at # <<>> => Fits(at[Len(at)] + k)
    <3> SUFFICES ASSUME at # <<>> PROVE Fits(at[Len(at)] + k)
      OBVIOUS
    <3>1. Len(at) \in 1 .. c
      BY <2>1
    <3>2. at[Len(at)] \in 0 .. n - 1
      BY <2>1, <3>1
    <3> QED
      BY <1>0, <3>2, PowersAssumption DEF Fits, MaxInt, MinInt
  <2> QED
    BY <1>2, <1>3, <2>1, <2>2, <2>3, <2>4
<1>4. CASE ~(obj.ty # "str" /\ start # <<>> /\ stop # <<>> /\ step = <<>>)
  <2>1. SliceResult(obj, start, stop, step) = SliceStep(obj.v, start, stop, k, obj.ty)
    BY <1>4 DEF SliceResult
  <2>2. CASE k = 0
    BY <1>1, <1>2, <2>1, <2>2 DEF Same
  <2> QED
    BY <1>3, <2>1, <2>2 DEF Same
<1>5. CASE obj.ty # "str" /\ start # <<>> /\ stop # <<>> /\ step = <<>>
  <2>1. SliceResult(obj, start, stop, step) = Value(obj.ty, ListSlice(obj.v, start[1], stop[1]))
    BY <1>5 DEF SliceResult
  <2>2. k = 1 /\ BoundValue(start) = start[1] /\ BoundValue(stop) = stop[1] /\ start[1] \in Int /\ stop[1] \in Int
    BY <1>5 DEF BoundValue, Bound
  <2>3. from = SliceEnd(n, start[1]) /\ to = SliceEnd(n, stop[1]) /\ from \in 0 .. n /\ to \in 0 .. n
    BY <1>0, <1>5, <2>2 DEF StepStart, StepStop, StepEnd, SliceEnd, Lower, Upper, Clamp, FromEnd
  <2> HIDE DEF from, to, n
  <2>4. c = IF to > from THEN to - from ELSE 0
    BY <2>2, <2>3 DEF StepCount
  <2>5. at = [m \in 1 .. c |-> from + (m - 1) * 1]
    BY <2>2 DEF Progression
  <2>6. ListSlice(obj.v, start[1], stop[1]) = IF to > from THEN SubSeq(obj.v, from + 1, to) ELSE <<>>
    BY <2>3 DEF ListSlice, n
  <2> HIDE DEF c, at
  <2>7. ListSlice(obj.v, start[1], stop[1]) = items
    <3>1. CASE to > from
      <4>1. SubSeq(obj.v, from + 1, to) = [m \in 1 .. to - from |-> obj.v[from + 1 + m - 1]]
        BY <2>3, <3>1 DEF n
      <4>2. \A m \in 1 .. to - from : at[m] + 1 = from + 1 + m - 1
        BY <2>3, <2>4, <2>5, <3>1
      <4> QED
        BY <2>4, <2>6, <3>1, <4>1, <4>2
    <3>2. CASE ~(to > from)
      BY <2>4, <2>6, <3>2
    <3> QED
      BY <3>1, <3>2
  <2>8. k # 0
    BY <2>2
  <2> HIDE DEF items, k
  <2> QED
    BY <1>3, <2>1, <2>7, <2>8 DEF Same
<1> QED
  BY <1>4, <1>5

LEMMA SeqsUpTo ==
    ASSUME NEW S, NEW n \in Nat, NEW s \in Seqs(S, n)
    PROVE  s \in Seq(S) /\ Len(s) \in 0 .. n
<1>1. PICK k \in 0 .. n : s \in [1 .. k -> S]
  BY DEF Seqs
<1> QED
  BY <1>1

LEMMA SlicesTried == TakeSlice => SlicesAgree'
<1> SUFFICES ASSUME TakeSlice PROVE SlicesAgree'
  OBVIOUS
<1> DEFINE Bounds == {<<>>} \cup {<<i>> : i \in -4 .. 4}
<1>1. PICK a \in {"text", "octets", "list"} : \E obj \in Operands[a], start \in Bounds, stop \in Bounds, step \in Bounds :
          Comes("slice", [obj |-> obj, start |-> start, stop |-> stop, step |-> step],
                SliceResult(obj, start, stop, step), <<>>, <<>>, SliceType(obj.ty, {"int"}), SliceOracle(obj.ty))
  BY DEF TakeSlice
<1>2. PICK obj \in Operands[a], start \in Bounds, stop \in Bounds, step \in Bounds :
          Comes("slice", [obj |-> obj, start |-> start, stop |-> stop, step |-> step],
                SliceResult(obj, start, stop, step), <<>>, <<>>, SliceType(obj.ty, {"int"}), SliceOracle(obj.ty))
  BY <1>1
<1> DEFINE out == SliceResult(obj, start, stop, step)
<1>3. /\ case' = [kind |-> "slice", of |-> [obj |-> obj, start |-> start, stop |-> stop, step |-> step]]
      /\ result'.out = out
  BY <1>2 DEF Comes
<1> DEFINE n == Len(obj.v)
<1>4. (obj.v \in Seq({"a", "b"}) \/ obj.v \in Seq({1, 2})) /\ n \in 0 .. 3
  <2>1. ASSUME NEW t, NEW S, obj \in Of(t, S) PROVE obj.v \in S
    BY <2>1 DEF Of, Value
  <2>2. CASE obj.v \in Seqs({"a", "b"}, 2)
    <3>1. obj.v \in Seq({"a", "b"}) /\ n \in 0 .. 2
      BY <2>2, SeqsUpTo
    <3> QED
      BY <3>1
  <2>3. CASE obj.v = <<"a", "b", "a">>
    BY <2>3
  <2>4. CASE obj.v \in Seqs({1, 2}, 2)
    <3>1. obj.v \in Seq({1, 2}) /\ n \in 0 .. 2
      BY <2>4, SeqsUpTo
    <3> QED
      BY <3>1
  <2>5. obj.v \in Texts \/ obj.v \in Seqs({1, 2}, 2)
    <3>1. CASE a = "text"
      BY <2>1, <3>1, Zenon DEF Operands
    <3>2. CASE a = "octets"
      BY <2>1, <3>2, Zenon DEF Operands
    <3>3. CASE a = "list"
      BY <2>1, <3>3, Zenon DEF Operands
    <3> QED
      BY <3>1, <3>2, <3>3
  <2> HIDE DEF n
  <2> QED
    BY <2>2, <2>3, <2>4, <2>5 DEF Texts
<1> HIDE DEF n
<1>5. HalfRange \in Nat /\ HalfRange >= 10
  <2>1. Fits(9)
    BY InputsFit DEF Ints
  <2> QED
    BY <2>1, PowersAssumption DEF Fits, MaxInt
<1>6. ASSUME NEW b \in Bounds PROVE Bound(b)
  BY DEF Bound
<1>7. StepFits(step, n)
  <2>1. CASE step = <<>>
    BY <2>1 DEF StepFits
  <2>2. CASE step # <<>>
    <3>1. PICK k \in -4 .. 4 : step = <<k>>
      BY <2>2
    <3>2. MinInt <= k /\ n + k <= HalfRange
      <4> HIDE DEF Bounds
      <4> QED
        BY <1>4, <1>5 DEF MinInt
    <3> QED
      BY <3>1, <3>2 DEF StepFits
  <2> QED
    BY <2>1, <2>2
<1>8. Same(out, Py!PySlice(obj, start, stop, step))
  <2>1. Bound(start) /\ Bound(stop)
    BY <1>6
  <2>2. n \in Nat /\ n < HalfRange
    BY <1>4, <1>5
  <2>3. PICK S : obj.v \in Seq(S)
    BY <1>4
  <2> QED
    BY <1>7, <2>1, <2>2, <2>3, SlicesAlike DEF n
<1> HIDE DEF out
<1>9. LET c == case'.of IN Same(result'.out, Py!PySlice(c.obj, c.start, c.stop, c.step))
  BY <1>3, <1>8
<1> QED
  BY <1>9 DEF SlicesAgree

LEMMA SlicesAlwaysAgree == Spec => []SlicesAgree
<1>1. Init => SlicesAgree
  BY DEF Init, SlicesAgree
<1>2. SlicesAgree /\ [Next]_<<case, result>> => SlicesAgree'
  <2> SUFFICES ASSUME SlicesAgree, [Next]_<<case, result>> PROVE SlicesAgree'
    OBVIOUS
  <2>1. CASE TakeSlice
    BY <2>1, SlicesTried
  <2>2. CASE UNCHANGED <<case, result>>
    BY <2>2 DEF SlicesAgree
  <2>3. CASE case'.kind # "slice"
    BY <2>3 DEF SlicesAgree
  <2> QED
    BY <2>1, <2>2, <2>3, OtherKinds DEF Next
<1> QED
  BY <1>1, <1>2, PTL DEF Spec

\* What whole numbers count - sums, quotients and remainders (__py_floordiv,
\* __py_mod, the checked arithmetic, the folding of literals), the item of an
\* index (__py_list_get, __py_bytes_index) and the items of a slice
\* (__py_slice_step) - is counted as Python counts it, for every width.
THEOREM NumbersAlwaysAgree == Spec => []NumbersAgree
<1>1. NumbersAgree <=> IntegersAgree /\ ItemsAgree /\ SlicesAgree
  BY DEF NumbersAgree
<1> QED
  BY <1>1, IntegersAlwaysAgree, ItemsAlwaysAgree, SlicesAlwaysAgree, PTL
================================================================================
