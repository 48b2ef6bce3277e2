------------------------------- MODULE Methods -------------------------------
(***************************************************************************)
(* Method calls on built-in values: what the checker accepts and of which  *)
(* type it takes the result to be (typeck/flow.rs, typeck/exprs.rs), and   *)
(* what the Rust emitted for the call computes (codegen/exprs.rs), with    *)
(* the order and the number of times it evaluates the operands.            *)
(***************************************************************************)
EXTENDS Operators
LOCAL INSTANCE SequencesExt

(***************************************************************************)
(* What the checker knows of a method.                                     *)
(***************************************************************************)
STR_METHODS == {"upper", "lower", "strip", "lstrip", "rstrip", "split",
    "splitlines", "join", "startswith", "endswith", "replace", "removeprefix",
    "removesuffix", "expandtabs", "partition", "rpartition", "find", "rfind",
    "index", "rindex", "count", "contains", "isdigit", "isalpha", "isupper",
    "islower", "isspace", "isalnum", "isidentifier", "isnumeric", "isprintable",
    "istitle", "capitalize", "title", "zfill", "ljust", "rjust", "center",
    "swapcase", "len", "casefold", "rsplit", "translate", "encode"}
LIST_METHODS == {"append", "extend", "insert", "remove", "pop", "index", "count",
    "reverse", "sort", "clear", "copy", "len", "contains"}
SET_METHODS == {"add", "discard", "remove", "clear", "copy", "pop", "len", "union",
    "intersection", "difference", "symmetric_difference", "issubset",
    "issuperset", "isdisjoint", "update", "contains"}
DICT_METHODS == {"get", "keys", "values", "items", "pop", "clear", "copy", "update",
    "len", "contains"}
BYTES_METHODS == {"hex", "decode", "find", "rfind", "index", "rindex", "count",
    "startswith", "endswith", "replace", "split", "rsplit", "join", "strip",
    "lstrip", "rstrip", "upper", "lower", "ljust", "rjust", "center", "zfill",
    "isdigit", "isalpha", "isalnum", "isspace"}
MethodTable == [type \in {"str", "bytes", "list_int", "set_int", "dict"} |->
    CASE type = "str" -> STR_METHODS
      [] type = "bytes" -> BYTES_METHODS
      [] type = "list_int" -> LIST_METHODS
      [] type = "set_int" -> SET_METHODS
      [] type = "dict" -> DICT_METHODS]

\* the numbers of arguments a method of bytes takes; no other built-in
\* receiver has its argument count looked at
BytesArity(name) ==
    CASE name \in {"hex", "upper", "lower", "isdigit", "isalpha", "isalnum", "isspace"} -> {0}
      [] name \in {"find", "rfind", "index", "rindex", "count", "startswith",
                   "endswith", "join", "zfill"} -> {1}
      [] name = "replace" -> {2}
      [] name \in {"decode", "split", "rsplit", "strip", "lstrip", "rstrip"} -> {0, 1}
      [] name \in {"ljust", "rjust", "center"} -> {1, 2}
EncodeArity == {0, 1}
CallAccepted(type, name, argc) ==
    /\ name \in MethodTable[type]
    /\ type = "bytes" => argc \in BytesArity(name)
    /\ type = "str" /\ name = "encode" => argc \in EncodeArity

StrReturns(name) ==
    CASE name \in {"upper", "lower", "strip", "lstrip", "rstrip", "replace",
                   "capitalize", "title", "swapcase", "zfill", "ljust", "rjust",
                   "center", "removeprefix", "removesuffix", "expandtabs", "join",
                   "casefold", "translate"} -> "str"
      [] name = "encode" -> "bytes"
      [] name \in {"split", "splitlines", "rsplit"} -> "list_str"
      [] name \in {"partition", "rpartition"} -> "tuple_str"
      [] name \in {"find", "rfind", "index", "rindex", "count"} -> "int"
      [] name \in {"startswith", "endswith", "isdigit", "isalpha", "isupper", "islower",
                   "isspace", "isalnum", "isidentifier", "isnumeric", "isprintable",
                   "istitle"} -> "bool"
      [] OTHER -> "unknown"
BytesReturns(name) ==
    CASE name \in {"hex", "decode"} -> "str"
      [] name \in {"find", "rfind", "index", "rindex", "count"} -> "int"
      [] name \in {"startswith", "endswith", "isdigit", "isalpha", "isalnum", "isspace"} -> "bool"
      [] name \in {"split", "rsplit"} -> "list_bytes"
      [] OTHER -> "bytes"
ContainerReturns(type, name, argc) ==
    CASE name = "pop" -> "int"
      [] name = "copy" -> type
      [] type = "list_int" /\ name \in {"index", "count"} -> "int"
      [] type = "set_int" /\ name \in {"union", "intersection", "difference",
                                       "symmetric_difference"} -> "set_int"
      [] type = "set_int" /\ name \in {"issubset", "issuperset", "isdisjoint"} -> "bool"
      [] type = "dict" /\ name \in {"keys", "values"} -> "list_int"
      [] type = "dict" /\ name = "items" -> "list_pairs"
      [] type = "dict" /\ name = "get" -> IF argc <= 1 THEN "opt_int" ELSE "int"
      [] name \in {"append", "extend", "insert", "remove", "sort", "reverse", "clear",
                   "add", "discard", "update"} -> "none"
      [] OTHER -> "unknown"
MethodReturns(type, name, argc) ==
    CASE type = "str" -> StrReturns(name)
      [] type = "bytes" -> BytesReturns(name)
      [] OTHER -> ContainerReturns(type, name, argc)

(***************************************************************************)
(* Rust's own methods of str and Vec, as the emitted code uses them.       *)
(***************************************************************************)
Whitespace == {" ", "\t", "\n", "\r"}
Lowercase == {"a", "b"}
Uppercase == {"A", "B"}
Alphabetic == Lowercase \cup Uppercase \cup {"han"}
Numeric == {"0", "1", "half"}
ToUpper(c) == CASE c = "a" -> "A" [] c = "b" -> "B" [] OTHER -> c
ToLower(c) == CASE c = "A" -> "a" [] c = "B" -> "b" [] OTHER -> c
Mapped(s, Op(_)) == [k \in DOMAIN s |-> Op(s[k])]
AllIn(s, S) == \A k \in DOMAIN s : s[k] \in S

\* the pieces of a split: an empty separator is found before, between and
\* after all characters
StdSplit(s, sep) == IF sep = <<>> THEN <<<<>>>> \o [k \in DOMAIN s |-> <<s[k]>>] \o <<<<>>>>
                    ELSE BytesSplit(s, sep).v
Backwards(s) == [k \in DOMAIN s |-> s[Len(s) + 1 - k]]
\* rsplitn, reversed: at most n pieces, cut off from the right
StdRsplitn(s, sep, n) ==
    LET parts == StdSplit(Backwards(s), Backwards(sep))
        kept == SubSeq(parts, 1, Least(n - 1, Len(parts)))
        rest == Joined(SubSeq(parts, n, Len(parts)), Backwards(sep))
        cut == IF Len(parts) > n - 1 THEN Append(kept, rest) ELSE kept
    IN  Backwards([k \in DOMAIN cut |-> Backwards(cut[k])])
StdTrim(s, left, right) == BytesStrip(s, <<" ", "\t", "\n", "\r">>, left, right)
StdWords(s) == BytesSplitWs([k \in DOMAIN s |-> IF s[k] \in Whitespace THEN " " ELSE s[k]])
StdReplace(s, old, new) == BytesReplace(s, old, new)
\* lines() ends a line at a line feed and takes one carriage return off it
StdLines(s) ==
    LET all == BytesSplit(s, <<"\n">>).v
        lines == IF all[Len(all)] = <<>> THEN SubSeq(all, 1, Len(all) - 1) ELSE all
        ended(k) == k < Len(all)
    IN  [k \in DOMAIN lines |->
            IF ended(k) /\ lines[k] # <<>> /\ lines[k][Len(lines[k])] = "\r"
            THEN SubSeq(lines[k], 1, Len(lines[k]) - 1) ELSE lines[k]]
\* no allocation holds as many characters as a negative width wraps to
Repeats(n) == n <= MaxInt

(***************************************************************************)
(* Methods of str, in the groups the emission has them.                    *)
(***************************************************************************)
StrStrip(s, name) == Text(StdTrim(s, name # "rstrip", name # "lstrip"))
StrSplit(s, name, args) ==
    CASE name = "split" /\ args = <<>> -> Value("list_str", StdWords(s))
      [] name = "rsplit" /\ args = <<>> -> Value("refused", "rsplit")
      [] name = "rsplit" /\ Len(args) = 2 /\ args[2] >= 0 ->
             Value("list_str", StdRsplitn(s, args[1], args[2] + 1))
      [] OTHER -> Value("list_str", StdSplit(s, args[1]))

StrAffix(s, name, args) ==
    LET n == Len(args[1])
    IN  CASE name = "startswith" -> Truth(At(s, args[1], 0))
          [] name = "endswith" -> Truth(Len(s) - n \in Starts(s, args[1]))
          [] name = "removeprefix" -> Text(IF At(s, args[1], 0) THEN SubSeq(s, n + 1, Len(s)) ELSE s)
          [] name = "removesuffix" ->
                 Text(IF Len(s) - n \in Starts(s, args[1]) THEN SubSeq(s, 1, Len(s) - n) ELSE s)

StrPartition(s, name, sep) ==
    LET at == Starts(s, sep)
        cut(i) == <<SubSeq(s, 1, i), sep, SubSeq(s, i + Len(sep) + 1, Len(s))>>
    IN  Value("tuple_str", CASE at = {} /\ name = "partition" -> <<s, <<>>, <<>>>>
                             [] at = {} -> <<<<>>, <<>>, s>>
                             [] name = "partition" -> cut(First(at))
                             [] OTHER -> cut(Final(at)))

StrExpandTabs(s, args) ==
    LET tab == IF args = <<>> THEN 8 ELSE Most(args[1], 0)
        upto[k \in 0 .. Len(s)] ==
            IF k = 0 THEN [out |-> <<>>, col |-> 0]
            ELSE LET o == upto[k - 1]
                     pad == tab - (o.col % tab)
                 IN  IF s[k] = "\t" THEN (IF tab = 0 THEN o
                                          ELSE [out |-> o.out \o Copies(" ", pad), col |-> o.col + pad])
                     ELSE [out |-> Append(o.out, s[k]),
                           col |-> IF s[k] \in {"\n", "\r"} THEN 0 ELSE o.col + 1]
    IN  Text(upto[Len(s)].out)

\* the character offsets of __py_str_find and its like
StrSearch(s, name, sub) ==
    CASE name = "find" -> Int64(BytesFind(s, sub))
      [] name = "rfind" -> Int64(BytesRfind(s, sub))
      [] name = "index" -> OrSubsection(BytesFind(s, sub))
      [] name = "rindex" -> OrSubsection(BytesRfind(s, sub))
\* the loop goes on from the end of each match: from the same place for ever
\* where the text looked for is empty
StrCount(s, sub) == IF sub = <<>> THEN Hangs ELSE Int64(BytesCount(s, sub))

StrTest(s, name) ==
    Truth(CASE name \in {"isdigit", "isnumeric"} -> s # <<>> /\ AllIn(s, Numeric)
            [] name = "isalpha" -> s # <<>> /\ AllIn(s, Alphabetic)
            [] name = "isalnum" -> s # <<>> /\ AllIn(s, Alphabetic \cup Numeric)
            [] name = "isspace" -> s # <<>> /\ AllIn(s, Whitespace)
            [] name = "isupper" -> /\ \E k \in DOMAIN s : s[k] \in Alphabetic
                                   /\ \A k \in DOMAIN s : s[k] \in Alphabetic => s[k] \in Uppercase
            [] name = "islower" -> /\ \E k \in DOMAIN s : s[k] \in Alphabetic
                                   /\ \A k \in DOMAIN s : s[k] \in Alphabetic => s[k] \in Lowercase
            [] name = "isidentifier" -> /\ s # <<>> /\ s[1] \in Alphabetic
                                        /\ AllIn(s, Alphabetic \cup Numeric)
            [] name = "isprintable" -> ~\E k \in DOMAIN s : s[k] \in {"\t", "\n", "\r"})
\* one walk: a capital may not follow a letter with case, a small one must
StrIsTitle(s) ==
    LET step(o, c) == CASE c \in Uppercase -> [ok |-> o.ok /\ ~o.prev, prev |-> TRUE, cased |-> TRUE]
                        [] c \in Lowercase -> [ok |-> o.ok /\ o.prev, prev |-> TRUE, cased |-> TRUE]
                        [] OTHER -> [o EXCEPT !.prev = FALSE]
        walk[k \in 0 .. Len(s)] ==
            IF k = 0 THEN [ok |-> TRUE, prev |-> FALSE, cased |-> FALSE]
            ELSE step(walk[k - 1], s[k])
    IN  Truth(walk[Len(s)].ok /\ walk[Len(s)].cased)

Capital(w) == [k \in DOMAIN w |-> IF k = 1 THEN ToUpper(w[k]) ELSE ToLower(w[k])]
StrCase(s, name) ==
    Text(CASE name = "upper" -> Mapped(s, ToUpper)
           [] name \in {"lower", "casefold"} -> Mapped(s, ToLower)
           [] name = "capitalize" -> Capital(s)
           [] name = "title" -> LET words == StdWords(s)
                                IN  Joined([k \in DOMAIN words |-> Capital(words[k])], <<" ">>)
           [] name = "swapcase" -> Mapped(s, LAMBDA c : IF c \in Uppercase THEN ToLower(c) ELSE ToUpper(c)))

\* zfill, ljust, rjust, center: the width is cast, so a negative one is huge
StrJustify(s, name, args) ==
    LET width == AsUsize(args[1])
        total == width - Len(s)
        fill == IF Len(args) = 2 THEN args[2] ELSE <<" ">>
        before == CASE name = "rjust" -> total
                    [] name = "ljust" -> 0
                    [] name = "center" -> LeftMargin(total, width)
    IN  CASE name # "zfill" /\ Len(fill) # 1 -> Raise("TypeError")
          [] width <= Len(s) -> Text(s)
          [] ~Repeats(total) -> Panic
          [] name = "zfill" -> Text(BytesZfill(s, width))
          [] OTHER -> Text(Copies(fill[1], before) \o s \o Copies(fill[1], total - before))

StrMethod(s, name, args) ==
    CASE name \in {"strip", "lstrip", "rstrip"} -> StrStrip(s, name)
      [] name \in {"split", "rsplit"} -> StrSplit(s, name, args)
      [] name = "join" -> Text(Joined(args[1], s))
      [] name \in {"startswith", "endswith", "removeprefix", "removesuffix"} -> StrAffix(s, name, args)
      [] name = "replace" -> Text(StdReplace(s, args[1], args[2]))
      [] name = "expandtabs" -> StrExpandTabs(s, args)
      [] name \in {"partition", "rpartition"} -> StrPartition(s, name, args[1])
      [] name \in {"find", "rfind", "index", "rindex"} -> StrSearch(s, name, args[1])
      [] name = "count" -> StrCount(s, args[1])
      [] name \in {"isdigit", "isalpha", "isupper", "islower", "isspace", "isalnum",
                   "isidentifier", "isnumeric", "isprintable"} -> StrTest(s, name)
      [] name = "istitle" -> StrIsTitle(s)
      [] name \in {"upper", "lower", "casefold", "capitalize", "title", "swapcase"} -> StrCase(s, name)
      [] name \in {"zfill", "ljust", "rjust", "center"} -> StrJustify(s, name, args)
      [] name = "splitlines" -> Value("list_str", StdLines(s))

BytesMethod(b, name, args) ==
    CASE name \in {"find", "rfind"} -> StrSearch(b, name, args[1])
      [] name \in {"index", "rindex"} -> StrSearch(b, name, args[1])
      [] name = "count" -> Int64(BytesCount(b, args[1]))
      [] name = "startswith" -> Truth(At(b, args[1], 0))
      [] name = "endswith" -> Truth(Len(b) - Len(args[1]) \in Starts(b, args[1]))
      [] name = "replace" -> Octets(BytesReplace(b, args[1], args[2]))
      [] name \in {"split", "rsplit"} ->
             IF args = <<>> THEN Value("list_bytes", BytesSplitWs(b)) ELSE BytesSplit(b, args[1])
      [] name = "join" -> Octets(Joined(args[1], b))
      [] name \in {"strip", "lstrip", "rstrip"} ->
             Octets(BytesStrip(b, IF args = <<>> THEN <<" ", "\t", "\n", "\r">> ELSE args[1],
                               name # "rstrip", name # "lstrip"))
      [] name = "upper" -> Octets(Mapped(b, ToUpper))
      [] name = "lower" -> Octets(Mapped(b, ToLower))
      [] name \in {"ljust", "rjust", "center"} ->
             BytesPad(b, args[1], IF Len(args) = 2 THEN args[2] ELSE <<" ">>,
                      name # "ljust", name # "rjust")
      [] name = "zfill" -> Octets(BytesZfill(b, args[1]))
      [] name = "isdigit" -> Truth(b # <<>> /\ AllIn(b, {"0", "1"}))
      [] name = "isalpha" -> Truth(b # <<>> /\ AllIn(b, Lowercase \cup Uppercase))
      [] name = "isalnum" -> Truth(b # <<>> /\ AllIn(b, Lowercase \cup Uppercase \cup {"0", "1"}))
      [] name = "isspace" -> Truth(b # <<>> /\ AllIn(b, Whitespace))

(***************************************************************************)
(* Methods of list, set and dict: what the call comes to, and what the     *)
(* receiver is afterwards.  A dict is the sequence of its entries <<key,   *)
(* value>>; it is a HashMap, so the order of a list made from it is any.   *)
(***************************************************************************)
Done(out, after) == [out |-> out, after |-> after]
Position(s, x) == {k \in DOMAIN s : s[k] = x}

\* Vec::remove and Vec::insert panic outside the list, with Rust's message
ListPop(s, args) ==
    LET i == AsUsize(IF args[1] < 0 THEN Len(s) + args[1] ELSE args[1])
    IN  IF args = <<>>
        THEN IF s = <<>> THEN Done(Raise("IndexError"), s)
                         ELSE Done(Int64(s[Len(s)]), SubSeq(s, 1, Len(s) - 1))
        ELSE IF i < Len(s) THEN Done(Int64(s[i + 1]), RemoveAt(s, i + 1)) ELSE Done(Panic, s)
ListInsert(s, i, x) ==
    IF AsUsize(i) > Len(s) THEN Done(Panic, s)
    ELSE Done(NoneValue, SubSeq(s, 1, i) \o <<x>> \o SubSeq(s, i + 1, Len(s)))
ListRemove(s, x) ==
    IF Position(s, x) = {} THEN Done(Raise("ValueError"), s)
    ELSE Done(NoneValue, RemoveAt(s, First(Position(s, x))))
\* sort(reverse=r) compares backwards, it does not turn a sorted list around
ListSort(s, args) ==
    IF args = <<>> THEN SortSeq(s, <) ELSE SortSeq(s, LAMBDA a, b : IF args[1] THEN a > b ELSE a < b)
ListMethod(s, name, args) ==
    CASE name = "append" -> Done(NoneValue, Append(s, args[1]))
      [] name = "extend" -> Done(NoneValue, s \o args[1])
      [] name = "insert" -> ListInsert(s, args[1], args[2])
      [] name = "remove" -> ListRemove(s, args[1])
      [] name = "pop" -> ListPop(s, args)
      [] name = "index" -> IF Position(s, args[1]) = {} THEN Done(Raise("ValueError"), s)
                           ELSE Done(Int64(First(Position(s, args[1])) - 1), s)
      [] name = "count" -> Done(Int64(Cardinality(Position(s, args[1]))), s)
      [] name = "reverse" -> Done(NoneValue, Backwards(s))
      [] name = "sort" -> Done(NoneValue, ListSort(s, args))
      [] name = "clear" -> Done(NoneValue, <<>>)
      [] name = "copy" -> Done(Value("list_int", s), s)

SetMethod(s, name, args) ==
    CASE name = "add" -> Done(NoneValue, s \cup {args[1]})
      [] name \in {"discard", "remove"} -> Done(NoneValue, s \ {args[1]})
      [] name = "update" -> Done(NoneValue, s \cup args[1])
      [] name = "union" -> Done(Value("set_int", s \cup args[1]), s)
      [] name = "intersection" -> Done(Value("set_int", s \cap args[1]), s)
      [] name = "difference" -> Done(Value("set_int", s \ args[1]), s)
      [] name = "symmetric_difference" ->
             Done(Value("set_int", (s \cup args[1]) \ (s \cap args[1])), s)
      [] name = "issubset" -> Done(Truth(s \subseteq args[1]), s)
      [] name = "issuperset" -> Done(Truth(args[1] \subseteq s), s)
      [] name = "isdisjoint" -> Done(Truth(s \cap args[1] = {}), s)
      [] name = "clear" -> Done(NoneValue, {})
      [] name = "copy" -> Done(Value("set_int", s), s)
      [] name = "pop" -> Done(Value("refused", "pop"), s)

Entry(d, key) == {k \in DOMAIN d : d[k][1] = key}
Inserted(d, entry) ==
    IF Entry(d, entry[1]) = {} THEN Append(d, entry) ELSE [d EXCEPT ![First(Entry(d, entry[1]))] = entry]
DictMethod(d, name, args) ==
    LET at == Entry(d, args[1])
        found == Int64(d[First(at)][2])
        extended[k \in 0 .. Len(args[1])] == IF k = 0 THEN d ELSE Inserted(extended[k - 1], args[1][k])
    IN  CASE name = "get" -> Done(CASE at # {} -> found
                                    [] Len(args) = 2 -> Int64(args[2])
                                    [] OTHER -> NoneValue, d)
          [] name = "pop" -> CASE at # {} -> Done(found, RemoveAt(d, First(at)))
                               [] Len(args) = 2 -> Done(Int64(args[2]), d)
                               [] OTHER -> Done(Raise("KeyError"), d)
          [] name = "keys" -> Done(Value("list_int", [k \in DOMAIN d |-> d[k][1]]), d)
          [] name = "values" -> Done(Value("list_int", [k \in DOMAIN d |-> d[k][2]]), d)
          [] name = "items" -> Done(Value("list_pairs", d), d)
          [] name = "update" -> Done(NoneValue, extended[Len(args[1])])
          [] name = "clear" -> Done(NoneValue, <<>>)
          [] name = "copy" -> Done(Value("dict", d), d)

Emitted(recv, name, args) ==
    CASE recv.ty = "str" -> Done(StrMethod(recv.v, name, args), recv.v)
      [] recv.ty = "bytes" -> Done(BytesMethod(recv.v, name, args), recv.v)
      [] recv.ty = "list_int" -> ListMethod(recv.v, name, args)
      [] recv.ty = "set_int" -> SetMethod(recv.v, name, args)
      [] recv.ty = "dict" -> DictMethod(recv.v, name, args)

(***************************************************************************)
(* The operands in the order the emitted code evaluates them.  A text put  *)
(* into the code twice is evaluated twice; one put into a closure, once    *)
(* for every element the closure is called for; one left out, never.       *)
(***************************************************************************)
\* the arguments of a str or list method that its emission has a place for
PlacesFor(type, name) ==
    CASE type = "str" /\ name \in {"strip", "lstrip", "rstrip"} -> 0
      [] type = "str" /\ name \in {"split", "find", "rfind", "index", "rindex", "startswith",
                                   "endswith"} -> 1
      [] type = "list_int" /\ name = "index" -> 1
      [] OTHER -> 2
Arguments(n) == SubSeq(<<"first", "second">>, 1, n)
\* how often a test of a text names its receiver: && stops at the first false
TestReads(s, name) ==
    CASE s = <<>> -> 1
      [] name \in {"isupper", "islower"} ->
             LET cased == IF name = "isupper" THEN Uppercase ELSE Lowercase
             IN  IF \A k \in DOMAIN s : s[k] \in Alphabetic => s[k] \in cased THEN 3 ELSE 2
      [] name = "isidentifier" -> 3        \* the letter test or the underscore test, then the rest
      [] OTHER -> 2
OperandOrder(recv, name, args) ==
    LET n == Least(Len(args), PlacesFor(recv.ty, name))
    IN  CASE recv.ty = "str" /\ name \in {"join", "zfill", "ljust", "rjust", "center"} ->
                 <<"first", "receiver">> \o Tail(Arguments(n))
          [] recv.ty = "str" /\ name \in {"isdigit", "isalpha", "isupper", "islower", "isspace",
                                          "isalnum", "isidentifier", "isnumeric"} ->
                 Again("receiver", TestReads(recv.v, name))
          [] recv.ty = "list_int" /\ name = "count" -> <<"receiver">> \o Again("first", Len(recv.v))
          [] recv.ty = "list_int" /\ name = "index" ->
                 <<"receiver">> \o Again("first", Scanned(recv.v, args[1]))
          [] recv.ty = "list_int" /\ name = "remove" ->
                 <<"receiver">> \o Again("first", Scanned(recv.v, args[1]))
                     \o (IF Position(recv.v, args[1]) = {} THEN <<>> ELSE <<"receiver">>)
          [] OTHER -> <<"receiver">> \o Arguments(n)
=============================================================================
