------------------------------ MODULE ToolProofs -------------------------------
(***************************************************************************)
(* Proofs about the two tools that keep a state between their inputs.       *)
(* Repl, for sessions of any length: what was kept is run again from its    *)
(* first statement with every input, so the proofs compare whole runs, in   *)
(* another world, with another function, with one statement more.           *)
(* LanguageServer, for any documents, texts and import graph, any number of *)
(* user actions: an analysis depends on the documents it reads and no       *)
(* other, so what is shown for a document stays right for as long as none   *)
(* of those is read with another text.                                      *)
(***************************************************************************)
EXTENDS LanguageServer, Repl, Indices, FiniteSetTheorems, SequenceTheorems, TLAPS

Decls == {i \in Inputs : i.what \in Decl}
Stmts == Inputs \ Decls
Machine == [x : Nat, world : Nat, out : Seq(Nat), ok : BOOLEAN]
SessionTypeOK ==
    /\ decls \in Seq(Decls) /\ body \in Seq(Stmts)
    /\ last_output \in Seq(Nat) /\ shown_last \in Seq(Nat)
    /\ world \in Nat /\ departed \in BOOLEAN
    /\ python \in [env : [x : Nat, f : 0 .. ReadsX], shows : Seq(Nat), count : Nat]

-----------------------------------------------------------------------------
(* What a run is                                                             *)

\* What Main is: the first n steps, each from the one before.
Steps(g, n, stmts, w, f) ==
    g = [k \in 0 .. n |-> IF k = 0 THEN Begun(w) ELSE Continue(g[k - 1], stmts[k], f)]

\* The first n steps of a run can be taken, for every n.
LEMMA RunsExist ==
    ASSUME NEW stmts, NEW w, NEW f, NEW n \in Nat
    PROVE  \E g : Steps(g, n, stmts, w, f)
<1> DEFINE S == {m \in 0 .. n : \E g : Steps(g, m, stmts, w, f)}
<1>1. 0 \in S
  <2>1. Steps([k \in 0 .. 0 |-> Begun(w)], 0, stmts, w, f)
    BY DEF Steps
  <2> QED
    BY <2>1
<1>2. ASSUME NEW m \in 0 .. n, m \in S, m < n PROVE m + 1 \in S
  <2>1. PICK g : Steps(g, m, stmts, w, f)
    BY <1>2
  <2> DEFINE h == [k \in 0 .. m + 1 |-> IF k = 0 THEN Begun(w) ELSE Continue(g[k - 1], stmts[k], f)]
  <2>2. \A k \in 0 .. m : h[k] = g[k]
    <3> TAKE k \in 0 .. m
    <3>1. k \in 0 .. m + 1
      OBVIOUS
    <3>2. g[k] = IF k = 0 THEN Begun(w) ELSE Continue(g[k - 1], stmts[k], f)
      BY <2>1 DEF Steps
    <3> QED
      BY <3>1, <3>2
  <2>3. \A k \in 0 .. m + 1 : k # 0 => k - 1 \in 0 .. m
    OBVIOUS
  <2>4. Steps(h, m + 1, stmts, w, f)
    BY <2>2, <2>3 DEF Steps
  <2>5. m + 1 \in 0 .. n
    BY <1>2
  <2> HIDE DEF h
  <2> QED
    BY <2>4, <2>5
<1> HIDE DEF S
<1>3. n \in S
  BY <1>1, <1>2, UpTo
<1> QED
  BY <1>3 DEF S

LEMMA MainIs ==
    ASSUME NEW stmts \in Seq(Stmts), NEW w, NEW f
    PROVE  /\ Main(stmts, w, f)[0] = Begun(w)
           /\ \A k \in 1 .. Len(stmts) : Main(stmts, w, f)[k] = Continue(Main(stmts, w, f)[k - 1], stmts[k], f)
<1>1. Len(stmts) \in Nat
  OBVIOUS
<1>2. \E g : Steps(g, Len(stmts), stmts, w, f)
  BY <1>1, RunsExist
<1>3. Main(stmts, w, f) = CHOOSE g : Steps(g, Len(stmts), stmts, w, f)
  BY DEF Main, Steps
<1> DEFINE g == Main(stmts, w, f)
<1>4. Steps(g, Len(stmts), stmts, w, f)
  BY <1>2, <1>3
<1> HIDE DEF g
<1>5. /\ g[0] = Begun(w)
      /\ \A k \in 1 .. Len(stmts) : g[k] = Continue(g[k - 1], stmts[k], f)
  BY <1>1, <1>4 DEF Steps
<1> QED
  BY <1>5 DEF g

-----------------------------------------------------------------------------
(* Runs compared                                                             *)

LEMMA InputsAre ==
    ASSUME NEW i \in Inputs
    PROVE  /\ i.v \in {0, 1, 2}
           /\ i.what \in {"assign", "def"} <=> i.v # 0
           /\ i \in Stmts <=> classify(i) # "Decl"
           /\ i \in Decls <=> classify(i) = "Decl"
           /\ i \in Decls <=> i.what \in {"def", "def_reading_x"}
           /\ i \in Stmts => i.what \in {"assign", "add", "name", "print", "call", "print_call",
                                         "print_and_fail", "count_a_line"}
<1>1. \/ i.what \in {"assign", "def"} /\ i.v \in {1, 2}
      \/ /\ i.what \in {"add", "name", "print", "def_reading_x", "call", "print_call", "print_and_fail", "count_a_line"}
         /\ i.v = 0
  <2>1. \A s, v : Input(s, v).what = s /\ Input(s, v).v = v
    BY DEF Input
  <2> QED
    BY <2>1 DEF Inputs
<1>2. i.v \in {0, 1, 2} /\ (i.what \in {"assign", "def"} <=> i.v # 0)
  BY <1>1
<1>3. (i \in Decls <=> i.what \in Decl) /\ (i \in Stmts <=> i.what \notin Decl)
  BY DEF Stmts, Decls
<1>4. i.what \in Decl <=> classify(i) = "Decl"
  <2>1. CASE i.what \in Decl
    BY <2>1 DEF classify, Decl
  <2>2. CASE i.what \notin Decl /\ i.what = "name"
    BY <2>2 DEF classify
  <2>3. CASE i.what \notin Decl /\ i.what # "name"
    BY <2>3 DEF classify
  <2> QED
    BY <2>1, <2>2, <2>3
<1> QED
  BY <1>1, <1>2, <1>3, <1>4 DEF Decl

\* One statement keeps the machine one.
LEMMA ContinueType ==
    ASSUME NEW m \in Machine, NEW i \in Stmts, NEW f \in Nat
    PROVE  Continue(m, i, f) \in Machine
<1>1. /\ i.v \in {0, 1, 2}
      /\ i.what \in {"assign", "add", "name", "print", "call", "print_call", "print_and_fail", "count_a_line"}
  <2>1. i \in Inputs
    BY DEF Stmts
  <2> QED
    BY <2>1, InputsAre
<1>2. /\ m.x \in Nat /\ m.world \in Nat /\ m.x + 1 \in Nat /\ m.world + 1 \in Nat /\ i.v \in Nat
      /\ m.out \in Seq(Nat)
  <2>1. m.x \in Nat /\ m.world \in Nat /\ m.out \in Seq(Nat)
    BY DEF Machine
  <2>2. i.v \in Nat
    BY <1>1
  <2> QED
    BY <2>1, <2>2
<1>3. \A n \in Nat : Append(m.out, n) \in Seq(Nat)
  BY <1>2
<1>4. Step(m, i, f) \in Machine
  <2>1. CASE i.what = "assign"
    BY <1>2, <2>1 DEF Step, Machine
  <2>2. CASE i.what = "add"
    BY <1>2, <2>2 DEF Step, Machine
  <2>3. CASE i.what \in {"name", "print"}
    BY <1>2, <1>3, <2>3 DEF Step, Machine
  <2>4. CASE i.what = "call"
    BY <2>4 DEF Step
  <2>5. CASE i.what = "print_call"
    BY <1>2, <1>3, <2>5 DEF Step, Machine
  <2>6. CASE i.what = "print_and_fail"
    BY <1>2, <1>3, <2>6 DEF Step, Machine
  <2>7. CASE i.what = "count_a_line"
    BY <1>2, <1>3, <2>7 DEF Step, Machine
  <2> QED
    BY <1>1, <2>1, <2>2, <2>3, <2>4, <2>5, <2>6, <2>7
<1> QED
  BY <1>4 DEF Continue

LEMMA MainType ==
    ASSUME NEW stmts \in Seq(Stmts), NEW w \in Nat, NEW f \in Nat
    PROVE  \A k \in 0 .. Len(stmts) : Main(stmts, w, f)[k] \in Machine
<1> DEFINE n == Len(stmts)
           S == {k \in 0 .. n : Main(stmts, w, f)[k] \in Machine}
<1>1. n \in Nat
  OBVIOUS
<1>2. 0 \in S
  <2>1. Begun(w) \in Machine
    BY DEF Begun, Machine, Unset
  <2>2. Main(stmts, w, f)[0] = Begun(w)
    BY MainIs
  <2> QED
    BY <1>1, <2>1, <2>2
<1>3. ASSUME NEW k \in 0 .. n, k \in S, k < n PROVE k + 1 \in S
  <2>1. k + 1 \in 1 .. n /\ k + 1 - 1 = k /\ stmts[k + 1] \in Stmts
    BY <1>1, <1>3
  <2>2. Main(stmts, w, f)[k + 1] = Continue(Main(stmts, w, f)[k], stmts[k + 1], f)
    BY <2>1, MainIs
  <2> QED
    BY <1>3, <2>1, <2>2, ContinueType
<1> HIDE DEF n, S
<1>4. \A k \in 0 .. n : k \in S
  BY <1>1, <1>2, <1>3, UpTo
<1> QED
  BY <1>4 DEF S, n

\* What one statement does to the variable and to success is the same in every world and
\* with every function, and what it prints is too unless it counts lines or calls.
Alike(a, b) == a.x = b.x /\ a.ok = b.ok
LEMMA ContinueAlike ==
    ASSUME NEW a \in Machine, NEW b \in Machine, Alike(a, b), NEW i \in Stmts, NEW f \in Nat, NEW g \in Nat
    PROVE  /\ Alike(Continue(a, i, f), Continue(b, i, g))
           /\ a.out = b.out /\ i.what # "count_a_line" /\ (i.what = "print_call" => f = g)
                => Continue(a, i, f).out = Continue(b, i, g).out
<1>1. i.what \in {"assign", "add", "name", "print", "call", "print_call",
                                 "print_and_fail", "count_a_line"}
  BY InputsAre DEF Stmts
<1>2. Alike(Step(a, i, f), Step(b, i, g))
  BY <1>1 DEF Step, Machine, Alike
<1>3. a.out = b.out /\ i.what # "count_a_line" /\ (i.what = "print_call" => f = g)
                => Step(a, i, f).out = Step(b, i, g).out
  BY <1>1 DEF Step, Machine, Alike
<1> QED
  BY <1>2, <1>3 DEF Continue, Alike

LEMMA RunsAlike ==
    ASSUME NEW stmts \in Seq(Stmts), NEW w \in Nat, NEW v \in Nat, NEW f \in Nat, NEW g \in Nat
    PROVE  LET a == Main(stmts, w, f)[Len(stmts)]
               b == Main(stmts, v, g)[Len(stmts)]
           IN  /\ Alike(a, b)
               /\ ~Mentions(stmts, "count_a_line") /\ (Mentions(stmts, "print_call") => f = g) => a.out = b.out
<1> DEFINE n == Len(stmts)
           a == Main(stmts, w, f)
           b == Main(stmts, v, g)
           same == ~Mentions(stmts, "count_a_line") /\ (Mentions(stmts, "print_call") => f = g)
           S == {k \in 0 .. n : Alike(a[k], b[k]) /\ (same => a[k].out = b[k].out)}
<1>1. n \in Nat /\ DOMAIN stmts = 1 .. n
  OBVIOUS
<1>2. 0 \in S
  <2>1. a[0] = Begun(w) /\ b[0] = Begun(v)
    BY MainIs
  <2>2. Alike(a[0], b[0]) /\ a[0].out = b[0].out
    <3> HIDE DEF a, b
    <3> QED
      BY <2>1 DEF Begun, Alike
  <2>3. 0 \in 0 .. n
    BY <1>1
  <2> HIDE DEF a, b, same, n
  <2> QED
    BY <2>2, <2>3
<1>3. \A k \in 1 .. n : stmts[k] \in Stmts /\ a[k] = Continue(a[k - 1], stmts[k], f) /\ b[k] = Continue(b[k - 1], stmts[k], g)
  <2>1. \A k \in 1 .. n : stmts[k] \in Stmts
    BY <1>1
  <2> QED
    BY <2>1, MainIs
<1>4. \A k \in 0 .. n : a[k] \in Machine /\ b[k] \in Machine
  BY MainType
<1>5. ASSUME same, NEW k \in 1 .. n
      PROVE  stmts[k].what # "count_a_line" /\ (stmts[k].what = "print_call" => f = g)
  BY <1>1, <1>5 DEF Mentions
<1> HIDE DEF a, b, same, n
<1>6. ASSUME NEW k \in 0 .. n, k \in S, k < n PROVE k + 1 \in S
  <2>1. k + 1 \in 1 .. n /\ k + 1 \in 0 .. n /\ k + 1 - 1 = k
    BY <1>1, <1>6
  <2>2. /\ stmts[k + 1] \in Stmts
        /\ a[k + 1] = Continue(a[k], stmts[k + 1], f) /\ b[k + 1] = Continue(b[k], stmts[k + 1], g)
    BY <1>3, <2>1
  <2>3. a[k] \in Machine /\ b[k] \in Machine /\ Alike(a[k], b[k]) /\ (same => a[k].out = b[k].out)
    BY <1>4, <1>6
  <2>4. same => stmts[k + 1].what # "count_a_line" /\ (stmts[k + 1].what = "print_call" => f = g)
    BY <1>5, <2>1
  <2>5. Alike(a[k + 1], b[k + 1]) /\ (same => a[k + 1].out = b[k + 1].out)
    <3> DEFINE c == a[k]
               d == b[k]
               i == stmts[k + 1]
    <3>1. c \in Machine /\ d \in Machine /\ i \in Stmts /\ Alike(c, d)
      BY <2>2, <2>3
    <3>2. same => c.out = d.out /\ i.what # "count_a_line" /\ (i.what = "print_call" => f = g)
      BY <2>3, <2>4
    <3>3. a[k + 1] = Continue(c, i, f) /\ b[k + 1] = Continue(d, i, g)
      BY <2>2
    <3> HIDE DEF c, d, i
    <3>4. Alike(a[k + 1], b[k + 1])
      BY <3>1, <3>3, ContinueAlike
    <3>5. ASSUME same PROVE a[k + 1].out = b[k + 1].out
      BY <3>1, <3>2, <3>3, <3>5, ContinueAlike
    <3> QED
      BY <3>4, <3>5
  <2> QED
    BY <2>1, <2>5
<1> HIDE DEF S
<1>7. n \in S
  BY <1>1, <1>2, <1>6, UpTo
<1> QED
  BY <1>7 DEF S, n, a, b, same

LEMMA FunctionType ==
    ASSUME NEW ds \in Seq(Decls)
    PROVE  FunctionOf(ds) \in {0, 1, 2}
<1>1. ds # <<>> => ds[1] \in Decls
  OBVIOUS
<1>2. ds # <<>> => ds[1].v \in {0, 1, 2}
  BY <1>1, InputsAre DEF Decls
<1> QED
  BY <1>2 DEF FunctionOf, Unset

\* A program does the same in another world, up to the lines it counts there.
LEMMA AnotherWorld ==
    ASSUME NEW ds \in Seq(Decls), NEW stmts \in Seq(Stmts), NEW w \in Nat, NEW v \in Nat
    PROVE  /\ Run(ds, stmts, w) \in Machine
           /\ Alike(Run(ds, stmts, w), Run(ds, stmts, v))
           /\ ~Mentions(stmts, "count_a_line") => Run(ds, stmts, w).out = Run(ds, stmts, v).out
<1>1. FunctionOf(ds) \in Nat /\ Len(stmts) \in 0 .. Len(stmts)
  BY FunctionType
<1>2. Run(ds, stmts, w) \in Machine
  BY <1>1, MainType DEF Run
<1> QED
  BY <1>1, <1>2, RunsAlike DEF Run

\* It does the same with another function if it never prints what the function returns.
LEMMA AnotherFunction ==
    ASSUME NEW ds \in Seq(Decls), NEW es \in Seq(Decls), NEW stmts \in Seq(Stmts), NEW w \in Nat,
           ~Mentions(stmts, "count_a_line"), ~Mentions(stmts, "print_call")
    PROVE  Alike(Run(ds, stmts, w), Run(es, stmts, w)) /\ Run(ds, stmts, w).out = Run(es, stmts, w).out
<1>1. FunctionOf(ds) \in Nat /\ FunctionOf(es) \in Nat
  BY FunctionType
<1> QED
  BY <1>1, RunsAlike DEF Run

\* A statement more is one step more.
LEMMA AnotherStatement ==
    ASSUME NEW ds \in Seq(Decls), NEW stmts \in Seq(Stmts), NEW w \in Nat, NEW i \in Stmts
    PROVE  Run(ds, Append(stmts, i), w) = Continue(Run(ds, stmts, w), i, FunctionOf(ds))
<1> DEFINE n == Len(stmts)
           f == FunctionOf(ds)
           longer == Append(stmts, i)
           a == Main(stmts, w, f)
           b == Main(longer, w, f)
           S == {k \in 0 .. n : a[k] = b[k]}
<1>1. n \in Nat /\ longer \in Seq(Stmts) /\ Len(longer) = n + 1 /\ longer[n + 1] = i
  OBVIOUS
<1>2. \A k \in 1 .. n : longer[k] = stmts[k]
  OBVIOUS
<1>3. a[0] = Begun(w) /\ \A k \in 1 .. n : a[k] = Continue(a[k - 1], stmts[k], f)
  BY MainIs
<1>4. b[0] = Begun(w) /\ \A k \in 1 .. n + 1 : b[k] = Continue(b[k - 1], longer[k], f)
  <2> HIDE DEF longer
  <2> QED
    BY <1>1, MainIs
<1> HIDE DEF a, b, longer, f, n
<1>5. 0 \in S
  BY <1>1, <1>3, <1>4
<1>6. ASSUME NEW k \in 0 .. n, k \in S, k < n PROVE k + 1 \in S
  <2>1. k + 1 \in 1 .. n /\ k + 1 \in 1 .. n + 1 /\ k + 1 \in 0 .. n /\ k + 1 - 1 = k
    BY <1>1, <1>6
  <2>2. a[k + 1] = Continue(a[k], stmts[k + 1], f) /\ b[k + 1] = Continue(b[k], stmts[k + 1], f)
    BY <1>2, <1>3, <1>4, <2>1
  <2> QED
    BY <1>6, <2>1, <2>2
<1> HIDE DEF S
<1>7. n \in S
  <2>1. n \in Nat
    BY <1>1
  <2>2. \A k \in 0 .. n : k \in S /\ k < n => k + 1 \in S
    BY <1>6
  <2>3. \A k \in 0 .. n : k \in S
    BY <1>5, <2>1, <2>2, UpTo
  <2> QED
    BY <2>1, <2>3
<1>8. b[n + 1] = Continue(b[n], i, f) /\ b[n] = a[n]
  BY <1>1, <1>4, <1>7 DEF S
<1> QED
  BY <1>1, <1>8 DEF Run, a, b, longer, f, n

LEMMA StillCompiles ==
    ASSUME NEW ds \in Seq(Decls), NEW stmts \in Seq(Stmts), NEW i \in Stmts, Compiles(ds, stmts)
    PROVE  Compiles(ds, Append(stmts, i)) <=>
               (UsesX(i) => Mentions(stmts, "assign")) /\ (UsesF(i) => ds # <<>>)
<1> DEFINE n == Len(stmts)
           longer == Append(stmts, i)
           Harmless(s, k) == /\ UsesX(s[k]) => \E j \in 1 .. k - 1 : s[j].what = "assign"
                             /\ UsesF(s[k]) => ds # <<>>
<1>1. n \in Nat /\ DOMAIN stmts = 1 .. n /\ DOMAIN longer = 1 .. n + 1 /\ longer[n + 1] = i
  OBVIOUS
<1>2. \A k \in 1 .. n : longer[k] = stmts[k]
  OBVIOUS
<1>3. \A k \in 1 .. n : Harmless(longer, k) <=> Harmless(stmts, k)
  <2> TAKE k \in 1 .. n
  <2>1. \A j \in 1 .. k - 1 : longer[j] = stmts[j]
    BY <1>1, <1>2
  <2> HIDE DEF longer
  <2> QED
    BY <1>2, <2>1
<1>4. Harmless(longer, n + 1) <=> (UsesX(i) => Mentions(stmts, "assign")) /\ (UsesF(i) => ds # <<>>)
  <2>1. n + 1 - 1 = n
    BY <1>1
  <2> HIDE DEF longer, n
  <2> QED
    BY <1>1, <1>2, <2>1 DEF Mentions
<1>5. \A s : Compiles(ds, s) <=> ~Mentions(ds, "def_reading_x") /\ Len(ds) <= 1 /\ \A k \in DOMAIN s : Harmless(s, k)
  BY DEF Compiles
<1>6. (\A k \in DOMAIN longer : Harmless(longer, k)) <=> (\A k \in 1 .. n : Harmless(longer, k)) /\ Harmless(longer, n + 1)
  <2> HIDE DEF longer, Harmless, n
  <2>1. \A k \in 1 .. n + 1 : k \in 1 .. n \/ k = n + 1
    BY <1>1
  <2>2. n + 1 \in 1 .. n + 1 /\ \A k \in 1 .. n : k \in 1 .. n + 1
    BY <1>1
  <2> QED
    BY <1>1, <2>1, <2>2
<1>7. \A k \in 1 .. n : Harmless(stmts, k)
  BY <1>1 DEF Compiles
<1> HIDE DEF longer, Harmless, n
<1>8. Compiles(ds, longer) <=> Harmless(longer, n + 1)
  BY <1>3, <1>5, <1>6, <1>7, Compiles(ds, stmts)
<1> QED
  BY <1>4, <1>8 DEF longer

-----------------------------------------------------------------------------
(* What an input shows                                                       *)

LEMMA CommonPrefix ==
    ASSUME NEW prev \in Seq(Nat), NEW new \in Seq(Nat)
    PROVE  LET same == {n \in 0 .. Len(new) : n <= Len(prev) /\ SubSeq(prev, 1, n) = SubSeq(new, 1, n)}
               n == CHOOSE n \in same : \A m \in same : m <= n
           IN  n \in same /\ \A m \in same : m <= n
<1> DEFINE same == {n \in 0 .. Len(new) : n <= Len(prev) /\ SubSeq(prev, 1, n) = SubSeq(new, 1, n)}
           T == {Len(new) - n : n \in same}
<1>1. Len(new) \in Nat /\ Len(prev) \in Nat
  OBVIOUS
<1>2. 0 \in same
  <2>1. SubSeq(prev, 1, 0) = <<>> /\ SubSeq(new, 1, 0) = <<>>
    OBVIOUS
  <2> QED
    BY <1>1, <2>1
<1>3. \A n \in same : n \in Nat /\ n <= Len(new)
  BY <1>1
<1> HIDE DEF same
<1>4. T \subseteq Nat /\ T # {}
  BY <1>1, <1>2, <1>3
<1>5. PICK t \in T : \A u \in T : t <= u
  <2> HIDE DEF T
  <2> QED
    BY <1>4, LeastOf
<1>6. PICK n \in same : t = Len(new) - n
  BY <1>5
<1>7. \A m \in same : m <= n
  <2> TAKE m \in same
  <2>1. Len(new) - m \in T
    OBVIOUS
  <2>2. Len(new) - n <= Len(new) - m
    BY <1>5, <1>6, <2>1
  <2> QED
    BY <1>1, <1>3, <2>2
<1>8. \E k \in same : \A m \in same : m <= k
  BY <1>7
<1> QED
  BY <1>8 DEF same

LEMMA DeltaType ==
    ASSUME NEW prev \in Seq(Nat), NEW new \in Seq(Nat)
    PROVE  output_delta(prev, new) \in Seq(Nat)
<1> DEFINE same == {n \in 0 .. Len(new) : n <= Len(prev) /\ SubSeq(prev, 1, n) = SubSeq(new, 1, n)}
           n == CHOOSE n \in same : \A m \in same : m <= n
<1>1. n \in same
  BY CommonPrefix
<1>2. output_delta(prev, new) = SubSeq(new, n + 1, Len(new))
  BY DEF output_delta
<1>3. n \in Nat /\ n <= Len(new)
  <2> HIDE DEF n
  <2> QED
    BY <1>1
<1> HIDE DEF n
<1> QED
  BY <1>2, <1>3

\* When everything printed before is printed again, what is shown is what follows it.
LEMMA DeltaIs ==
    ASSUME NEW prev \in Seq(Nat), NEW more \in Seq(Nat)
    PROVE  output_delta(prev, prev \o more) = more
<1> DEFINE new == prev \o more
           same == {n \in 0 .. Len(new) : n <= Len(prev) /\ SubSeq(prev, 1, n) = SubSeq(new, 1, n)}
           n == CHOOSE n \in same : \A m \in same : m <= n
<1>1. new \in Seq(Nat) /\ Len(new) = Len(prev) + Len(more) /\ Len(prev) \in Nat /\ Len(more) \in Nat
  OBVIOUS
<1>2. SubSeq(prev, 1, Len(prev)) = SubSeq(new, 1, Len(prev))
  OBVIOUS
<1>3. Len(prev) \in same
  BY <1>1, <1>2
<1>4. n \in same /\ \A m \in same : m <= n
  <2> HIDE DEF new
  <2> QED
    BY <1>1, CommonPrefix
<1>5. n = Len(prev)
  <2>1. n \in 0 .. Len(new) /\ n <= Len(prev)
    BY <1>4
  <2> HIDE DEF n
  <2>2. Len(prev) <= n
    BY <1>3, <1>4
  <2> QED
    BY <1>1, <2>1, <2>2
<1>6. output_delta(prev, new) = SubSeq(new, Len(prev) + 1, Len(new))
  <2>1. output_delta(prev, new) = SubSeq(new, n + 1, Len(new))
    BY DEF output_delta
  <2> QED
    BY <1>5, <2>1
<1>7. SubSeq(new, Len(prev) + 1, Len(new)) = more
  OBVIOUS
<1> QED
  BY <1>6, <1>7


-----------------------------------------------------------------------------
(* The inductive invariant: the session runs and, while no input differs by    *)
(* design, its program leaves the variable and the function as Python has them  *)

SyncInv ==
    ~departed =>
        LET run == Run(decls, body, world)
        IN  /\ ~Mentions(body, "count_a_line")
            /\ FunctionOf(decls) = python.env.f
            /\ run.x = python.env.x
            /\ Mentions(body, "assign") <=> python.env.x # Unset
SessionInv == SessionTypeOK /\ SessionRuns /\ SyncInv /\ ReplayShowsTheSame

LEMMA InitSessionInv == ReplInit => SessionInv
<1> SUFFICES ASSUME ReplInit PROVE SessionInv
  OBVIOUS
<1>1. SessionTypeOK
  <2>1. python \in [env : [x : Nat, f : 0 .. ReadsX], shows : Seq(Nat), count : Nat]
    <3>1. 0 \in 0 .. 3
      OBVIOUS
    <3> QED
      BY <3>1 DEF ReplInit, Unset, ReadsX
  <2>2. <<>> \in Seq(Decls) /\ <<>> \in Seq(Stmts) /\ <<>> \in Seq(Nat)
    OBVIOUS
  <2>3. /\ decls = <<>> /\ body = <<>> /\ last_output = <<>> /\ shown_last = <<>>
        /\ world = 0 /\ departed = FALSE
    BY DEF ReplInit
  <2> QED
    BY <2>1, <2>2, <2>3 DEF SessionTypeOK
<1>2. decls \in Seq(Decls) /\ body \in Seq(Stmts) /\ decls = <<>> /\ body = <<>> /\ world = 0
  BY <1>1 DEF SessionTypeOK, ReplInit
<1>3. Run(decls, body, world) = Begun(0)
  BY <1>2, MainIs DEF Run
<1>4. \A w : ~Mentions(body, w) /\ ~Mentions(decls, w)
  BY <1>2 DEF Mentions
<1>5. Compiles(decls, body)
  BY <1>2, <1>4 DEF Compiles
<1>6. SessionRuns
  BY <1>3, <1>5 DEF SessionRuns, Begun, ReplInit
<1>7. SyncInv
  BY <1>2, <1>3, <1>4 DEF SyncInv, Begun, ReplInit, FunctionOf
<1>8. ReplayShowsTheSame
  BY DEF ReplInit, ReplayShowsTheSame
<1> QED
  BY <1>1, <1>6, <1>7, <1>8 DEF SessionInv

\* The program an input makes, and its run.
Declared(i) == IF classify(i) = "Decl" THEN Append(decls, i) ELSE decls
Stated(i) == IF classify(i) = "Decl" THEN body ELSE Append(body, i)
Result(i) == Run(Declared(i), Stated(i), world)
Succeeds(i) == Compiles(Declared(i), Stated(i)) /\ Result(i).ok

LEMMA ExecuteIs ==
    ASSUME NEW i \in Inputs, execute(i)
    PROVE  /\ Succeeds(i) => /\ decls' = Declared(i) /\ body' = Stated(i) /\ last_output' = Result(i).out
                             /\ shown_last' = output_delta(last_output, Result(i).out)
                             /\ world' = Result(i).world
           /\ ~Succeeds(i) => /\ UNCHANGED <<decls, body, last_output>> /\ shown_last' = <<>>
                              /\ world' \in {world, Result(i).world}
BY DEF execute, Declared, Stated, Result, Succeeds

LEMMA TrialType ==
    ASSUME SessionTypeOK, NEW i \in Inputs
    PROVE  Declared(i) \in Seq(Decls) /\ Stated(i) \in Seq(Stmts) /\ Result(i) \in Machine
<1>1. decls \in Seq(Decls) /\ body \in Seq(Stmts) /\ world \in Nat
  BY DEF SessionTypeOK
<1>2. Declared(i) \in Seq(Decls) /\ Stated(i) \in Seq(Stmts)
  <2>1. CASE classify(i) = "Decl"
    BY <1>1, <2>1, InputsAre DEF Declared, Stated
  <2>2. CASE classify(i) # "Decl"
    BY <1>1, <2>2, InputsAre DEF Declared, Stated
  <2> QED
    BY <2>1, <2>2
<1> QED
  BY <1>1, <1>2, AnotherWorld DEF Result

LEMMA PythonType ==
    ASSUME NEW p \in [x : Nat, f : 0 .. ReadsX], NEW i \in Inputs
    PROVE  PyAfter(p, i) \in [x : Nat, f : 0 .. ReadsX] /\ PyShows(p, i) \in Seq(Nat)
<1>1. i.v \in 0 .. ReadsX /\ i.v \in Nat
  BY InputsAre DEF ReadsX
<1>2. p.x \in Nat /\ p.f \in 0 .. ReadsX /\ p.f \in Nat /\ p.x + 1 \in Nat /\ ReadsX \in 0 .. ReadsX
  BY DEF ReadsX
<1>3. PyAfter(p, i) \in [x : Nat, f : 0 .. ReadsX]
  BY <1>1, <1>2 DEF PyAfter
<1>4. <<p.x>> \in Seq(Nat) /\ <<PyCall(p)>> \in Seq(Nat) /\ <<>> \in Seq(Nat)
  BY <1>2 DEF PyCall
<1>5. PyShows(p, i) \in {<<p.x>>, <<PyCall(p)>>, <<>>}
  BY DEF PyShows
<1> QED
  BY <1>3, <1>4, <1>5

LEMMA NextSessionTypeOK ==
    ASSUME SessionTypeOK, NEW i \in Inputs, Enter(i)
    PROVE  SessionTypeOK'
<1>1. execute(i)
  BY DEF Enter
<1>2. Declared(i) \in Seq(Decls) /\ Stated(i) \in Seq(Stmts) /\ Result(i) \in Machine
  BY TrialType
<1>3. Result(i).out \in Seq(Nat) /\ Result(i).world \in Nat
  BY <1>2 DEF Machine
<1>4. output_delta(last_output, Result(i).out) \in Seq(Nat)
  BY <1>3, DeltaType DEF SessionTypeOK
<1>5. /\ decls' \in Seq(Decls) /\ body' \in Seq(Stmts) /\ world' \in Nat
      /\ last_output' \in Seq(Nat) /\ shown_last' \in Seq(Nat)
  <2>1. CASE Succeeds(i)
    BY <1>1, <1>2, <1>3, <1>4, <2>1, ExecuteIs DEF SessionTypeOK
  <2>2. CASE ~Succeeds(i)
    <3>1. /\ decls' = decls /\ body' = body /\ last_output' = last_output /\ shown_last' = <<>>
          /\ world' \in {world, Result(i).world}
      BY <1>1, <2>2, ExecuteIs
    <3>2. world \in Nat /\ <<>> \in Seq(Nat)
      BY DEF SessionTypeOK
    <3>3. world' \in Nat
      BY <1>3, <3>1, <3>2
    <3> QED
      BY <3>1, <3>2, <3>3 DEF SessionTypeOK
  <2> QED
    BY <2>1, <2>2
<1>6. python' \in [env : [x : Nat, f : 0 .. ReadsX], shows : Seq(Nat), count : Nat]
  <2>1. python.env \in [x : Nat, f : 0 .. ReadsX] /\ python.count + 1 \in Nat
    BY DEF SessionTypeOK
  <2>2. PyAfter(python.env, i) \in [x : Nat, f : 0 .. ReadsX] /\ PyShows(python.env, i) \in Seq(Nat)
    BY <2>1, PythonType
  <2> QED
    BY <2>1, <2>2 DEF Enter
<1>7. departed' \in BOOLEAN
  BY DEF Enter, SessionTypeOK
<1> QED
  BY <1>5, <1>6, <1>7 DEF SessionTypeOK

\* An input that fails leaves the session; one that does not becomes part of it.  Either
\* way the world may have changed, in which the session still runs.
LEMMA NextSessionRuns ==
    ASSUME SessionTypeOK, SessionTypeOK', SessionRuns, NEW i \in Inputs, Enter(i)
    PROVE  SessionRuns'
<1>1. execute(i)
  BY DEF Enter
<1>2. world \in Nat /\ world' \in Nat /\ decls \in Seq(Decls) /\ body \in Seq(Stmts)
  BY DEF SessionTypeOK
<1>3. CASE Succeeds(i)
  <2>1. decls' = Declared(i) /\ body' = Stated(i) /\ last_output' = Result(i).out
    BY <1>1, <1>3, ExecuteIs
  <2>2. Declared(i) \in Seq(Decls) /\ Stated(i) \in Seq(Stmts)
    BY TrialType
  <2>3. Compiles(decls', body') /\ Run(decls', body', world).ok
    BY <1>3, <2>1 DEF Succeeds, Result
  <2>4. /\ Alike(Run(decls', body', world), Run(decls', body', world'))
        /\ ~Mentions(body', "count_a_line") => Run(decls', body', world').out = last_output'
    BY <1>2, <2>1, <2>2, AnotherWorld DEF Result
  <2> QED
    BY <2>3, <2>4 DEF SessionRuns, Alike
<1>4. CASE ~Succeeds(i)
  <2>1. decls' = decls /\ body' = body /\ last_output' = last_output
    BY <1>1, <1>4, ExecuteIs
  <2>2. /\ Alike(Run(decls, body, world), Run(decls, body, world'))
        /\ ~Mentions(body, "count_a_line") => Run(decls, body, world).out = Run(decls, body, world').out
    BY <1>2, AnotherWorld
  <2> QED
    BY <2>1, <2>2 DEF SessionRuns, Alike
<1> QED
  BY <1>3, <1>4


\* What a session that has not departed says of its run.
LEMMA InStep ==
    ASSUME SessionInv, ~departed
    PROVE  LET run == Run(decls, body, world)
           IN  /\ run \in Machine /\ run.ok /\ run.out = last_output /\ run.x = python.env.x
               /\ Compiles(decls, body) /\ ~Mentions(body, "count_a_line")
               /\ FunctionOf(decls) = python.env.f /\ python.env.f \in {0, 1, 2}
               /\ decls = <<>> <=> python.env.f = Unset
               /\ Mentions(body, "assign") <=> python.env.x # Unset
<1>1. decls \in Seq(Decls) /\ body \in Seq(Stmts) /\ world \in Nat
  BY DEF SessionInv, SessionTypeOK
<1>2. Run(decls, body, world) \in Machine
  BY <1>1, AnotherWorld
<1>3. decls # <<>> => decls[1].v # 0
  <2> SUFFICES ASSUME decls # <<>> PROVE decls[1].v # 0
    OBVIOUS
  <2>1. 1 \in DOMAIN decls /\ decls[1] \in Decls
    BY <1>1
  <2>2. decls[1].what # "def_reading_x"
    BY <2>1 DEF SessionInv, SessionRuns, Compiles, Mentions
  <2>3. decls[1] \in Inputs
    BY <2>1 DEF Decls
  <2> QED
    BY <2>1, <2>2, <2>3, InputsAre
<1>4. FunctionOf(decls) \in {0, 1, 2} /\ (decls = <<>> <=> FunctionOf(decls) = Unset)
  BY <1>1, <1>3, FunctionType DEF FunctionOf, Unset
<1> QED
  BY <1>2, <1>4 DEF SessionInv, SessionRuns, SyncInv

\* An input that is the program's next step: what it does to the variable it does in
\* Python, and it prints what Python shows.
Prints(i) ==
    CASE i.what \in {"name", "print"} -> <<python.env.x>>
      [] i.what = "print_call" -> <<python.env.f>>
      [] OTHER -> <<>>
LEMMA StatementInStep ==
    ASSUME SessionInv, ~departed, NEW i \in Stmts, ~Departs(i)
    PROVE  /\ Succeeds(i) <=> (UsesX(i) => python.env.x # Unset) /\ (UsesF(i) => python.env.f # Unset)
           /\ Succeeds(i) => /\ Result(i).out = last_output \o Prints(i)
                             /\ Result(i).x = PyAfter(python.env, i).x
                             /\ Prints(i) \in Seq(Nat)
                             /\ PyShows(python.env, i) = Prints(i)
           /\ ~Succeeds(i) => PyShows(python.env, i) = <<>> /\ PyAfter(python.env, i) = python.env
           /\ PyAfter(python.env, i).f = python.env.f
<1> DEFINE m == Run(decls, body, world)
           f == python.env.f
<1>1. decls \in Seq(Decls) /\ body \in Seq(Stmts) /\ world \in Nat /\ i \in Inputs
  BY DEF SessionInv, SessionTypeOK, Stmts
<1>2. /\ m \in Machine /\ m.ok /\ m.out = last_output /\ m.x = python.env.x
      /\ Compiles(decls, body) /\ FunctionOf(decls) = f /\ f \in {0, 1, 2}
      /\ decls = <<>> <=> f = Unset
      /\ Mentions(body, "assign") <=> python.env.x # Unset
  BY InStep
<1>3. Declared(i) = decls /\ Stated(i) = Append(body, i)
  BY <1>1, InputsAre DEF Declared, Stated
<1>4. Result(i) = Step(m, i, f)
  <2>1. Result(i) = Continue(m, i, FunctionOf(decls))
    BY <1>1, <1>3, AnotherStatement DEF Result
  <2> QED
    BY <1>2, <2>1 DEF Continue
<1>5. i.what \in {"assign", "add", "name", "print", "print_call"}
  BY <1>1, InputsAre DEF Departs
<1>6. /\ m.x \in Nat /\ m.out \in Seq(Nat) /\ f \in Nat /\ python.env \in [x : Nat, f : 0 .. ReadsX]
      /\ m = [x |-> m.x, world |-> m.world, out |-> m.out, ok |-> m.ok]
  BY <1>2 DEF Machine, SessionInv, SessionTypeOK
<1>7. Compiles(Declared(i), Stated(i)) <=>
          (UsesX(i) => python.env.x # Unset) /\ (UsesF(i) => python.env.f # Unset)
  BY <1>1, <1>2, <1>3, StillCompiles
<1> HIDE DEF m, f
<1>8. Result(i).ok /\ Result(i).out = m.out \o Prints(i) /\ Prints(i) \in Seq(Nat)
  <2>1. CASE i.what \in {"assign", "add"}
    <3>1. Result(i).ok /\ Result(i).out = m.out /\ Prints(i) = <<>>
      BY <1>2, <1>4, <1>6, <2>1 DEF Step, Prints
    <3> QED
      BY <1>6, <3>1
  <2>2. CASE i.what \in {"name", "print"}
    <3>1. Result(i).ok /\ Result(i).out = Append(m.out, m.x) /\ Prints(i) = <<m.x>>
      BY <1>2, <1>4, <1>6, <2>2 DEF Step, Prints
    <3> QED
      BY <1>6, <3>1
  <2>3. CASE i.what = "print_call"
    <3>1. Result(i).ok /\ Result(i).out = Append(m.out, f) /\ Prints(i) = <<f>>
      BY <1>2, <1>4, <1>6, <2>3 DEF Step, Prints, f
    <3> QED
      BY <1>6, <3>1
  <2> QED
    BY <1>5, <2>1, <2>2, <2>3
<1>9. Succeeds(i) <=> (UsesX(i) => python.env.x # Unset) /\ (UsesF(i) => python.env.f # Unset)
  BY <1>7, <1>8 DEF Succeeds
<1>10. ASSUME Succeeds(i)
       PROVE  Result(i).x = PyAfter(python.env, i).x /\ PyShows(python.env, i) = Prints(i)
  <2>1. UsesX(i) => python.env.x # Unset
    BY <1>9, <1>10
  <2>2. UsesF(i) => f # Unset /\ f # ReadsX
    BY <1>2, <1>9, <1>10 DEF f, ReadsX
  <2>3. Result(i).x = PyAfter(python.env, i).x
    BY <1>2, <1>4, <1>5, <1>6, <2>1 DEF Step, PyAfter, UsesX
  <2>4. PyShows(python.env, i) = Prints(i)
    BY <1>5, <2>1, <2>2 DEF PyShows, Prints, PyFails, PyCall, UsesX, UsesF, f
  <2> QED
    BY <2>3, <2>4
<1>11. ASSUME ~Succeeds(i)
       PROVE  PyShows(python.env, i) = <<>> /\ PyAfter(python.env, i) = python.env
  <2>1. \/ i.what \in {"add", "name", "print"} /\ python.env.x = Unset
        \/ i.what = "print_call" /\ python.env.f = Unset
    BY <1>5, <1>9, <1>11 DEF UsesX, UsesF
  <2> QED
    BY <2>1 DEF PyShows, PyAfter, PyFails, UsesX, UsesF
<1>12. PyAfter(python.env, i).f = python.env.f
  BY <1>5, <1>6 DEF PyAfter
<1> QED
  BY <1>2, <1>8, <1>9, <1>10, <1>11, <1>12


\* The first function of a session: nothing kept so far uses it.
LEMMA DefinitionInStep ==
    ASSUME SessionInv, ~departed, NEW i \in Decls, ~Departs(i)
    PROVE  /\ Succeeds(i) /\ Result(i).out = last_output /\ Result(i).x = python.env.x
           /\ FunctionOf(Declared(i)) = i.v /\ Stated(i) = body
           /\ PyShows(python.env, i) = <<>>
           /\ PyAfter(python.env, i).x = python.env.x /\ PyAfter(python.env, i).f = i.v
<1> DEFINE m == Run(decls, body, world)
<1>1. decls \in Seq(Decls) /\ body \in Seq(Stmts) /\ world \in Nat /\ i \in Inputs
  BY DEF SessionInv, SessionTypeOK, Decls
<1>2. /\ m \in Machine /\ m.ok /\ m.out = last_output /\ m.x = python.env.x
      /\ Compiles(decls, body) /\ ~Mentions(body, "count_a_line")
  BY InStep
<1>3. i.what = "def" /\ decls = <<>>
  BY <1>1, InputsAre DEF Departs
<1>4. Declared(i) = <<i>> /\ Stated(i) = body /\ <<i>> \in Seq(Decls)
  <2>1. classify(i) = "Decl"
    BY <1>1, InputsAre
  <2> QED
    BY <1>3, <2>1 DEF Declared, Stated
<1>5. FunctionOf(Declared(i)) = i.v
  BY <1>4 DEF FunctionOf
<1>6. \A k \in DOMAIN body : ~UsesF(body[k])
  BY <1>2, <1>3 DEF Compiles
<1>7. ~Mentions(body, "print_call")
  BY <1>6 DEF Mentions, UsesF
<1>8. Alike(m, Result(i)) /\ m.out = Result(i).out
  BY <1>1, <1>2, <1>4, <1>7, AnotherFunction DEF Result
<1>9. Compiles(<<i>>, body)
  <2>1. ~Mentions(<<i>>, "def_reading_x") /\ Len(<<i>>) <= 1 /\ <<i>> # <<>>
    BY <1>3 DEF Mentions
  <2>2. \A k \in DOMAIN body : UsesX(body[k]) => \E j \in 1 .. k - 1 : body[j].what = "assign"
    BY <1>2 DEF Compiles
  <2> QED
    BY <1>6, <2>1, <2>2 DEF Compiles
<1>10. Succeeds(i)
  BY <1>2, <1>4, <1>8, <1>9 DEF Succeeds, Alike
<1>11. python.env \in [x : Nat, f : 0 .. ReadsX]
  BY DEF SessionInv, SessionTypeOK
<1>12. PyShows(python.env, i) = <<>>
  BY <1>3 DEF PyShows, UsesF
<1>13. PyAfter(python.env, i).x = python.env.x /\ PyAfter(python.env, i).f = i.v
  BY <1>3, <1>11 DEF PyAfter
<1> QED
  BY <1>2, <1>4, <1>5, <1>8, <1>10, <1>12, <1>13 DEF Alike

LEMMA NextInStep ==
    ASSUME SessionInv, SessionTypeOK', NEW i \in Inputs, Enter(i)
    PROVE  SyncInv' /\ ReplayShowsTheSame'
<1> SUFFICES ASSUME ~departed' PROVE SyncInv' /\ ReplayShowsTheSame'
  BY DEF SyncInv, ReplayShowsTheSame
<1>1. execute(i) /\ ~departed /\ ~Departs(i)
  BY DEF Enter
<1>2. python'.env = PyAfter(python.env, i) /\ python'.shows = PyShows(python.env, i)
  BY DEF Enter
<1>3. /\ decls \in Seq(Decls) /\ body \in Seq(Stmts) /\ world \in Nat /\ last_output \in Seq(Nat)
      /\ decls' \in Seq(Decls) /\ body' \in Seq(Stmts) /\ world' \in Nat
      /\ python.env \in [x : Nat, f : 0 .. ReadsX]
  BY DEF SessionInv, SessionTypeOK
<1>4. /\ ~Mentions(body, "count_a_line") /\ FunctionOf(decls) = python.env.f
      /\ Mentions(body, "assign") <=> python.env.x # Unset
      /\ Run(decls, body, world).x = python.env.x
  BY <1>1, InStep
<1>5. Run(decls', body', world').x = Run(decls', body', world).x
  BY <1>3, AnotherWorld DEF Alike
<1>6. CASE i \in Decls
  <2>1. /\ Succeeds(i) /\ Result(i).out = last_output /\ Result(i).x = python.env.x
        /\ FunctionOf(Declared(i)) = i.v /\ Stated(i) = body
        /\ PyShows(python.env, i) = <<>>
        /\ PyAfter(python.env, i).x = python.env.x /\ PyAfter(python.env, i).f = i.v
    BY <1>1, <1>6, DefinitionInStep
  <2>2. decls' = Declared(i) /\ body' = Stated(i) /\ shown_last' = output_delta(last_output, last_output)
    BY <1>1, <2>1, ExecuteIs
  <2>3. shown_last' = <<>>
    <3>1. last_output \o <<>> = last_output /\ <<>> \in Seq(Nat)
      BY <1>3
    <3>2. output_delta(last_output, last_output \o <<>>) = <<>>
      BY <1>3, <3>1, DeltaIs
    <3> QED
      BY <2>2, <3>1, <3>2
  <2>4. Run(decls', body', world).x = python.env.x
    BY <2>1, <2>2 DEF Result
  <2> QED
    BY <1>2, <1>4, <1>5, <2>1, <2>2, <2>3, <2>4 DEF SyncInv, ReplayShowsTheSame
<1>7. CASE i \in Stmts /\ Succeeds(i)
  <2>1. /\ Result(i).out = last_output \o Prints(i)
        /\ Result(i).x = PyAfter(python.env, i).x
        /\ Prints(i) \in Seq(Nat)
        /\ PyShows(python.env, i) = Prints(i)
        /\ PyAfter(python.env, i).f = python.env.f
    BY <1>1, <1>7, StatementInStep
  <2>2. decls' = decls /\ body' = Append(body, i) /\ shown_last' = output_delta(last_output, Result(i).out)
    <3>1. Declared(i) = decls /\ Stated(i) = Append(body, i)
      BY <1>7, InputsAre DEF Declared, Stated
    <3> QED
      BY <1>1, <1>7, <3>1, ExecuteIs
  <2>3. shown_last' = Prints(i)
    BY <1>3, <2>1, <2>2, DeltaIs
  <2>4. Run(decls', body', world).x = PyAfter(python.env, i).x
    <3>1. decls' = Declared(i) /\ body' = Stated(i)
      BY <1>1, <1>7, ExecuteIs
    <3> QED
      BY <2>1, <3>1 DEF Result
  <2>5. \A w : Mentions(body', w) <=> Mentions(body, w) \/ i.what = w
    <3>1. /\ DOMAIN body = 1 .. Len(body) /\ DOMAIN body' = 1 .. Len(body) + 1 /\ Len(body) \in Nat
          /\ body'[Len(body) + 1] = i /\ \A k \in 1 .. Len(body) : body'[k] = body[k]
      BY <1>3, <2>2
    <3> QED
      BY <3>1 DEF Mentions
  <2>6. i.what # "count_a_line"
    BY <1>1 DEF Departs
  <2>7. (Mentions(body, "assign") \/ i.what = "assign") <=> PyAfter(python.env, i).x # Unset
    <3>1. i.what \in {"assign", "add", "name", "print", "print_call"}
      BY <1>1, <1>7, InputsAre DEF Departs
    <3>2. i.what = "assign" => i.v \in {1, 2}
      BY InputsAre
    <3>3. CASE i.what = "assign"
      <4>1. PyAfter(python.env, i).x = i.v
        BY <1>3, <3>3 DEF PyAfter
      <4> QED
        BY <3>2, <3>3, <4>1 DEF Unset
    <3>4. CASE i.what = "add"
      <4>1. python.env.x # Unset
        BY <1>1, <1>7, <3>4, StatementInStep DEF UsesX
      <4>2. PyAfter(python.env, i).x = python.env.x + 1 /\ python.env.x \in Nat
        BY <1>3, <3>4, <4>1 DEF PyAfter
      <4> QED
        BY <1>4, <4>1, <4>2 DEF Unset
    <3>5. CASE i.what \in {"name", "print", "print_call"}
      <4>1. PyAfter(python.env, i) = python.env
        BY <3>5 DEF PyAfter
      <4> QED
        BY <1>4, <3>5, <4>1
    <3> QED
      BY <3>1, <3>3, <3>4, <3>5
  <2>8. Mentions(body', "assign") <=> PyAfter(python.env, i).x # Unset
    BY <2>5, <2>7
  <2>9. ~Mentions(body', "count_a_line")
    BY <1>4, <2>5, <2>6
  <2> QED
    BY <1>2, <1>4, <1>5, <2>1, <2>2, <2>3, <2>4, <2>8, <2>9 DEF SyncInv, ReplayShowsTheSame
<1>8. CASE i \in Stmts /\ ~Succeeds(i)
  <2>1. PyShows(python.env, i) = <<>> /\ PyAfter(python.env, i) = python.env
    BY <1>1, <1>8, StatementInStep
  <2>2. decls' = decls /\ body' = body /\ shown_last' = <<>>
    BY <1>1, <1>8, ExecuteIs
  <2> QED
    BY <1>2, <1>4, <1>5, <2>1, <2>2 DEF SyncInv, ReplayShowsTheSame
<1> QED
  BY <1>6, <1>7, <1>8 DEF Stmts

-----------------------------------------------------------------------------
(* The theorems                                                              *)

\* The inductive invariant of a session, whatever is entered and however often.
THEOREM SessionInvHolds == ReplSpec => []SessionInv
<1>1. SessionInv /\ [ReplNext]_replVars => SessionInv'
  <2> SUFFICES ASSUME SessionInv, [ReplNext]_replVars PROVE SessionInv'
    OBVIOUS
  <2>1. ASSUME NEW i \in Inputs, Enter(i) PROVE SessionInv'
    <3>1. SessionTypeOK'
      BY <2>1, NextSessionTypeOK DEF SessionInv
    <3>2. SessionRuns'
      BY <2>1, <3>1, NextSessionRuns DEF SessionInv
    <3>3. SyncInv' /\ ReplayShowsTheSame'
      BY <2>1, <3>1, NextInStep
    <3> QED
      BY <3>1, <3>2, <3>3 DEF SessionInv
  <2>2. CASE UNCHANGED replVars
    BY <2>2 DEF SessionInv, SessionTypeOK, SessionRuns, SyncInv, ReplayShowsTheSame, Run, Main, FunctionOf, replVars
  <2> QED
    BY <2>1, <2>2 DEF ReplNext
<1> QED
  BY <1>1, InitSessionInv, PTL DEF ReplSpec

\* Every variable keeps its type.
THEOREM SessionTypeCorrect == ReplSpec => []SessionTypeOK
<1>1. SessionInv => SessionTypeOK
  BY DEF SessionInv
<1> QED
  BY <1>1, SessionInvHolds, PTL

\* What was kept compiles, runs to its end and prints what it printed, in sessions of any
\* length: a failed input leaves nothing behind in the session (repl.rs, execute).
THEOREM SessionAlwaysRuns == ReplSpec => []SessionRuns
<1>1. SessionInv => SessionRuns
  BY DEF SessionInv
<1> QED
  BY <1>1, SessionInvHolds, PTL

\* Until an input differs by design, every input shows what Python's shell shows for it, in
\* sessions of any length (repl.rs, output_delta).
THEOREM ReplayAlwaysShowsTheSame == ReplSpec => []ReplayShowsTheSame
<1>1. SessionInv => ReplayShowsTheSame
  BY DEF SessionInv
<1> QED
  BY <1>1, SessionInvHolds, PTL

--------------------------------------------------------------------------------
-----------------------------------------------------------------------------
(* What a document reaches                                                   *)

LEMMA ImportsAre ==
    ASSUME NEW view \in Views, NEW e \in Docs
    PROVE  ImportsOf(view[e]) \in Seq(Docs) /\ ToSet(ImportsOf(view[e])) \subseteq Docs
<1>1. ImportsOf(view[e]) \in Seq(Docs)
  BY LanguageServerAssumption DEF ImportsOf, Views, Absent
<1> QED
  BY <1>1 DEF ToSet

LEMMA ReachedFacts ==
    ASSUME NEW d \in Docs, NEW view \in Views
    PROVE  /\ d \in Reached(d, view) /\ Reached(d, view) \subseteq Docs
           /\ Follows(Reached(d, view), view)
           /\ \A S \in SUBSET Docs : d \in S /\ Follows(S, view) => Reached(d, view) \subseteq S
<1>1. d \in Reached(d, view) /\ Reached(d, view) \subseteq Docs
  BY DEF Reached
<1>2. \A S \in SUBSET Docs : d \in S /\ Follows(S, view) => Reached(d, view) \subseteq S
  BY DEF Reached
<1>3. ASSUME NEW e \in Reached(d, view), NEW i \in ToSet(ImportsOf(view[e]))
      PROVE  i \in Reached(d, view)
  <2>1. i \in Docs
    BY <1>1, ImportsAre
  <2>2. ASSUME NEW S \in SUBSET Docs, d \in S, Follows(S, view) PROVE i \in S
    <3>1. e \in S
      BY <1>2, <2>2
    <3> QED
      BY <2>2, <3>1 DEF Follows
  <2> QED
    BY <2>1, <2>2 DEF Reached
<1> QED
  BY <1>1, <1>2, <1>3 DEF Follows

\* A document reaches the same in two views that agree on what it reaches in one of them.
Agree(S, v, w) == \A e \in S : v[e] = w[e]
LEMMA SameReached ==
    ASSUME NEW d \in Docs, NEW v \in Views, NEW w \in Views, Agree(Reached(d, v), v, w)
    PROVE  Reached(d, w) = Reached(d, v)
<1>1. Follows(Reached(d, v), w)
  BY ReachedFacts DEF Follows, Agree
<1>2. Reached(d, w) \subseteq Reached(d, v)
  BY <1>1, ReachedFacts
<1>3. Follows(Reached(d, w), v)
  BY <1>2, ReachedFacts DEF Follows, Agree
<1>4. Reached(d, v) \subseteq Reached(d, w)
  BY <1>3, ReachedFacts
<1> QED
  BY <1>2, <1>4

\* A view in which some documents are missing reaches no more.
LEMMA LessReached ==
    ASSUME NEW d \in Docs, NEW v \in Views, NEW w \in Views, \A e \in Docs : v[e] \in {w[e], Absent}
    PROVE  Reached(d, v) \subseteq Reached(d, w)
<1>1. ToSet(ImportsOf(Absent)) = {}
  BY DEF ImportsOf, ToSet
<1>2. Follows(Reached(d, w), v)
  BY <1>1, ReachedFacts DEF Follows
<1> QED
  BY <1>2, ReachedFacts

-----------------------------------------------------------------------------
(* What goes wrong first                                                     *)

\* What goes wrong below a document depends on its text, on which of its imports are there,
\* and on what goes wrong below those on a longer stack.
LEMMA VisitDepends ==
    ASSUME NEW S \in SUBSET Docs, NEW v \in Views, NEW w \in Views, Follows(S, v), Agree(S, v, w),
           NEW d \in S, NEW stack \in SUBSET Docs, NEW f, NEW g,
           \A e \in S \ stack : f[<<e, stack \cup {e}>>] = g[<<e, stack \cup {e}>>]
    PROVE  visit(d, v, stack, f) = visit(d, w, stack, g)
<1> DEFINE through == ImportsOf(v[d])
           of(e, view, below) == import(d, e, view, stack, below)
           bad(view, below) == {i \in DOMAIN through : of(through[i], view, below) # Fine}
           first(B) == CHOOSE i \in B : \A j \in B : i <= j
           all(view, below) ==
               CASE view[d] \in Broken -> [what |-> "syntax", at |-> d]
                 [] view[d] \notin Broken /\ bad(view, below) = {} -> Fine
                 [] OTHER -> of(through[first(bad(view, below))], view, below)
<1>1. v[d] = w[d]
  BY DEF Agree
<1>2. visit(d, v, stack, f) = all(v, f)
  BY DEF visit
<1>3. visit(d, w, stack, g) = all(w, g)
  BY <1>1 DEF visit
<1>4. \A e \in S : of(e, v, f) = of(e, w, g)
  BY DEF Agree, import
<1>5. \A i \in DOMAIN through : through[i] \in S
  BY DEF Follows, ToSet
<1> HIDE DEF of, through
<1>6. bad(v, f) = bad(w, g)
  BY <1>4, <1>5
<1>7. CASE v[d] \in Broken
  BY <1>1, <1>2, <1>3, <1>7
<1>8. CASE v[d] \notin Broken /\ bad(v, f) = {}
  <2> HIDE DEF bad
  <2> QED
    BY <1>1, <1>2, <1>3, <1>6, <1>8
<1>9. CASE v[d] \notin Broken /\ bad(v, f) # {}
  <2> DEFINE B == bad(v, f)
  <2>1. \A i \in B : of(through[i], v, f) = of(through[i], w, g)
    BY <1>4, <1>5
  <2>2. first(B) \in B
    <3>1. B \subseteq Nat /\ B # {}
      <4>1. DOMAIN through \subseteq Nat
        BY ImportsAre DEF through
      <4> QED
        BY <1>9, <4>1
    <3>2. \E i \in B : \A j \in B : i <= j
      <4> HIDE DEF B
      <4> QED
        BY <3>1, LeastOf
    <3> HIDE DEF B
    <3> QED
      BY <3>2
  <2>3. all(v, f) = of(through[first(B)], v, f)
    <3> HIDE DEF first
    <3> QED
      BY <1>9
  <2>4. all(w, g) = of(through[first(B)], w, g)
    <3> HIDE DEF first, bad
    <3> QED
      BY <1>1, <1>6, <1>9
  <2> HIDE DEF B, first, all
  <2> QED
    BY <1>2, <1>3, <2>1, <2>2, <2>3, <2>4
<1> QED
  BY <1>7, <1>8, <1>9


\* The imports of a document are followed on a longer stack, of which there is an end.
Left(stack) == Cardinality(Docs \ stack)
LEMMA LeftFacts ==
    ASSUME NEW stack \in SUBSET Docs
    PROVE  /\ Left(stack) \in 0 .. Cardinality(Docs) /\ Cardinality(Docs) \in Nat
           /\ \A e \in Docs \ stack : Left(stack) # 0 /\ Left(stack \cup {e}) = Left(stack) - 1
<1>1. IsFiniteSet(Docs \ stack) /\ Left(stack) \in Nat /\ Cardinality(Docs) \in Nat /\ Left(stack) <= Cardinality(Docs)
  <2>1. IsFiniteSet(Docs) /\ Docs \ stack \subseteq Docs
    BY LanguageServerAssumption
  <2> QED
    BY <2>1, FS_Subset, FS_CardinalityType DEF Left
<1>2. ASSUME NEW e \in Docs \ stack PROVE Left(stack) # 0 /\ Left(stack \cup {e}) = Left(stack) - 1
  <2> DEFINE S == Docs \ stack
  <2>1. Docs \ (stack \cup {e}) = S \ {e}
    OBVIOUS
  <2>2. IsFiniteSet(S) /\ e \in S
    BY <1>1
  <2>3. Cardinality(S \ {e}) = Cardinality(S) - 1
    BY <2>2, FS_RemoveElement
  <2>4. Cardinality(S) # 0
    BY <2>2, FS_EmptySet
  <2> QED
    BY <2>1, <2>3, <2>4 DEF Left
<1> QED
  BY <1>1, <1>2

\* What Failures is, at the stacks with at most n documents left.
Places(n) == {at \in Docs \X SUBSET Docs : Left(at[2]) <= n}
Below(g, n, view) == g = [at \in Places(n) |-> visit(at[1], view, at[2], g)]

LEMMA PlacesAre ==
    ASSUME NEW n \in Nat, NEW at \in Places(n)
    PROVE  /\ at[1] \in Docs /\ at[2] \in SUBSET Docs /\ Left(at[2]) <= n /\ at = <<at[1], at[2]>>
           /\ \A e \in Docs \ at[2] : /\ n # 0
                                      /\ \A k \in Nat : n = k + 1 => <<e, at[2] \cup {e}>> \in Places(k)
<1>1. at[1] \in Docs /\ at[2] \in SUBSET Docs /\ Left(at[2]) <= n /\ at = <<at[1], at[2]>>
  BY DEF Places
<1>2. ASSUME NEW e \in Docs \ at[2]
      PROVE  n # 0 /\ \A k \in Nat : n = k + 1 => <<e, at[2] \cup {e}>> \in Places(k)
  <2>1. /\ Left(at[2]) \in 0 .. Cardinality(Docs) /\ Cardinality(Docs) \in Nat
        /\ Left(at[2]) # 0 /\ Left(at[2] \cup {e}) = Left(at[2]) - 1
    BY <1>1, LeftFacts
  <2>2. n # 0 /\ Left(at[2] \cup {e}) <= n - 1
    BY <1>1, <2>1
  <2>3. <<e, at[2] \cup {e}>> \in Docs \X SUBSET Docs
    BY <1>1
  <2> QED
    BY <2>2, <2>3 DEF Places
<1> QED
  BY <1>1, <1>2

LEMMA FailuresExist ==
    ASSUME NEW view \in Views, NEW n \in Nat
    PROVE  \E g : Below(g, n, view)
<1> DEFINE S == {m \in 0 .. n : \E g : Below(g, m, view)}
<1>1. Follows(Docs, view) /\ Agree(Docs, view, view)
  BY ImportsAre DEF Follows, Agree
<1>2. 0 \in S
  <2> DEFINE h == [at \in Places(0) |-> visit(at[1], view, at[2], <<>>)]
  <2>1. ASSUME NEW at \in Places(0) PROVE visit(at[1], view, at[2], <<>>) = visit(at[1], view, at[2], h)
    <3>1. at[1] \in Docs /\ at[2] \in SUBSET Docs /\ Docs \ at[2] = {}
      BY PlacesAre
    <3> HIDE DEF h
    <3> QED
      BY <1>1, <3>1, VisitDepends
  <2>2. h = [at \in Places(0) |-> visit(at[1], view, at[2], h)]
    BY <2>1
  <2> HIDE DEF h
  <2> QED
    BY <2>2 DEF Below
<1>3. ASSUME NEW m \in 0 .. n, m \in S, m < n PROVE m + 1 \in S
  <2>1. PICK g : Below(g, m, view)
    BY <1>3
  <2>2. m \in Nat /\ m + 1 \in Nat /\ m + 1 \in 0 .. n /\ m + 1 - 1 = m
    BY <1>3
  <2> DEFINE h == [at \in Places(m + 1) |-> visit(at[1], view, at[2], g)]
  <2>3. \A at \in Places(m) : at \in Places(m + 1)
    <3>1. \A stack \in SUBSET Docs : Left(stack) \in Nat
      BY LeftFacts
    <3> QED
      BY <2>2, <3>1 DEF Places
  <2>4. \A at \in Places(m) : h[at] = g[at]
    BY <2>1, <2>3 DEF Below
  <2>5. ASSUME NEW at \in Places(m + 1) PROVE visit(at[1], view, at[2], g) = visit(at[1], view, at[2], h)
    <3>1. at[1] \in Docs /\ at[2] \in SUBSET Docs
      BY <2>2, PlacesAre
    <3>2. \A e \in Docs \ at[2] : <<e, at[2] \cup {e}>> \in Places(m)
      BY <2>2, PlacesAre
    <3>3. \A e \in Docs \ at[2] : g[<<e, at[2] \cup {e}>>] = h[<<e, at[2] \cup {e}>>]
      BY <2>4, <3>2
    <3> HIDE DEF h
    <3> QED
      BY <1>1, <3>1, <3>3, VisitDepends
  <2>6. h = [at \in Places(m + 1) |-> visit(at[1], view, at[2], h)]
    BY <2>5
  <2> HIDE DEF h
  <2> QED
    BY <2>2, <2>6 DEF Below
<1> HIDE DEF S
<1>4. \A m \in 0 .. n : m \in S
  <2>1. \A m \in 0 .. n : m \in S /\ m < n => m + 1 \in S
    BY <1>3
  <2> QED
    BY <1>2, <2>1, UpTo
<1> QED
  BY <1>4 DEF S

LEMMA FailuresAre ==
    ASSUME NEW view \in Views
    PROVE  \A d \in Docs, stack \in SUBSET Docs :
               Failures(view)[<<d, stack>>] = visit(d, view, stack, Failures(view))
<1> DEFINE n == Cardinality(Docs)
<1>1. n \in Nat /\ \A stack \in SUBSET Docs : Left(stack) <= n
  <2>1. \A stack \in SUBSET Docs : Left(stack) \in 0 .. n /\ n \in Nat
    BY LeftFacts
  <2> QED
    BY <2>1
<1>2. Places(n) = Docs \X SUBSET Docs
  BY <1>1 DEF Places
<1> HIDE DEF n
<1>3. Failures(view) = CHOOSE g : Below(g, n, view)
  BY <1>2 DEF Failures, Below
<1>4. Below(Failures(view), n, view)
  BY <1>1, <1>3, FailuresExist
<1> DEFINE g == Failures(view)
<1>5. g = [at \in Docs \X SUBSET Docs |-> visit(at[1], view, at[2], g)]
  BY <1>2, <1>4 DEF Below
<1> HIDE DEF g
<1>6. ASSUME NEW d \in Docs, NEW stack \in SUBSET Docs PROVE g[<<d, stack>>] = visit(d, view, stack, g)
  <2>1. <<d, stack>> \in Docs \X SUBSET Docs /\ <<d, stack>>[1] = d /\ <<d, stack>>[2] = stack
    OBVIOUS
  <2> QED
    BY <1>5, <2>1
<1> QED
  BY <1>6 DEF g


\* What goes wrong first depends on the documents that are reached.
LEMMA FailureDepends ==
    ASSUME NEW d \in Docs, NEW v \in Views, NEW w \in Views, Agree(Reached(d, v), v, w)
    PROVE  Failure(d, v) = Failure(d, w)
<1> DEFINE R == Reached(d, v)
           f == Failures(v)
           g == Failures(w)
           n == Cardinality(Docs)
           Same(m) == \A e \in R, stack \in SUBSET Docs : Left(stack) <= m => f[<<e, stack>>] = g[<<e, stack>>]
           S == {m \in 0 .. n : Same(m)}
<1>1. R \subseteq Docs /\ d \in R /\ Follows(R, v)
  BY ReachedFacts
<1>2. n \in Nat /\ \A stack \in SUBSET Docs : Left(stack) \in 0 .. n
  BY LeftFacts
<1>3. \A e \in R, stack \in SUBSET Docs :
          f[<<e, stack>>] = visit(e, v, stack, f) /\ g[<<e, stack>>] = visit(e, w, stack, g)
  BY <1>1, FailuresAre
<1> HIDE DEF f, g, R, n
<1>4. ASSUME NEW e \in R, NEW stack \in SUBSET Docs,
             \A i \in R \ stack : f[<<i, stack \cup {i}>>] = g[<<i, stack \cup {i}>>]
      PROVE  f[<<e, stack>>] = g[<<e, stack>>]
  <2>1. visit(e, v, stack, f) = visit(e, w, stack, g)
    BY <1>1, <1>4, VisitDepends DEF R
  <2> QED
    BY <1>3, <2>1
<1>5. 0 \in S
  <2>1. ASSUME NEW e \in R, NEW stack \in SUBSET Docs, Left(stack) <= 0
        PROVE  f[<<e, stack>>] = g[<<e, stack>>]
    <3>1. Left(stack) = 0
      BY <1>2, <2>1
    <3>2. \A i \in Docs \ stack : FALSE
      BY <3>1, LeftFacts
    <3>3. \A i \in R \ stack : FALSE
      BY <1>1, <3>2
    <3> QED
      BY <1>4, <3>3
  <2> QED
    BY <1>2, <2>1
<1>6. ASSUME NEW m \in 0 .. n, m \in S, m < n PROVE m + 1 \in S
  <2>1. m + 1 \in 0 .. n /\ m \in Nat /\ Same(m)
    BY <1>2, <1>6
  <2>2. ASSUME NEW e \in R, NEW stack \in SUBSET Docs, Left(stack) <= m + 1
        PROVE  f[<<e, stack>>] = g[<<e, stack>>]
    <3>1. ASSUME NEW i \in R \ stack PROVE f[<<i, stack \cup {i}>>] = g[<<i, stack \cup {i}>>]
      <4>1. i \in Docs /\ stack \cup {i} \in SUBSET Docs
        BY <1>1
      <4>2. Left(stack \cup {i}) <= m
        <5>1. Left(stack \cup {i}) = Left(stack) - 1 /\ Left(stack) \in Nat
          BY <1>2, <4>1, LeftFacts
        <5> QED
          BY <2>1, <2>2, <5>1
      <4> QED
        BY <2>1, <4>1, <4>2
    <3> QED
      BY <1>4, <3>1
  <2> QED
    BY <2>1, <2>2
<1>7. Same(n)
  <2> HIDE DEF S
  <2>1. \A m \in 0 .. n : m \in S /\ m < n => m + 1 \in S
    BY <1>6
  <2>2. \A m \in 0 .. n : m \in S
    BY <1>2, <1>5, <2>1, UpTo
  <2>3. n \in 0 .. n
    BY <1>2
  <2> QED
    BY <2>2, <2>3 DEF S
<1>8. f[<<d, {d}>>] = g[<<d, {d}>>]
  BY <1>1, <1>2, <1>7
<1> QED
  BY <1>8 DEF Failure, f, g

\* So does the whole analysis.
LEMMA AnalysisDepends ==
    ASSUME NEW d \in Docs, NEW v \in Views, NEW w \in Views, Agree(Reached(d, v), v, w)
    PROVE  resolved[d][v] = resolved[d][w]
<1> DEFINE result(view) ==
               LET f == Failure(d, view)
                   text == view[d]
               IN  CASE text = Absent -> Nothing
                     [] text \in Broken -> Diagnosis("syntax", text, {})
                     [] text \in Texts \ Broken /\ f # Fine -> fail_soft_diags(f, d, text)
                     [] OTHER -> Diagnosis("checked", text, {<<e, view[e]>> : e \in Reached(d, view)})
<1>1. resolved[d][v] = result(v) /\ resolved[d][w] = result(w)
  BY DEF resolved
<1>2. Failure(d, v) = Failure(d, w)
  BY FailureDepends
<1>3. v[d] = w[d]
  BY ReachedFacts DEF Agree
<1>4. {<<e, v[e]>> : e \in Reached(d, v)} = {<<e, w[e]>> : e \in Reached(d, w)}
  BY SameReached DEF Agree
<1> QED
  BY <1>1, <1>2, <1>3, <1>4


\* An analysis of the stored text depends on the view alone.
LEMMA AnalysisIs ==
    ASSUME NEW d \in Docs, NEW texts \in Views, NEW files \in Views, texts[d] # Absent
    PROVE  analyze_str_at(d, texts[d], texts, files) =
               IF texts[d] \in Broken THEN Diagnosis("syntax", texts[d], {})
               ELSE IF View(texts, files)[d] = Absent THEN single_module_diags(texts[d])
               ELSE resolved[d][View(texts, files)]
<1> DEFINE view == View(texts, files)
<1>1. view \in Views /\ (files[d] = Absent <=> view[d] = Absent)
  BY DEF View, Views
<1>2. files[d] # Absent => [view EXCEPT ![d] = texts[d]] = view
  BY DEF View, Views
<1> QED
  BY <1>1, <1>2 DEF analyze_str_at

-----------------------------------------------------------------------------
(* Messages                                                                  *)

Messages ==
    {m \in [kind : {"open", "change", "save", "close", "format"}, doc : Docs, texts : Seq(Texts)] :
        /\ m.kind = "open" => Len(m.texts) = 1
        /\ m.kind = "change" => m.texts # <<>>
        /\ m.kind = "save" => Len(m.texts) <= 1}
Diagnoses ==
    {Nothing} \cup {analyze_str_at(of[1], of[2], of[3], of[4]) : of \in Docs \X Texts \X Views \X Views}
Replies ==
    [kind : {"publish"}, doc : Docs, of : Diagnoses]
    \cup [kind : {"edit"}, doc : Docs, of : [base : Texts, text : Texts]]
ServerTypeOK ==
    /\ disk \in Views /\ buffer \in Views /\ docs \in Views
    /\ inbox \in Seq(Messages) /\ outbox \in Seq(Replies)
    /\ shown \in [Docs -> Diagnoses]
    /\ changed \in [Docs -> SUBSET Docs]
    /\ events \in Nat

\* The last message about the text of d tells the text the editor has; without one, the
\* server has it.
Carries(m, d) ==
    m.doc = d /\ (m.kind \in {"open", "change", "close"} \/ (m.kind = "save" /\ m.texts # <<>>))
TextOf(m) == IF m.kind = "close" THEN Absent ELSE Last(m.texts)
CatchesUp(messages, text, d, x) ==
    \/ text = x /\ \A k \in DOMAIN messages : ~Carries(messages[k], d)
    \/ \E k \in DOMAIN messages :
           /\ Carries(messages[k], d) /\ TextOf(messages[k]) = x
           /\ \A j \in DOMAIN messages : Carries(messages[j], d) => j <= k
\* The last diagnostics published for d, or without any the ones shown, are x.
IsFor(m, d) == m.kind = "publish" /\ m.doc = d
Settles(replies, diagnosis, d, x) ==
    \/ diagnosis = x /\ \A k \in DOMAIN replies : ~IsFor(replies[k], d)
    \/ \E k \in DOMAIN replies :
           /\ IsFor(replies[k], d) /\ replies[k].of = x
           /\ \A j \in DOMAIN replies : IsFor(replies[j], d) => j <= k

LEMMA AnalysisType ==
    ASSUME NEW d \in Docs, NEW t \in Texts, NEW texts \in Views, NEW files \in Views
    PROVE  analyze_str_at(d, t, texts, files) \in Diagnoses
<1> DEFINE of == <<d, t, texts, files>>
<1>1. of \in Docs \X Texts \X Views \X Views /\ of[1] = d /\ of[2] = t /\ of[3] = texts /\ of[4] = files
  OBVIOUS
<1> HIDE DEF of
<1> QED
  BY <1>1 DEF Diagnoses

LEMMA OneMore ==
    ASSUME NEW S, NEW s \in Seq(S), NEW m \in S
    PROVE  /\ Append(s, m) \in Seq(S) /\ Len(s) \in Nat
           /\ DOMAIN s = 1 .. Len(s) /\ DOMAIN Append(s, m) = 1 .. Len(s) + 1
           /\ Append(s, m)[Len(s) + 1] = m /\ \A k \in 1 .. Len(s) : Append(s, m)[k] = s[k]
OBVIOUS
LEMMA OneLess ==
    ASSUME NEW S, NEW s \in Seq(S), s # <<>>
    PROVE  /\ s[1] \in S /\ Tail(s) \in Seq(S) /\ Len(s) \in Nat \ {0}
           /\ DOMAIN s = 1 .. Len(s) /\ DOMAIN Tail(s) = 1 .. Len(s) - 1
           /\ \A k \in 1 .. Len(s) - 1 : Tail(s)[k] = s[k + 1]
OBVIOUS

LEMMA CatchesUpSent ==
    ASSUME NEW messages \in Seq(Messages), NEW m \in Messages, NEW text, NEW d \in Docs, NEW x,
           CatchesUp(messages, text, d, x)
    PROVE  /\ Carries(m, d) => CatchesUp(Append(messages, m), text, d, TextOf(m))
           /\ ~Carries(m, d) => CatchesUp(Append(messages, m), text, d, x)
<1> DEFINE n == Len(messages)
           longer == Append(messages, m)
<1>1. /\ n \in Nat /\ DOMAIN messages = 1 .. n /\ DOMAIN longer = 1 .. n + 1
      /\ longer[n + 1] = m /\ \A k \in 1 .. n : longer[k] = messages[k]
  BY OneMore
<1> HIDE DEF longer, n
<1>2. ASSUME Carries(m, d) PROVE CatchesUp(longer, text, d, TextOf(m))
  BY <1>1, <1>2 DEF CatchesUp
<1>3. ASSUME ~Carries(m, d) PROVE CatchesUp(longer, text, d, x)
  <2>1. CASE text = x /\ \A k \in DOMAIN messages : ~Carries(messages[k], d)
    <3>1. \A k \in DOMAIN longer : ~Carries(longer[k], d)
      BY <1>1, <1>3, <2>1
    <3> QED
      BY <2>1, <3>1 DEF CatchesUp
  <2>2. ASSUME NEW k \in DOMAIN messages, Carries(messages[k], d), TextOf(messages[k]) = x,
               \A j \in DOMAIN messages : Carries(messages[j], d) => j <= k
        PROVE  CatchesUp(longer, text, d, x)
    <3>1. k \in DOMAIN longer /\ longer[k] = messages[k]
      BY <1>1
    <3>2. \A j \in DOMAIN longer : Carries(longer[j], d) => j <= k
      BY <1>1, <1>3, <2>2
    <3> QED
      BY <2>2, <3>1, <3>2 DEF CatchesUp
  <2> QED
    BY <2>1, <2>2 DEF CatchesUp
<1> QED
  BY <1>2, <1>3 DEF longer

LEMMA CatchesUpTaken ==
    ASSUME NEW messages \in Seq(Messages), messages # <<>>, NEW text, NEW d \in Docs, NEW x,
           CatchesUp(messages, text, d, x)
    PROVE  /\ Carries(messages[1], d) => CatchesUp(Tail(messages), TextOf(messages[1]), d, x)
           /\ ~Carries(messages[1], d) => CatchesUp(Tail(messages), text, d, x)
<1> DEFINE n == Len(messages)
           rest == Tail(messages)
           after == IF Carries(messages[1], d) THEN TextOf(messages[1]) ELSE text
<1>1. /\ n \in Nat \ {0} /\ DOMAIN messages = 1 .. n /\ DOMAIN rest = 1 .. n - 1
      /\ \A k \in 1 .. n - 1 : rest[k] = messages[k + 1]
  BY OneLess
<1> HIDE DEF rest, n
<1>2. CASE text = x /\ \A k \in DOMAIN messages : ~Carries(messages[k], d)
  <2>1. ~Carries(messages[1], d)
    BY <1>1, <1>2
  <2>2. \A k \in DOMAIN rest : ~Carries(rest[k], d)
    BY <1>1, <1>2
  <2> QED
    BY <1>2, <2>1, <2>2 DEF CatchesUp, rest
<1>3. ASSUME NEW k \in DOMAIN messages, Carries(messages[k], d), TextOf(messages[k]) = x,
             \A j \in DOMAIN messages : Carries(messages[j], d) => j <= k
      PROVE  CatchesUp(rest, after, d, x)
  <2>1. CASE k = 1
    <3>1. \A j \in DOMAIN rest : ~Carries(rest[j], d)
      BY <1>1, <1>3, <2>1
    <3> QED
      BY <1>3, <2>1, <3>1 DEF CatchesUp
  <2>2. CASE k # 1
    <3>1. k - 1 \in DOMAIN rest /\ rest[k - 1] = messages[k]
      BY <1>1, <2>2
    <3>2. \A j \in DOMAIN rest : Carries(rest[j], d) => j <= k - 1
      BY <1>1, <1>3
    <3> QED
      BY <1>3, <3>1, <3>2 DEF CatchesUp
  <2> QED
    BY <2>1, <2>2
<1> QED
  BY <1>2, <1>3 DEF CatchesUp, rest

LEMMA SettlesSent ==
    ASSUME NEW replies \in Seq(Replies), NEW m \in Replies, NEW old, NEW d \in Docs, NEW x,
           Settles(replies, old, d, x) \/ IsFor(m, d)
    PROVE  /\ IsFor(m, d) => Settles(Append(replies, m), old, d, m.of)
           /\ ~IsFor(m, d) => Settles(Append(replies, m), old, d, x)
<1> DEFINE n == Len(replies)
           longer == Append(replies, m)
<1>1. /\ n \in Nat /\ DOMAIN replies = 1 .. n /\ DOMAIN longer = 1 .. n + 1
      /\ longer[n + 1] = m /\ \A k \in 1 .. n : longer[k] = replies[k]
  BY OneMore
<1> HIDE DEF longer, n
<1>2. ASSUME IsFor(m, d) PROVE Settles(longer, old, d, m.of)
  BY <1>1, <1>2 DEF Settles
<1>3. ASSUME ~IsFor(m, d) PROVE Settles(longer, old, d, x)
  <2>1. CASE old = x /\ \A k \in DOMAIN replies : ~IsFor(replies[k], d)
    <3>1. \A k \in DOMAIN longer : ~IsFor(longer[k], d)
      BY <1>1, <1>3, <2>1
    <3> QED
      BY <2>1, <3>1 DEF Settles
  <2>2. ASSUME NEW k \in DOMAIN replies, IsFor(replies[k], d), replies[k].of = x,
               \A j \in DOMAIN replies : IsFor(replies[j], d) => j <= k
        PROVE  Settles(longer, old, d, x)
    <3>1. k \in DOMAIN longer /\ longer[k] = replies[k]
      BY <1>1
    <3>2. \A j \in DOMAIN longer : IsFor(longer[j], d) => j <= k
      BY <1>1, <1>3, <2>2
    <3> QED
      BY <2>2, <3>1, <3>2 DEF Settles
  <2> QED
    BY <1>3, <2>1, <2>2 DEF Settles
<1> QED
  BY <1>2, <1>3 DEF longer

LEMMA SettlesTaken ==
    ASSUME NEW replies \in Seq(Replies), replies # <<>>, NEW old, NEW d \in Docs, NEW x,
           Settles(replies, old, d, x)
    PROVE  /\ IsFor(replies[1], d) => Settles(Tail(replies), replies[1].of, d, x)
           /\ ~IsFor(replies[1], d) => Settles(Tail(replies), old, d, x)
<1> DEFINE n == Len(replies)
           rest == Tail(replies)
           after == IF IsFor(replies[1], d) THEN replies[1].of ELSE old
<1>1. /\ n \in Nat \ {0} /\ DOMAIN replies = 1 .. n /\ DOMAIN rest = 1 .. n - 1
      /\ \A k \in 1 .. n - 1 : rest[k] = replies[k + 1]
  BY OneLess
<1> HIDE DEF rest, n
<1>2. CASE old = x /\ \A k \in DOMAIN replies : ~IsFor(replies[k], d)
  <2>1. ~IsFor(replies[1], d)
    BY <1>1, <1>2
  <2>2. \A k \in DOMAIN rest : ~IsFor(rest[k], d)
    BY <1>1, <1>2
  <2> QED
    BY <1>2, <2>1, <2>2 DEF Settles, rest
<1>3. ASSUME NEW k \in DOMAIN replies, IsFor(replies[k], d), replies[k].of = x,
             \A j \in DOMAIN replies : IsFor(replies[j], d) => j <= k
      PROVE  Settles(rest, after, d, x)
  <2>1. CASE k = 1
    <3>1. \A j \in DOMAIN rest : ~IsFor(rest[j], d)
      BY <1>1, <1>3, <2>1
    <3> QED
      BY <1>3, <2>1, <3>1 DEF Settles
  <2>2. CASE k # 1
    <3>1. k - 1 \in DOMAIN rest /\ rest[k - 1] = replies[k]
      BY <1>1, <2>2
    <3>2. \A j \in DOMAIN rest : IsFor(rest[j], d) => j <= k - 1
      BY <1>1, <1>3
    <3> QED
      BY <1>3, <3>1, <3>2 DEF Settles
  <2> QED
    BY <2>1, <2>2
<1> QED
  BY <1>2, <1>3 DEF Settles, rest


-----------------------------------------------------------------------------
(* The inductive invariant                                                   *)

CatchUpInv == \A d \in Docs : CatchesUp(inbox, docs[d], d, buffer[d])
\* What will be shown for a stored document is what its analysis would find now, unless
\* something it reaches is not what it was when it was analysed.
FreshAt(d) ==
    docs[d] # Absent =>
        \/ changed[d] \cap Reached(d, View(docs, disk)) # {}
        \/ Settles(outbox, shown[d], d, analyze_str_at(d, docs[d], docs, disk))
FreshInv == \A d \in Docs : FreshAt(d)
ServerInv == ServerTypeOK /\ CatchUpInv /\ FreshInv

LEMMA ViewType ==
    ASSUME NEW texts \in Views, NEW files \in Views
    PROVE  View(texts, files) \in Views
BY DEF View, Views

LEMMA InitServerInv == ServerInit => ServerInv
<1> SUFFICES ASSUME ServerInit PROVE ServerInv
  OBVIOUS
<1>1. /\ disk \in Views /\ buffer = [d \in Docs |-> Absent] /\ docs = buffer
      /\ inbox = <<>> /\ outbox = <<>> /\ events = 0
      /\ shown = [d \in Docs |-> Nothing] /\ changed = [d \in Docs |-> {}]
  BY DEF ServerInit, Views
<1>2. ServerTypeOK
  <2>1. buffer \in Views /\ docs \in Views
    BY <1>1 DEF Views
  <2>2. shown \in [Docs -> Diagnoses] /\ changed \in [Docs -> SUBSET Docs]
    BY <1>1 DEF Diagnoses
  <2> QED
    BY <1>1, <2>1, <2>2 DEF ServerTypeOK
<1>3. CatchUpInv
  BY <1>1 DEF CatchUpInv, CatchesUp
<1>4. FreshInv
  BY <1>1 DEF FreshInv, FreshAt
<1> QED
  BY <1>2, <1>3, <1>4 DEF ServerInv

\* A document whose text stays stays fresh, or what changed under it is noted.
LEMMA StillFresh ==
    ASSUME ServerTypeOK, ServerTypeOK', NEW d \in Docs, FreshAt(d), docs'[d] = docs[d],
           changed'[d] = changed[d] \cup {e \in Docs : View(docs', disk')[e] # View(docs, disk)[e]},
           \A x : Settles(outbox, shown[d], d, x) => Settles(outbox', shown'[d], d, x)
    PROVE  FreshAt(d)'
<1> DEFINE old == View(docs, disk)
           new == View(docs', disk')
<1>1. old \in Views /\ new \in Views
  BY ViewType DEF ServerTypeOK
<1>2. docs \in Views /\ disk \in Views /\ docs' \in Views /\ disk' \in Views
  BY DEF ServerTypeOK
<1> SUFFICES ASSUME docs'[d] # Absent, changed'[d] \cap Reached(d, new) = {}
             PROVE  Settles(outbox', shown'[d], d, analyze_str_at(d, docs'[d], docs', disk'))
  BY DEF FreshAt
<1>3. changed[d] \cap Reached(d, new) = {} /\ \A e \in Docs : e \in Reached(d, new) => new[e] = old[e]
  <2> HIDE DEF new, old
  <2> QED
    BY DEF new, old
<1> HIDE DEF old, new
<1>4. Agree(Reached(d, new), new, old)
  BY <1>1, <1>3, ReachedFacts DEF Agree
<1>5. Reached(d, old) = Reached(d, new) /\ new[d] = old[d] /\ resolved[d][new] = resolved[d][old]
  BY <1>1, <1>3, <1>4, SameReached, ReachedFacts, AnalysisDepends
<1>6. Settles(outbox, shown[d], d, analyze_str_at(d, docs[d], docs, disk))
  BY <1>3, <1>5 DEF FreshAt, old
<1>7. analyze_str_at(d, docs[d], docs, disk) = analyze_str_at(d, docs'[d], docs', disk')
  <2>1. analyze_str_at(d, docs[d], docs, disk) =
            IF docs[d] \in Broken THEN Diagnosis("syntax", docs[d], {})
            ELSE IF old[d] = Absent THEN single_module_diags(docs[d]) ELSE resolved[d][old]
    BY <1>2, AnalysisIs DEF old
  <2>2. analyze_str_at(d, docs'[d], docs', disk') =
            IF docs'[d] \in Broken THEN Diagnosis("syntax", docs'[d], {})
            ELSE IF new[d] = Absent THEN single_module_diags(docs'[d]) ELSE resolved[d][new]
    BY <1>2, AnalysisIs DEF new
  <2> QED
    BY <1>5, <2>1, <2>2
<1> QED
  BY <1>6, <1>7

-----------------------------------------------------------------------------
(* The server's steps                                                        *)

LEMMA ReceivedIs ==
    ASSUME ServerTypeOK, NEW kind, Received(kind)
    PROVE  /\ inbox # <<>> /\ inbox[1] \in Messages /\ inbox[1].kind = kind /\ inbox[1].doc \in Docs
           /\ inbox' = Tail(inbox) /\ inbox' \in Seq(Messages)
<1>1. inbox # <<>> /\ inbox \in Seq(Messages) /\ inbox' = Tail(inbox) /\ inbox[1].kind = kind
  BY DEF Received, ServerTypeOK
<1>2. inbox[1] \in Messages /\ Tail(inbox) \in Seq(Messages)
  BY <1>1, OneLess
<1>3. inbox[1].doc \in Docs
  BY <1>2 DEF Messages
<1> QED
  BY <1>1, <1>2, <1>3

\* What the number of texts in a message says of them.
LEMMA TextsCounted ==
    ASSUME NEW t \in Seq(Texts)
    PROVE  /\ Len(t) = 1 => t # <<>>
           /\ Len(t) <= 1 /\ t # <<>> => Len(t) = 1
           /\ t # <<>> => t[Len(t)] \in Texts
<1>1. (t = <<>> <=> Len(t) = 0) /\ Len(t) \in Nat
  BY EmptySeq, LenProperties
<1>2. Len(t) # 0 => t[Len(t)] \in Texts
  BY <1>1
<1>3. 1 # 0 /\ \A n \in Nat : n <= 1 /\ n # 0 => n = 1
  OBVIOUS
<1> QED
  BY <1>1, <1>2, <1>3, Zenon

LEMMA TextsAre ==
    ASSUME NEW m \in Messages
    PROVE  /\ m.kind \in {"open", "change"} => m.texts # <<>>
           /\ m.texts # <<>> => Last(m.texts) \in Texts
           /\ m.kind \in {"open", "save"} /\ m.texts # <<>> => m.texts[1] = Last(m.texts)
<1>1. /\ m.texts \in Seq(Texts)
      /\ m.kind = "open" => Len(m.texts) = 1
      /\ m.kind = "change" => m.texts # <<>>
      /\ m.kind = "save" => Len(m.texts) <= 1
  BY DEF Messages
<1> DEFINE t == m.texts
<1>2. /\ Len(t) = 1 => t # <<>>
      /\ Len(t) <= 1 /\ t # <<>> => Len(t) = 1
      /\ t # <<>> => t[Len(t)] \in Texts
  <2>1. t \in Seq(Texts)
    BY <1>1
  <2> HIDE DEF t
  <2> QED
    BY <2>1, TextsCounted
<1>3. /\ m.kind = "open" => Len(t) = 1
      /\ m.kind = "change" => t # <<>>
      /\ m.kind = "save" => Len(t) <= 1
  BY <1>1
<1>4. Last(t) = t[Len(t)]
  BY DEF Last
<1> HIDE DEF t
<1>5. /\ m.kind \in {"open", "change"} => t # <<>>
      /\ t # <<>> => Last(t) \in Texts
      /\ m.kind \in {"open", "save"} /\ t # <<>> => t[1] = Last(t)
  BY <1>2, <1>3, <1>4
<1> QED
  BY <1>5 DEF t

\* After a change d is fresh, and the others are told.
LEMMA ChangeStep ==
    ASSUME ServerInv, NEW d \in Docs, NEW text \in Texts, on_change(d, text), UNCHANGED <<disk, shown, events, buffer>>,
           inbox' \in Seq(Messages)
    PROVE  ServerTypeOK' /\ FreshInv'
<1> DEFINE now == [docs EXCEPT ![d] = text]
           found == analyze_str_at(d, text, now, disk)
<1>1. docs \in Views /\ disk \in Views /\ outbox \in Seq(Replies) /\ shown \in [Docs -> Diagnoses]
      /\ changed \in [Docs -> SUBSET Docs]
  BY DEF ServerInv, ServerTypeOK
<1>2. /\ docs' = now /\ outbox' = Append(outbox, Publish(d, found))
      /\ changed' = [e \in Docs |-> IF e = d THEN {} ELSE changed[e] \cup Differing(now, disk)]
  BY DEF on_change
<1>3. now \in Views
  BY <1>1 DEF Views
<1>4. Publish(d, found) \in Replies
  <2>1. found \in Diagnoses
    BY <1>1, <1>3, AnalysisType
  <2> HIDE DEF found
  <2> QED
    BY <2>1 DEF Publish, Replies
<1>5. IsFor(Publish(d, found), d) /\ Publish(d, found).of = found /\ \A e \in Docs : e # d => ~IsFor(Publish(d, found), e)
  BY DEF IsFor, Publish
<1>6. now[d] = text /\ \A e \in Docs : e # d => now[e] = docs[e]
  BY <1>1 DEF Views
<1> HIDE DEF found, now
<1>7. ServerTypeOK'
  <2>1. outbox' \in Seq(Replies)
    BY <1>1, <1>2, <1>4, OneMore
  <2>2. changed' \in [Docs -> SUBSET Docs]
    BY <1>1, <1>2 DEF Differing
  <2> QED
    BY <1>2, <1>3, <2>1, <2>2 DEF ServerInv, ServerTypeOK
<1>8. FreshAt(d)'
  <2>1. Settles(outbox', shown[d], d, found)
    BY <1>1, <1>2, <1>4, <1>5, SettlesSent
  <2> QED
    BY <1>2, <1>6, <2>1 DEF FreshAt, found
<1>9. ASSUME NEW e \in Docs, e # d PROVE FreshAt(e)'
  <2>1. ASSUME NEW x, Settles(outbox, shown[e], e, x) PROVE Settles(outbox', shown'[e], e, x)
    BY <1>1, <1>2, <1>4, <1>5, <1>9, <2>1, SettlesSent
  <2>2. changed'[e] = changed[e] \cup {i \in Docs : View(docs', disk')[i] # View(docs, disk)[i]}
    BY <1>2, <1>9 DEF Differing
  <2>3. docs'[e] = docs[e] /\ FreshAt(e)
    BY <1>2, <1>6, <1>9 DEF ServerInv, FreshInv
  <2> QED
    BY <1>7, <2>1, <2>2, <2>3, StillFresh DEF ServerInv
<1> QED
  BY <1>7, <1>8, <1>9 DEF FreshInv

\* The server takes a message: what is left of them tells the rest.
LEMMA TakeStep ==
    ASSUME ServerInv, NEW kind, Received(kind), buffer' = buffer, docs' \in Views,
           \A d \in Docs : docs'[d] = IF Carries(inbox[1], d) THEN TextOf(inbox[1]) ELSE docs[d]
    PROVE  CatchUpInv'
<1>1. inbox \in Seq(Messages) /\ inbox # <<>> /\ inbox' = Tail(inbox)
  BY ReceivedIs DEF ServerInv, ServerTypeOK
<1>2. ASSUME NEW d \in Docs PROVE CatchesUp(inbox', docs'[d], d, buffer'[d])
  <2>1. CatchesUp(inbox, docs[d], d, buffer[d])
    BY DEF ServerInv, CatchUpInv
  <2> QED
    BY <1>1, <2>1, CatchesUpTaken
<1> QED
  BY <1>2 DEF CatchUpInv

LEMMA OpenedOrChanged ==
    ASSUME ServerInv, did_open \/ did_change
    PROVE  ServerInv'
<1> DEFINE m == inbox[1]
           text == Last(m.texts)
<1>1. PICK kind \in {"open", "change"} : Received(kind) /\ Unmoved /\ on_change(m.doc, text)
  <2>1. CASE did_open
    <3>1. m \in Messages /\ m.kind = "open" /\ Received("open")
      BY <2>1, ReceivedIs DEF did_open, ServerInv
    <3>2. m.texts[1] = text
      BY <3>1, TextsAre
    <3> QED
      BY <2>1, <3>2 DEF did_open
  <2>2. CASE did_change
    BY <2>2 DEF did_change
  <2> QED
    BY <2>1, <2>2
<1>2. /\ m \in Messages /\ m.kind = kind /\ m.doc \in Docs /\ inbox' \in Seq(Messages)
  BY <1>1, ReceivedIs DEF ServerInv
<1>3. text \in Texts /\ TextOf(m) = text
  BY <1>2, TextsAre DEF TextOf
<1>4. docs' = [docs EXCEPT ![m.doc] = text]
  BY <1>1 DEF on_change
<1>5. \A d \in Docs : Carries(m, d) <=> d = m.doc
  BY <1>2 DEF Carries
<1> HIDE DEF m, text
<1>6. ServerTypeOK' /\ FreshInv'
  BY <1>1, <1>2, <1>3, ChangeStep DEF Unmoved
<1>7. CatchUpInv'
  <2>1. docs \in Views /\ docs' \in Views
    BY <1>6 DEF ServerInv, ServerTypeOK
  <2>2. \A d \in Docs : docs'[d] = IF Carries(m, d) THEN TextOf(m) ELSE docs[d]
    BY <1>3, <1>4, <1>5, <2>1 DEF Views
  <2> QED
    BY <1>1, <2>1, <2>2, TakeStep DEF Unmoved, m
<1> QED
  BY <1>6, <1>7 DEF ServerInv

\* Where neither the texts nor the files change, what is to be shown stays.
LEMMA NothingMoved ==
    ASSUME ServerInv, ServerTypeOK', UNCHANGED <<docs, disk, changed>>,
           \A d \in Docs : \A x : Settles(outbox, shown[d], d, x) => Settles(outbox', shown'[d], d, x)
    PROVE  FreshInv'
<1>1. ASSUME NEW d \in Docs PROVE FreshAt(d)'
  <2>1. changed'[d] = changed[d] \cup {e \in Docs : View(docs', disk')[e] # View(docs, disk)[e]}
    OBVIOUS
  <2> QED
    BY <2>1, StillFresh DEF ServerInv, FreshInv
<1> QED
  BY <1>1 DEF FreshInv

\* Where they do and it is noted, it stays for the documents whose own text is the same.
LEMMA TouchedStep ==
    ASSUME ServerInv, ServerTypeOK', Touched(docs', disk'), UNCHANGED <<outbox, shown>>,
           \A d \in Docs : docs'[d] \in {docs[d], Absent}
    PROVE  FreshInv'
<1>1. ASSUME NEW d \in Docs PROVE FreshAt(d)'
  <2>1. CASE docs'[d] = Absent
    BY <2>1 DEF FreshAt
  <2>2. CASE docs'[d] = docs[d]
    <3>1. changed'[d] = changed[d] \cup {e \in Docs : View(docs', disk')[e] # View(docs, disk)[e]}
      BY DEF Touched, Differing
    <3> QED
      BY <2>2, <3>1, StillFresh DEF ServerInv, FreshInv
  <2> QED
    BY <2>1, <2>2
<1> QED
  BY <1>1 DEF FreshInv

LEMMA Saved ==
    ASSUME ServerInv, did_save
    PROVE  ServerInv'
<1> DEFINE m == inbox[1]
           d == m.doc
           text == IF m.texts # <<>> THEN m.texts[1] ELSE docs[d]
<1>1. Received("save") /\ Unmoved
  BY DEF did_save
<1>2. IF text = Absent THEN UNCHANGED <<docs, outbox, changed>> ELSE on_change(d, text)
  BY DEF did_save
<1>3. m \in Messages /\ m.kind = "save" /\ d \in Docs /\ inbox' \in Seq(Messages)
  BY <1>1, ReceivedIs DEF ServerInv
<1>4. \A e \in Docs : Carries(m, e) <=> e = d /\ m.texts # <<>>
  BY <1>3 DEF Carries
<1>5. m.texts # <<>> => text = TextOf(m) /\ text \in Texts
  BY <1>3, TextsAre DEF TextOf
<1>6. docs \in Views
  BY DEF ServerInv, ServerTypeOK
<1>7. m.texts = <<>> => text = docs[d]
  OBVIOUS
<1>8. text \in Texts \cup {Absent}
  BY <1>3, <1>5, <1>6 DEF Views
<1> HIDE DEF m, d, text
<1>9. ServerTypeOK' /\ FreshInv' /\ (\A e \in Docs : docs'[e] = IF e = d THEN text ELSE docs[e])
  <2>1. CASE text = Absent
    <3>1. UNCHANGED <<docs, outbox, changed, disk, buffer, shown, events>>
      BY <1>1, <1>2, <2>1 DEF Unmoved
    <3>2. ServerTypeOK'
      BY <1>3, <3>1 DEF ServerInv, ServerTypeOK
    <3>3. FreshInv'
      BY <3>1, <3>2, NothingMoved
    <3>4. text = docs[d]
      BY <1>5, <1>7, <2>1, LanguageServerAssumption DEF Absent
    <3> QED
      BY <3>1, <3>2, <3>3, <3>4
  <2>2. CASE text # Absent
    <3>1. on_change(d, text) /\ text \in Texts
      BY <1>2, <1>8, <2>2
    <3>2. ServerTypeOK' /\ FreshInv'
      BY <1>1, <1>3, <3>1, ChangeStep DEF Unmoved
    <3>3. docs' = [docs EXCEPT ![d] = text]
      BY <3>1 DEF on_change
    <3> QED
      BY <1>6, <3>2, <3>3 DEF Views
  <2> QED
    BY <2>1, <2>2
<1>10. CatchUpInv'
  <2>1. docs' \in Views
    BY <1>9 DEF ServerTypeOK
  <2>2. \A e \in Docs : docs'[e] = IF Carries(m, e) THEN TextOf(m) ELSE docs[e]
    BY <1>4, <1>5, <1>7, <1>9
  <2> QED
    BY <1>1, <2>1, <2>2, TakeStep DEF Unmoved, m
<1> QED
  BY <1>9, <1>10 DEF ServerInv

LEMMA Closed ==
    ASSUME ServerInv, did_close
    PROVE  ServerInv'
<1> DEFINE m == inbox[1]
           d == m.doc
<1>1. /\ Received("close") /\ Unmoved /\ UNCHANGED outbox
      /\ docs' = [docs EXCEPT ![d] = Absent] /\ Touched([docs EXCEPT ![d] = Absent], disk)
  BY DEF did_close
<1>2. m \in Messages /\ m.kind = "close" /\ d \in Docs /\ inbox' \in Seq(Messages)
  BY <1>1, ReceivedIs DEF ServerInv
<1>3. docs \in Views /\ docs' \in Views /\ changed \in [Docs -> SUBSET Docs]
  BY <1>1, <1>2 DEF ServerInv, ServerTypeOK, Views
<1>4. \A e \in Docs : docs'[e] = IF e = d THEN Absent ELSE docs[e]
  BY <1>1, <1>2, <1>3 DEF Views
<1>5. \A e \in Docs : (Carries(m, e) <=> e = d) /\ TextOf(m) = Absent
  BY <1>2 DEF Carries, TextOf
<1>6. Touched(docs', disk')
  BY <1>1 DEF Unmoved, Touched, Differing
<1>7. changed' \in [Docs -> SUBSET Docs]
  BY <1>3, <1>6 DEF Touched, Differing
<1> HIDE DEF m, d
<1>8. ServerTypeOK'
  BY <1>1, <1>2, <1>3, <1>7 DEF ServerInv, ServerTypeOK, Unmoved
<1>9. FreshInv'
  BY <1>1, <1>4, <1>6, <1>8, TouchedStep DEF Unmoved
<1>10. CatchUpInv'
  <2>1. \A e \in Docs : docs'[e] = IF Carries(m, e) THEN TextOf(m) ELSE docs[e]
    BY <1>4, <1>5
  <2> QED
    BY <1>1, <1>3, <2>1, TakeStep DEF Unmoved, m
<1> QED
  BY <1>8, <1>9, <1>10 DEF ServerInv

LEMMA Formatted ==
    ASSUME ServerInv, formatting
    PROVE  ServerInv'
<1> DEFINE m == inbox[1]
           original == docs[m.doc]
           out == IF original = Absent THEN <<>> ELSE format_source(original)
           reply == [kind |-> "edit", doc |-> m.doc, of |-> [base |-> original, text |-> out[1]]]
<1>1. /\ Received("format") /\ UNCHANGED <<docs, changed>> /\ Unmoved
      /\ outbox' = IF out = <<>> THEN outbox ELSE Append(outbox, reply)
  BY DEF formatting
<1>2. m \in Messages /\ m.kind = "format" /\ m.doc \in Docs /\ inbox' \in Seq(Messages)
  BY <1>1, ReceivedIs DEF ServerInv
<1>3. docs \in Views /\ outbox \in Seq(Replies)
  BY DEF ServerInv, ServerTypeOK
<1>4. out # <<>> => original \in Texts /\ out[1] \in Texts
  <2>1. original \in Texts \cup {Absent}
    BY <1>2, <1>3 DEF Views
  <2> HIDE DEF original
  <2>2. ASSUME original \in Texts PROVE Tidy[original] \in Texts
    BY <2>2, LanguageServerAssumption
  <2> QED
    BY <2>1, <2>2 DEF format_source
<1>5. out # <<>> => reply \in Replies
  <2> HIDE DEF out, original
  <2> QED
    BY <1>2, <1>4 DEF Replies
<1>6. \A e \in Docs : ~IsFor(reply, e) /\ ~Carries(m, e)
  BY <1>2 DEF IsFor, Carries
<1> HIDE DEF m, out, reply
<1>7. outbox' \in Seq(Replies) /\ \A d \in Docs : \A x : Settles(outbox, shown[d], d, x) => Settles(outbox', shown[d], d, x)
  <2>1. CASE out = <<>>
    BY <1>1, <1>3, <2>1
  <2>2. CASE out # <<>>
    BY <1>1, <1>3, <1>5, <1>6, <2>2, SettlesSent, OneMore
  <2> QED
    BY <2>1, <2>2
<1>8. ServerTypeOK'
  BY <1>1, <1>2, <1>7 DEF ServerInv, ServerTypeOK, Unmoved
<1>9. FreshInv'
  BY <1>1, <1>7, <1>8, NothingMoved DEF Unmoved
<1>10. CatchUpInv'
  BY <1>1, <1>3, <1>6, TakeStep DEF Unmoved, m
<1> QED
  BY <1>8, <1>9, <1>10 DEF ServerInv


-----------------------------------------------------------------------------
(* The editor's steps                                                        *)

LEMMA SendStep ==
    ASSUME ServerInv, NEW m \in Messages, inbox' = Append(inbox, m), docs' = docs,
           \A d \in Docs : buffer'[d] = IF Carries(m, d) THEN TextOf(m) ELSE buffer[d]
    PROVE  CatchUpInv' /\ inbox' \in Seq(Messages)
<1>1. inbox \in Seq(Messages)
  BY DEF ServerInv, ServerTypeOK
<1>2. ASSUME NEW d \in Docs PROVE CatchesUp(inbox', docs'[d], d, buffer'[d])
  <2>1. CatchesUp(inbox, docs[d], d, buffer[d])
    BY DEF ServerInv, CatchUpInv
  <2> QED
    BY <1>1, <2>1, CatchesUpSent
<1> QED
  BY <1>1, <1>2, OneMore DEF CatchUpInv

\* A message with the text that is now in the buffer, or with none where there is none.
Message(kind, d, texts) == [kind |-> kind, doc |-> d, texts |-> texts]
LEMMA BufferStep ==
    ASSUME ServerInv, NEW d \in Docs, NEW m \in Messages, m.doc = d, m.kind \in {"open", "change", "close"},
           inbox' = Append(inbox, m), buffer' = [buffer EXCEPT ![d] = TextOf(m)],
           UNCHANGED <<disk, docs, changed>>, events' \in Nat,
           outbox' \in Seq(Replies), shown' \in [Docs -> Diagnoses],
           \A e \in Docs : \A x : Settles(outbox, shown[e], e, x) => Settles(outbox', shown'[e], e, x)
    PROVE  ServerInv'
<1>1. buffer \in Views
  BY DEF ServerInv, ServerTypeOK
<1>2. TextOf(m) \in Texts \cup {Absent}
  BY TextsAre DEF TextOf
<1>3. buffer' \in Views /\ \A e \in Docs : buffer'[e] = IF e = d THEN TextOf(m) ELSE buffer[e]
  BY <1>1, <1>2 DEF Views
<1>4. \A e \in Docs : Carries(m, e) <=> e = d
  BY DEF Carries
<1>5. CatchUpInv' /\ inbox' \in Seq(Messages)
  BY <1>3, <1>4, SendStep
<1>6. ServerTypeOK'
  BY <1>3, <1>5 DEF ServerInv, ServerTypeOK
<1>7. FreshInv'
  BY <1>6, NothingMoved
<1> QED
  BY <1>5, <1>6, <1>7 DEF ServerInv

LEMMA ActType == ASSUME ServerTypeOK, Act PROVE events' \in Nat
BY DEF ServerTypeOK, Act

LEMMA Opened ==
    ASSUME ServerInv, NEW d \in Docs, Open(d)
    PROVE  ServerInv'
<1>1. PICK t \in IF disk[d] = Absent THEN Texts ELSE {disk[d]} :
          buffer' = [buffer EXCEPT ![d] = t] /\ Send("open", d, <<t>>)
  BY DEF Open
<1>2. t \in Texts
  BY <1>1 DEF ServerInv, ServerTypeOK, Views
<1> DEFINE m == Message("open", d, <<t>>)
<1>3. m \in Messages /\ m.doc = d /\ m.kind = "open" /\ TextOf(m) = t /\ inbox' = Append(inbox, m)
  BY <1>1, <1>2 DEF Messages, Message, TextOf, Last, Send
<1>4. UNCHANGED <<disk, docs, outbox, shown, changed>> /\ events' \in Nat
  BY ActType DEF Open, ServerInv
<1> HIDE DEF m
<1> QED
  BY <1>1, <1>3, <1>4, BufferStep DEF ServerInv, ServerTypeOK

LEMMA Edited ==
    ASSUME ServerInv, NEW d \in Docs, Edit(d)
    PROVE  ServerInv'
<1>1. PICK t \in Texts, between \in {<<>>, <<buffer[d]>>} :
          buffer' = [buffer EXCEPT ![d] = t] /\ Send("change", d, Append(between, t))
  BY DEF Edit
<1>2. buffer[d] \in Texts
  BY DEF Edit, ServerInv, ServerTypeOK, Views
<1> DEFINE texts == Append(between, t)
           m == Message("change", d, texts)
<1>3. texts \in Seq(Texts) /\ texts # <<>> /\ Last(texts) = t
  <2>1. CASE between = <<>>
    BY <2>1 DEF Last
  <2>2. CASE between = <<buffer[d]>>
    BY <1>2, <2>2 DEF Last
  <2> QED
    BY <1>1, <2>1, <2>2
<1> HIDE DEF texts
<1>4. m \in Messages /\ m.doc = d /\ m.kind = "change" /\ TextOf(m) = t /\ inbox' = Append(inbox, m)
  BY <1>1, <1>3 DEF Messages, Message, TextOf, Send, texts
<1>5. UNCHANGED <<disk, docs, outbox, shown, changed>> /\ events' \in Nat
  BY ActType DEF Edit, ServerInv
<1> HIDE DEF m
<1> QED
  BY <1>1, <1>4, <1>5, BufferStep DEF ServerInv, ServerTypeOK

LEMMA ClosedThere ==
    ASSUME ServerInv, NEW d \in Docs, Close(d)
    PROVE  ServerInv'
<1> DEFINE m == Message("close", d, <<>>)
<1>1. m \in Messages /\ m.doc = d /\ m.kind = "close" /\ TextOf(m) = Absent
  BY DEF Messages, Message, TextOf
<1>2. inbox' = Append(inbox, m) /\ buffer' = [buffer EXCEPT ![d] = Absent]
      /\ UNCHANGED <<disk, docs, outbox, shown, changed>>
  BY DEF Close, Send, Message
<1>3. events' \in Nat
  BY ActType DEF Close, ServerInv
<1> HIDE DEF m
<1> QED
  BY <1>1, <1>2, <1>3, BufferStep DEF ServerInv, ServerTypeOK

LEMMA FormatAsked ==
    ASSUME ServerInv, NEW d \in Docs, AskFormat(d)
    PROVE  ServerInv'
<1> DEFINE m == Message("format", d, <<>>)
<1>1. m \in Messages /\ \A e \in Docs : ~Carries(m, e)
  BY DEF Messages, Message, Carries
<1>2. inbox' = Append(inbox, m) /\ UNCHANGED <<disk, buffer, docs, outbox, shown, changed>>
  BY DEF AskFormat, Send, Message
<1>3. events' \in Nat
  BY ActType DEF AskFormat, ServerInv
<1> HIDE DEF m
<1>4. CatchUpInv' /\ inbox' \in Seq(Messages)
  BY <1>1, <1>2, SendStep
<1>5. ServerTypeOK'
  BY <1>2, <1>3, <1>4 DEF ServerInv, ServerTypeOK
<1>6. FreshInv'
  BY <1>2, <1>5, NothingMoved
<1> QED
  BY <1>4, <1>5, <1>6 DEF ServerInv

\* A message that carries one text.
LEMMA OneTextSent ==
    ASSUME NEW d \in Docs, NEW t \in Texts, NEW kind \in {"open", "change", "save"},
           NEW m, m = Message(kind, d, <<t>>)
    PROVE  m \in Messages /\ m.doc = d /\ m.kind = kind /\ TextOf(m) = t
<1>1. <<t>> \in Seq(Texts) /\ <<t>> # <<>> /\ Len(<<t>>) = 1 /\ Last(<<t>>) = t
  BY DEF Last
<1>2. m.kind = kind /\ m.doc = d /\ m.texts = <<t>>
  BY DEF Message
<1>3. m \in [kind : {"open", "change", "save", "close", "format"}, doc : Docs, texts : Seq(Texts)]
  BY <1>1 DEF Message
<1>4. Len(m.texts) = 1 /\ Len(m.texts) <= 1 /\ m.texts # <<>>
  <2>1. 1 <= 1
    OBVIOUS
  <2> QED
    BY <1>1, <1>2, <2>1, Zenon
<1>5. m \in Messages
  BY <1>3, <1>4, Zenon DEF Messages
<1> QED
  BY <1>1, <1>2, <1>5 DEF TextOf

LEMMA SavedThere ==
    ASSUME ServerInv, NEW d \in Docs, Save(d)
    PROVE  ServerInv'
<1>1. PICK texts \in {<<>>, <<buffer[d]>>} : Send("save", d, texts)
  BY DEF Save
<1>2. buffer[d] \in Texts /\ buffer \in Views /\ disk \in Views /\ docs \in Views /\ changed \in [Docs -> SUBSET Docs]
  BY DEF Save, ServerInv, ServerTypeOK, Views
<1> DEFINE m == Message("save", d, texts)
<1>3. m \in Messages /\ inbox' = Append(inbox, m)
  <2>1. ASSUME texts = <<>> PROVE m \in Messages
    <3>1. m = [kind |-> "save", doc |-> d, texts |-> <<>>]
      BY <2>1 DEF Message
    <3>2. <<>> \in Seq(Texts) /\ Len(<<>>) = 0
      OBVIOUS
    <3> HIDE DEF m
    <3> QED
      BY <3>1, <3>2 DEF Messages
  <2>2. ASSUME texts = <<buffer[d]>> PROVE m \in Messages
    <3>1. m = Message("save", d, <<buffer[d]>>)
      BY <2>2
    <3> HIDE DEF m
    <3> QED
      BY <1>2, <3>1, OneTextSent
  <2>3. inbox' = Append(inbox, m)
    BY <1>1 DEF Send, Message
  <2> QED
    BY <1>1, <2>1, <2>2, <2>3
<1>4. \A e \in Docs : Carries(m, e) => e = d /\ TextOf(m) = buffer[d]
  BY <1>1 DEF Carries, TextOf, Message, Last
<1>5. /\ disk' = [disk EXCEPT ![d] = buffer[d]] /\ Touched(docs, [disk EXCEPT ![d] = buffer[d]])
      /\ UNCHANGED <<buffer, docs, outbox, shown>>
  BY DEF Save
<1>6. disk' \in Views
  BY <1>2, <1>5 DEF Views
<1>7. Touched(docs', disk')
  BY <1>5 DEF Touched, Differing
<1>8. changed' \in [Docs -> SUBSET Docs]
  BY <1>2, <1>7 DEF Touched, Differing
<1>9. events' \in Nat
  BY ActType DEF Save, ServerInv
<1> HIDE DEF m
<1>10. CatchUpInv' /\ inbox' \in Seq(Messages)
  BY <1>3, <1>4, <1>5, SendStep
<1>11. ServerTypeOK'
  BY <1>5, <1>6, <1>8, <1>9, <1>10 DEF ServerInv, ServerTypeOK
<1>12. FreshInv'
  BY <1>5, <1>7, <1>11, TouchedStep
<1> QED
  BY <1>10, <1>11, <1>12 DEF ServerInv

LEMMA ReceivedThere ==
    ASSUME ServerInv, Receive
    PROVE  ServerInv'
<1> DEFINE m == outbox[1]
           applies == m.kind = "edit" /\ m.of.base = buffer[m.doc] /\ m.of.text # buffer[m.doc]
           sent == Message("change", m.doc, <<m.of.text>>)
<1>1. /\ outbox # <<>> /\ outbox' = Tail(outbox) /\ UNCHANGED <<disk, docs, changed, events>>
      /\ shown' = IF m.kind = "publish" THEN [shown EXCEPT ![m.doc] = m.of] ELSE shown
      /\ IF applies THEN buffer' = [buffer EXCEPT ![m.doc] = m.of.text] /\ inbox' = Append(inbox, sent)
                    ELSE UNCHANGED <<buffer, inbox>>
  BY DEF Receive, Send, Message
<1>2. /\ outbox \in Seq(Replies) /\ shown \in [Docs -> Diagnoses] /\ events \in Nat
  BY DEF ServerInv, ServerTypeOK
<1>3. m \in Replies /\ outbox' \in Seq(Replies)
  BY <1>1, <1>2, OneLess
<1>4. m.doc \in Docs /\ (m.kind = "publish" => m.of \in Diagnoses) /\ (m.kind = "edit" => m.of.text \in Texts)
  BY <1>3 DEF Replies
<1>5. shown' \in [Docs -> Diagnoses]
  BY <1>1, <1>2, <1>4
<1>6. \A d \in Docs : shown'[d] = IF IsFor(m, d) THEN m.of ELSE shown[d]
  BY <1>1, <1>2, <1>4 DEF IsFor
<1>7. \A d \in Docs : \A x : Settles(outbox, shown[d], d, x) => Settles(outbox', shown'[d], d, x)
  BY <1>1, <1>2, <1>6, SettlesTaken
<1>8. CASE applies
  <2>1. sent \in Messages /\ sent.doc = m.doc /\ sent.kind = "change" /\ TextOf(sent) = m.of.text
    <3>1. m.doc \in Docs /\ m.of.text \in Texts
      BY <1>4, <1>8
    <3> HIDE DEF m
    <3> QED
      BY <3>1, OneTextSent
  <2> HIDE DEF m, sent
  <2> QED
    BY <1>1, <1>2, <1>3, <1>4, <1>5, <1>7, <1>8, <2>1, BufferStep
<1>9. CASE ~applies
  <2> HIDE DEF m, sent, applies
  <2>1. UNCHANGED <<buffer, inbox, docs>>
    BY <1>1, <1>9
  <2>2. ServerTypeOK'
    BY <1>1, <1>3, <1>5, <2>1 DEF ServerInv, ServerTypeOK
  <2>3. FreshInv'
    BY <1>1, <1>7, <2>2, NothingMoved
  <2>4. CatchUpInv'
    BY <2>1 DEF ServerInv, CatchUpInv
  <2> QED
    BY <2>2, <2>3, <2>4 DEF ServerInv
<1> QED
  BY <1>8, <1>9

-----------------------------------------------------------------------------
(* The theorems                                                              *)

\* The inductive invariant, whatever the editor does and however its messages wait.
THEOREM ServerInvHolds == ServerSpec => []ServerInv
<1>1. ServerInv /\ [ServerNext]_serverVars => ServerInv'
  <2> SUFFICES ASSUME ServerInv, [ServerNext]_serverVars PROVE ServerInv'
    OBVIOUS
  <2>1. CASE Serve
    BY <2>1, OpenedOrChanged, Saved, Closed, Formatted DEF Serve
  <2>2. CASE Receive
    BY <2>2, ReceivedThere
  <2>3. ASSUME NEW d \in Docs, Open(d) \/ Edit(d) \/ Save(d) \/ Close(d) \/ AskFormat(d) PROVE ServerInv'
    BY <2>3, Opened, Edited, SavedThere, ClosedThere, FormatAsked
  <2>4. CASE UNCHANGED serverVars
    BY <2>4 DEF ServerInv, ServerTypeOK, CatchUpInv, FreshInv, FreshAt, serverVars
  <2> QED
    BY <2>1, <2>2, <2>3, <2>4 DEF ServerNext
<1> QED
  BY <1>1, InitServerInv, PTL DEF ServerSpec

\* Every variable keeps its type; what is shown is always the result of some analysis.
THEOREM ServerTypeCorrect == ServerSpec => []ServerTypeOK
<1>1. ServerInv => ServerTypeOK
  BY DEF ServerInv
<1> QED
  BY <1>1, ServerInvHolds, PTL

\* When nothing is under way the server has the texts of the editor, and every open
\* document shows what a fresh analysis would find, unless a document it reaches was changed
\* since (lsp.rs, on_change and did_close).
LEMMA QuietIsFresh == ServerInv => FreshUnlessImportsChanged
<1> SUFFICES ASSUME ServerInv, Quiet, NEW d \in Docs, buffer[d] # Absent
             PROVE  \/ changed[d] \cap Reached(d, AsTheEditorHasIt) # {}
                    \/ shown[d] = analyze_str_at(d, buffer[d], AsTheEditorHasIt, disk)
  BY DEF FreshUnlessImportsChanged
<1> DEFINE have == AsTheEditorHasIt
           now == View(docs, disk)
<1>1. /\ disk \in Views /\ docs \in Views /\ buffer \in Views /\ have \in Views /\ now \in Views
  BY ViewType DEF ServerInv, ServerTypeOK, AsTheEditorHasIt, Views
<1>2. \A e \in Docs : docs[e] = buffer[e]
  <2> TAKE e \in Docs
  <2>1. CatchesUp(<<>>, docs[e], e, buffer[e])
    BY DEF ServerInv, CatchUpInv, Quiet
  <2> QED
    BY <2>1 DEF CatchesUp
<1>3. \A x : Settles(outbox, shown[d], d, x) => shown[d] = x
  BY DEF Quiet, Settles
<1>4. \A e \in Docs : now[e] \in {have[e], Absent}
  BY <1>2 DEF View, AsTheEditorHasIt
<1>5. View(have, disk) = now
  <2>1. \A e \in Docs : View(have, disk)[e] = now[e]
    BY <1>2 DEF View, AsTheEditorHasIt
  <2>2. View(have, disk) \in Views
    BY <1>1, ViewType
  <2> HIDE DEF now, have
  <2> QED
    BY <1>1, <2>1, <2>2 DEF Views
<1>6. have[d] = buffer[d] /\ docs[d] = buffer[d]
  BY <1>2 DEF AsTheEditorHasIt
<1> HIDE DEF have, now
<1>7. Reached(d, now) \subseteq Reached(d, have)
  BY <1>1, <1>4, LessReached
<1>8. analyze_str_at(d, docs[d], docs, disk) = analyze_str_at(d, buffer[d], have, disk)
  <2>1. analyze_str_at(d, docs[d], docs, disk) =
            IF docs[d] \in Broken THEN Diagnosis("syntax", docs[d], {})
            ELSE IF now[d] = Absent THEN single_module_diags(docs[d]) ELSE resolved[d][now]
    BY <1>1, <1>6, AnalysisIs DEF now
  <2>2. analyze_str_at(d, have[d], have, disk) =
            IF have[d] \in Broken THEN Diagnosis("syntax", have[d], {})
            ELSE IF View(have, disk)[d] = Absent THEN single_module_diags(have[d]) ELSE resolved[d][View(have, disk)]
    BY <1>1, <1>6, AnalysisIs
  <2> QED
    BY <1>5, <1>6, <2>1, <2>2
<1>9. \/ changed[d] \cap Reached(d, now) # {}
      \/ Settles(outbox, shown[d], d, analyze_str_at(d, docs[d], docs, disk))
  BY <1>6 DEF ServerInv, FreshInv, FreshAt, now
<1>10. \/ changed[d] \cap Reached(d, have) # {}
       \/ shown[d] = analyze_str_at(d, buffer[d], have, disk)
  BY <1>3, <1>7, <1>8, <1>9
<1> QED
  BY <1>10 DEF have

THEOREM AlwaysFreshUnlessImportsChanged == ServerSpec => []FreshUnlessImportsChanged
BY QuietIsFresh, ServerInvHolds, PTL
================================================================================
