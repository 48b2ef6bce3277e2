---------------------------- MODULE TryFlowProofs -----------------------------
(***************************************************************************)
(* Proofs about TryFlow, for any exceptions and values and any nesting       *)
(* depth.  What a try saved when it was entered tells what is open below it,  *)
(* so what is restored when it is left is right however it is left.  Then    *)
(* the refinement: under Python's rules a jump is where it lands at once,    *)
(* so the steps that carry it there in the emitted code are no steps.        *)
(***************************************************************************)
EXTENDS TryFlow, SequenceTheorems, FiniteSetTheorems, WellFoundedInduction, TLAPS

Parts == {"body", "handler", "else", "finally"}
Signals ==
    [how : {"return"}, what : Values, printed : BOOLEAN]
    \cup [how : {"raise"}, what : Exceptions, printed : BOOLEAN]
    \cup [how : {"break", "continue"}, what : {None}, printed : BOOLEAN]
Frame ==
    [kind : {"func", "loop", "try"}, part : Parts, catches : SUBSET Exceptions,
     els : BOOLEAN, fin : BOOLEAN, prev : Hooks, flow : Signals \cup {None},
     reraise : Signals \cup {None}, from : Parts \cup {None}]

TypeOK ==
    /\ stack \in Seq(Frame)
    /\ hook \in Hooks
    /\ signal \in Signals \cup {None}
    /\ result \in Values \cup {None}
    /\ status \in {"running", "done", "aborted", "refused"}
    /\ shown \in BOOLEAN
    /\ lost \in SUBSET Parts

-----------------------------------------------------------------------------
(* The inductive invariant                                                   *)

\* A try body, or a loop, is open among the first n blocks.
Guarding(s, n) == \E j \in 1 .. n : IsClosure(s[j])
Looping(s, n) == \E j \in 1 .. n : s[j].kind = "loop"

\* A frame tells what is open below it: the hook its try saved is silent exactly if a body
\* is open there, and a break it holds back has its loop there.
Fits(f, s, n) ==
    /\ f.kind # "try" => f.part = "body" /\ f.fin = FALSE
    /\ f.kind = "try" => (f.prev = "silent" <=> Guarding(s, n))
    /\ f.reraise # None => f.reraise.how = "raise"
    /\ f.flow # None => /\ f.flow.how # "raise"
                        /\ f.flow.how \in {"break", "continue"} => Looping(s, n)
StackInv(s) == \A k \in 1 .. Len(s) : Fits(s[k], s, k - 1)

\* The outermost block is a call, and there is one as long as the program runs.
BottomInv ==
    /\ stack # <<>> => stack[1].kind = "func"
    /\ status = "running" => stack # <<>>
    /\ status = "done" => stack = <<>>

\* A jump on its way has a place to arrive at, and an exception that nothing is left to
\* catch has been printed.
Arrives(jump, s) ==
    jump # None =>
        /\ jump.how \in {"break", "continue"} => Looping(s, Len(s))
        /\ jump.how = "raise" /\ ~Guarding(s, Len(s)) => jump.printed
SignalInv == status = "running" => Arrives(signal, stack)

HookInv == status \in {"running", "done"} => (hook = "silent" <=> Guarding(stack, Len(stack)))

IInv ==
    /\ TypeOK /\ StackInv(stack) /\ BottomInv /\ SignalInv /\ HookInv
    /\ UncaughtIsShown /\ BodyRunsFinally

-----------------------------------------------------------------------------
(* The innermost place that stops a jump                                     *)

LEMMA LargestOf ==
    ASSUME NEW n \in Nat, NEW S, S \subseteq 0 .. n, S # {}
    PROVE  Max(S) \in S /\ \A j \in S : j <= Max(S)
<1> DEFINE R == OpToRel(<, Nat)
           T == {n - i : i \in S}
<1>1. IsWellFoundedOn(R, Nat)
  BY NatLessThanWellFounded
<1>2. \A x, y \in Nat : <<x, y>> \in R <=> x < y
  BY DEF OpToRel
<1>3. \A i \in S : i \in Nat /\ i <= n /\ n - i \in Nat
  OBVIOUS
<1>4. T \subseteq Nat /\ T # {}
  BY <1>3
<1> HIDE DEF R
<1>5. PICK m \in T : \A j \in T : <<j, m>> \notin R
  <2> HIDE DEF T
  <2> QED
    BY <1>1, <1>4, WFMin
<1>6. PICK i \in S : m = n - i
  BY <1>5
<1>7. ASSUME NEW j \in S PROVE i >= j
  <2>1. n - j \in T /\ n - j \in Nat /\ m \in Nat
    BY <1>3, <1>6
  <2>2. ~(n - j < m)
    BY <1>2, <1>5, <2>1
  <2> QED
    BY <1>3, <1>6, <2>1, <2>2
<1>8. \E x \in S : \A y \in S : x >= y
  BY <1>7
<1> QED
  BY <1>3, <1>8 DEF Max

\* The boundary is the innermost open block that stops the jump, or 0.
LEMMA BoundaryFacts ==
    ASSUME NEW s \in Seq(Frame), NEW jump
    PROVE  /\ Boundary(s, jump) \in 0 .. Len(s)
           /\ Boundary(s, jump) # 0 => Stops(s[Boundary(s, jump)], jump)
           /\ \A j \in 1 .. Len(s) : Stops(s[j], jump) => j <= Boundary(s, jump)
<1> DEFINE S == {0} \cup {i \in DOMAIN s : Stops(s[i], jump)}
<1>1. S \subseteq 0 .. Len(s) /\ S # {} /\ Len(s) \in Nat /\ DOMAIN s = 1 .. Len(s)
  OBVIOUS
<1>2. Max(S) \in S /\ \A j \in S : j <= Max(S)
  BY <1>1, LargestOf
<1>3. Boundary(s, jump) = Max(S)
  BY DEF Boundary, Innermost
<1> QED
  BY <1>1, <1>2, <1>3

\* Nothing above the boundary is a try body, so no body loses its finally.
LEMMA AboveBoundary ==
    ASSUME NEW s \in Seq(Frame), NEW jump, StackInv(s)
    PROVE  /\ \A j \in 1 .. Len(s) : IsClosure(s[j]) => j <= Boundary(s, jump)
           /\ "body" \notin Skipped(s, Boundary(s, jump))
           /\ Skipped(s, Boundary(s, jump)) \subseteq Parts
<1> DEFINE b == Boundary(s, jump)
<1>1. /\ b \in 0 .. Len(s) /\ DOMAIN s = 1 .. Len(s)
      /\ \A j \in 1 .. Len(s) : Stops(s[j], jump) => j <= b
  BY BoundaryFacts
<1>2. \A j \in 1 .. Len(s) : IsClosure(s[j]) => j <= b
  BY <1>1 DEF Stops
<1>3. ASSUME NEW j \in DOMAIN s, j > b, s[j].fin, s[j].part # "finally"
      PROVE  s[j].part # "body" /\ s[j].part \in Parts
  <2>1. j \in 1 .. Len(s) /\ s[j] \in Frame /\ Fits(s[j], s, j - 1) /\ ~IsClosure(s[j])
    BY <1>1, <1>2, <1>3, ElementOfSeq DEF StackInv
  <2>2. s[j].kind = "try" /\ s[j].part \in Parts
    BY <1>3, <2>1 DEF Fits, Frame
  <2> QED
    BY <2>1, <2>2 DEF IsClosure
<1> HIDE DEF b
<1>4. "body" \notin Skipped(s, b) /\ Skipped(s, b) \subseteq Parts
  BY <1>3 DEF Skipped
<1> QED
  BY <1>2, <1>4 DEF b

-----------------------------------------------------------------------------
(* Taking blocks off the stack and putting one on it                         *)

LEMMA PrefixKeeps ==
    ASSUME NEW s \in Seq(Frame), NEW n \in 0 .. Len(s), StackInv(s)
    PROVE  /\ SubSeq(s, 1, n) \in Seq(Frame) /\ Len(SubSeq(s, 1, n)) = n
           /\ \A k \in 1 .. n : SubSeq(s, 1, n)[k] = s[k]
           /\ StackInv(SubSeq(s, 1, n))
           /\ \A m \in 0 .. n : /\ Guarding(SubSeq(s, 1, n), m) <=> Guarding(s, m)
                                /\ Looping(SubSeq(s, 1, n), m) <=> Looping(s, m)
<1> DEFINE t == SubSeq(s, 1, n)
<1>1. t \in Seq(Frame) /\ Len(t) = n /\ \A k \in 1 .. n : t[k] = s[k]
  OBVIOUS
<1> HIDE DEF t
<1>2. ASSUME NEW m \in 0 .. n
      PROVE  (Guarding(t, m) <=> Guarding(s, m)) /\ (Looping(t, m) <=> Looping(s, m))
  <2>1. \A k \in 1 .. m : t[k] = s[k]
    BY <1>1
  <2> QED
    BY <2>1 DEF Guarding, Looping
<1>3. ASSUME NEW k \in 1 .. Len(t) PROVE Fits(t[k], t, k - 1)
  <2>1. k \in 1 .. Len(s) /\ k - 1 \in 0 .. n /\ t[k] = s[k]
    BY <1>1, <1>3
  <2>2. Fits(s[k], s, k - 1)
    BY <2>1 DEF StackInv
  <2> QED
    BY <1>2, <2>1, <2>2 DEF Fits
<1>4. StackInv(t)
  BY <1>3 DEF StackInv
<1> QED
  BY <1>1, <1>2, <1>4 DEF t

LEMMA PushKeeps ==
    ASSUME NEW s \in Seq(Frame), NEW f \in Frame, StackInv(s), Fits(f, s, Len(s))
    PROVE  /\ Append(s, f) \in Seq(Frame) /\ Len(Append(s, f)) = Len(s) + 1
           /\ Append(s, f) # <<>> /\ Append(s, f)[1] = IF s = <<>> THEN f ELSE s[1]
           /\ StackInv(Append(s, f))
           /\ Guarding(Append(s, f), Len(s) + 1) <=> (IsClosure(f) \/ Guarding(s, Len(s)))
<1> DEFINE t == Append(s, f)
           n == Len(s)
<1>1. /\ t \in Seq(Frame) /\ n \in Nat /\ Len(t) = n + 1 /\ t[n + 1] = f
      /\ \A k \in 1 .. n : t[k] = s[k]
  OBVIOUS
<1>2. t # <<>> /\ t[1] = IF s = <<>> THEN f ELSE s[1]
  <2>1. t # <<>>
    BY <1>1
  <2>2. CASE s = <<>>
    BY <2>2
  <2>3. CASE s # <<>>
    <3>1. 1 \in 1 .. n
      BY <2>3
    <3> QED
      BY <1>1, <2>3, <3>1
  <2> QED
    BY <2>1, <2>2, <2>3
<1>3. Len(s) = n
  OBVIOUS
<1> HIDE DEF t, n
<1>4. ASSUME NEW m \in 0 .. n
      PROVE  (Guarding(t, m) <=> Guarding(s, m)) /\ (Looping(t, m) <=> Looping(s, m))
  <2>1. \A k \in 1 .. m : t[k] = s[k]
    BY <1>1
  <2> QED
    BY <2>1 DEF Guarding, Looping
<1>5. ASSUME NEW k \in 1 .. Len(t) PROVE Fits(t[k], t, k - 1)
  <2>1. k - 1 \in 0 .. n
    BY <1>1, <1>5
  <2>2. Fits(t[k], s, k - 1)
    <3>1. CASE k = n + 1
      BY <1>1, <1>3, <3>1
    <3>2. CASE k # n + 1
      <4>1. k \in 1 .. Len(s) /\ t[k] = s[k]
        BY <1>1, <1>3, <1>5, <3>2
      <4> QED
        BY <4>1 DEF StackInv
    <3> QED
      BY <3>1, <3>2
  <2> QED
    BY <1>4, <2>1, <2>2 DEF Fits
<1>6. StackInv(t)
  BY <1>5 DEF StackInv
<1>7. Guarding(t, n + 1) <=> (IsClosure(f) \/ Guarding(t, n))
  BY <1>1 DEF Guarding
<1>8. Guarding(t, n) <=> Guarding(s, n)
  BY <1>1, <1>4
<1> QED
  BY <1>1, <1>2, <1>6, <1>7, <1>8 DEF t, n

\* Whether s with the jump on its way is a state the program may be in.
Good(s, jump) ==
    /\ s \in Seq(Frame) /\ s # <<>> /\ s[1].kind = "func" /\ StackInv(s)
    /\ jump \in Signals \cup {None} /\ Arrives(jump, s)

\* A clause that is no try body takes the place of a try that was at the end of rest.
LEMMA NextClause ==
    ASSUME NEW rest \in Seq(Frame), rest # <<>>, rest[1].kind = "func", StackInv(rest),
           NEW f \in Frame, Fits(f, rest, Len(rest)), ~IsClosure(f)
    PROVE  /\ Good(Append(rest, f), None)
           /\ Guarding(Append(rest, f), Len(Append(rest, f))) <=> Guarding(rest, Len(rest))
BY PushKeeps DEF Good, Arrives

\* What the end of a match leaves: the finally is entered, or the try is gone and what it
\* held back is on its way.
LEMMA MatchEnds ==
    ASSUME NEW rest \in Seq(Frame), rest # <<>>, rest[1].kind = "func", StackInv(rest),
           NEW f \in Frame, f.kind = "try", Fits(f, rest, Len(rest)), AfterMatch(rest, f)
    PROVE  /\ Good(stack', signal')
           /\ Guarding(stack', Len(stack')) <=> Guarding(rest, Len(rest))
<1>1. CASE f.fin
  <2> DEFINE g == [f EXCEPT !.part = "finally", !.from = f.part]
  <2>1. /\ g \in Frame /\ g.kind = f.kind /\ g.prev = f.prev /\ g.flow = f.flow
        /\ g.reraise = f.reraise /\ g.part = "finally"
    BY DEF Frame, Parts
  <2>2. Fits(g, rest, Len(rest)) /\ ~IsClosure(g)
    BY <2>1 DEF Fits, IsClosure
  <2>3. stack' = Append(rest, g) /\ signal' = None
    BY <1>1 DEF AfterMatch
  <2> HIDE DEF g
  <2> QED
    BY <2>1, <2>2, <2>3, NextClause
<1>2. CASE ~f.fin
  <2>1. stack' = rest /\ signal' = IF f.reraise # None THEN [f.reraise EXCEPT !.printed = TRUE] ELSE f.flow
    BY <1>2 DEF AfterMatch, Settle
  <2>2. signal' \in Signals \cup {None}
    BY <2>1 DEF Frame, Signals
  <2>3. CASE f.reraise # None
    <3>1. f.reraise \in Signals /\ f.reraise.how = "raise"
      BY <2>3 DEF Fits, Frame
    <3>2. signal'.how = "raise" /\ signal'.printed
      BY <2>1, <2>3, <3>1 DEF Signals
    <3> QED
      BY <2>1, <2>2, <3>2 DEF Good, Arrives
  <2>4. CASE f.reraise = None
    BY <2>1, <2>2, <2>4 DEF Good, Arrives, Fits
  <2> QED
    BY <2>3, <2>4
<1> QED
  BY <1>1, <1>2

-----------------------------------------------------------------------------
(* Every step keeps the invariant                                            *)

LEMMA InitIInv == Init => IInv
<1> SUFFICES ASSUME Init PROVE IInv
  OBVIOUS
<1> DEFINE f == Open("func", {}, FALSE, FALSE, "default")
<1>1. f \in Frame /\ f.kind = "func" /\ f.part = "body" /\ f.fin = FALSE /\ f.flow = None /\ f.reraise = None
  BY DEF Open, Frame, Parts, Hooks
<1>5. stack = <<f>>
  BY DEF Init
<1> HIDE DEF f
<1>2. stack = <<f>> /\ stack \in Seq(Frame) /\ Len(stack) = 1 /\ stack[1] = f /\ stack # <<>>
  BY <1>1, <1>5
<1>3. StackInv(stack) /\ ~Guarding(stack, Len(stack))
  BY <1>1, <1>2 DEF StackInv, Fits, Guarding, IsClosure
<1>4. TypeOK
  BY <1>2 DEF Init, TypeOK, Hooks, Parts
<1> QED
  BY <1>1, <1>2, <1>3, <1>4 DEF Init, IInv, BottomInv, SignalInv, Arrives, HookInv, Hooks, UncaughtIsShown, BodyRunsFinally

\* The stack a running program has, cut at a block that is not the outermost.
LEMMA CutAt ==
    ASSUME IInv, status = "running", NEW i \in 1 .. Len(stack), stack[i].kind # "func"
    PROVE  /\ Below(stack, i) \in Seq(Frame) /\ Below(stack, i) # <<>> /\ Below(stack, i)[1].kind = "func"
           /\ StackInv(Below(stack, i)) /\ Len(Below(stack, i)) = i - 1
           /\ stack[i] \in Frame /\ Fits(stack[i], Below(stack, i), i - 1)
           /\ Guarding(Below(stack, i), i - 1) <=> Guarding(stack, i - 1)
           /\ Looping(Below(stack, i), i - 1) <=> Looping(stack, i - 1)
<1>1. /\ stack \in Seq(Frame) /\ stack # <<>> /\ stack[1].kind = "func" /\ StackInv(stack)
      /\ stack[i] \in Frame
  BY ElementOfSeq DEF IInv, TypeOK, BottomInv
<1>2. i - 1 \in 0 .. Len(stack) /\ i - 1 \in 1 .. i - 1
  BY <1>1
<1> DEFINE t == SubSeq(stack, 1, i - 1)
<1>3. /\ t \in Seq(Frame) /\ Len(t) = i - 1 /\ t[1] = stack[1] /\ StackInv(t)
      /\ Guarding(t, i - 1) <=> Guarding(stack, i - 1)
      /\ Looping(t, i - 1) <=> Looping(stack, i - 1)
  <2>1. i - 1 \in 0 .. i - 1 /\ 1 \in 1 .. i - 1
    BY <1>2
  <2> QED
    BY <1>1, <1>2, <2>1, PrefixKeeps
<1>4. t # <<>>
  BY <1>2, <1>3
<1> HIDE DEF t
<1>5. Fits(stack[i], t, i - 1)
  BY <1>1, <1>3 DEF StackInv, Fits
<1> QED
  BY <1>1, <1>3, <1>4, <1>5 DEF t, Below

\* A step after which the program still runs.
LEMMA StillRuns ==
    ASSUME IInv, status = "running", status' = status, Good(stack', signal'),
           hook' \in Hooks, hook' = "silent" <=> Guarding(stack', Len(stack')),
           result' \in Values \cup {None}, shown' = shown, lost' \in SUBSET Parts, "body" \notin lost'
    PROVE  IInv'
BY DEF IInv, TypeOK, Good, BottomInv, SignalInv, HookInv, UncaughtIsShown, BodyRunsFinally

LEMMA EnterBlockKeeps ==
    ASSUME IInv, NEW kind \in {"func", "loop"}, EnterBlock(kind)
    PROVE  IInv'
<1> DEFINE f == Open(kind, {}, FALSE, FALSE, "default")
<1>1. status = "running" /\ signal = None
  BY DEF EnterBlock, Runs
<1>2. stack \in Seq(Frame) /\ stack # <<>> /\ stack[1].kind = "func" /\ StackInv(stack)
  BY <1>1 DEF IInv, TypeOK, BottomInv
<1>3. f \in Frame /\ f.kind # "try" /\ f.part = "body" /\ f.fin = FALSE /\ f.flow = None /\ f.reraise = None
  BY DEF Open, Frame, Parts, Hooks
<1>4. stack' = Append(stack, f)
  BY DEF EnterBlock
<1> HIDE DEF f
<1>5. Fits(f, stack, Len(stack)) /\ ~IsClosure(f)
  BY <1>3 DEF Fits, IsClosure
<1>6. Good(stack', None) /\ (Guarding(stack', Len(stack')) <=> Guarding(stack, Len(stack)))
  BY <1>2, <1>3, <1>4, <1>5, NextClause
<1> QED
  BY <1>1, <1>6, StillRuns DEF EnterBlock, IInv, TypeOK, HookInv, BodyRunsFinally

LEMMA EnterTryKeeps ==
    ASSUME IInv, NEW catches \in SUBSET Exceptions, NEW els \in BOOLEAN, NEW fin \in BOOLEAN,
           EnterTry(catches, els, fin)
    PROVE  IInv'
<1> DEFINE f == Open("try", catches, els, fin, hook)
<1>1. status = "running" /\ signal = None
  BY DEF EnterTry, Runs
<1>2. /\ stack \in Seq(Frame) /\ stack # <<>> /\ stack[1].kind = "func" /\ StackInv(stack)
      /\ hook \in Hooks /\ (hook = "silent" <=> Guarding(stack, Len(stack)))
  BY <1>1 DEF IInv, TypeOK, BottomInv, HookInv
<1>3. /\ f \in Frame /\ f.kind = "try" /\ f.part = "body" /\ f.prev = hook
      /\ f.flow = None /\ f.reraise = None
  BY <1>2 DEF Open, Frame, Parts
<1>4. stack' = Append(stack, f) /\ signal' = None /\ hook' = "silent"
  BY <1>1 DEF EnterTry
<1> HIDE DEF f
<1>5. Fits(f, stack, Len(stack)) /\ IsClosure(f)
  BY <1>2, <1>3 DEF Fits, IsClosure
<1>6. /\ stack' \in Seq(Frame) /\ Len(stack') = Len(stack) + 1 /\ stack' # <<>>
      /\ stack'[1] = stack[1] /\ StackInv(stack') /\ Guarding(stack', Len(stack'))
  BY <1>2, <1>3, <1>4, <1>5, PushKeeps
<1>7. Good(stack', signal')
  BY <1>2, <1>4, <1>6 DEF Good, Arrives
<1> QED
  BY <1>1, <1>4, <1>6, <1>7, StillRuns DEF EnterTry, IInv, TypeOK, Hooks, BodyRunsFinally

\* InLoop finds a loop.
LEMMA LoopFound ==
    ASSUME NEW s \in Seq(Frame), InLoop(s)
    PROVE  Looping(s, Len(s))
<1> DEFINE S == {0} \cup {i \in DOMAIN s : s[i].kind = "loop"}
           T == {0} \cup {i \in DOMAIN s : s[i].kind = "func"}
<1>1. Max(S) > Max(T)
  BY DEF InLoop, InnermostFunc, Innermost
<1>2. Max(S) \in S /\ Max(T) \in Nat
  <2>1. S \subseteq 0 .. Len(s) /\ S # {} /\ T \subseteq 0 .. Len(s) /\ T # {} /\ Len(s) \in Nat
    OBVIOUS
  <2> HIDE DEF S, T
  <2>2. Max(S) \in S
    BY <2>1, LargestOf
  <2>3. Max(T) \in T
    BY <2>1, LargestOf
  <2>4. Max(T) \in 0 .. Len(s)
    BY <2>1, <2>3
  <2> QED
    BY <2>2, <2>4
<1> QED
  BY <1>1, <1>2 DEF Looping

LEMMA StatementsAreJumps == Statements \subseteq Signals
<1> SUFFICES ASSUME NEW jump \in Statements PROVE jump \in Signals
  OBVIOUS
<1>1. CASE \E v \in Values : jump = Jump("return", v)
  BY <1>1 DEF Jump, Signals, Hows
<1>2. CASE \E e \in Exceptions : jump = Jump("raise", e)
  BY <1>2 DEF Jump, Signals, Hows
<1>3. CASE jump = Jump("break", None)
  BY <1>3 DEF Jump, Signals, Hows
<1>4. CASE jump = Jump("continue", None)
  BY <1>4 DEF Jump, Signals, Hows
<1> QED
  BY <1>1, <1>2, <1>3, <1>4 DEF Statements

LEMMA LeaveKeeps ==
    ASSUME IInv, NEW jump \in Statements, Leave(jump)
    PROVE  IInv'
<1>1. /\ status = "running" /\ signal = None /\ stack' = stack /\ hook' = hook
      /\ result' = result /\ shown' = shown /\ lost' = lost
  BY DEF Leave, Runs
<1>2. jump \in Signals
  BY StatementsAreJumps
<1>3. CASE Builds(stack, jump)
  <2>1. signal' = [jump EXCEPT !.printed = jump.how = "raise" /\ hook = "default"] /\ status' = status
    BY <1>3 DEF Leave
  <2>2. signal' \in Signals /\ signal'.how = jump.how /\ (signal'.printed <=> jump.how = "raise" /\ hook = "default")
    BY <1>2, <2>1 DEF Signals
  <2>3. jump.how \in {"break", "continue"} => Looping(stack, Len(stack))
    BY LoopFound DEF Leave, IInv, TypeOK
  <2>4. ~Guarding(stack, Len(stack)) => hook = "default"
    BY <1>1 DEF IInv, HookInv, TypeOK, Hooks
  <2>5. Arrives(signal', stack)
    BY <2>2, <2>3, <2>4 DEF Arrives
  <2>6. Good(stack', signal')
    BY <1>1, <2>2, <2>5 DEF Good, IInv, TypeOK, BottomInv
  <2> QED
    BY <1>1, <2>1, <2>6, StillRuns DEF IInv, TypeOK, HookInv, BodyRunsFinally
<1>4. CASE ~Builds(stack, jump)
  <2>1. status' = "refused" /\ signal' = signal
    BY <1>4 DEF Leave
  <2> QED
    BY <1>1, <2>1 DEF IInv, TypeOK, BottomInv, SignalInv, HookInv, UncaughtIsShown, BodyRunsFinally
<1> QED
  BY <1>3, <1>4

\* What a jump that is no exception meets: a try body, a function or a loop.
LEMMA JumpLands ==
    ASSUME IInv, status = "running", signal # None
    PROVE  /\ Boundary(stack, signal) \in 0 .. Len(stack)
           /\ signal.how # "raise" => Boundary(stack, signal) \in 1 .. Len(stack)
           /\ Boundary(stack, signal) # 0 => Stops(stack[Boundary(stack, signal)], signal)
           /\ \A j \in 1 .. Len(stack) : IsClosure(stack[j]) => j <= Boundary(stack, signal)
           /\ "body" \notin Skipped(stack, Boundary(stack, signal))
           /\ Skipped(stack, Boundary(stack, signal)) \in SUBSET Parts
<1> DEFINE b == Boundary(stack, signal)
<1>1. /\ stack \in Seq(Frame) /\ stack # <<>> /\ stack[1].kind = "func" /\ StackInv(stack)
      /\ signal \in Signals /\ Arrives(signal, stack) /\ Len(stack) \in Nat /\ 1 \in 1 .. Len(stack)
  BY DEF IInv, TypeOK, BottomInv, SignalInv
<1>2. /\ b \in 0 .. Len(stack) /\ (b # 0 => Stops(stack[b], signal))
      /\ \A j \in 1 .. Len(stack) : Stops(stack[j], signal) => j <= b
  BY <1>1, BoundaryFacts
<1>3. /\ \A j \in 1 .. Len(stack) : IsClosure(stack[j]) => j <= b
      /\ "body" \notin Skipped(stack, b) /\ Skipped(stack, b) \subseteq Parts
  BY <1>1, AboveBoundary
<1> HIDE DEF b
<1>4. ASSUME signal.how # "raise" PROVE \E j \in 1 .. Len(stack) : Stops(stack[j], signal)
  <2>1. CASE signal.how = "return"
    BY <1>1, <2>1 DEF Stops
  <2>2. CASE signal.how \in {"break", "continue"}
    BY <1>1, <2>2 DEF Stops, Arrives, Looping
  <2> QED
    BY <1>1, <1>4, <2>1, <2>2 DEF Signals, Hows
<1>5. signal.how # "raise" => b \in 1 .. Len(stack)
  BY <1>2, <1>4
<1> QED
  BY <1>2, <1>3, <1>5 DEF b

\* Leaving the closure at the boundary, for what f becomes, puts back the hook f saved.
LEMMA LeftClosure ==
    ASSUME IInv, status = "running", NEW i \in 1 .. Len(stack), IsClosure(stack[i])
    PROVE  stack[i].prev = "silent" <=> Guarding(Below(stack, i), Len(Below(stack, i)))
BY CutAt DEF Fits, IsClosure

LEMMA CatchKeeps ==
    ASSUME IInv, Catch
    PROVE  IInv'
<1> DEFINE i == Boundary(stack, signal)
           f == stack[i]
           rest == Below(stack, i)
           held == [f EXCEPT !.reraise = signal]
           handled == [f EXCEPT !.part = "handler"]
<1>1. /\ status = "running" /\ signal # None /\ signal \in Signals /\ signal.how = "raise"
      /\ lost' = lost \cup Skipped(stack, i) /\ result' = result
  BY DEF Catch, IInv, TypeOK
<1>2. /\ i \in 0 .. Len(stack) /\ (i # 0 => Stops(f, signal))
      /\ \A j \in 1 .. Len(stack) : IsClosure(stack[j]) => j <= i
      /\ "body" \notin lost' /\ lost' \in SUBSET Parts
  BY <1>1, JumpLands DEF IInv, TypeOK, BodyRunsFinally
<1>3. CASE i = 0
  <2>1. stack' = <<>> /\ signal' = None /\ status' = "aborted" /\ shown' = signal.printed /\ hook' = hook
    BY <1>3 DEF Catch
  <2>2. ~Guarding(stack, Len(stack))
    BY <1>2, <1>3 DEF Guarding
  <2>3. signal.printed /\ signal.printed \in BOOLEAN
    BY <1>1, <2>2 DEF IInv, SignalInv, Arrives, Signals
  <2>4. StackInv(stack') /\ stack' \in Seq(Frame)
    BY <2>1 DEF StackInv
  <2> QED
    BY <1>1, <1>2, <2>1, <2>3, <2>4
    DEF IInv, TypeOK, BottomInv, SignalInv, HookInv, UncaughtIsShown, BodyRunsFinally
<1>4. CASE i # 0
  <2>1. i \in 1 .. Len(stack) /\ IsClosure(f)
    BY <1>1, <1>2, <1>4 DEF Stops
  <2>2. /\ hook' = f.prev /\ status' = status /\ shown' = shown
        /\ IF signal.what \in f.catches
           THEN stack' = Append(rest, handled) /\ signal' = None
           ELSE AfterMatch(rest, held)
    BY <1>4 DEF Catch
  <2>3. /\ rest \in Seq(Frame) /\ rest # <<>> /\ rest[1].kind = "func" /\ StackInv(rest)
        /\ f \in Frame /\ f.kind = "try" /\ Fits(f, rest, Len(rest))
        /\ f.prev = "silent" <=> Guarding(rest, Len(rest))
    <3>1. stack[i].kind # "func"
      BY <2>1 DEF IsClosure
    <3>2. stack[i].prev = "silent" <=> Guarding(Below(stack, i), Len(Below(stack, i)))
      BY <1>1, <2>1, LeftClosure
    <3> QED
      BY <1>1, <2>1, <3>1, <3>2, CutAt DEF IsClosure
  <2> HIDE DEF i, rest, f
  <2>4. /\ held \in Frame /\ held.kind = "try" /\ held.prev = f.prev /\ held.flow = f.flow
        /\ held.reraise = signal
    BY <1>1, <2>3 DEF Frame
  <2>5. /\ handled \in Frame /\ handled.kind = "try" /\ handled.prev = f.prev /\ handled.flow = f.flow
        /\ handled.reraise = f.reraise /\ handled.part = "handler"
    BY <2>3 DEF Frame, Parts
  <2> HIDE DEF held, handled
  <2>6. Good(stack', signal') /\ (Guarding(stack', Len(stack')) <=> Guarding(rest, Len(rest)))
    <3>1. CASE signal.what \in f.catches
      <4>1. Fits(handled, rest, Len(rest)) /\ ~IsClosure(handled)
        BY <2>3, <2>5 DEF Fits, IsClosure
      <4>2. stack' = Append(rest, handled) /\ signal' = None
        BY <2>2, <3>1
      <4>3. /\ Good(Append(rest, handled), None)
            /\ Guarding(Append(rest, handled), Len(Append(rest, handled))) <=> Guarding(rest, Len(rest))
        BY <2>3, <2>5, <4>1, NextClause
      <4> QED
        BY <4>2, <4>3
    <3>2. CASE signal.what \notin f.catches
      <4>1. Fits(held, rest, Len(rest))
        BY <1>1, <2>3, <2>4 DEF Fits
      <4> QED
        BY <2>2, <2>3, <2>4, <3>2, <4>1, MatchEnds
    <3> QED
      BY <3>1, <3>2
  <2> QED
    BY <1>1, <1>2, <2>2, <2>3, <2>6, StillRuns DEF IInv, TypeOK, Frame
<1> QED
  BY <1>3, <1>4

LEMMA EscapeKeeps ==
    ASSUME IInv, Escape
    PROVE  IInv'
<1> DEFINE i == Boundary(stack, signal)
           f == stack[i]
           rest == Below(stack, i)
           held == [f EXCEPT !.flow = signal]
<1>1. /\ status = "running" /\ signal # None /\ signal \in Signals /\ signal.how # "raise"
      /\ lost' = lost \cup Skipped(stack, i) /\ result' = result /\ IsClosure(f)
      /\ hook' = f.prev /\ status' = status /\ shown' = shown /\ AfterMatch(rest, held)
  BY DEF Escape, IInv, TypeOK
<1>2. i \in 1 .. Len(stack) /\ "body" \notin lost' /\ lost' \in SUBSET Parts
  BY <1>1, JumpLands DEF IInv, TypeOK, BodyRunsFinally
<1>3. /\ rest \in Seq(Frame) /\ rest # <<>> /\ rest[1].kind = "func" /\ StackInv(rest)
      /\ f \in Frame /\ f.kind = "try" /\ Fits(f, rest, Len(rest)) /\ Len(rest) = i - 1
      /\ f.prev = "silent" <=> Guarding(rest, Len(rest))
      /\ Looping(rest, i - 1) <=> Looping(stack, i - 1)
  <2>1. stack[i].kind # "func"
    BY <1>1 DEF IsClosure
  <2>2. stack[i].prev = "silent" <=> Guarding(Below(stack, i), Len(Below(stack, i)))
    BY <1>1, <1>2, LeftClosure
  <2> QED
    BY <1>1, <1>2, <2>1, <2>2, CutAt DEF IsClosure
\* The loop a break leaves is below the try, since no loop above it stopped the break.
<1>4. signal.how \in {"break", "continue"} => Looping(rest, Len(rest))
  <2> SUFFICES ASSUME signal.how \in {"break", "continue"} PROVE Looping(stack, i - 1)
    BY <1>3
  <2>1. PICK j \in 1 .. Len(stack) : stack[j].kind = "loop"
    BY <1>1 DEF IInv, SignalInv, Arrives, Looping
  <2>2. j <= i
    BY <1>1, <2>1, BoundaryFacts DEF IInv, TypeOK, Stops
  <2>3. j # i
    BY <1>1, <2>1 DEF IsClosure
  <2>4. j \in 1 .. i - 1
    BY <1>2, <2>2, <2>3
  <2> QED
    BY <2>1, <2>4 DEF Looping
<1> HIDE DEF i, rest, f
<1>5. /\ held \in Frame /\ held.kind = "try" /\ held.prev = f.prev /\ held.flow = signal
      /\ held.reraise = f.reraise
  BY <1>1, <1>3 DEF Frame
<1> HIDE DEF held
<1>6. Fits(held, rest, Len(rest))
  BY <1>1, <1>3, <1>4, <1>5 DEF Fits
<1>7. Good(stack', signal') /\ (Guarding(stack', Len(stack')) <=> Guarding(rest, Len(rest)))
  BY <1>1, <1>3, <1>5, <1>6, MatchEnds
<1> QED
  BY <1>1, <1>2, <1>3, <1>7, StillRuns DEF IInv, TypeOK, Frame

\* Cutting the stack above the innermost closure leaves the hook right.
LEMMA CutAbove ==
    ASSUME IInv, NEW n \in 0 .. Len(stack), \A j \in 1 .. Len(stack) : IsClosure(stack[j]) => j <= n
    PROVE  /\ SubSeq(stack, 1, n) \in Seq(Frame) /\ StackInv(SubSeq(stack, 1, n))
           /\ Len(SubSeq(stack, 1, n)) = n /\ (n > 0 => SubSeq(stack, 1, n)[1] = stack[1])
           /\ Guarding(SubSeq(stack, 1, n), n) <=> Guarding(stack, Len(stack))
<1>1. stack \in Seq(Frame) /\ StackInv(stack) /\ Len(stack) \in Nat
  BY DEF IInv, TypeOK
<1>2. /\ SubSeq(stack, 1, n) \in Seq(Frame) /\ StackInv(SubSeq(stack, 1, n))
      /\ Len(SubSeq(stack, 1, n)) = n /\ (n > 0 => SubSeq(stack, 1, n)[1] = stack[1])
      /\ Guarding(SubSeq(stack, 1, n), n) <=> Guarding(stack, n)
  <2>1. n \in 0 .. n /\ (n > 0 => 1 \in 1 .. n)
    OBVIOUS
  <2> QED
    BY <1>1, <2>1, PrefixKeeps
<1>3. Guarding(stack, n) <=> Guarding(stack, Len(stack))
  BY <1>1 DEF Guarding
<1> QED
  BY <1>2, <1>3

LEMMA ArriveKeeps ==
    ASSUME IInv, Arrive
    PROVE  IInv'
<1> DEFINE i == Boundary(stack, signal)
<1>1. /\ status = "running" /\ signal # None /\ signal \in Signals /\ signal.how # "raise"
      /\ lost' = lost \cup Skipped(stack, i) /\ ~IsClosure(stack[i])
      /\ stack' = IF signal.how = "continue" THEN SubSeq(stack, 1, i) ELSE Below(stack, i)
      /\ result' = IF signal.how = "return" THEN signal.what ELSE result
      /\ status' = IF signal.how = "return" /\ i = 1 THEN "done" ELSE status
      /\ signal' = None /\ hook' = hook /\ shown' = shown
  BY DEF Arrive, IInv, TypeOK
<1>2. /\ i \in 1 .. Len(stack) /\ "body" \notin lost' /\ lost' \in SUBSET Parts
      /\ \A j \in 1 .. Len(stack) : IsClosure(stack[j]) => j <= i
      /\ Stops(stack[i], signal)
  BY <1>1, JumpLands DEF IInv, TypeOK, BodyRunsFinally
<1>3. \A j \in 1 .. Len(stack) : IsClosure(stack[j]) => j <= i - 1
  BY <1>1, <1>2
<1>4. /\ stack[1].kind = "func" /\ Len(stack) \in Nat /\ hook \in Hooks /\ result' \in Values \cup {None}
      /\ hook = "silent" <=> Guarding(stack, Len(stack))
  BY <1>1 DEF IInv, TypeOK, BottomInv, HookInv, Signals
<1> DEFINE n == IF signal.how = "continue" THEN i ELSE i - 1
<1>5. /\ n \in 0 .. Len(stack) /\ stack' = SubSeq(stack, 1, n)
      /\ \A j \in 1 .. Len(stack) : IsClosure(stack[j]) => j <= n
  BY <1>1, <1>2, <1>3 DEF Below
<1>6. n = 0 => status' = "done"
  <2>1. i = 1 => stack[i].kind = "func"
    BY <1>4
  <2>2. stack[i].kind = "func" => signal.how = "return"
    BY <1>1, <1>2 DEF Stops
  <2> QED
    BY <1>1, <1>2, <2>1, <2>2
<1>7. n # 0 => status' = status
  <2>1. signal.how = "return" /\ i = 1 => n = 0
    OBVIOUS
  <2>2. ~(signal.how = "return" /\ i = 1) => status' = status
    BY <1>1
  <2> QED
    BY <2>1, <2>2
<1> HIDE DEF n, i
<1>8. /\ stack' \in Seq(Frame) /\ StackInv(stack') /\ Len(stack') = n
      /\ n > 0 => stack'[1] = stack[1]
      /\ Guarding(stack', Len(stack')) <=> Guarding(stack, Len(stack))
  BY <1>5, CutAbove
<1>9. CASE n = 0
  <2>1. stack' = <<>>
    BY <1>8, <1>9
  <2> QED
    BY <1>1, <1>2, <1>4, <1>6, <1>8, <1>9, <2>1
    DEF IInv, TypeOK, BottomInv, SignalInv, HookInv, UncaughtIsShown, BodyRunsFinally
<1>10. CASE n # 0
  <2>1. n > 0 /\ stack' # <<>>
    BY <1>5, <1>8, <1>10
  <2>2. Good(stack', signal')
    BY <1>1, <1>4, <1>8, <2>1 DEF Good, Arrives
  <2> QED
    BY <1>1, <1>2, <1>4, <1>7, <1>8, <1>10, <2>2, StillRuns DEF IInv, TypeOK
<1> QED
  BY <1>9, <1>10

\* The block that runs, in a program that runs.
LEMMA TopFacts ==
    ASSUME IInv, Runs
    PROVE  /\ status = "running" /\ signal = None
           /\ Len(stack) \in 1 .. Len(stack) /\ Top(stack) = stack[Len(stack)] /\ Top(stack) \in Frame
           /\ Top(stack).kind = "try" => Len(stack) > 1
           /\ Top(stack).kind # "try" => Top(stack).part = "body"
           /\ stack[1].kind = "func"
           /\ hook = "silent" <=> Guarding(stack, Len(stack))
<1>1. /\ stack \in Seq(Frame) /\ stack # <<>> /\ stack[1].kind = "func" /\ StackInv(stack)
      /\ status = "running" /\ signal = None /\ (hook = "silent" <=> Guarding(stack, Len(stack)))
  BY DEF IInv, TypeOK, BottomInv, Runs, HookInv
<1>2. Len(stack) \in 1 .. Len(stack) /\ Top(stack) = stack[Len(stack)] /\ Top(stack) \in Frame
  BY <1>1, ElementOfSeq DEF Top
<1>3. Top(stack).kind # "try" => Top(stack).part = "body"
  BY <1>1, <1>2 DEF StackInv, Fits
<1> QED
  BY <1>1, <1>2, <1>3

LEMMA EndBlockKeeps ==
    ASSUME IInv, EndBlock
    PROVE  IInv'
<1> DEFINE n == Len(stack) - 1
<1>1. /\ Runs /\ Top(stack).kind # "try" /\ stack' = SubSeq(stack, 1, n)
      /\ result' = (IF Top(stack).kind = "func" THEN None ELSE result)
      /\ status' = (IF Len(stack) = 1 THEN "done" ELSE status)
      /\ hook' = hook /\ signal' = signal /\ shown' = shown /\ lost' = lost
  BY DEF EndBlock, Below
<1>2. /\ status = "running" /\ signal = None /\ Len(stack) \in 1 .. Len(stack)
      /\ Top(stack) = stack[Len(stack)] /\ stack[1].kind = "func"
      /\ hook = "silent" <=> Guarding(stack, Len(stack))
  BY <1>1, TopFacts
<1>3. /\ n \in 0 .. Len(stack) /\ \A j \in 1 .. Len(stack) : IsClosure(stack[j]) => j <= n
      /\ status' = IF n = 0 THEN "done" ELSE status
  BY <1>1, <1>2 DEF IsClosure
<1>4. result' \in Values \cup {None} /\ hook \in Hooks /\ lost \in SUBSET Parts /\ "body" \notin lost
  BY <1>1 DEF IInv, TypeOK, BodyRunsFinally
<1> HIDE DEF n
<1>5. /\ stack' \in Seq(Frame) /\ StackInv(stack') /\ Len(stack') = n
      /\ n > 0 => stack'[1] = stack[1]
      /\ Guarding(stack', Len(stack')) <=> Guarding(stack, Len(stack))
  BY <1>1, <1>3, CutAbove
<1>6. CASE n = 0
  <2>1. stack' = <<>>
    BY <1>5, <1>6
  <2> QED
    BY <1>1, <1>2, <1>3, <1>4, <1>5, <1>6, <2>1
    DEF IInv, TypeOK, BottomInv, SignalInv, HookInv, UncaughtIsShown, BodyRunsFinally
<1>7. CASE n # 0
  <2>1. n > 0 /\ stack' # <<>>
    BY <1>3, <1>5, <1>7
  <2>2. Good(stack', signal')
    BY <1>1, <1>2, <1>5, <2>1 DEF Good, Arrives
  <2> QED
    BY <1>1, <1>2, <1>3, <1>4, <1>5, <1>7, <2>2, StillRuns
<1> QED
  BY <1>6, <1>7

LEMMA EndBodyKeeps ==
    ASSUME IInv, EndBody
    PROVE  IInv'
<1> DEFINE f == Top(stack)
           rest == Below(stack, Len(stack))
           next == [f EXCEPT !.part = "else"]
<1>1. /\ Runs /\ IsClosure(f) /\ hook' = f.prev
      /\ IF f.els THEN stack' = Append(rest, next) /\ signal' = None ELSE AfterMatch(rest, f)
      /\ result' = result /\ status' = status /\ shown' = shown /\ lost' = lost
  BY DEF EndBody
<1>2. /\ status = "running" /\ Len(stack) \in 1 .. Len(stack) /\ f = stack[Len(stack)] /\ f \in Frame
      /\ f.kind = "try" /\ f.prev \in Hooks
  BY <1>1, TopFacts DEF IsClosure, Frame
<1>3. /\ rest \in Seq(Frame) /\ rest # <<>> /\ rest[1].kind = "func" /\ StackInv(rest)
      /\ Fits(f, rest, Len(rest))
      /\ f.prev = "silent" <=> Guarding(rest, Len(rest))
  <2>1. stack[Len(stack)].kind # "func" /\ IsClosure(stack[Len(stack)])
    BY <1>1, <1>2
  <2>2. stack[Len(stack)].prev = "silent" <=> Guarding(Below(stack, Len(stack)), Len(Below(stack, Len(stack))))
    BY <1>2, <2>1, LeftClosure
  <2> QED
    BY <1>2, <2>1, <2>2, CutAt
<1> HIDE DEF f, rest
<1>4. /\ next \in Frame /\ next.kind = "try" /\ next.prev = f.prev /\ next.flow = f.flow
      /\ next.reraise = f.reraise /\ next.part = "else"
  BY <1>2 DEF Frame, Parts
<1> HIDE DEF next
<1>5. Good(stack', signal') /\ (Guarding(stack', Len(stack')) <=> Guarding(rest, Len(rest)))
  <2>1. CASE f.els
    <3>1. Fits(next, rest, Len(rest)) /\ ~IsClosure(next)
      BY <1>2, <1>3, <1>4 DEF Fits, IsClosure
    <3>2. /\ Good(Append(rest, next), None)
          /\ Guarding(Append(rest, next), Len(Append(rest, next))) <=> Guarding(rest, Len(rest))
      BY <1>3, <1>4, <3>1, NextClause
    <3> QED
      BY <1>1, <2>1, <3>2
  <2>2. CASE ~f.els
    BY <1>1, <1>2, <1>3, <2>2, MatchEnds
  <2> QED
    BY <2>1, <2>2
<1> QED
  BY <1>1, <1>2, <1>3, <1>5, StillRuns DEF IInv, TypeOK, BodyRunsFinally

\* What is left when the clause that runs, no try body, is taken off.
LEMMA TopClause ==
    ASSUME IInv, Runs, Top(stack).part # "body"
    PROVE  LET rest == Below(stack, Len(stack))
           IN  /\ rest \in Seq(Frame) /\ rest # <<>> /\ rest[1].kind = "func" /\ StackInv(rest)
               /\ Top(stack) \in Frame /\ Top(stack).kind = "try" /\ Fits(Top(stack), rest, Len(rest))
               /\ Guarding(rest, Len(rest)) <=> Guarding(stack, Len(stack))
<1> DEFINE n == Len(stack)
<1>1. /\ status = "running" /\ n \in 1 .. Len(stack) /\ Top(stack) = stack[n] /\ Top(stack) \in Frame
      /\ Top(stack).kind = "try"
  BY TopFacts
<1>2. stack[n].kind # "func" /\ ~IsClosure(stack[n])
  BY <1>1 DEF IsClosure
<1>3. Guarding(stack, n - 1) <=> Guarding(stack, n)
  BY <1>1, <1>2 DEF Guarding
<1> QED
  BY <1>1, <1>2, <1>3, CutAt

LEMMA EndClauseKeeps ==
    ASSUME IInv, EndClause
    PROVE  IInv'
<1> DEFINE rest == Below(stack, Len(stack))
<1>1. /\ Runs /\ Top(stack).part # "body" /\ AfterMatch(rest, Top(stack))
      /\ hook' = hook /\ result' = result /\ status' = status /\ shown' = shown /\ lost' = lost
  BY DEF EndClause
<1>2. status = "running" /\ hook \in Hooks /\ (hook = "silent" <=> Guarding(stack, Len(stack)))
  BY <1>1, TopFacts DEF IInv, TypeOK
<1>3. Good(stack', signal') /\ (Guarding(stack', Len(stack')) <=> Guarding(stack, Len(stack)))
  BY <1>1, TopClause, MatchEnds
<1> QED
  BY <1>1, <1>2, <1>3, StillRuns DEF IInv, TypeOK, BodyRunsFinally

LEMMA EndFinallyKeeps ==
    ASSUME IInv, EndFinally
    PROVE  IInv'
<1> DEFINE rest == Below(stack, Len(stack))
           f == [Top(stack) EXCEPT !.fin = FALSE]
<1>1. /\ Runs /\ Top(stack).part # "body" /\ Settle(rest, Top(stack))
      /\ hook' = hook /\ result' = result /\ status' = status /\ shown' = shown /\ lost' = lost
  BY DEF EndFinally
<1>2. status = "running" /\ hook \in Hooks /\ (hook = "silent" <=> Guarding(stack, Len(stack)))
  BY <1>1, TopFacts DEF IInv, TypeOK
<1>3. /\ rest \in Seq(Frame) /\ rest # <<>> /\ rest[1].kind = "func" /\ StackInv(rest)
      /\ Top(stack) \in Frame /\ Top(stack).kind = "try" /\ Fits(Top(stack), rest, Len(rest))
      /\ Guarding(rest, Len(rest)) <=> Guarding(stack, Len(stack))
  BY <1>1, TopClause
<1>4. /\ f \in Frame /\ f.kind = "try" /\ ~f.fin /\ f.prev = Top(stack).prev
      /\ f.flow = Top(stack).flow /\ f.reraise = Top(stack).reraise
  BY <1>3 DEF Frame
<1> HIDE DEF rest, f
<1>5. Fits(f, rest, Len(rest)) /\ AfterMatch(rest, f)
  BY <1>1, <1>3, <1>4 DEF Fits, AfterMatch, Settle
<1>6. Good(stack', signal') /\ (Guarding(stack', Len(stack')) <=> Guarding(rest, Len(rest)))
  BY <1>3, <1>4, <1>5, MatchEnds
<1> QED
  BY <1>1, <1>2, <1>3, <1>6, StillRuns DEF IInv, TypeOK, BodyRunsFinally

-----------------------------------------------------------------------------
(* The theorems                                                              *)

\* Whatever a program does, what its open blocks have saved fits what is open below them.
THEOREM IInvHolds == Spec => []IInv
<1>1. Init => IInv
  BY InitIInv
<1>2. IInv /\ [Next]_vars => IInv'
  <2> SUFFICES ASSUME IInv, [Next]_vars PROVE IInv'
    OBVIOUS
  <2>1. CASE \E kind \in {"func", "loop"} : EnterBlock(kind)
    BY <2>1, EnterBlockKeeps
  <2>2. CASE \E catches \in SUBSET Exceptions, els, fin \in BOOLEAN : EnterTry(catches, els, fin)
    BY <2>2, EnterTryKeeps
  <2>3. CASE \E jump \in Statements : Leave(jump)
    BY <2>3, LeaveKeeps
  <2>4. CASE Catch \/ Escape \/ Arrive
    BY <2>4, CatchKeeps, EscapeKeeps, ArriveKeeps
  <2>5. CASE EndBlock \/ EndBody \/ EndClause \/ EndFinally
    BY <2>5, EndBlockKeeps, EndBodyKeeps, EndClauseKeeps, EndFinallyKeeps
  <2>6. CASE UNCHANGED vars
    BY <2>6 DEF vars, IInv, TypeOK, StackInv, Fits, BottomInv, SignalInv, Arrives, HookInv,
       Guarding, Looping, UncaughtIsShown, BodyRunsFinally
  <2> QED
    BY <2>1, <2>2, <2>3, <2>4, <2>5, <2>6 DEF Next
<1> QED
  BY <1>1, <1>2, PTL DEF Spec

\* Every variable keeps its type, for every set of exceptions and values and any nesting.
THEOREM TypeCorrect == Spec => []TypeOK
<1>1. IInv => TypeOK
  BY DEF IInv
<1> QED
  BY <1>1, IInvHolds, PTL

\* The panic hook is silent exactly while a try body runs, on whatever path the bodies
\* before it were left (emit_try, take_hook and set_hook).
THEOREM HookAlwaysBalanced == Spec => []HookIsBalanced
<1>1. IInv => HookIsBalanced
  BY DEF IInv, TypeOK, HookInv, Guarding, HookIsBalanced
<1> QED
  BY <1>1, IInvHolds, PTL

\* An exception that ends the program has been printed (emit_try, the unmatched arm).
THEOREM UncaughtAlwaysShown == Spec => []UncaughtIsShown
<1>1. IInv => UncaughtIsShown
  BY DEF IInv
<1> QED
  BY <1>1, IInvHolds, PTL

\* A try that is left from its body runs its finally (emit_try, __PyrstTryFlow).
THEOREM BodyAlwaysRunsFinally == Spec => []BodyRunsFinally
<1>1. IInv => BodyRunsFinally
  BY DEF IInv
<1> QED
  BY <1>1, IInvHolds, PTL

-----------------------------------------------------------------------------
(* Every step of the emitted code is a step of the program under Python's     *)
(* rules, or none                                                            *)

\* A try holds something back only in its finally, and only one thing.
HoldsOne(f) == f.flow = None \/ f.reraise = None
HoldsRight(f) == HoldsOne(f) /\ (f.part # "finally" => f.flow = None /\ f.reraise = None)
HeldInv == \A k \in 1 .. Len(stack) : HoldsRight(stack[k])

PyFrame ==
    [kind : {"func", "loop", "try"}, part : Parts, catches : SUBSET Exceptions,
     els : BOOLEAN, fin : BOOLEAN, from : Parts \cup {None},
     pending : [how : Hows, what : Whats] \cup {None}]
PyFrames(s) == [i \in DOMAIN s |-> AsPython(s[i])]

\* The two instances of PyTry have the same operators.
LEMMA SameSteps == \A now : PythonRun!Steps(now) = Python!Steps(now)
BY DEF PythonRun!Steps, Python!Steps, PythonRun!Entered, Python!Entered, PythonRun!Left, Python!Left,
   PythonRun!BlockEnded, Python!BlockEnded, PythonRun!Strayed, Python!Strayed, PythonRun!Landed, Python!Landed,
   PythonRun!Innermost, Python!Innermost, PythonRun!Below, Python!Below, PythonRun!Top, Python!Top,
   PythonRun!Outcome, Python!Outcome, PythonRun!Frames, Python!Frames, PythonRun!Function, Python!Function,
   PythonRun!Loop, Python!Loop, PythonRun!Open, Python!Open, PythonRun!Return, Python!Return,
   PythonRun!Raise, Python!Raise, PythonRun!Break, Python!Break, PythonRun!Continue, Python!Continue,
   PythonRun!Jumps, Python!Jumps, PythonRun!InLoop, Python!InLoop, PythonRun!NextClause, Python!NextClause,
   PythonRun!LeftClause, Python!LeftClause, PythonRun!Guarded, Python!Guarded, PythonRun!Astray, Python!Astray,
   PythonRun!Receives, Python!Receives, PythonRun!Catches, Python!Catches, PythonRun!Finalises, Python!Finalises,
   PythonRun!Max, Python!Max, PythonRun!Cardinality, Python!Cardinality

LEMMA SameSize == \A S : Python!Cardinality(S) = Cardinality(S)
BY DEF Python!Cardinality, Cardinality

\* The innermost block that receives a jump, or 0.
Receiver(s, jump) == Python!Innermost(s, LAMBDA f : Python!Receives(f, jump))

LEMMA ReceiverFacts ==
    ASSUME NEW s \in Seq(PyFrame), NEW jump
    PROVE  /\ Receiver(s, jump) \in 0 .. Len(s)
           /\ Receiver(s, jump) # 0 => Python!Receives(s[Receiver(s, jump)], jump)
           /\ \A j \in 1 .. Len(s) : Python!Receives(s[j], jump) => j <= Receiver(s, jump)
<1> DEFINE S == {0} \cup {i \in DOMAIN s : Python!Receives(s[i], jump)}
<1>1. S \subseteq 0 .. Len(s) /\ S # {} /\ Len(s) \in Nat /\ DOMAIN s = 1 .. Len(s)
  OBVIOUS
<1>2. Max(S) \in S /\ \A j \in S : j <= Max(S)
  BY <1>1, LargestOf
<1>3. Receiver(s, jump) = Max(S)
  BY DEF Receiver, Python!Innermost, Python!Max, Max
<1> QED
  BY <1>1, <1>2, <1>3

\* What a try that receives a jump becomes, and where a jump received at p takes the program.
Received(f, jump) ==
    IF Python!Catches(f, jump) THEN [f EXCEPT !.part = "handler"]
    ELSE [f EXCEPT !.part = "finally", !.from = f.part, !.pending = jump]
Ended(p) == IF p = 1 THEN "done" ELSE "running"
AtCall(s, p, jump) == Python!Outcome(SubSeq(s, 1, p - 1), jump.what, Ended(p))
Looped(s, p, jump) == IF jump.how = "break" THEN SubSeq(s, 1, p - 1) ELSE SubSeq(s, 1, p)
AtLoop(s, p, r, jump) == Python!Outcome(Looped(s, p, jump), r, "running")
AtTry(s, p, r, jump) == Python!Outcome(Append(SubSeq(s, 1, p - 1), Received(s[p], jump)), r, "running")

\* Where a jump lands, by the block that receives it.
LEMMA LandedIs ==
    ASSUME NEW s \in Seq(PyFrame), NEW r, NEW jump, NEW p, p = Receiver(s, jump)
    PROVE  /\ p = 0 => Python!Landed(s, r, jump) = Python!Outcome(<<>>, r, "aborted")
           /\ p > 0 /\ s[p].kind = "func" => Python!Landed(s, r, jump) = AtCall(s, p, jump)
           /\ p > 0 /\ s[p].kind = "loop" => Python!Landed(s, r, jump) = AtLoop(s, p, r, jump)
           /\ p > 0 /\ s[p].kind = "try" => Python!Landed(s, r, jump) = AtTry(s, p, r, jump)
<1>1. Python!Landed(s, r, jump) =
        CASE p = 0 -> Python!Outcome(<<>>, r, "aborted")
          [] p > 0 /\ s[p].kind = "func" -> AtCall(s, p, jump)
          [] p > 0 /\ s[p].kind = "loop" -> AtLoop(s, p, r, jump)
          [] p > 0 /\ s[p].kind = "try" -> AtTry(s, p, r, jump)
  BY DEF Python!Landed, Receiver, Python!Below, AtCall, AtLoop, AtTry, Received, Ended, Looped
<1>2. p \in Nat
  BY ReceiverFacts
<1> QED
  BY <1>1, <1>2

LEMMA SignalFacts ==
    ASSUME NEW j \in Signals
    PROVE  /\ j # None /\ j.how \in Hows /\ Bare(j) = [how |-> j.how, what |-> j.what]
           /\ Bare(j) # None /\ Bare(j) \in [how : Hows, what : Whats] /\ Bare(j) \in Python!Jumps
           /\ Bare(j).how = j.how /\ Bare(j).what = j.what
<1>1. j.how \in Hows /\ j.what \in Whats /\ j \in [how : Hows, what : Whats, printed : BOOLEAN]
  <2>1. CASE j \in [how : {"return"}, what : Values, printed : BOOLEAN]
    BY <2>1 DEF Hows, Whats
  <2>2. CASE j \in [how : {"raise"}, what : Exceptions, printed : BOOLEAN]
    BY <2>2 DEF Hows, Whats
  <2>3. CASE j \in [how : {"break", "continue"}, what : {None}, printed : BOOLEAN]
    BY <2>3 DEF Hows, Whats
  <2> QED
    BY <2>1, <2>2, <2>3 DEF Signals
<1>2. j # None
  BY <1>1, NoneIsNoJump
<1>3. Bare(j) = [how |-> j.how, what |-> j.what]
  BY <1>2 DEF Bare
<1>4. Bare(j) \in [how : Hows, what : Whats]
  BY <1>1, <1>3
<1>5. Bare(j) # None
  BY <1>4, NoneIsNoJump
<1>6. Bare(j) \in Python!Jumps
  <2>1. CASE j \in [how : {"return"}, what : Values, printed : BOOLEAN]
    BY <1>3, <2>1 DEF Python!Jumps, Python!Return
  <2>2. CASE j \in [how : {"raise"}, what : Exceptions, printed : BOOLEAN]
    BY <1>3, <2>2 DEF Python!Jumps, Python!Raise
  <2>3. CASE j \in [how : {"break", "continue"}, what : {None}, printed : BOOLEAN]
    <3>1. j.how \in {"break", "continue"} /\ j.what = None
      BY <2>3
    <3>2. Bare(j) \in {[how |-> "break", what |-> None], [how |-> "continue", what |-> None]}
      BY <1>3, <3>1
    <3> QED
      BY <3>2 DEF Python!Jumps, Python!Break, Python!Continue
  <2> QED
    BY <2>1, <2>2, <2>3 DEF Signals
<1> QED
  BY <1>1, <1>2, <1>3, <1>4, <1>5, <1>6

LEMMA AsPythonFacts ==
    ASSUME NEW f \in Frame
    PROVE  /\ AsPython(f) \in PyFrame
           /\ AsPython(f).kind = f.kind /\ AsPython(f).part = f.part /\ AsPython(f).catches = f.catches
           /\ AsPython(f).els = f.els /\ AsPython(f).fin = f.fin
           /\ AsPython(f).from = (IF f.flow = None /\ f.reraise = None THEN None ELSE f.from)
           /\ AsPython(f).pending = Bare(IF f.reraise # None THEN f.reraise ELSE f.flow)
<1> DEFINE p == Bare(IF f.reraise # None THEN f.reraise ELSE f.flow)
<1>1. p \in [how : Hows, what : Whats] \cup {None}
  <2>1. CASE f.reraise # None
    BY <2>1, SignalFacts DEF Frame
  <2>2. CASE f.reraise = None /\ f.flow # None
    BY <2>2, SignalFacts DEF Frame
  <2>3. CASE f.reraise = None /\ f.flow = None
    BY <2>3 DEF Bare
  <2> QED
    BY <2>1, <2>2, <2>3
<1> HIDE DEF p
<1>2. AsPython(f) = [kind |-> f.kind, part |-> f.part, catches |-> f.catches, els |-> f.els, fin |-> f.fin,
                     from |-> IF f.flow = None /\ f.reraise = None THEN None ELSE f.from, pending |-> p]
  BY DEF AsPython, p
<1>3. AsPython(f) \in PyFrame
  BY <1>1, <1>2 DEF PyFrame, Frame
<1> QED
  BY <1>2, <1>3 DEF p

LEMMA PyFramesFacts ==
    ASSUME NEW s \in Seq(Frame)
    PROVE  /\ PyFrames(s) \in Seq(PyFrame) /\ Len(PyFrames(s)) = Len(s)
           /\ \A k \in 1 .. Len(s) : PyFrames(s)[k] = AsPython(s[k]) /\ s[k] \in Frame
<1>1. DOMAIN s = 1 .. Len(s) /\ Len(s) \in Nat /\ \A k \in 1 .. Len(s) : s[k] \in Frame
  BY ElementOfSeq
<1>2. \A k \in 1 .. Len(s) : AsPython(s[k]) \in PyFrame
  BY <1>1, AsPythonFacts
<1>3. PyFrames(s) = [k \in 1 .. Len(s) |-> AsPython(s[k])]
  BY <1>1 DEF PyFrames
<1>4. PyFrames(s) \in Seq(PyFrame) /\ Len(PyFrames(s)) = Len(s)
  BY <1>1, <1>2, <1>3, IsASeq
<1> QED
  BY <1>1, <1>3, <1>4

LEMMA PyFramesPrefix ==
    ASSUME NEW s \in Seq(Frame), NEW n \in 0 .. Len(s)
    PROVE  PyFrames(SubSeq(s, 1, n)) = SubSeq(PyFrames(s), 1, n)
<1> DEFINE a == PyFrames(SubSeq(s, 1, n))
           b == SubSeq(PyFrames(s), 1, n)
<1>1. SubSeq(s, 1, n) \in Seq(Frame) /\ Len(SubSeq(s, 1, n)) = n /\ \A k \in 1 .. n : SubSeq(s, 1, n)[k] = s[k]
  OBVIOUS
<1>2. a \in Seq(PyFrame) /\ Len(a) = n /\ \A k \in 1 .. n : a[k] = AsPython(s[k])
  BY <1>1, PyFramesFacts
<1>3. PyFrames(s) \in Seq(PyFrame) /\ Len(PyFrames(s)) = Len(s) /\ \A k \in 1 .. Len(s) : PyFrames(s)[k] = AsPython(s[k])
  BY PyFramesFacts
<1>4. b \in Seq(PyFrame) /\ Len(b) = n /\ \A k \in 1 .. n : b[k] = AsPython(s[k])
  BY <1>3
<1> HIDE DEF a, b
<1>5. a = b
  BY <1>2, <1>4, SeqEqual
<1> QED
  BY <1>5 DEF a, b

LEMMA PyFramesAppend ==
    ASSUME NEW s \in Seq(Frame), NEW f \in Frame
    PROVE  PyFrames(Append(s, f)) = Append(PyFrames(s), AsPython(f))
<1> DEFINE a == PyFrames(Append(s, f))
           b == Append(PyFrames(s), AsPython(f))
           n == Len(s) + 1
<1>1. /\ Append(s, f) \in Seq(Frame) /\ Len(Append(s, f)) = n /\ Append(s, f)[n] = f
      /\ \A k \in 1 .. Len(s) : Append(s, f)[k] = s[k]
  OBVIOUS
<1>2. a \in Seq(PyFrame) /\ Len(a) = n /\ \A k \in 1 .. n : a[k] = AsPython(Append(s, f)[k])
  BY <1>1, PyFramesFacts
<1>3. /\ PyFrames(s) \in Seq(PyFrame) /\ Len(PyFrames(s)) = Len(s) /\ AsPython(f) \in PyFrame
      /\ \A k \in 1 .. Len(s) : PyFrames(s)[k] = AsPython(s[k])
  BY PyFramesFacts, AsPythonFacts
<1>4. /\ b \in Seq(PyFrame) /\ Len(b) = n /\ b[n] = AsPython(f)
      /\ \A k \in 1 .. Len(s) : b[k] = AsPython(s[k])
  BY <1>3, AppendProperties
<1>5. \A k \in 1 .. n : k = n \/ k \in 1 .. Len(s)
  OBVIOUS
<1>6. \A k \in 1 .. n : a[k] = b[k]
  BY <1>1, <1>2, <1>4, <1>5
<1> HIDE DEF a, b
<1>7. a = b
  BY <1>2, <1>4, <1>6, SeqEqual
<1> QED
  BY <1>7 DEF a, b

\* A jump lands where it would if the blocks above, which do not receive it, were gone.
LEMMA LandedBelow ==
    ASSUME NEW s \in Seq(PyFrame), NEW r, NEW jump, NEW n \in 0 .. Len(s),
           \A j \in 1 .. Len(s) : Python!Receives(s[j], jump) => j <= n
    PROVE  Python!Landed(SubSeq(s, 1, n), r, jump) = Python!Landed(s, r, jump)
<1> DEFINE t == SubSeq(s, 1, n)
           p == Receiver(s, jump)
<1>1. t \in Seq(PyFrame) /\ Len(t) = n /\ \A k \in 1 .. n : t[k] = s[k]
  OBVIOUS
<1>2. /\ p \in 0 .. Len(s) /\ p <= n /\ (p # 0 => Python!Receives(s[p], jump))
      /\ \A j \in 1 .. Len(s) : Python!Receives(s[j], jump) => j <= p
  BY ReceiverFacts
<1> HIDE DEF t
<1>3. /\ Receiver(t, jump) \in 0 .. Len(t)
      /\ Receiver(t, jump) # 0 => Python!Receives(t[Receiver(t, jump)], jump)
      /\ \A j \in 1 .. Len(t) : Python!Receives(t[j], jump) => j <= Receiver(t, jump)
  BY <1>1, ReceiverFacts
<1> HIDE DEF p
<1>4. Receiver(t, jump) = p
  <2>1. ASSUME p # 0 PROVE p <= Receiver(t, jump)
    <3>1. p \in 1 .. Len(t) /\ t[p] = s[p]
      BY <1>1, <1>2, <2>1
    <3> QED
      BY <1>2, <1>3, <2>1, <3>1
  <2>2. ASSUME Receiver(t, jump) # 0 PROVE Receiver(t, jump) <= p
    <3>1. Receiver(t, jump) \in 1 .. n /\ Receiver(t, jump) \in 1 .. Len(s)
      BY <1>1, <1>3, <2>2
    <3> QED
      BY <1>1, <1>2, <1>3, <2>2, <3>1
  <2> QED
    BY <1>2, <1>3, <2>1, <2>2
<1>7. p = Receiver(s, jump) /\ p = Receiver(t, jump)
  BY <1>4 DEF p
<1>9. t \in Seq(PyFrame)
  BY <1>1
<1>8. Python!Landed(t, r, jump) = Python!Landed(s, r, jump)
  <2>1. CASE p = 0
    <3>1. Python!Landed(t, r, jump) = Python!Outcome(<<>>, r, "aborted")
      BY <1>7, <1>9, <2>1, LandedIs
    <3> QED
      BY <1>7, <2>1, <3>1, LandedIs
  <2>2. CASE p # 0
    <3>1. p \in 1 .. n /\ p \in 1 .. Len(s) /\ t[p] = s[p] /\ p > 0
      BY <1>1, <1>2, <2>2
    <3>2. SubSeq(t, 1, p - 1) = SubSeq(s, 1, p - 1) /\ SubSeq(t, 1, p) = SubSeq(s, 1, p)
      BY <1>1, <3>1 DEF t
    <3>3. s[p].kind \in {"func", "loop", "try"}
      <4>1. s[p] \in PyFrame
        BY <3>1, ElementOfSeq
      <4> QED
        BY <4>1 DEF PyFrame
    <3>4. CASE s[p].kind = "func"
      <4>1. Python!Landed(t, r, jump) = AtCall(t, p, jump)
        BY <1>1, <1>7, <3>1, <3>4, LandedIs
      <4>2. Python!Landed(s, r, jump) = AtCall(s, p, jump)
        BY <1>7, <3>1, <3>4, LandedIs
      <4> QED
        BY <3>2, <4>1, <4>2 DEF AtCall
    <3>5. CASE s[p].kind = "loop"
      <4>1. Python!Landed(t, r, jump) = AtLoop(t, p, r, jump)
        BY <1>1, <1>7, <3>1, <3>5, LandedIs
      <4>2. Python!Landed(s, r, jump) = AtLoop(s, p, r, jump)
        BY <1>7, <3>1, <3>5, LandedIs
      <4>3. Looped(t, p, jump) = Looped(s, p, jump)
        BY <3>2 DEF Looped
      <4> QED
        BY <4>1, <4>2, <4>3 DEF AtLoop
    <3>6. CASE s[p].kind = "try"
      <4>1. Python!Landed(t, r, jump) = AtTry(t, p, r, jump)
        BY <1>1, <1>7, <3>1, <3>6, LandedIs
      <4>2. Python!Landed(s, r, jump) = AtTry(s, p, r, jump)
        BY <1>7, <3>1, <3>6, LandedIs
      <4> QED
        BY <3>1, <3>2, <4>1, <4>2 DEF AtTry
    <3> QED
      BY <3>3, <3>4, <3>5, <3>6
  <2> QED
    BY <2>1, <2>2
<1> QED
  BY <1>8 DEF t

\* A finally entered by leaving a handler or an else clause is where the emitted code may
\* go astray.
LEMMA ClauseMayStray ==
    ASSUME NEW s \in Seq(PyFrame), NEW r, NEW jump \in [how : Hows, what : Whats], NEW q \in 1 .. Len(s),
           \A j \in q .. Len(s) : Python!Receives(s[j], jump) => s[j].kind = "try" /\ s[j].part # "body",
           Python!Receives(s[q], jump)
    PROVE  Python!Astray \in Python!Steps(Python!Landed(s, r, jump))
<1> DEFINE p == Receiver(s, jump)
<1>1. p \in 1 .. Len(s) /\ q <= p /\ Python!Receives(s[p], jump)
  BY ReceiverFacts
<1>2. p > 0 /\ s[p] \in PyFrame /\ s[p].kind = "try" /\ s[p].part # "body"
  BY <1>1, ElementOfSeq
<1>3. ~Python!Catches(s[p], jump) /\ s[p].part \in {"handler", "else"}
  <2>1. ~Python!Catches(s[p], jump)
    BY <1>2 DEF Python!Catches
  <2>2. Python!Finalises(s[p])
    BY <1>1, <1>2, <2>1 DEF Python!Receives
  <2> QED
    BY <1>2, <2>1, <2>2 DEF Python!Finalises, PyFrame, Parts
<1> DEFINE f == [s[p] EXCEPT !.part = "finally", !.from = s[p].part, !.pending = jump]
           now == Append(SubSeq(s, 1, p - 1), f)
<1>4. Python!Landed(s, r, jump) = Python!Outcome(now, r, "running")
  <2>1. Python!Landed(s, r, jump) = AtTry(s, p, r, jump)
    <3>1. p = Receiver(s, jump)
      OBVIOUS
    <3> HIDE DEF f, now, p
    <3> QED
      BY <1>2, <3>1, LandedIs
  <2>2. Received(s[p], jump) = f
    BY <1>3 DEF Received
  <2> QED
    BY <2>1, <2>2 DEF AtTry
<1>5. f \in PyFrame /\ f.part = "finally" /\ f.from = s[p].part
  BY <1>2, <1>3 DEF PyFrame, Parts
<1>6. SubSeq(s, 1, p - 1) \in Seq(PyFrame)
  BY <1>1
<1> HIDE DEF f, p
<1>7. now[Len(now)] = f
  BY <1>5, <1>6
<1>8. Python!LeftClause(now)
  BY <1>3, <1>5, <1>7 DEF Python!LeftClause, Python!Top
<1> HIDE DEF now
<1> QED
  BY <1>4, <1>8 DEF Python!Steps, Python!Strayed, Python!Outcome

Lost == lost # {} \/ status = "refused"

LEMMA ObservedIs ==
    /\ Lost => Observed = Python!Astray
    /\ ~Lost /\ signal = None => Observed = Python!Outcome(PyFrames(stack), result, status)
    /\ ~Lost /\ signal # None => Observed = Python!Landed(PyFrames(stack), result, Bare(signal))
BY DEF Observed, Lost, PyFrames

LEMMA ObservedWillBe ==
    /\ Lost' => Observed' = Python!Astray
    /\ ~Lost' /\ signal' = None => Observed' = Python!Outcome(PyFrames(stack'), result', status')
    /\ ~Lost' /\ signal' # None => Observed' = Python!Landed(PyFrames(stack'), result', Bare(signal'))
BY DEF Observed, Lost, PyFrames, Python!Astray, Python!Outcome, Python!Landed, Python!Innermost, Python!Receives,
   Python!Catches, Python!Finalises, Python!Below, Bare, AsPython, Python!Max

-----------------------------------------------------------------------------
(* What is held back                                                         *)

LEMMA CutHolds ==
    ASSUME TypeOK, HeldInv, NEW n \in 0 .. Len(stack)
    PROVE  /\ SubSeq(stack, 1, n) \in Seq(Frame)
           /\ \A k \in 1 .. Len(SubSeq(stack, 1, n)) : HoldsRight(SubSeq(stack, 1, n)[k])
<1> DEFINE t == SubSeq(stack, 1, n)
<1>1. t \in Seq(Frame) /\ Len(t) = n /\ \A k \in 1 .. n : t[k] = stack[k] /\ k \in 1 .. Len(stack)
  BY DEF TypeOK
<1> HIDE DEF t
<1>2. \A k \in 1 .. Len(t) : HoldsRight(t[k])
  BY <1>1 DEF HeldInv
<1> QED
  BY <1>1, <1>2 DEF t

LEMMA PushHolds ==
    ASSUME NEW s \in Seq(Frame), \A k \in 1 .. Len(s) : HoldsRight(s[k]),
           NEW f \in Frame, HoldsRight(f), stack' = Append(s, f)
    PROVE  HeldInv'
<1> DEFINE t == Append(s, f)
<1>1. Len(t) = Len(s) + 1 /\ t[Len(s) + 1] = f /\ \A k \in 1 .. Len(s) : t[k] = s[k]
  OBVIOUS
<1>2. \A k \in 1 .. Len(s) + 1 : k = Len(s) + 1 \/ k \in 1 .. Len(s)
  OBVIOUS
<1> HIDE DEF t
<1>3. \A k \in 1 .. Len(t) : HoldsRight(t[k])
  BY <1>1, <1>2
<1>4. stack' = t
  BY DEF t
<1> QED
  BY <1>3, <1>4 DEF HeldInv, HoldsRight, HoldsOne

LEMMA MatchHolds ==
    ASSUME NEW rest \in Seq(Frame), \A k \in 1 .. Len(rest) : HoldsRight(rest[k]),
           NEW f \in Frame, HoldsOne(f), AfterMatch(rest, f)
    PROVE  HeldInv'
<1>1. CASE f.fin
  <2> DEFINE g == [f EXCEPT !.part = "finally", !.from = f.part]
  <2>1. g \in Frame /\ g.part = "finally" /\ g.flow = f.flow /\ g.reraise = f.reraise
    BY DEF Frame, Parts
  <2>2. stack' = Append(rest, g)
    BY <1>1 DEF AfterMatch
  <2> HIDE DEF g
  <2>3. HoldsRight(g)
    BY <2>1 DEF HoldsRight, HoldsOne
  <2> QED
    BY <2>1, <2>2, <2>3, PushHolds
<1>2. CASE ~f.fin
  <2>1. stack' = rest
    BY <1>2 DEF AfterMatch, Settle
  <2> QED
    BY <2>1 DEF HeldInv, HoldsRight, HoldsOne
<1> QED
  BY <1>1, <1>2

LEMMA HeldKeeps ==
    ASSUME IInv, HeldInv, [Next]_vars
    PROVE  HeldInv'
<1>1. TypeOK /\ stack \in Seq(Frame) /\ \A k \in 1 .. Len(stack) : HoldsRight(stack[k])
  BY DEF IInv, TypeOK, HeldInv
<1>2. ASSUME NEW n \in 0 .. Len(stack), stack' = SubSeq(stack, 1, n) PROVE HeldInv'
  BY <1>1, <1>2, CutHolds DEF HeldInv, HoldsRight, HoldsOne
<1>3. ASSUME NEW kind \in {"func", "loop"}, EnterBlock(kind) PROVE HeldInv'
  <2> DEFINE f == Open(kind, {}, FALSE, FALSE, "default")
  <2>1. f \in Frame /\ HoldsRight(f) /\ stack' = Append(stack, f)
    BY <1>3 DEF EnterBlock, Open, Frame, Parts, Hooks, HoldsRight, HoldsOne
  <2> HIDE DEF f
  <2> QED
    BY <1>1, <2>1, PushHolds
<1>4. ASSUME NEW catches \in SUBSET Exceptions, NEW els \in BOOLEAN, NEW fin \in BOOLEAN,
             EnterTry(catches, els, fin)
      PROVE  HeldInv'
  <2> DEFINE f == Open("try", catches, els, fin, hook)
  <2>1. f \in Frame /\ HoldsRight(f) /\ stack' = Append(stack, f)
    BY <1>1, <1>4 DEF EnterTry, Open, Frame, Parts, TypeOK, HoldsRight, HoldsOne
  <2> HIDE DEF f
  <2> QED
    BY <1>1, <2>1, PushHolds
<1>5. CASE \E jump \in Statements : Leave(jump)
  <2>1. stack' = stack
    BY <1>5 DEF Leave
  <2> QED
    BY <1>1, <2>1 DEF HeldInv, HoldsRight, HoldsOne
<1>6. ASSUME NEW i \in 1 .. Len(stack)
      PROVE  /\ Below(stack, i) \in Seq(Frame) /\ stack[i] \in Frame /\ HoldsRight(stack[i])
             /\ \A k \in 1 .. Len(Below(stack, i)) : HoldsRight(Below(stack, i)[k])
  BY <1>1, CutHolds, ElementOfSeq DEF Below
<1>7. CASE Catch
  <2> DEFINE i == Boundary(stack, signal)
             f == stack[i]
             rest == Below(stack, i)
             held == [f EXCEPT !.reraise = signal]
             handled == [f EXCEPT !.part = "handler"]
  <2>1. status = "running" /\ signal # None /\ signal \in Signals /\ signal.how = "raise"
    BY <1>1, <1>7 DEF Catch, TypeOK
  <2>2. i \in 0 .. Len(stack) /\ (i # 0 => Stops(f, signal))
    BY <2>1, JumpLands
  <2>3. CASE i = 0
    <3>1. stack' = <<>>
      BY <1>7, <2>3 DEF Catch
    <3> QED
      BY <3>1 DEF HeldInv
  <2>4. CASE i # 0
    <3>1. i \in 1 .. Len(stack) /\ IsClosure(f)
      BY <2>1, <2>2, <2>4 DEF Stops
    <3>2. IF signal.what \in f.catches
          THEN stack' = Append(rest, handled) /\ signal' = None
          ELSE AfterMatch(rest, held)
      BY <1>7, <2>4 DEF Catch
    <3>3. /\ rest \in Seq(Frame) /\ f \in Frame /\ HoldsRight(f) /\ f.part = "body"
          /\ \A k \in 1 .. Len(rest) : HoldsRight(rest[k])
      BY <1>6, <3>1 DEF IsClosure
    <3> HIDE DEF i, rest, f
    <3>4. held \in Frame /\ held.flow = f.flow
      BY <2>1, <3>3 DEF Frame
    <3>5. /\ handled \in Frame /\ handled.flow = f.flow /\ handled.reraise = f.reraise
          /\ handled.part = "handler"
      BY <3>3 DEF Frame, Parts
    <3> HIDE DEF held, handled
    <3>6. HoldsOne(held) /\ HoldsRight(handled)
      BY <3>3, <3>4, <3>5 DEF HoldsRight, HoldsOne
    <3> QED
      BY <3>2, <3>3, <3>4, <3>5, <3>6, PushHolds, MatchHolds
  <2> QED
    BY <2>3, <2>4
<1>8. CASE Escape
  <2> DEFINE i == Boundary(stack, signal)
             f == stack[i]
             rest == Below(stack, i)
             held == [f EXCEPT !.flow = signal]
  <2>1. /\ status = "running" /\ signal # None /\ signal \in Signals /\ signal.how # "raise"
        /\ IsClosure(f) /\ AfterMatch(rest, held)
    BY <1>1, <1>8 DEF Escape, TypeOK
  <2>2. i \in 1 .. Len(stack)
    BY <2>1, JumpLands
  <2>3. /\ rest \in Seq(Frame) /\ f \in Frame /\ HoldsRight(f) /\ f.part = "body"
        /\ \A k \in 1 .. Len(rest) : HoldsRight(rest[k])
    BY <1>6, <2>1, <2>2 DEF IsClosure
  <2> HIDE DEF i, rest, f
  <2>4. held \in Frame /\ held.reraise = f.reraise
    BY <2>1, <2>3 DEF Frame
  <2> HIDE DEF held
  <2>5. HoldsOne(held)
    BY <2>3, <2>4 DEF HoldsRight, HoldsOne
  <2> QED
    BY <2>1, <2>3, <2>4, <2>5, MatchHolds
<1>9. CASE Arrive
  <2> DEFINE i == Boundary(stack, signal)
  <2>1. /\ status = "running" /\ signal # None /\ signal.how # "raise"
        /\ stack' = IF signal.how = "continue" THEN SubSeq(stack, 1, i) ELSE SubSeq(stack, 1, i - 1)
    BY <1>9 DEF Arrive, Below
  <2>2. i \in 1 .. Len(stack)
    BY <2>1, JumpLands
  <2> HIDE DEF i
  <2> QED
    BY <1>2, <2>1, <2>2
<1>10. ASSUME Runs
       PROVE  /\ Len(stack) \in 1 .. Len(stack) /\ Top(stack) = stack[Len(stack)]
              /\ Top(stack) \in Frame /\ HoldsRight(Top(stack)) /\ HoldsOne(Top(stack))
  BY <1>1, <1>10, TopFacts DEF HoldsRight
<1>11. CASE EndBlock
  <2>1. Runs /\ stack' = SubSeq(stack, 1, Len(stack) - 1)
    BY <1>11 DEF EndBlock, Below
  <2> QED
    BY <1>2, <1>10, <2>1
<1>12. CASE EndBody
  <2> DEFINE f == Top(stack)
             rest == Below(stack, Len(stack))
             next == [f EXCEPT !.part = "else"]
  <2>1. /\ Runs /\ IsClosure(f)
        /\ IF f.els THEN stack' = Append(rest, next) /\ signal' = None ELSE AfterMatch(rest, f)
    BY <1>12 DEF EndBody
  <2>2. /\ rest \in Seq(Frame) /\ f \in Frame /\ HoldsRight(f) /\ HoldsOne(f) /\ f.part = "body"
        /\ \A k \in 1 .. Len(rest) : HoldsRight(rest[k])
    BY <1>6, <1>10, <2>1 DEF IsClosure
  <2> HIDE DEF rest, f
  <2>3. /\ next \in Frame /\ next.flow = f.flow /\ next.reraise = f.reraise
        /\ next.part = "else"
    BY <2>2 DEF Frame, Parts
  <2> HIDE DEF next
  <2>4. HoldsRight(next)
    BY <2>2, <2>3 DEF HoldsRight, HoldsOne
  <2> QED
    BY <2>1, <2>2, <2>3, <2>4, PushHolds, MatchHolds
<1>13. CASE EndClause
  <2>1. Runs /\ AfterMatch(Below(stack, Len(stack)), Top(stack))
    BY <1>13 DEF EndClause
  <2> QED
    BY <1>6, <1>10, <2>1, MatchHolds
<1>14. CASE EndFinally
  <2>1. Runs /\ stack' = SubSeq(stack, 1, Len(stack) - 1)
    BY <1>14 DEF EndFinally, Settle, Below
  <2> QED
    BY <1>2, <1>10, <2>1
<1>15. CASE UNCHANGED vars
  BY <1>15 DEF vars, HeldInv, HoldsRight, HoldsOne
<1> QED
  BY <1>3, <1>4, <1>5, <1>7, <1>8, <1>9, <1>11, <1>12, <1>13, <1>14, <1>15 DEF Next

-----------------------------------------------------------------------------
(* Every step has its step in Python                                         *)

Simulated == Observed' \in Python!Steps(Observed) \/ Observed' = Observed

\* A run that has gone astray stays there.
LEMMA LostStays ==
    ASSUME Lost, [Next]_vars
    PROVE  Simulated
<1>1. Lost'
  BY DEF Lost, Next, vars, EnterBlock, EnterTry, Leave, Catch, Escape, Arrive, EndBlock, EndBody, EndClause,
     EndFinally, Runs
<1>2. Observed = Python!Astray
  BY ObservedIs
<1>3. Observed' = Python!Astray
  BY <1>1, ObservedWillBe
<1> QED
  BY <1>2, <1>3 DEF Simulated

LEMMA StepsOf ==
    ASSUME NEW s, NEW r
    PROVE  Python!Steps(Python!Outcome(s, r, "running"))
           = Python!Entered(s, r) \cup Python!Left(s, r) \cup {Python!BlockEnded(s, r)} \cup Python!Strayed(s)
<1> DEFINE now == Python!Outcome(s, r, "running")
<1>1. now.status = "running" /\ now.stack = s /\ now.result = r
  BY DEF Python!Outcome
<1> HIDE DEF now
<1>2. Python!Steps(now)
      = Python!Entered(s, r) \cup Python!Left(s, r) \cup {Python!BlockEnded(s, r)} \cup Python!Strayed(s)
  BY <1>1 DEF Python!Steps
<1> QED
  BY <1>2 DEF now

\* What a running program with no jump on its way looks like to Python.
LEMMA RunsLooks ==
    ASSUME IInv, ~Lost, Runs
    PROVE  /\ Observed = Python!Outcome(PyFrames(stack), result, "running")
           /\ stack \in Seq(Frame) /\ PyFrames(stack) \in Seq(PyFrame)
           /\ Len(PyFrames(stack)) = Len(stack)
           /\ \A k \in 1 .. Len(stack) : PyFrames(stack)[k] = AsPython(stack[k]) /\ stack[k] \in Frame
BY ObservedIs, PyFramesFacts DEF Runs, IInv, TypeOK

LEMMA EnterSimulated ==
    ASSUME IInv, ~Lost, Runs, Len(stack) < MaxDepth, NEW f \in Frame, AsPython(f) \in Python!Frames,
           stack' = Append(stack, f), signal' = None, result' = result, status' = status, lost' = lost
    PROVE  Simulated
<1>1. Observed' = Python!Outcome(Append(PyFrames(stack), AsPython(f)), result, "running")
  <2>1. stack \in Seq(Frame) /\ ~Lost' /\ status = "running"
    BY DEF IInv, TypeOK, Lost, Runs
  <2>2. PyFrames(stack') = Append(PyFrames(stack), AsPython(f))
    BY <2>1, PyFramesAppend
  <2> QED
    BY <2>1, <2>2, ObservedWillBe
<1>2. Observed' \in Python!Entered(PyFrames(stack), result)
  BY <1>1, RunsLooks DEF Python!Entered
<1> QED
  BY <1>2, RunsLooks, StepsOf DEF Simulated

LEMMA OpensAgree ==
    ASSUME NEW kind, NEW catches, NEW els, NEW fin, NEW prev
    PROVE  AsPython(Open(kind, catches, els, fin, prev)) = Python!Open(kind, catches, els, fin)
<1> DEFINE f == Open(kind, catches, els, fin, prev)
<1>1. /\ f.kind = kind /\ f.part = "body" /\ f.catches = catches /\ f.els = els /\ f.fin = fin
      /\ f.flow = None /\ f.reraise = None
  BY DEF Open
<1> HIDE DEF f
<1>2. Bare(None) = None
  BY DEF Bare
<1>3. Bare(IF f.reraise # None THEN f.reraise ELSE f.flow) = None
  BY <1>1, <1>2
<1>4. (IF f.flow = None /\ f.reraise = None THEN None ELSE f.from) = None
  BY <1>1
<1>5. AsPython(f) = [kind |-> kind, part |-> "body", catches |-> catches, els |-> els, fin |-> fin,
                     from |-> None, pending |-> None]
  BY <1>1, <1>3, <1>4 DEF AsPython
<1> QED
  BY <1>5 DEF f, Python!Open

LEMMA EnterBlockSimulated ==
    ASSUME IInv, ~Lost, NEW kind \in {"func", "loop"}, EnterBlock(kind)
    PROVE  Simulated
<1> DEFINE f == Open(kind, {}, FALSE, FALSE, "default")
<1>1. f \in Frame
  BY DEF Open, Frame, Parts, Hooks
<1>2. AsPython(f) \in Python!Frames
  <2>1. AsPython(f) = Python!Open(kind, {}, FALSE, FALSE)
    BY OpensAgree
  <2>2. Python!Open(kind, {}, FALSE, FALSE) \in {Python!Function, Python!Loop}
    BY DEF Python!Function, Python!Loop
  <2> DEFINE tries == {Python!Open("try", catches, els, fin) :
                          catches \in SUBSET Exceptions, els \in BOOLEAN, fin \in BOOLEAN}
  <2>3. Python!Frames = {Python!Function, Python!Loop} \cup tries
    BY DEF Python!Frames
  <2> HIDE DEF f, tries
  <2> QED
    BY <2>1, <2>2, <2>3
<1>3. /\ Runs /\ Len(stack) < MaxDepth /\ stack' = Append(stack, f)
      /\ signal' = None /\ result' = result /\ status' = status /\ lost' = lost
  BY DEF EnterBlock, Runs
<1> HIDE DEF f
<1> QED
  BY <1>1, <1>2, <1>3, EnterSimulated

LEMMA EnterTrySimulated ==
    ASSUME IInv, ~Lost, NEW catches \in SUBSET Exceptions, NEW els \in BOOLEAN, NEW fin \in BOOLEAN,
           EnterTry(catches, els, fin)
    PROVE  Simulated
<1> DEFINE f == Open("try", catches, els, fin, hook)
<1>1. f \in Frame
  BY DEF Open, Frame, Parts, IInv, TypeOK
<1>2. AsPython(f) \in Python!Frames
  <2>1. AsPython(f) = Python!Open("try", catches, els, fin)
    BY OpensAgree
  <2> QED
    BY <2>1 DEF Python!Frames
<1>3. /\ Runs /\ Len(stack) < MaxDepth /\ stack' = Append(stack, f)
      /\ signal' = None /\ result' = result /\ status' = status /\ lost' = lost
  BY DEF EnterTry, Runs
<1> HIDE DEF f
<1> QED
  BY <1>1, <1>2, <1>3, EnterSimulated

\* What an InLoop of the emitter's is one of Python's.
LEMMA LoopsAgree ==
    ASSUME NEW s \in Seq(Frame)
    PROVE  /\ Python!InLoop(PyFrames(s)) <=> InLoop(s)
           /\ Python!Innermost(PyFrames(s), LAMBDA f : f.kind = "func") = InnermostFunc(s)
<1> DEFINE F == PyFrames(s)
<1>1. DOMAIN F = DOMAIN s /\ \A k \in DOMAIN s : F[k].kind = s[k].kind
  BY PyFramesFacts, AsPythonFacts
<1> HIDE DEF F
<1>2. /\ {i \in DOMAIN F : F[i].kind = "loop"} = {i \in DOMAIN s : s[i].kind = "loop"}
      /\ {i \in DOMAIN F : F[i].kind = "func"} = {i \in DOMAIN s : s[i].kind = "func"}
  BY <1>1
<1>3. Python!Innermost(F, LAMBDA f : f.kind = "func") = InnermostFunc(s)
  BY <1>2 DEF Python!Innermost, Python!Max, InnermostFunc, Innermost, Max
<1>4. Python!Innermost(F, LAMBDA f : f.kind = "loop") = Innermost(s, LAMBDA f : f.kind = "loop")
  BY <1>2 DEF Python!Innermost, Python!Max, Innermost, Max
<1>5. Python!InLoop(F) <=> InLoop(s)
  BY <1>3, <1>4 DEF Python!InLoop, InLoop
<1> QED
  BY <1>3, <1>5 DEF F

LEMMA InnermostFacts ==
    ASSUME NEW s \in Seq(Frame)
    PROVE  /\ InnermostFunc(s) \in 0 .. Len(s)
           /\ InnermostFunc(s) # 0 => s[InnermostFunc(s)].kind = "func"
           /\ \A j \in 1 .. Len(s) : s[j].kind = "func" => j <= InnermostFunc(s)
           /\ InClosure(s) => \E j \in 1 .. Len(s) : IsClosure(s[j]) /\ j > InnermostFunc(s)
           /\ InLoop(s) => \E j \in 1 .. Len(s) : s[j].kind = "loop" /\ j > InnermostFunc(s)
<1> DEFINE T == {0} \cup {i \in DOMAIN s : s[i].kind = "func"}
           C == {0} \cup {i \in DOMAIN s : IsClosure(s[i])}
           L == {0} \cup {i \in DOMAIN s : s[i].kind = "loop"}
<1>1. /\ T \subseteq 0 .. Len(s) /\ T # {} /\ C \subseteq 0 .. Len(s) /\ C # {}
      /\ L \subseteq 0 .. Len(s) /\ L # {} /\ Len(s) \in Nat /\ DOMAIN s = 1 .. Len(s)
  OBVIOUS
<1>2. /\ InnermostFunc(s) = Max(T) /\ (InClosure(s) <=> Max(C) > Max(T))
      /\ InLoop(s) <=> Max(L) > Max(T)
  BY DEF InnermostFunc, InClosure, InLoop, Innermost
<1> HIDE DEF T, C, L
<1>3. Max(T) \in T /\ \A j \in T : j <= Max(T)
  BY <1>1, LargestOf
<1>4. Max(C) \in C
  BY <1>1, LargestOf
<1>5. Max(L) \in L
  BY <1>1, LargestOf
<1>6. Max(T) \in 0 .. Len(s) /\ Max(C) \in 0 .. Len(s) /\ Max(L) \in 0 .. Len(s)
  BY <1>1, <1>3, <1>4, <1>5
<1>7. /\ Max(T) # 0 => s[Max(T)].kind = "func"
      /\ \A j \in 1 .. Len(s) : s[j].kind = "func" => j <= Max(T)
  BY <1>1, <1>3 DEF T
<1>8. Max(C) > Max(T) => Max(C) \in 1 .. Len(s) /\ IsClosure(s[Max(C)])
  BY <1>1, <1>4, <1>6 DEF C
<1>9. Max(L) > Max(T) => Max(L) \in 1 .. Len(s) /\ s[Max(L)].kind = "loop"
  BY <1>1, <1>5, <1>6 DEF L
<1> QED
  BY <1>2, <1>6, <1>7, <1>8, <1>9

\* Where rustc refuses the program, one try body sits in another's.
LEMMA RefusedIsGuarded ==
    ASSUME IInv, Runs, NEW jump \in Statements, jump.how \in {"break", "continue"} => InLoop(stack),
           ~Builds(stack, jump)
    PROVE  Python!Cardinality(Python!Guarded(PyFrames(stack))) > 1
<1> DEFINE i == Boundary(stack, jump)
           b == Below(stack, i)
           m == InnermostFunc(stack)
           G == Python!Guarded(PyFrames(stack))
<1>1. /\ stack \in Seq(Frame) /\ jump.how # "raise" /\ i > 0 /\ IsClosure(stack[i]) /\ InClosure(b)
      /\ status = "running"
  BY DEF Builds, IInv, TypeOK, Runs
<1>2. i \in 1 .. Len(stack) /\ \A j \in 1 .. Len(stack) : Stops(stack[j], jump) => j <= i
  BY <1>1, BoundaryFacts
<1>3. /\ m \in 0 .. Len(stack) /\ (m # 0 => stack[m].kind = "func")
      /\ \A j \in 1 .. Len(stack) : stack[j].kind = "func" => j <= m
      /\ InLoop(stack) => \E j \in 1 .. Len(stack) : stack[j].kind = "loop" /\ j > m
  BY <1>1, InnermostFacts
<1>4. jump.how \in {"return", "break", "continue"}
  <2>1. jump \in Signals
    BY StatementsAreJumps
  <2> QED
    BY <1>1, <2>1 DEF Signals
\* No function is open above the boundary.
<1>5. m < i
  <2>1. m # i
    BY <1>1, <1>2, <1>3 DEF IsClosure
  <2>2. CASE jump.how = "return"
    BY <1>2, <1>3, <2>1, <2>2 DEF Stops
  <2>3. CASE jump.how \in {"break", "continue"}
    <3>1. PICK j \in 1 .. Len(stack) : stack[j].kind = "loop" /\ j > m
      BY <1>3, <2>3
    <3>2. j <= i
      BY <1>2, <2>3, <3>1 DEF Stops
    <3> QED
      BY <1>2, <1>3, <3>1, <3>2
  <2> QED
    BY <1>4, <2>2, <2>3
<1>6. /\ b \in Seq(Frame) /\ Len(b) = i - 1 /\ \A k \in 1 .. i - 1 : b[k] = stack[k]
  BY <1>1, <1>2 DEF Below
<1>7. PICK k \in 1 .. i - 1 : IsClosure(stack[k]) /\ k > m
  <2> HIDE DEF b, i, m
  <2>1. PICK k \in 1 .. Len(b) : IsClosure(b[k]) /\ k > InnermostFunc(b)
    BY <1>1, <1>6, InnermostFacts
  <2>2. k \in 1 .. i - 1 /\ IsClosure(stack[k])
    BY <1>6, <2>1
  <2>3. k > m
    <3>1. CASE m = 0
      BY <2>2, <3>1
    <3>2. CASE m # 0
      <4>1. m \in 1 .. Len(b) /\ b[m].kind = "func"
        BY <1>2, <1>3, <1>5, <1>6, <3>2
      <4>2. m <= InnermostFunc(b) /\ InnermostFunc(b) \in 0 .. Len(b)
        BY <1>6, <4>1, InnermostFacts
      <4> QED
        BY <1>2, <1>3, <2>1, <2>2, <4>2
    <3> QED
      BY <3>1, <3>2
  <2> QED
    BY <2>2, <2>3
<1>8. {i, k} \subseteq G /\ G \subseteq 1 .. Len(stack) /\ i # k
  <2>1. /\ Python!Innermost(PyFrames(stack), LAMBDA f : f.kind = "func") = m
        /\ DOMAIN PyFrames(stack) = 1 .. Len(stack)
        /\ \A j \in 1 .. Len(stack) : /\ PyFrames(stack)[j].kind = stack[j].kind
                                    /\ PyFrames(stack)[j].part = stack[j].part
    BY <1>1, LoopsAgree, PyFramesFacts, AsPythonFacts
  <2>2. \A j \in 1 .. Len(stack) : j \in G <=> IsClosure(stack[j]) /\ j > m
    BY <2>1 DEF Python!Guarded, IsClosure
  <2>3. G \subseteq 1 .. Len(stack)
    BY <2>1 DEF Python!Guarded
  <2>4. i \in 1 .. Len(stack) /\ k \in 1 .. Len(stack) /\ i > m /\ i # k
    BY <1>2, <1>3, <1>5, <1>7
  <2> HIDE DEF G, i, m
  <2> QED
    BY <1>1, <1>7, <2>2, <2>3, <2>4
<1> HIDE DEF G, i, m
<1>9. Cardinality(G) > 1
  <2>1. IsFiniteSet(1 .. Len(stack))
    BY <1>1, FS_Interval
  <2>2. IsFiniteSet(G) /\ Cardinality(G) \in Nat
    BY <1>8, <2>1, FS_Subset, FS_CardinalityType
  <2>3. IsFiniteSet({k}) /\ Cardinality({k}) = 1
    BY FS_Singleton
  <2>4. Cardinality({k} \cup {i}) = 2
    <3>1. i \notin {k}
      BY <1>8
    <3>2. Cardinality({k} \cup {i}) = Cardinality({k}) + 1
      BY <2>3, <3>1, FS_AddElement
    <3> QED
      BY <2>3, <3>2
  <2>5. Cardinality({k} \cup {i}) <= Cardinality(G)
    <3>1. {k} \cup {i} \in SUBSET G
      BY <1>8
    <3> QED
      BY <2>2, <3>1, FS_Subset
  <2> QED
    BY <2>2, <2>4, <2>5
<1> QED
  BY <1>9, SameSize DEF G

LEMMA LeaveSimulated ==
    ASSUME IInv, ~Lost, NEW jump \in Statements, Leave(jump)
    PROVE  Simulated
<1> DEFINE F == PyFrames(stack)
<1>1. /\ Runs /\ stack' = stack /\ result' = result /\ lost' = lost
      /\ jump.how \in {"break", "continue"} => InLoop(stack)
  BY DEF Leave
<1>2. /\ Observed = Python!Outcome(F, result, "running") /\ stack \in Seq(Frame)
      /\ Python!Steps(Observed)
         = Python!Entered(F, result) \cup Python!Left(F, result) \cup {Python!BlockEnded(F, result)}
           \cup Python!Strayed(F)
  BY <1>1, RunsLooks, StepsOf
<1> HIDE DEF F
<1>3. CASE Builds(stack, jump)
  <2>1. signal' = [jump EXCEPT !.printed = jump.how = "raise" /\ hook = "default"] /\ status' = status
    BY <1>3 DEF Leave
  <2>2. signal' \in Signals /\ signal'.how = jump.how
    <3>1. jump \in Signals
      BY StatementsAreJumps
    <3> QED
      BY <2>1, <3>1 DEF Signals
  <2>3. /\ signal' # None /\ Bare(signal') \in Python!Jumps
        /\ Bare(signal').how \in {"break", "continue"} => Python!InLoop(F)
    BY <1>1, <1>2, <2>2, SignalFacts, LoopsAgree DEF F
  <2>4. ~Lost'
    BY <1>1, <2>1 DEF Lost
  <2>5. Observed' = Python!Landed(F, result, Bare(signal'))
    BY <1>1, <2>3, <2>4, ObservedWillBe DEF F
  <2>6. Observed' \in Python!Left(F, result)
    BY <2>3, <2>5 DEF Python!Left
  <2> QED
    BY <1>2, <2>6 DEF Simulated
<1>4. CASE ~Builds(stack, jump)
  <2>1. Observed' = Python!Astray
    <3>1. status' = "refused"
      BY <1>4 DEF Leave
    <3> QED
      BY <3>1, ObservedWillBe DEF Lost
  <2>2. Python!Cardinality(Python!Guarded(F)) > 1
    BY <1>1, <1>4, RefusedIsGuarded DEF F
  <2>3. Python!Astray \in Python!Strayed(F)
    BY <2>2 DEF Python!Strayed
  <2> QED
    BY <1>2, <2>1, <2>3 DEF Simulated
<1> QED
  BY <1>3, <1>4

-----------------------------------------------------------------------------
(* A jump that arrives                                                       *)

\* What a jump on its way looks like to Python, and where it stops in the emitted code.
LEMMA JumpLooks ==
    ASSUME IInv, ~Lost, status = "running", signal # None
    PROVE  /\ signal \in Signals
           /\ Observed = Python!Landed(PyFrames(stack), result, Bare(signal))
           /\ stack \in Seq(Frame) /\ PyFrames(stack) \in Seq(PyFrame)
           /\ Len(PyFrames(stack)) = Len(stack)
           /\ \A k \in 1 .. Len(stack) : PyFrames(stack)[k] = AsPython(stack[k]) /\ stack[k] \in Frame
           /\ Boundary(stack, signal) \in 0 .. Len(stack)
           /\ signal.how # "raise" => Boundary(stack, signal) # 0
           /\ Boundary(stack, signal) # 0 => Stops(stack[Boundary(stack, signal)], signal)
           /\ \A j \in 1 .. Len(stack) : Stops(stack[j], signal) => j <= Boundary(stack, signal)
<1>1. signal \in Signals /\ stack \in Seq(Frame)
  BY DEF IInv, TypeOK
<1>2. signal.how # "raise" => Boundary(stack, signal) \in 1 .. Len(stack)
  BY JumpLands
<1>3. signal.how # "raise" => Boundary(stack, signal) # 0
  BY <1>2
<1> QED
  BY <1>1, <1>3, ObservedIs, PyFramesFacts, BoundaryFacts

LEMMA ReceivesIs ==
    ASSUME NEW f, NEW jump
    PROVE  /\ f.kind = "func" => (Python!Receives(f, jump) <=> jump.how = "return")
           /\ f.kind = "loop" => (Python!Receives(f, jump) <=> jump.how \in {"break", "continue"})
           /\ f.kind = "try" => (Python!Receives(f, jump) <=> Python!Catches(f, jump) \/ Python!Finalises(f))
<1> DEFINE C == Python!Catches(f, jump)
           D == Python!Finalises(f)
<1>1. Python!Receives(f, jump) =
        CASE f.kind = "func" -> jump.how = "return"
          [] f.kind = "loop" -> jump.how \in {"break", "continue"}
          [] f.kind = "try" -> C \/ D
  BY DEF Python!Receives
<1>2. C \in BOOLEAN /\ D \in BOOLEAN
  BY DEF Python!Catches, Python!Finalises
<1> HIDE DEF C, D
<1>3. f.kind = "func" => (Python!Receives(f, jump) <=> jump.how = "return")
  BY <1>1
<1>4. f.kind = "loop" => (Python!Receives(f, jump) <=> jump.how \in {"break", "continue"})
  BY <1>1
<1>5. f.kind = "try" => (Python!Receives(f, jump) <=> C \/ D)
  BY <1>1, <1>2
<1> QED
  BY <1>3, <1>4, <1>5 DEF C, D

\* Above its boundary, a jump is received only by a handler or an else clause with a finally.
LEMMA ReceivedAbove ==
    ASSUME NEW s \in Seq(Frame), NEW jump \in Signals, NEW k \in 1 .. Len(s),
           ~Stops(s[k], jump)
    PROVE  /\ Python!Receives(AsPython(s[k]), Bare(jump)) =>
                 s[k].kind = "try" /\ s[k].part # "body"
           /\ Python!Receives(AsPython(s[k]), Bare(jump)) <=>
                 s[k].kind = "try" /\ s[k].fin /\ s[k].part # "finally"
<1>1. s[k] \in Frame
  BY ElementOfSeq
<1> DEFINE f == s[k]
           p == AsPython(f)
<1>2. /\ p.kind = f.kind /\ p.part = f.part /\ p.fin = f.fin /\ p.catches = f.catches
      /\ f.kind \in {"func", "loop", "try"} /\ f.fin \in BOOLEAN
  BY <1>1, AsPythonFacts DEF Frame
<1>3. Bare(jump).how = jump.how
  BY SignalFacts
<1>4. ~Stops(f, jump)
  OBVIOUS
<1> HIDE DEF f, p
<1>8. /\ Python!Receives(p, Bare(jump)) => f.kind = "try" /\ f.part # "body"
      /\ Python!Receives(p, Bare(jump)) <=> f.kind = "try" /\ f.fin /\ f.part # "finally"
  <2>1. CASE f.kind = "func"
    BY <1>2, <1>3, <1>4, <2>1, ReceivesIs DEF Stops
  <2>2. CASE f.kind = "loop"
    BY <1>2, <1>3, <1>4, <2>2, ReceivesIs DEF Stops
  <2>3. CASE f.kind = "try"
    <3>1. f.part # "body"
      BY <1>4, <2>3 DEF Stops, IsClosure
    <3> QED
      BY <1>2, <1>3, <2>3, <3>1, ReceivesIs DEF Python!Catches, Python!Finalises
  <2> QED
    BY <1>2, <2>1, <2>2, <2>3
<1> QED
  BY <1>8 DEF f, p

\* A jump that passes over a finally goes astray there; one that does not is received, in
\* Python too, at or below its boundary.
LEMMA PassingOver ==
    ASSUME IInv, ~Lost, status = "running", signal # None,
           lost' = lost \cup Skipped(stack, Boundary(stack, signal)), status' # "refused"
    PROVE  /\ Lost' => Simulated
           /\ ~Lost' => \A k \in 1 .. Len(stack) :
                            Python!Receives(PyFrames(stack)[k], Bare(signal)) => k <= Boundary(stack, signal)
<1> DEFINE i == Boundary(stack, signal)
           F == PyFrames(stack)
<1>1. /\ signal \in Signals /\ Observed = Python!Landed(F, result, Bare(signal))
      /\ stack \in Seq(Frame) /\ F \in Seq(PyFrame) /\ Len(F) = Len(stack) /\ i \in 0 .. Len(stack)
      /\ \A k \in 1 .. Len(stack) : F[k] = AsPython(stack[k])
      /\ \A k \in 1 .. Len(stack) : Stops(stack[k], signal) => k <= i
  BY JumpLooks
<1>2. StackInv(stack) /\ DOMAIN stack = 1 .. Len(stack) /\ Len(stack) \in Nat
  BY <1>1 DEF IInv
<1>3. Skipped(stack, i) = {stack[j].part : j \in {k \in DOMAIN stack : k > i /\ stack[k].fin /\ stack[k].part # "finally"}}
  BY DEF Skipped
<1>4. lost' = lost \cup Skipped(stack, i)
  OBVIOUS
<1> HIDE DEF i, F
<1>5. \A k \in 1 .. Len(stack) : k > i =>
         /\ Python!Receives(F[k], Bare(signal)) => stack[k].kind = "try" /\ stack[k].part # "body"
         /\ Python!Receives(F[k], Bare(signal)) <=> stack[k].kind = "try" /\ stack[k].fin /\ stack[k].part # "finally"
  <2> SUFFICES ASSUME NEW k \in 1 .. Len(stack), k > i
               PROVE  /\ Python!Receives(F[k], Bare(signal)) => stack[k].kind = "try" /\ stack[k].part # "body"
                      /\ Python!Receives(F[k], Bare(signal)) <=>
                            stack[k].kind = "try" /\ stack[k].fin /\ stack[k].part # "finally"
    OBVIOUS
  <2>1. ~Stops(stack[k], signal)
    BY <1>1
  <2> QED
    BY <1>1, <2>1, ReceivedAbove
<1>6. CASE Skipped(stack, i) = {}
  <2>1. ~Lost'
    BY <1>4, <1>6 DEF Lost
  <2>2. \A k \in 1 .. Len(stack) : Python!Receives(F[k], Bare(signal)) => k <= i
    <3> SUFFICES ASSUME NEW k \in 1 .. Len(stack), Python!Receives(F[k], Bare(signal)), k > i PROVE FALSE
      BY <1>1
    <3>1. stack[k].fin /\ stack[k].part # "finally"
      BY <1>5
    <3> QED
      BY <1>2, <1>3, <1>6, <3>1
  <2> QED
    BY <2>1, <2>2 DEF i, F
<1>7. CASE Skipped(stack, i) # {}
  <2>1. PICK q \in 1 .. Len(stack) : q > i /\ stack[q].fin /\ stack[q].part # "finally"
    BY <1>2, <1>3, <1>7
  <2>2. stack[q].kind = "try"
    BY <1>2, <2>1 DEF StackInv, Fits
  <2>3. Python!Receives(F[q], Bare(signal))
    BY <1>5, <2>1, <2>2
  <2>4. ASSUME NEW j \in q .. Len(F), Python!Receives(F[j], Bare(signal))
        PROVE  F[j].kind = "try" /\ F[j].part # "body"
    <3>1. j \in 1 .. Len(stack) /\ j > i
      BY <1>1, <2>1
    <3>2. stack[j].kind = "try" /\ stack[j].part # "body"
      BY <1>5, <2>4, <3>1
    <3>3. stack[j] \in Frame
      BY <1>1, <3>1, ElementOfSeq
    <3> QED
      BY <1>1, <3>1, <3>2, <3>3, AsPythonFacts
  <2>5. Bare(signal) \in [how : Hows, what : Whats]
    BY <1>1, SignalFacts
  <2>6. Python!Astray \in Python!Steps(Observed)
    BY <1>1, <2>1, <2>3, <2>4, <2>5, ClauseMayStray
  <2>7. Lost' /\ Observed' = Python!Astray
    BY <1>4, <1>7, ObservedWillBe DEF Lost
  <2> QED
    BY <2>6, <2>7 DEF Simulated
<1> QED
  BY <1>6, <1>7

\* Where the emitted code enters a finally, or passes on a jump, so does Python.
LEMMA ArriveSimulated ==
    ASSUME IInv, ~Lost, Arrive
    PROVE  Simulated
<1> DEFINE i == Boundary(stack, signal)
           F == PyFrames(stack)
           j == Bare(signal)
<1>1. /\ status = "running" /\ signal # None /\ signal.how # "raise" /\ ~IsClosure(stack[i])
      /\ lost' = lost \cup Skipped(stack, i)
      /\ stack' = (IF signal.how = "continue" THEN SubSeq(stack, 1, i) ELSE SubSeq(stack, 1, i - 1))
      /\ result' = (IF signal.how = "return" THEN signal.what ELSE result)
      /\ status' = (IF signal.how = "return" /\ i = 1 THEN "done" ELSE status)
      /\ signal' = None
  BY DEF Arrive, Below
<1>2. /\ signal \in Signals /\ Observed = Python!Landed(F, result, j)
      /\ stack \in Seq(Frame) /\ F \in Seq(PyFrame) /\ Len(F) = Len(stack) /\ i \in 1 .. Len(stack)
      /\ \A k \in 1 .. Len(stack) : F[k] = AsPython(stack[k])
      /\ Stops(stack[i], signal) /\ stack[i] \in Frame
  BY <1>1, JumpLooks, JumpLands
<1>3. /\ Lost' => Simulated
      /\ ~Lost' => \A k \in 1 .. Len(stack) : Python!Receives(F[k], j) => k <= i
  BY <1>1, PassingOver
<1>4. j.how = signal.how /\ j.what = signal.what /\ signal.how \in Hows
  BY <1>2, SignalFacts
<1>5. F[i].kind = stack[i].kind
  BY <1>2, AsPythonFacts
<1> HIDE DEF i, F, j
<1>6. \/ stack[i].kind = "func" /\ signal.how = "return"
      \/ stack[i].kind = "loop" /\ signal.how \in {"break", "continue"}
  BY <1>1, <1>2 DEF Stops
<1>7. Python!Receives(F[i], j)
  BY <1>4, <1>5, <1>6, ReceivesIs
<1>8. CASE ~Lost'
  <2>1. i = Receiver(F, j) /\ i > 0
    <3>1. /\ Receiver(F, j) \in 0 .. Len(F)
          /\ Receiver(F, j) # 0 => Python!Receives(F[Receiver(F, j)], j)
          /\ i <= Receiver(F, j)
      BY <1>2, <1>7, ReceiverFacts
    <3>2. Receiver(F, j) \in 1 .. Len(stack)
      BY <1>2, <3>1
    <3>3. Receiver(F, j) <= i
      BY <1>3, <1>8, <3>1, <3>2
    <3> QED
      BY <1>2, <3>1, <3>2, <3>3
  <2>2. Observed' = Python!Outcome(PyFrames(stack'), result', status')
    BY <1>1, <1>8, ObservedWillBe
  <2>3. /\ PyFrames(SubSeq(stack, 1, i)) = SubSeq(F, 1, i)
        /\ PyFrames(SubSeq(stack, 1, i - 1)) = SubSeq(F, 1, i - 1)
    <3>1. i \in 0 .. Len(stack) /\ i - 1 \in 0 .. Len(stack)
      BY <1>2
    <3> QED
      BY <1>2, <3>1, PyFramesPrefix DEF F
  <2>4. CASE stack[i].kind = "func" /\ signal.how = "return"
    <3>1. Observed = AtCall(F, i, j)
      BY <1>2, <1>5, <2>1, <2>4, LandedIs
    <3>2. stack' = SubSeq(stack, 1, i - 1) /\ result' = j.what /\ status' = Ended(i)
      BY <1>1, <1>4, <2>4 DEF Ended
    <3> QED
      BY <2>2, <2>3, <3>1, <3>2 DEF AtCall, Simulated
  <2>5. CASE stack[i].kind = "loop" /\ signal.how \in {"break", "continue"}
    <3>1. Observed = AtLoop(F, i, result, j)
      BY <1>2, <1>5, <2>1, <2>5, LandedIs
    <3>2. result' = result /\ status' = "running"
      BY <1>1, <2>5
    <3>3. PyFrames(stack') = Looped(F, i, j)
      <4>1. CASE signal.how = "break"
        BY <1>1, <1>4, <2>3, <4>1 DEF Looped
      <4>2. CASE signal.how = "continue"
        BY <1>1, <1>4, <2>3, <4>2 DEF Looped
      <4> QED
        BY <2>5, <4>1, <4>2
    <3> QED
      BY <2>2, <3>1, <3>2, <3>3 DEF AtLoop, Simulated
  <2> QED
    BY <1>6, <2>4, <2>5
<1> QED
  BY <1>3, <1>8

LEMMA SameFrame ==
    ASSUME NEW a \in PyFrame, NEW b \in PyFrame, a.kind = b.kind, a.part = b.part, a.catches = b.catches,
           a.els = b.els, a.fin = b.fin, a.from = b.from, a.pending = b.pending
    PROVE  a = b
BY DEF PyFrame

\* What a try that ends its match, or its finally, looks like to Python.
LEMMA EndLooks ==
    ASSUME NEW rest \in Seq(Frame), NEW f \in Frame, HoldsOne(f), ~Lost',
           status' = "running", result' = result
    PROVE  /\ f.fin /\ AfterMatch(rest, f) =>
                 Observed' = Python!Outcome(
                     Append(PyFrames(rest), AsPython([f EXCEPT !.part = "finally", !.from = f.part])),
                     result, "running")
           /\ Settle(rest, f) =>
                 Observed' = IF AsPython(f).pending = None
                             THEN Python!Outcome(PyFrames(rest), result, "running")
                             ELSE Python!Landed(PyFrames(rest), result, AsPython(f).pending)
<1>1. ASSUME f.fin, AfterMatch(rest, f)
      PROVE  Observed' = Python!Outcome(
                     Append(PyFrames(rest), AsPython([f EXCEPT !.part = "finally", !.from = f.part])),
                     result, "running")
  <2> DEFINE g == [f EXCEPT !.part = "finally", !.from = f.part]
  <2>1. stack' = Append(rest, g) /\ signal' = None
    BY <1>1 DEF AfterMatch
  <2>2. g \in Frame
    BY DEF Frame, Parts
  <2> HIDE DEF g
  <2>3. PyFrames(stack') = Append(PyFrames(rest), AsPython(g))
    BY <2>1, <2>2, PyFramesAppend
  <2>4. Observed' = Python!Outcome(Append(PyFrames(rest), AsPython(g)), result, "running")
    BY <2>1, <2>3, ObservedWillBe
  <2> QED
    BY <2>4 DEF g
<1>2. ASSUME Settle(rest, f)
      PROVE  Observed' = IF AsPython(f).pending = None
                         THEN Python!Outcome(PyFrames(rest), result, "running")
                         ELSE Python!Landed(PyFrames(rest), result, AsPython(f).pending)
  <2>1. /\ stack' = rest
        /\ signal' = IF f.reraise # None THEN [f.reraise EXCEPT !.printed = TRUE] ELSE f.flow
    BY <1>2 DEF Settle
  <2>2. AsPython(f).pending = Bare(IF f.reraise # None THEN f.reraise ELSE f.flow)
    BY AsPythonFacts
  <2>3. f.reraise \in Signals \cup {None} /\ f.flow \in Signals \cup {None}
    BY DEF Frame
  <2>4. CASE f.reraise # None
    <3>1. f.reraise \in Signals /\ signal' = [f.reraise EXCEPT !.printed = TRUE]
      BY <2>1, <2>3, <2>4
    <3>2. signal' \in Signals /\ signal'.how = f.reraise.how /\ signal'.what = f.reraise.what
      BY <3>1 DEF Signals
    <3>3. signal' # None /\ Bare(signal') = Bare(f.reraise) /\ Bare(f.reraise) # None
      BY <3>1, <3>2, SignalFacts
    <3> QED
      BY <2>1, <2>2, <2>4, <3>3, ObservedWillBe
  <2>5. CASE f.reraise = None /\ f.flow # None
    <3>1. signal' = f.flow /\ signal' # None /\ Bare(f.flow) # None
      BY <2>1, <2>3, <2>5, SignalFacts
    <3> QED
      BY <2>1, <2>2, <2>5, <3>1, ObservedWillBe
  <2>6. CASE f.reraise = None /\ f.flow = None
    <3>1. signal' = None /\ Bare(None) = None
      BY <2>1, <2>6 DEF Bare
    <3> QED
      BY <2>1, <2>2, <2>6, <3>1, ObservedWillBe
  <2> QED
    BY <2>4, <2>5, <2>6
<1> QED
  BY <1>1, <1>2

\* A jump that a closure stops and its match does not handle is held back by the finally,
\* or goes on below, as in Python.
LEMMA HeldSimulated ==
    ASSUME NEW s \in Seq(Frame), NEW jump \in Signals, NEW i \in 1 .. Len(s), IsClosure(s[i]),
           ~Python!Catches(AsPython(s[i]), Bare(jump)), s[i].flow = None, s[i].reraise = None,
           Observed = Python!Landed(PyFrames(s), result, Bare(jump)),
           \A k \in 1 .. Len(s) : Python!Receives(PyFrames(s)[k], Bare(jump)) => k <= i,
           NEW held \in Frame, held = [s[i] EXCEPT !.flow = jump] \/ held = [s[i] EXCEPT !.reraise = jump],
           AfterMatch(SubSeq(s, 1, i - 1), held), ~Lost', status' = "running", result' = result
    PROVE  Observed' = Observed
<1> DEFINE f == s[i]
           rest == SubSeq(s, 1, i - 1)
           F == PyFrames(s)
           j == Bare(jump)
           p == AsPython(f)
<1>1. /\ f \in Frame /\ f.kind = "try" /\ f.part = "body" /\ rest \in Seq(Frame)
      /\ F \in Seq(PyFrame) /\ Len(F) = Len(s) /\ F[i] = p /\ i - 1 \in 0 .. Len(s)
  BY PyFramesFacts, ElementOfSeq DEF IsClosure
<1>2. /\ held.kind = f.kind /\ held.part = f.part /\ held.catches = f.catches /\ held.els = f.els
      /\ held.fin = f.fin /\ HoldsOne(held)
      /\ ~(held.flow = None /\ held.reraise = None)
      /\ (IF held.reraise # None THEN held.reraise ELSE held.flow) = jump
  <2>1. jump # None
    BY SignalFacts
  <2> HIDE DEF f
  <2>2. CASE held = [f EXCEPT !.flow = jump]
    <3>1. held.flow = jump /\ held.reraise = None
      BY <1>1, <2>2 DEF Frame, f
    <3> QED
      BY <1>1, <2>1, <2>2, <3>1 DEF Frame, HoldsOne
  <2>3. CASE held = [f EXCEPT !.reraise = jump]
    <3>1. held.reraise = jump /\ held.flow = None
      BY <1>1, <2>3 DEF Frame, f
    <3> QED
      BY <1>1, <2>1, <2>3, <3>1 DEF Frame, HoldsOne
  <2> QED
    BY <2>2, <2>3 DEF f
<1>3. PyFrames(rest) = SubSeq(F, 1, i - 1)
  BY <1>1, PyFramesPrefix
<1>4. /\ p \in PyFrame /\ p.kind = "try" /\ p.part = "body" /\ p.fin = f.fin /\ p.catches = f.catches /\ p.els = f.els
      /\ AsPython(held).pending = j /\ j # None /\ j \in [how : Hows, what : Whats]
  BY <1>1, <1>2, AsPythonFacts, SignalFacts
<1>5. /\ Observed = Python!Landed(F, result, j) /\ ~Python!Catches(p, j) /\ AfterMatch(rest, held)
      /\ \A k \in 1 .. Len(s) : Python!Receives(F[k], j) => k <= i
  OBVIOUS
<1>6. Python!Receives(p, j) <=> f.fin
  <2> HIDE DEF p, j, f
  <2> QED
    BY <1>4, <1>5, ReceivesIs DEF Python!Finalises
<1>7. CASE f.fin
  <2> DEFINE g == [held EXCEPT !.part = "finally", !.from = held.part]
             h == [p EXCEPT !.part = "finally", !.from = p.part, !.pending = j]
  <2>1. Observed' = Python!Outcome(Append(PyFrames(rest), AsPython(g)), result, "running")
    <3> HIDE DEF rest
    <3> QED
      BY <1>1, <1>2, <1>5, <1>7, EndLooks
  <2>2. /\ g \in Frame /\ g.part = "finally" /\ g.from = held.part /\ g.kind = held.kind /\ g.catches = held.catches
        /\ g.els = held.els /\ g.fin = held.fin /\ g.flow = held.flow /\ g.reraise = held.reraise
    BY DEF Frame, Parts
  <2>3. /\ h \in PyFrame /\ h.part = "finally" /\ h.from = "body" /\ h.kind = p.kind /\ h.catches = p.catches
        /\ h.els = p.els /\ h.fin = p.fin /\ h.pending = j
    <3> HIDE DEF p, j
    <3> QED
      BY <1>4 DEF PyFrame, Parts
  <2> HIDE DEF g, h, p, j, f
  <2>4. AsPython(g) = h
    <3>1. /\ AsPython(g) \in PyFrame /\ AsPython(g).kind = g.kind /\ AsPython(g).part = g.part
          /\ AsPython(g).catches = g.catches /\ AsPython(g).els = g.els /\ AsPython(g).fin = g.fin
          /\ AsPython(g).from = g.from
          /\ AsPython(g).pending = Bare(IF g.reraise # None THEN g.reraise ELSE g.flow)
      BY <1>2, <2>2, AsPythonFacts
    <3>2. AsPython(g).pending = j
      BY <1>2, <2>2, <3>1 DEF j
    <3> QED
      BY <1>1, <1>2, <1>4, <2>2, <2>3, <3>1, <3>2, SameFrame
  <2>5. Received(F[i], j) = h
    BY <1>1, <1>5 DEF Received, h
  <2>6. Receiver(F, j) = i
    <3> HIDE DEF F
    <3>1. /\ Receiver(F, j) \in 0 .. Len(F)
          /\ Receiver(F, j) # 0 => Python!Receives(F[Receiver(F, j)], j)
          /\ i <= Receiver(F, j)
      BY <1>1, <1>6, <1>7, ReceiverFacts
    <3>2. Receiver(F, j) \in 1 .. Len(s)
      BY <1>1, <3>1
    <3> QED
      BY <1>5, <3>1, <3>2
  <2>7. Observed = AtTry(F, i, result, j)
    <3> HIDE DEF F
    <3>1. F[i].kind = "try" /\ i > 0
      BY <1>1, <1>4
    <3> QED
      BY <1>1, <1>5, <2>6, <3>1, LandedIs
  <2> QED
    BY <1>3, <2>1, <2>4, <2>5, <2>7 DEF AtTry
<1>8. CASE ~f.fin
  <2> HIDE DEF f, rest, F, j, p
  <2>1. Settle(rest, held)
    BY <1>2, <1>5, <1>8 DEF AfterMatch
  <2>2. Observed' = Python!Landed(PyFrames(rest), result, j)
    BY <1>1, <1>2, <1>4, <2>1, EndLooks
  <2>3. \A k \in 1 .. Len(F) : Python!Receives(F[k], j) => k <= i - 1
    BY <1>1, <1>5, <1>6, <1>8
  <2>4. Python!Landed(SubSeq(F, 1, i - 1), result, j) = Python!Landed(F, result, j)
    BY <1>1, <2>3, LandedBelow
  <2> QED
    BY <1>3, <1>5, <2>2, <2>4
<1> QED
  BY <1>7, <1>8

LEMMA CatchSimulated ==
    ASSUME IInv, HeldInv, ~Lost, Catch
    PROVE  Simulated
<1> DEFINE i == Boundary(stack, signal)
           f == stack[i]
           rest == SubSeq(stack, 1, i - 1)
           F == PyFrames(stack)
           j == Bare(signal)
           held == [f EXCEPT !.reraise = signal]
           handled == [f EXCEPT !.part = "handler"]
<1>1. /\ status = "running" /\ signal # None /\ signal.how = "raise" /\ result' = result
      /\ lost' = lost \cup Skipped(stack, i)
      /\ i = 0 => stack' = <<>> /\ signal' = None /\ status' = "aborted"
      /\ i # 0 => /\ status' = status
                  /\ IF signal.what \in f.catches THEN stack' = Append(rest, handled) /\ signal' = None
                     ELSE AfterMatch(rest, held)
  BY DEF Catch, Below
<1>2. /\ signal \in Signals /\ Observed = Python!Landed(F, result, j)
      /\ stack \in Seq(Frame) /\ F \in Seq(PyFrame) /\ Len(F) = Len(stack) /\ i \in 0 .. Len(stack)
      /\ \A k \in 1 .. Len(stack) : F[k] = AsPython(stack[k]) /\ stack[k] \in Frame
      /\ i # 0 => Stops(f, signal)
  BY <1>1, JumpLooks
<1>3. /\ Lost' => Simulated
      /\ ~Lost' => \A k \in 1 .. Len(stack) : Python!Receives(F[k], j) => k <= i
  <2>1. status' # "refused"
    BY <1>1
  <2> QED
    BY <1>1, <2>1, PassingOver
<1>4. j.how = "raise" /\ j.what = signal.what
  BY <1>1, <1>2, SignalFacts
<1>5. CASE ~Lost' /\ i = 0
  <2>1. Receiver(F, j) = 0
    <3>1. /\ Receiver(F, j) \in 0 .. Len(F)
          /\ Receiver(F, j) # 0 => Python!Receives(F[Receiver(F, j)], j)
      BY <1>2, ReceiverFacts
    <3> HIDE DEF i, F, j
    <3> QED
      BY <1>2, <1>3, <1>5, <3>1
  <2>2. Observed = Python!Outcome(<<>>, result, "aborted")
    <3> HIDE DEF F, j
    <3> QED
      BY <1>2, <2>1, LandedIs
  <2>3. PyFrames(stack') = <<>>
    BY <1>1, <1>5 DEF PyFrames
  <2>4. Observed' = Python!Outcome(<<>>, result, "aborted")
    BY <1>1, <1>5, <2>3, ObservedWillBe
  <2> QED
    BY <2>2, <2>4 DEF Simulated
<1>6. CASE ~Lost' /\ i # 0
  <2>1. /\ i \in 1 .. Len(stack) /\ IsClosure(f) /\ f \in Frame /\ F[i] = AsPython(f)
        /\ f.flow = None /\ f.reraise = None /\ i - 1 \in 0 .. Len(stack)
    <3>1. i \in 1 .. Len(stack)
      BY <1>2, <1>6
    <3>2. IsClosure(f)
      BY <1>1, <1>2, <1>6 DEF Stops
    <3> QED
      BY <1>2, <3>1, <3>2 DEF HeldInv, HoldsRight, IsClosure
  <2>2. Python!Catches(AsPython(f), j) <=> signal.what \in f.catches
    BY <1>4, <2>1, AsPythonFacts DEF Python!Catches, IsClosure
  <2>3. CASE signal.what \in f.catches
    <3>1. stack' = Append(rest, handled) /\ signal' = None /\ status' = "running"
      BY <1>1, <1>6, <2>3
    <3> HIDE DEF i, F, j, f
    <3>2. rest \in Seq(Frame) /\ PyFrames(rest) = SubSeq(F, 1, i - 1)
      BY <1>2, <2>1, PyFramesPrefix DEF F
    <3>3. /\ handled \in Frame /\ handled.part = "handler" /\ handled.kind = f.kind /\ handled.catches = f.catches
          /\ handled.els = f.els /\ handled.fin = f.fin /\ handled.flow = None /\ handled.reraise = None
      BY <2>1 DEF Frame, Parts
    <3> DEFINE h == [AsPython(f) EXCEPT !.part = "handler"]
    <3>4. /\ AsPython(f) \in PyFrame /\ AsPython(f).kind = f.kind /\ AsPython(f).catches = f.catches
          /\ AsPython(f).els = f.els /\ AsPython(f).fin = f.fin
          /\ AsPython(f).from = None /\ AsPython(f).pending = Bare(None)
      BY <2>1, AsPythonFacts
    <3>5. /\ h \in PyFrame /\ h.part = "handler" /\ h.kind = f.kind /\ h.catches = f.catches
          /\ h.els = f.els /\ h.fin = f.fin /\ h.from = None /\ h.pending = Bare(None)
      BY <3>4 DEF PyFrame, Parts
    <3> HIDE DEF handled, h
    <3>6. /\ AsPython(handled) \in PyFrame /\ AsPython(handled).kind = f.kind
          /\ AsPython(handled).part = "handler" /\ AsPython(handled).catches = f.catches
          /\ AsPython(handled).els = f.els /\ AsPython(handled).fin = f.fin
          /\ AsPython(handled).from = None /\ AsPython(handled).pending = Bare(None)
      BY <3>3, AsPythonFacts
    <3>7. AsPython(handled) = h
      BY <3>5, <3>6, SameFrame
    <3>8. Observed' = Python!Outcome(Append(SubSeq(F, 1, i - 1), h), result, "running")
      <4>1. PyFrames(stack') = Append(SubSeq(F, 1, i - 1), h)
        BY <3>1, <3>2, <3>3, <3>7, PyFramesAppend
      <4> QED
        BY <1>1, <1>6, <3>1, <4>1, ObservedWillBe
    <3>9. Received(F[i], j) = h
      BY <2>1, <2>2, <2>3 DEF Received, h
    <3>10. Receiver(F, j) = i
      <4>1. F[i].kind = "try"
        BY <2>1, <3>4 DEF IsClosure
      <4>2. Python!Receives(F[i], j)
        BY <2>1, <2>2, <2>3, <4>1, ReceivesIs
      <4>3. /\ Receiver(F, j) \in 0 .. Len(F)
            /\ Receiver(F, j) # 0 => Python!Receives(F[Receiver(F, j)], j)
            /\ i <= Receiver(F, j)
        BY <1>2, <2>1, <4>2, ReceiverFacts
      <4>4. Receiver(F, j) \in 1 .. Len(stack)
        BY <1>2, <2>1, <4>3
      <4> QED
        BY <1>3, <1>6, <2>1, <4>3, <4>4
    <3>11. Observed = AtTry(F, i, result, j)
      <4>1. F[i].kind = "try" /\ i > 0
        BY <2>1, <3>4 DEF IsClosure
      <4> QED
        BY <1>2, <3>10, <4>1, LandedIs
    <3> QED
      BY <3>8, <3>9, <3>11 DEF AtTry, Simulated
  <2>4. CASE signal.what \notin f.catches
    <3>1. AfterMatch(rest, held) /\ status' = "running" /\ ~Lost'
      BY <1>1, <1>6, <2>4
    <3>2. held \in Frame
      BY <1>2, <2>1 DEF Frame
    <3>3. Observed' = Observed
      BY <1>1, <1>2, <1>3, <2>1, <2>2, <2>4, <3>1, <3>2, HeldSimulated
    <3> QED
      BY <3>3 DEF Simulated
  <2> QED
    BY <2>3, <2>4
<1> QED
  BY <1>3, <1>5, <1>6

LEMMA EscapeSimulated ==
    ASSUME IInv, HeldInv, ~Lost, Escape
    PROVE  Simulated
<1> DEFINE i == Boundary(stack, signal)
           f == stack[i]
           rest == SubSeq(stack, 1, i - 1)
           F == PyFrames(stack)
           j == Bare(signal)
           held == [f EXCEPT !.flow = signal]
<1>1. /\ status = "running" /\ signal # None /\ signal.how # "raise" /\ result' = result /\ status' = status
      /\ lost' = lost \cup Skipped(stack, i) /\ IsClosure(f) /\ AfterMatch(rest, held)
  BY DEF Escape, Below
<1>2. /\ signal \in Signals /\ Observed = Python!Landed(F, result, j)
      /\ stack \in Seq(Frame) /\ i \in 1 .. Len(stack)
      /\ f \in Frame
  BY <1>1, JumpLooks, JumpLands
<1>3. /\ Lost' => Simulated
      /\ ~Lost' => \A k \in 1 .. Len(stack) : Python!Receives(F[k], j) => k <= i
  <2>1. status' # "refused"
    BY <1>1
  <2> QED
    BY <1>1, <2>1, PassingOver
<1>4. j.how # "raise"
  BY <1>1, <1>2, SignalFacts
<1>5. f.flow = None /\ f.reraise = None /\ ~Python!Catches(AsPython(f), j) /\ held \in Frame
  BY <1>1, <1>2, <1>4 DEF HeldInv, HoldsRight, IsClosure, Python!Catches, Frame
<1>6. CASE ~Lost'
  <2>1. Observed' = Observed
    BY <1>1, <1>2, <1>3, <1>5, <1>6, HeldSimulated
  <2> QED
    BY <2>1 DEF Simulated
<1> QED
  BY <1>3, <1>6

-----------------------------------------------------------------------------
(* A block that comes to its end                                             *)

\* What Python makes of the end of the innermost block.
LEMMA BlockEndedIs ==
    ASSUME NEW s \in Seq(PyFrame), s # <<>>, NEW r, NEW f, f = s[Len(s)]
    PROVE  /\ f.kind = "func" => Python!BlockEnded(s, r) = Python!Landed(s, r, Python!Return(None))
           /\ f.kind = "loop" =>
                 Python!BlockEnded(s, r) = Python!Outcome(SubSeq(s, 1, Len(s) - 1), r, "running")
           /\ f.kind = "try" /\ Python!NextClause(f) # "end" =>
                 Python!BlockEnded(s, r)
                 = Python!Outcome(Append(SubSeq(s, 1, Len(s) - 1), [f EXCEPT !.part = Python!NextClause(f)]),
                                  r, "running")
           /\ f.kind = "try" /\ Python!NextClause(f) = "end" =>
                 Python!BlockEnded(s, r)
                 = IF f.pending = None THEN Python!Outcome(SubSeq(s, 1, Len(s) - 1), r, "running")
                   ELSE Python!Landed(SubSeq(s, 1, Len(s) - 1), r, f.pending)
<1> DEFINE A1 == Python!Landed(s, r, Python!Return(None))
           A2 == Python!Outcome(SubSeq(s, 1, Len(s) - 1), r, "running")
           A3 == Python!Outcome(Append(SubSeq(s, 1, Len(s) - 1), [f EXCEPT !.part = Python!NextClause(f)]),
                                r, "running")
           A4 == IF f.pending = None THEN Python!Outcome(SubSeq(s, 1, Len(s) - 1), r, "running")
                 ELSE Python!Landed(SubSeq(s, 1, Len(s) - 1), r, f.pending)
           n == Python!NextClause(f)
<1>1. Python!BlockEnded(s, r) =
        CASE f.kind = "func" -> A1
          [] f.kind = "loop" -> A2
          [] f.kind = "try" /\ n # "end" -> A3
          [] f.kind = "try" /\ n = "end" -> A4
  BY DEF Python!BlockEnded, Python!Below, Python!Top
<1> HIDE DEF A1, A2, A3, A4, n
<1>2. /\ f.kind = "func" => Python!BlockEnded(s, r) = A1
      /\ f.kind = "loop" => Python!BlockEnded(s, r) = A2
      /\ f.kind = "try" /\ n # "end" => Python!BlockEnded(s, r) = A3
      /\ f.kind = "try" /\ n = "end" => Python!BlockEnded(s, r) = A4
  BY <1>1
<1> QED
  BY <1>2 DEF A1, A2, A3, A4, n

LEMMA NextClauseIs ==
    ASSUME NEW f
    PROVE  /\ f.part = "body" /\ f.els => Python!NextClause(f) = "else"
           /\ f.part # "finally" /\ f.fin /\ ~(f.part = "body" /\ f.els) => Python!NextClause(f) = "finally"
           /\ f.part = "finally" \/ (~f.fin /\ ~(f.part = "body" /\ f.els)) => Python!NextClause(f) = "end"
BY DEF Python!NextClause

\* The block that runs, in both programs.
LEMMA TopLooks ==
    ASSUME IInv, HeldInv, ~Lost, Runs
    PROVE  /\ Observed = Python!Outcome(PyFrames(stack), result, "running")
           /\ Python!BlockEnded(PyFrames(stack), result) \in Python!Steps(Observed)
           /\ stack \in Seq(Frame) /\ PyFrames(stack) \in Seq(PyFrame) /\ PyFrames(stack) # <<>>
           /\ Len(PyFrames(stack)) = Len(stack) /\ Len(stack) \in 1 .. Len(stack)
           /\ Top(stack) = stack[Len(stack)] /\ Top(stack) \in Frame /\ HoldsRight(Top(stack))
           /\ PyFrames(stack)[Len(PyFrames(stack))] = AsPython(Top(stack))
           /\ Below(stack, Len(stack)) = SubSeq(stack, 1, Len(stack) - 1)
           /\ SubSeq(stack, 1, Len(stack) - 1) \in Seq(Frame)
           /\ PyFrames(SubSeq(stack, 1, Len(stack) - 1)) = SubSeq(PyFrames(stack), 1, Len(stack) - 1)
<1> DEFINE F == PyFrames(stack)
           n == Len(stack)
<1>1. /\ Observed = Python!Outcome(F, result, "running") /\ stack \in Seq(Frame) /\ F \in Seq(PyFrame)
      /\ Len(F) = n /\ \A k \in 1 .. n : F[k] = AsPython(stack[k])
  BY RunsLooks
<1>2. n \in 1 .. n /\ Top(stack) = stack[n] /\ Top(stack) \in Frame
  BY TopFacts
<1>3. F # <<>> /\ F[Len(F)] = AsPython(Top(stack)) /\ HoldsRight(Top(stack))
  <2>1. HoldsRight(Top(stack))
    BY <1>2 DEF HeldInv
  <2> HIDE DEF F
  <2> QED
    BY <1>1, <1>2, <2>1
<1>4. Python!BlockEnded(F, result) \in Python!Steps(Observed)
  BY <1>1, StepsOf
<1>5. SubSeq(stack, 1, n - 1) \in Seq(Frame) /\ PyFrames(SubSeq(stack, 1, n - 1)) = SubSeq(F, 1, n - 1)
  <2>1. n - 1 \in 0 .. n
    BY <1>2
  <2> QED
    BY <1>1, <2>1, PyFramesPrefix
<1> QED
  BY <1>1, <1>2, <1>3, <1>4, <1>5 DEF Below

LEMMA EndBlockSimulated ==
    ASSUME IInv, HeldInv, ~Lost, EndBlock
    PROVE  Simulated
<1> DEFINE F == PyFrames(stack)
           n == Len(stack)
           f == Top(stack)
<1>1. /\ Runs /\ f.kind # "try" /\ stack' = SubSeq(stack, 1, n - 1)
      /\ result' = (IF f.kind = "func" THEN None ELSE result)
      /\ status' = (IF n = 1 THEN "done" ELSE status)
      /\ signal' = None /\ lost' = lost /\ status = "running"
  BY DEF EndBlock, Below, Runs
<1>2. /\ Python!BlockEnded(F, result) \in Python!Steps(Observed)
      /\ F \in Seq(PyFrame) /\ F # <<>> /\ Len(F) = n /\ n \in 1 .. n /\ f = stack[n] /\ f \in Frame
      /\ F[Len(F)] = AsPython(f) /\ PyFrames(stack') = SubSeq(F, 1, n - 1)
  BY <1>1, TopLooks
<1>3. AsPython(f).kind = f.kind /\ f.kind \in {"func", "loop"} /\ stack[1].kind = "func"
  BY <1>1, <1>2, AsPythonFacts, TopFacts DEF Frame
<1>4. Observed' = Python!Outcome(SubSeq(F, 1, n - 1), result', status')
  <2>1. ~Lost'
    BY <1>1 DEF Lost
  <2> QED
    BY <1>1, <1>2, <2>1, ObservedWillBe
<1> HIDE DEF F, n, f
<1>5. CASE f.kind = "func"
  <2> DEFINE j == Python!Return(None)
  <2>1. j.how = "return" /\ j.what = None
    BY DEF Python!Return
  <2> HIDE DEF j
  <2>2. Python!Receives(F[n], j)
    BY <1>2, <1>3, <1>5, <2>1, ReceivesIs
  <2>3. Receiver(F, j) = n
    <3>1. Receiver(F, j) \in 0 .. Len(F) /\ n <= Receiver(F, j)
      BY <1>2, <2>2, ReceiverFacts
    <3> QED
      BY <1>2, <3>1
  <2>4. Python!Landed(F, result, j) = AtCall(F, n, j)
    <3>1. n > 0 /\ F[n].kind = "func"
      BY <1>2, <1>3, <1>5
    <3> QED
      BY <1>2, <2>3, <3>1, LandedIs
  <2>5. Python!BlockEnded(F, result) = Python!Landed(F, result, j)
    <3>1. AsPython(f).kind = "func"
      BY <1>3, <1>5
    <3> QED
      BY <1>2, <3>1, BlockEndedIs DEF j
  <2>6. result' = None /\ status' = Ended(n)
    BY <1>1, <1>5 DEF Ended
  <2> QED
    BY <1>2, <1>4, <2>1, <2>4, <2>5, <2>6 DEF AtCall, Simulated
<1>6. CASE f.kind = "loop"
  <2>1. Python!BlockEnded(F, result) = Python!Outcome(SubSeq(F, 1, Len(F) - 1), result, "running")
    <3>1. AsPython(f).kind = "loop"
      BY <1>3, <1>6
    <3> QED
      BY <1>2, <3>1, BlockEndedIs
  <2>2. result' = result /\ status' = "running"
    <3>1. n # 1
      BY <1>2, <1>3, <1>6
    <3> QED
      BY <1>1, <1>6, <3>1
  <2> QED
    BY <1>2, <1>4, <2>1, <2>2 DEF Simulated
<1> QED
  BY <1>3, <1>5, <1>6

\* A body without an else, a handler or an else clause that falls off its end.
LEMMA ClauseEnds ==
    ASSUME IInv, HeldInv, ~Lost, Runs, Top(stack).kind = "try", Top(stack).part # "finally",
           ~(Top(stack).part = "body" /\ Top(stack).els),
           AfterMatch(SubSeq(stack, 1, Len(stack) - 1), Top(stack)),
           result' = result, status' = status, lost' = lost
    PROVE  Simulated
<1> DEFINE F == PyFrames(stack)
           n == Len(stack)
           f == Top(stack)
           rest == SubSeq(stack, 1, n - 1)
           p == AsPython(f)
<1>1. /\ ~Lost' /\ status' = "running" /\ f.kind = "try" /\ f.part # "finally" /\ ~(f.part = "body" /\ f.els)
      /\ AfterMatch(rest, f) /\ result' = result
  BY DEF Lost, Runs
<1>2. /\ Python!BlockEnded(F, result) \in Python!Steps(Observed)
      /\ F \in Seq(PyFrame) /\ F # <<>> /\ Len(F) = n /\ f \in Frame
      /\ F[Len(F)] = p /\ rest \in Seq(Frame) /\ PyFrames(rest) = SubSeq(F, 1, n - 1)
      /\ f.flow = None /\ f.reraise = None /\ HoldsOne(f)
  BY TopLooks DEF HoldsRight
<1>3. /\ p \in PyFrame /\ p.kind = f.kind /\ p.part = f.part /\ p.catches = f.catches /\ p.els = f.els
      /\ p.fin = f.fin /\ p.from = None /\ p.pending = None
  <2>1. Bare(None) = None
    BY DEF Bare
  <2> QED
    BY <1>2, <2>1, AsPythonFacts
<1> HIDE DEF F, n, f, rest, p
<1>4. CASE f.fin
  <2> DEFINE g == [f EXCEPT !.part = "finally", !.from = f.part]
             h == [p EXCEPT !.part = "finally"]
  <2>1. /\ g \in Frame /\ g.part = "finally" /\ g.kind = f.kind /\ g.catches = f.catches /\ g.els = f.els
        /\ g.fin = f.fin /\ g.flow = None /\ g.reraise = None
    BY <1>2 DEF Frame, Parts
  <2>2. /\ h \in PyFrame /\ h.part = "finally" /\ h.kind = p.kind /\ h.catches = p.catches /\ h.els = p.els
        /\ h.fin = p.fin /\ h.from = None /\ h.pending = None
    BY <1>3 DEF PyFrame, Parts
  <2>3. Observed' = Python!Outcome(Append(PyFrames(rest), AsPython(g)), result, "running")
    BY <1>1, <1>2, <1>4, EndLooks
  <2> HIDE DEF g, h
  <2>4. AsPython(g) = h
    <3>1. /\ AsPython(g) \in PyFrame /\ AsPython(g).kind = g.kind /\ AsPython(g).part = g.part
          /\ AsPython(g).catches = g.catches /\ AsPython(g).els = g.els /\ AsPython(g).fin = g.fin
          /\ AsPython(g).from = None /\ AsPython(g).pending = Bare(None)
      BY <2>1, AsPythonFacts
    <3>2. Bare(None) = None
      BY DEF Bare
    <3> QED
      BY <1>3, <2>1, <2>2, <3>1, <3>2, SameFrame
  <2>5. Python!NextClause(p) = "finally"
    BY <1>1, <1>3, <1>4, NextClauseIs
  <2>6. Python!BlockEnded(F, result) = Python!Outcome(Append(SubSeq(F, 1, n - 1), h), result, "running")
    <3>1. p.kind = "try" /\ Python!NextClause(p) # "end"
      BY <1>1, <1>3, <2>5
    <3>2. Python!BlockEnded(F, result)
          = Python!Outcome(Append(SubSeq(F, 1, Len(F) - 1), [p EXCEPT !.part = Python!NextClause(p)]),
                           result, "running")
      BY <1>2, <3>1, BlockEndedIs
    <3> QED
      BY <1>2, <2>5, <3>2 DEF h
  <2> QED
    BY <1>2, <2>3, <2>4, <2>6 DEF Simulated
<1>5. CASE ~f.fin
  <2>1. Settle(rest, f)
    BY <1>1, <1>5 DEF AfterMatch
  <2>2. Observed' = Python!Outcome(PyFrames(rest), result, "running")
    BY <1>1, <1>2, <1>3, <2>1, EndLooks DEF p
  <2>3. Python!NextClause(p) = "end"
    BY <1>1, <1>3, <1>5, NextClauseIs
  <2>4. Python!BlockEnded(F, result) = Python!Outcome(SubSeq(F, 1, n - 1), result, "running")
    BY <1>1, <1>2, <1>3, <2>3, BlockEndedIs
  <2> QED
    BY <1>2, <2>2, <2>4 DEF Simulated
<1> QED
  BY <1>4, <1>5

LEMMA EndBodySimulated ==
    ASSUME IInv, HeldInv, ~Lost, EndBody
    PROVE  Simulated
<1> DEFINE F == PyFrames(stack)
           n == Len(stack)
           f == Top(stack)
           rest == SubSeq(stack, 1, n - 1)
           p == AsPython(f)
           next == [f EXCEPT !.part = "else"]
           h == [p EXCEPT !.part = "else"]
<1>1. /\ Runs /\ f.kind = "try" /\ f.part = "body" /\ result' = result /\ status' = status /\ lost' = lost
      /\ IF f.els THEN stack' = Append(rest, next) /\ signal' = None ELSE AfterMatch(rest, f)
      /\ ~Lost' /\ status' = "running"
  BY DEF EndBody, IsClosure, Below, Lost, Runs
<1>2. CASE ~f.els
  BY <1>1, <1>2, ClauseEnds
<1>3. CASE f.els
  <2>1. /\ Python!BlockEnded(F, result) \in Python!Steps(Observed)
        /\ F \in Seq(PyFrame) /\ F # <<>> /\ Len(F) = n /\ f \in Frame
        /\ F[Len(F)] = p /\ rest \in Seq(Frame) /\ PyFrames(rest) = SubSeq(F, 1, n - 1)
        /\ f.flow = None /\ f.reraise = None
    BY <1>1, TopLooks DEF HoldsRight
  <2>2. /\ p \in PyFrame /\ p.kind = "try" /\ p.part = "body" /\ p.catches = f.catches /\ p.els = f.els
        /\ p.fin = f.fin /\ p.from = None /\ p.pending = Bare(None)
    BY <1>1, <2>1, AsPythonFacts
  <2> HIDE DEF F, n, f, rest, p
  <2>3. /\ next \in Frame /\ next.part = "else" /\ next.kind = f.kind /\ next.catches = f.catches
        /\ next.els = f.els /\ next.fin = f.fin /\ next.flow = None /\ next.reraise = None
    BY <2>1 DEF Frame, Parts
  <2>4. /\ h \in PyFrame /\ h.part = "else" /\ h.kind = p.kind /\ h.catches = p.catches /\ h.els = p.els
        /\ h.fin = p.fin /\ h.from = None /\ h.pending = Bare(None)
    BY <2>2 DEF PyFrame, Parts
  <2>5. stack' = Append(rest, next) /\ signal' = None
    BY <1>1, <1>3
  <2> HIDE DEF next, h
  <2>6. AsPython(next) = h
    <3>1. /\ AsPython(next) \in PyFrame /\ AsPython(next).kind = next.kind /\ AsPython(next).part = next.part
          /\ AsPython(next).catches = next.catches /\ AsPython(next).els = next.els
          /\ AsPython(next).fin = next.fin /\ AsPython(next).from = None
          /\ AsPython(next).pending = Bare(None)
      BY <2>3, AsPythonFacts
    <3> QED
      BY <1>1, <2>2, <2>3, <2>4, <3>1, SameFrame
  <2>7. Observed' = Python!Outcome(Append(SubSeq(F, 1, n - 1), h), result, "running")
    <3>1. PyFrames(stack') = Append(PyFrames(rest), h)
      BY <2>1, <2>3, <2>5, <2>6, PyFramesAppend
    <3> QED
      BY <1>1, <2>1, <2>5, <3>1, ObservedWillBe
  <2>8. Python!NextClause(p) = "else"
    BY <1>3, <2>2, NextClauseIs
  <2>9. Python!BlockEnded(F, result) = Python!Outcome(Append(SubSeq(F, 1, n - 1), h), result, "running")
    <3>1. p.kind = "try" /\ Python!NextClause(p) # "end"
      BY <2>2, <2>8
    <3>2. Python!BlockEnded(F, result)
          = Python!Outcome(Append(SubSeq(F, 1, Len(F) - 1), [p EXCEPT !.part = Python!NextClause(p)]),
                           result, "running")
      BY <2>1, <3>1, BlockEndedIs
    <3> QED
      BY <2>1, <2>8, <3>2 DEF h
  <2> QED
    BY <2>1, <2>7, <2>9 DEF Simulated
<1> QED
  BY <1>2, <1>3

LEMMA EndClauseSimulated ==
    ASSUME IInv, HeldInv, ~Lost, EndClause
    PROVE  Simulated
<1>1. Runs
  BY DEF EndClause
<1>2. Below(stack, Len(stack)) = SubSeq(stack, 1, Len(stack) - 1)
  BY DEF Below
<1>3. /\ Top(stack).kind = "try" /\ Top(stack).part # "finally"
      /\ ~(Top(stack).part = "body" /\ Top(stack).els)
      /\ AfterMatch(SubSeq(stack, 1, Len(stack) - 1), Top(stack))
      /\ result' = result /\ status' = status /\ lost' = lost
  BY <1>2 DEF EndClause
<1> QED
  BY <1>1, <1>3, ClauseEnds

LEMMA EndFinallySimulated ==
    ASSUME IInv, HeldInv, ~Lost, EndFinally
    PROVE  Simulated
<1> DEFINE F == PyFrames(stack)
           n == Len(stack)
           f == Top(stack)
           rest == SubSeq(stack, 1, n - 1)
           p == AsPython(f)
<1>1. /\ Runs /\ f.part = "finally" /\ result' = result /\ status' = status /\ lost' = lost
      /\ Settle(rest, f) /\ ~Lost' /\ status' = "running"
  BY DEF EndFinally, Below, Lost, Runs
<1>2. /\ Python!BlockEnded(F, result) \in Python!Steps(Observed)
      /\ F \in Seq(PyFrame) /\ F # <<>> /\ Len(F) = n /\ f \in Frame
      /\ F[Len(F)] = p /\ rest \in Seq(Frame) /\ PyFrames(rest) = SubSeq(F, 1, n - 1)
      /\ HoldsOne(f)
  BY <1>1, TopLooks DEF HoldsRight
<1>3. f.kind = "try"
  BY <1>1, TopFacts
<1>4. p.kind = "try" /\ p.part = "finally"
  BY <1>1, <1>2, <1>3, AsPythonFacts
<1>5. Python!NextClause(p) = "end"
  BY <1>4, NextClauseIs
<1> HIDE DEF F, n, f, rest
<1>6. Observed' = IF p.pending = None THEN Python!Outcome(PyFrames(rest), result, "running")
                  ELSE Python!Landed(PyFrames(rest), result, p.pending)
  BY <1>1, <1>2, EndLooks
<1> HIDE DEF p
<1>7. Python!BlockEnded(F, result)
      = IF p.pending = None THEN Python!Outcome(SubSeq(F, 1, Len(F) - 1), result, "running")
        ELSE Python!Landed(SubSeq(F, 1, Len(F) - 1), result, p.pending)
  BY <1>2, <1>4, <1>5, BlockEndedIs
<1>8. Observed' = Python!BlockEnded(F, result)
  BY <1>2, <1>6, <1>7
<1> QED
  BY <1>2, <1>8 DEF Simulated

-----------------------------------------------------------------------------
\* Every run of the emitted code is a run of the same program under Python's rules, up to
\* a jump out of a handler or an else clause past its own finally (emit_try).
THEOREM EmittedCodeImplementsPython == Spec => ImplementsPython
<1>1. Init => PythonRun!Init /\ HeldInv
  <2> SUFFICES ASSUME Init PROVE PythonRun!Init /\ HeldInv
    OBVIOUS
  <2> DEFINE f == Open("func", {}, FALSE, FALSE, "default")
  <2>1. /\ stack = <<f>> /\ signal = None /\ result = None /\ status = "running" /\ ~Lost
    BY DEF Init, Lost
  <2>2. f \in Frame /\ HoldsRight(f)
    BY DEF Open, Frame, Parts, Hooks, HoldsRight, HoldsOne
  <2>3. AsPython(f) = Python!Function
    BY OpensAgree DEF Python!Function
  <2> HIDE DEF f
  <2>4. HeldInv
    BY <2>1, <2>2 DEF HeldInv
  <2>5. PyFrames(stack) = <<Python!Function>>
    BY <2>1, <2>3 DEF PyFrames
  <2>6. Observed = Python!Outcome(<<Python!Function>>, None, "running")
    BY <2>1, <2>5, ObservedIs
  <2> QED
    BY <2>4, <2>6 DEF PythonRun!Init, PythonRun!Outcome, Python!Outcome, PythonRun!Function, Python!Function,
       PythonRun!Open, Python!Open
<1>2. IInv /\ HeldInv /\ [Next]_vars => HeldInv'
  BY HeldKeeps
<1>3. IInv /\ HeldInv /\ [Next]_vars => [Observed' \in PythonRun!Steps(Observed)]_Observed
  <2> SUFFICES ASSUME IInv, HeldInv, [Next]_vars PROVE Simulated
    BY SameSteps DEF Simulated
  <2>1. CASE Lost
    BY <2>1, LostStays
  <2>2. CASE ~Lost
    <3>1. CASE \E kind \in {"func", "loop"} : EnterBlock(kind)
      BY <2>2, <3>1, EnterBlockSimulated
    <3>2. CASE \E catches \in SUBSET Exceptions, els, fin \in BOOLEAN : EnterTry(catches, els, fin)
      BY <2>2, <3>2, EnterTrySimulated
    <3>3. CASE \E jump \in Statements : Leave(jump)
      BY <2>2, <3>3, LeaveSimulated
    <3>4. CASE Catch \/ Escape \/ Arrive
      BY <2>2, <3>4, CatchSimulated, EscapeSimulated, ArriveSimulated
    <3>5. CASE EndBlock \/ EndBody \/ EndClause \/ EndFinally
      BY <2>2, <3>5, EndBlockSimulated, EndBodySimulated, EndClauseSimulated, EndFinallySimulated
    <3>6. CASE UNCHANGED vars
      <4>1. UNCHANGED <<stack, signal, result, status, lost>>
        BY <3>6 DEF vars
      <4>2. (Lost' <=> Lost) /\ PyFrames(stack') = PyFrames(stack)
        BY <4>1 DEF Lost
      <4>3. Observed' = Observed
        BY <4>1, <4>2, ObservedIs, ObservedWillBe
      <4> QED
        BY <4>3 DEF Simulated
    <3> QED
      BY <3>1, <3>2, <3>3, <3>4, <3>5, <3>6 DEF Next
  <2> QED
    BY <2>1, <2>2
<1> QED
  BY <1>1, <1>2, <1>3, IInvHolds, PTL DEF Spec, ImplementsPython, PythonRun!Spec
=============================================================================
