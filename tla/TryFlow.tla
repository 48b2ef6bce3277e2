------------------------------- MODULE TryFlow -------------------------------
(* The Rust that emit_try writes for try / except / else / finally, at run time. *)
(* The try body is a closure under catch_unwind: a raise is a panic, and a       *)
(* return, break or continue written in the body leaves the closure as a         *)
(* __PyrstTryFlow value that is issued again after the finally.  Handlers, else  *)
(* and finally are emitted in place.  While a body runs, the panic hook is        *)
(* silenced.                                                                     *)
(*                                                                               *)
(* Which statement runs next, and which call raises, is any choice, so that a    *)
(* behaviour is a run of some program; a program rustc rejects ends "refused".   *)
EXTENDS Naturals, Sequences, FiniteSetsExt

CONSTANTS
    Exceptions,     \* the exception types a payload can carry
    Values,         \* what can be returned
    MaxDepth,       \* how many calls, loops and try statements may be open at once
    None

ASSUME NoneIsNoValue == None \notin Exceptions \cup Values

VARIABLES
    stack,          \* the open calls, loops and try statements, innermost last
    hook,           \* the panic hook: "default" prints the message, "silent" does not
    signal,         \* a jump on its way to the place that stops it, or None
    result,         \* what the last call to end returned
    status,         \* "running", "done", "aborted" or "refused"
    shown,          \* whether the exception that ended the program was printed
    lost            \* the clauses that were left past a finally that did not run

vars == <<stack, hook, signal, result, status, shown, lost>>

Hooks == {"default", "silent"}
Hows == {"return", "raise", "break", "continue"}
Whats == Exceptions \cup Values \cup {None}

ASSUME NoneIsNoJump ==
    None \notin [how : Hows, what : Whats] \cup [how : Hows, what : Whats, printed : BOOLEAN]

\* A jump; printed says of an exception that its message went to stderr.
Jump(how, what) == [how |-> how, what |-> what, printed |-> FALSE]
Statements ==
    {Jump("return", v) : v \in Values} \cup {Jump("raise", e) : e \in Exceptions}
    \cup {Jump("break", None), Jump("continue", None)}

\* prev is __prev_hook, flow is __pyrst_flow and reraise is __reraise.
Open(kind, catches, els, fin, prev) ==
    [kind |-> kind, part |-> "body", catches |-> catches, els |-> els, fin |-> fin,
     prev |-> prev, flow |-> None, reraise |-> None, from |-> None]

Init ==
    /\ stack = <<Open("func", {}, FALSE, FALSE, "default")>>
    /\ hook = "default"
    /\ signal = None
    /\ result = None
    /\ status = "running"
    /\ shown = FALSE
    /\ lost = {}

-----------------------------------------------------------------------------
Top(s) == s[Len(s)]
Below(s, i) == SubSeq(s, 1, i - 1)
Innermost(s, Stops(_)) == Max({0} \cup {i \in DOMAIN s : Stops(s[i])})
InnermostFunc(s) == Innermost(s, LAMBDA f : f.kind = "func")

IsClosure(f) == f.kind = "try" /\ f.part = "body"

\* try_return_escape: a try body is open in the function that runs.
InClosure(s) == Innermost(s, IsClosure) > InnermostFunc(s)
InLoop(s) == Innermost(s, LAMBDA f : f.kind = "loop") > InnermostFunc(s)

\* The return is emitted as a plain one, as it was before __PyrstTryFlow.
Stops_plain_return(f, jump) ==
    \/ IsClosure(f) /\ jump.how # "return"
    \/ f.kind = "func" /\ jump.how = "return"
    \/ f.kind = "loop" /\ jump.how \in {"break", "continue"}

\* What stops a jump: a panic is stopped by catch_unwind alone, a return by the closure it
\* is written in or by its function, a break or continue by the closure or by its loop.
Stops(f, jump) ==
    \/ IsClosure(f)
    \/ f.kind = "func" /\ jump.how = "return"
    \/ f.kind = "loop" /\ jump.how \in {"break", "continue"}
Boundary(s, jump) == Innermost(s, LAMBDA f : Stops(f, jump))

\* The re-issued return is written as a plain `return __v`, which does not type-check in
\* the closure of another try; rustc rejects the program.
Builds(s, jump) ==
    LET i == Boundary(s, jump)
    IN  jump.how # "raise" /\ i > 0 /\ IsClosure(s[i]) => ~InClosure(Below(s, i))

-----------------------------------------------------------------------------
Runs == status = "running" /\ signal = None

EnterBlock(kind) ==
    /\ Runs /\ Len(stack) < MaxDepth
    /\ stack' = Append(stack, Open(kind, {}, FALSE, FALSE, "default"))
    /\ UNCHANGED <<hook, signal, result, status, shown, lost>>

EnterTry(catches, els, fin) ==
    /\ Runs /\ Len(stack) < MaxDepth
    /\ stack' = Append(stack, Open("try", catches, els, fin, hook))
    /\ hook' = "silent"
    /\ UNCHANGED <<signal, result, status, shown, lost>>

\* A return, break or continue statement, a raise, or a call that panics.
Leave(jump) ==
    /\ Runs
    /\ jump.how \in {"break", "continue"} => InLoop(stack)
    /\ IF Builds(stack, jump)
       THEN /\ signal' = [jump EXCEPT !.printed = jump.how = "raise" /\ hook = "default"]
            /\ UNCHANGED status
       ELSE /\ status' = "refused"
            /\ UNCHANGED signal
    /\ UNCHANGED <<stack, hook, result, shown, lost>>

\* The message is left to the panic hook, which resume_unwind does not call.
Settle_unprinted(rest, f) ==
    /\ stack' = rest
    /\ signal' = IF f.reraise # None THEN f.reraise ELSE f.flow

\* After the finally, or where it would be: an unmatched exception is printed and raised
\* again, and then the flow of the body is issued again.
Settle(rest, f) ==
    /\ stack' = rest
    /\ signal' = IF f.reraise # None THEN [f.reraise EXCEPT !.printed = TRUE] ELSE f.flow

\* The match on __try_result is over.
AfterMatch(rest, f) ==
    IF f.fin THEN stack' = Append(rest, [f EXCEPT !.part = "finally", !.from = f.part]) /\ signal' = None
    ELSE Settle(rest, f)

-----------------------------------------------------------------------------
Skipped(s, i) == {s[j].part : j \in {k \in DOMAIN s : k > i /\ s[k].fin /\ s[k].part # "finally"}}

\* A panic reaches the innermost catch_unwind, or ends the program.
Catch ==
    /\ status = "running" /\ signal # None /\ signal.how = "raise"
    /\ LET i == Boundary(stack, signal)
           f == stack[i]
           rest == Below(stack, i)
       IN  /\ lost' = lost \cup Skipped(stack, i)
           /\ IF i = 0
              THEN /\ stack' = <<>> /\ signal' = None /\ status' = "aborted"
                   /\ shown' = signal.printed
                   /\ UNCHANGED hook
              ELSE /\ hook' = f.prev
                   /\ UNCHANGED <<status, shown>>
                   /\ IF signal.what \in f.catches
                      THEN stack' = Append(rest, [f EXCEPT !.part = "handler"]) /\ signal' = None
                      ELSE AfterMatch(rest, [f EXCEPT !.reraise = signal])
           /\ UNCHANGED result

\* The else runs whenever the body did not raise.
Escape_runs_else ==
    /\ status = "running" /\ signal # None /\ signal.how # "raise"
    /\ LET i == Boundary(stack, signal)
           f == [stack[i] EXCEPT !.flow = signal]
       IN  /\ IsClosure(f)
           /\ lost' = lost \cup Skipped(stack, i)
           /\ hook' = f.prev
           /\ IF f.els THEN stack' = Append(Below(stack, i), [f EXCEPT !.part = "else"]) /\ signal' = None
              ELSE AfterMatch(Below(stack, i), f)
    /\ UNCHANGED <<result, status, shown>>

\* A return, break or continue leaves the closure as the flow of its try; the else is passed over.
Escape ==
    /\ status = "running" /\ signal # None /\ signal.how # "raise"
    /\ LET i == Boundary(stack, signal)
           f == stack[i]
       IN  /\ IsClosure(f)
           /\ lost' = lost \cup Skipped(stack, i)
           /\ hook' = f.prev
           /\ AfterMatch(Below(stack, i), [f EXCEPT !.flow = signal])
           /\ UNCHANGED <<result, status, shown>>

\* A return leaves its function, a break its loop; a continue goes round it.
Arrive ==
    /\ status = "running" /\ signal # None /\ signal.how # "raise"
    /\ LET i == Boundary(stack, signal)
       IN  /\ ~IsClosure(stack[i])
           /\ lost' = lost \cup Skipped(stack, i)
           /\ stack' = IF signal.how = "continue" THEN SubSeq(stack, 1, i) ELSE Below(stack, i)
           /\ result' = IF signal.how = "return" THEN signal.what ELSE result
           /\ status' = IF signal.how = "return" /\ i = 1 THEN "done" ELSE status
    /\ signal' = None
    /\ UNCHANGED <<hook, shown>>

-----------------------------------------------------------------------------
\* A function or a loop comes to its end.
EndBlock ==
    /\ Runs /\ Top(stack).kind # "try"
    /\ stack' = Below(stack, Len(stack))
    /\ result' = IF Top(stack).kind = "func" THEN None ELSE result
    /\ status' = IF Len(stack) = 1 THEN "done" ELSE status
    /\ UNCHANGED <<hook, signal, shown, lost>>

\* The hook is restored where a payload is matched, and not here.
EndBody_keeps_hook ==
    /\ Runs /\ IsClosure(Top(stack))
    /\ LET f == Top(stack)
           rest == Below(stack, Len(stack))
       IN  IF f.els THEN stack' = Append(rest, [f EXCEPT !.part = "else"]) /\ signal' = None
           ELSE AfterMatch(rest, f)
    /\ UNCHANGED <<hook, result, status, shown, lost>>

\* The closure falls off its end with __PyrstTryFlow::Normal: the hook is restored, and the
\* else runs.
EndBody ==
    /\ Runs /\ IsClosure(Top(stack))
    /\ LET f == Top(stack)
           rest == Below(stack, Len(stack))
       IN  /\ hook' = f.prev
           /\ IF f.els THEN stack' = Append(rest, [f EXCEPT !.part = "else"]) /\ signal' = None
              ELSE AfterMatch(rest, f)
    /\ UNCHANGED <<result, status, shown, lost>>

\* A handler or an else clause falls off its end.
EndClause ==
    /\ Runs /\ Top(stack).kind = "try" /\ Top(stack).part \in {"handler", "else"}
    /\ AfterMatch(Below(stack, Len(stack)), Top(stack))
    /\ UNCHANGED <<hook, result, status, shown, lost>>

EndFinally ==
    /\ Runs /\ Top(stack).part = "finally"
    /\ Settle(Below(stack, Len(stack)), Top(stack))
    /\ UNCHANGED <<hook, result, status, shown, lost>>

Next ==
    \/ \E kind \in {"func", "loop"} : EnterBlock(kind)
    \/ \E catches \in SUBSET Exceptions, els, fin \in BOOLEAN : EnterTry(catches, els, fin)
    \/ \E jump \in Statements : Leave(jump)
    \/ Catch \/ Escape \/ Arrive
    \/ EndBlock \/ EndBody \/ EndClause \/ EndFinally

Spec == Init /\ [][Next]_vars

-----------------------------------------------------------------------------
\* The hook is silent exactly while some try body runs, on whatever path the bodies before
\* it were left (take_hook and the two set_hook calls of emit_try are balanced).
HookIsBalanced ==
    status \in {"running", "done"} => (hook = "silent" <=> \E i \in DOMAIN stack : IsClosure(stack[i]))

\* An exception that ends the program has been printed, though every try it passed through
\* silenced the hook that would have printed it.
UncaughtIsShown == status = "aborted" => shown

\* A try that is left from its body, by whatever statement or exception and from however
\* deep, runs its finally.
BodyRunsFinally == "body" \notin lost

\* `finally` runs on every path (src/src/codegen/stmts.rs:1961; RUST_BACKEND.md:643).
FinallyAlwaysRuns == lost = {}

-----------------------------------------------------------------------------
(* The state a Python run of the same program is in.  A jump that is still on its   *)
(* way has landed; the flow and the exception a finally holds back are one thing;   *)
(* and a run that lost a finally, or that rustc would never have built, is astray.  *)
Bare(jump) == IF jump = None THEN None ELSE [how |-> jump.how, what |-> jump.what]
AsPython(f) ==
    [kind |-> f.kind, part |-> f.part, catches |-> f.catches, els |-> f.els, fin |-> f.fin,
     from |-> IF f.flow = None /\ f.reraise = None THEN None ELSE f.from,
     pending |-> Bare(IF f.reraise # None THEN f.reraise ELSE f.flow)]

Python == INSTANCE PyTry WITH run <- None

Observed ==
    LET frames == [i \in DOMAIN stack |-> AsPython(stack[i])]
    IN  IF lost # {} \/ status = "refused" THEN Python!Astray
        ELSE IF signal = None THEN Python!Outcome(frames, result, status)
        ELSE Python!Landed(frames, result, Bare(signal))

PythonRun == INSTANCE PyTry WITH run <- Observed

\* Every run of the emitted code is a run of the same program under Python's rules, up to
\* a jump out of a handler or an else clause past its own finally.
ImplementsPython == PythonRun!Spec
=============================================================================
