-------------------------------- MODULE PyTry --------------------------------
(* What Python promises of try / except / else / finally, and what emit_try     *)
(* (src/src/codegen/stmts.rs) has to reproduce: a statement that leaves its     *)
(* block goes to the innermost place that stops it, and no finally on the way   *)
(* is passed over.  Which statement runs next, and which exception a call       *)
(* raises, is any choice: a behaviour is a run of some program.                 *)
EXTENDS Naturals, Sequences, FiniteSets, FiniteSetsExt

CONSTANTS
    Exceptions,     \* what can be raised
    Values,         \* what can be returned
    MaxDepth,       \* how many calls, loops and try statements may be open at once
    None

VARIABLE
    run             \* [stack, result, status]: the open calls, loops and try statements,
                    \* innermost last; what the last call to end returned; and "running",
                    \* "done", "aborted" or "astray"

Outcome(stack, result, status) == [stack |-> stack, result |-> result, status |-> status]

Return(v) == [how |-> "return", what |-> v]
Raise(e) == [how |-> "raise", what |-> e]
Break == [how |-> "break", what |-> None]
Continue == [how |-> "continue", what |-> None]
Jumps == {Return(v) : v \in Values} \cup {Raise(e) : e \in Exceptions} \cup {Break, Continue}

\* An open construct: the clause that runs, where the finally was entered from, and what
\* resumes when the finally ends.
Open(kind, catches, els, fin) ==
    [kind |-> kind, part |-> "body", catches |-> catches, els |-> els, fin |-> fin,
     from |-> None, pending |-> None]
Function == Open("func", {}, FALSE, FALSE)
Loop == Open("loop", {}, FALSE, FALSE)

Init == run = Outcome(<<Function>>, None, "running")

-----------------------------------------------------------------------------
Top(s) == s[Len(s)]
Below(s, i) == SubSeq(s, 1, i - 1)
Innermost(s, Stops(_)) == Max({0} \cup {i \in DOMAIN s : Stops(s[i])})

InLoop(s) == Innermost(s, LAMBDA f : f.kind = "loop") > Innermost(s, LAMBDA f : f.kind = "func")

Catches(f, jump) == f.part = "body" /\ jump.how = "raise" /\ jump.what \in f.catches
Finalises(f) == f.fin /\ f.part # "finally"
Receives(f, jump) ==
    CASE f.kind = "func" -> jump.how = "return"
      [] f.kind = "loop" -> jump.how \in {"break", "continue"}
      [] f.kind = "try" -> Catches(f, jump) \/ Finalises(f)

\* Where a jump takes the program: to a handler, to a finally that holds the jump back,
\* out of or round a loop, out of a call, or out of the program.
Landed(s, r, jump) ==
    LET i == Innermost(s, LAMBDA f : Receives(f, jump))
        f == s[i]
    IN  CASE i = 0 -> Outcome(<<>>, r, "aborted")
          [] i > 0 /\ f.kind = "func" -> Outcome(Below(s, i), jump.what, IF i = 1 THEN "done" ELSE "running")
          [] i > 0 /\ f.kind = "loop" ->
                Outcome(IF jump.how = "break" THEN Below(s, i) ELSE SubSeq(s, 1, i), r, "running")
          [] i > 0 /\ f.kind = "try" ->
                Outcome(Append(Below(s, i),
                               IF Catches(f, jump) THEN [f EXCEPT !.part = "handler"]
                               ELSE [f EXCEPT !.part = "finally", !.from = f.part, !.pending = jump]),
                        r, "running")

-----------------------------------------------------------------------------
(* What a running program may become.                                           *)
Frames ==
    {Function, Loop} \cup {Open("try", catches, els, fin) :
                              catches \in SUBSET Exceptions, els \in BOOLEAN, fin \in BOOLEAN}
Entered(s, r) == {Outcome(Append(s, frame), r, "running") : frame \in IF Len(s) < MaxDepth THEN Frames ELSE {}}

\* A return, raise, break or continue, or a call that raises.
Left(s, r) ==
    {Landed(s, r, jump) : jump \in {j \in Jumps : j.how \in {"break", "continue"} => InLoop(s)}}

NextClause(f) ==
    CASE f.part = "body" /\ f.els -> "else"
      [] f.part # "finally" /\ f.fin /\ ~(f.part = "body" /\ f.els) -> "finally"
      [] OTHER -> "end"

\* The block that runs comes to its end.
BlockEnded(s, r) ==
    LET f == Top(s)
        rest == Below(s, Len(s))
    IN  CASE f.kind = "func" -> Landed(s, r, Return(None))
          [] f.kind = "loop" -> Outcome(rest, r, "running")
          [] f.kind = "try" /\ NextClause(f) # "end" ->
                Outcome(Append(rest, [f EXCEPT !.part = NextClause(f)]), r, "running")
          [] f.kind = "try" /\ NextClause(f) = "end" ->
                IF f.pending = None THEN Outcome(rest, r, "running") ELSE Landed(rest, r, f.pending)

\* Where the compiled program may part with Python: at a finally reached by leaving a
\* handler or an else clause, and where one try body sits in another's.
LeftClause(s) == Top(s).part = "finally" /\ Top(s).from \in {"handler", "else"}
Guarded(s) == {i \in DOMAIN s : s[i].kind = "try" /\ s[i].part = "body"
                                /\ i > Innermost(s, LAMBDA f : f.kind = "func")}
Astray == Outcome(<<>>, None, "astray")
Strayed(s) == IF LeftClause(s) \/ Cardinality(Guarded(s)) > 1 THEN {Astray} ELSE {}

Steps(now) ==
    IF now.status # "running" THEN {}
    ELSE Entered(now.stack, now.result) \cup Left(now.stack, now.result)
         \cup {BlockEnded(now.stack, now.result)} \cup Strayed(now.stack)

Spec == Init /\ [][run' \in Steps(run)]_run
=============================================================================
