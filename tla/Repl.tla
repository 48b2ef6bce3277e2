---------------------------------- MODULE Repl ---------------------------------
(***************************************************************************)
(* The interactive shell (repl.rs): every input is added to the program so *)
(* far, the whole program is compiled and run again, and what its output   *)
(* has beyond the output before is shown.  Beside it, Python's shell,      *)
(* which runs each input once.  Inputs work on one variable x, one         *)
(* function f and one file, `world`, whose lines they count.               *)
(***************************************************************************)
EXTENDS Naturals, Sequences

CONSTANT MaxInputs
VARIABLES decls, body, last_output,      \* ReplSession
          world, shown_last,             \* the file; what the input showed
          python,                        \* the variable and the function Python has
          departed                       \* history: an input differs by design
replVars == <<decls, body, last_output, world, shown_last, python, departed>>

(***************************************************************************)
(* Inputs.                                                                 *)
(***************************************************************************)
Input(what, v) == [what |-> what, v |-> v]
Inputs == {Input("assign", 1), Input("assign", 2), Input("add", 0), Input("name", 0), Input("print", 0),
           Input("def", 1), Input("def", 2), Input("def_reading_x", 0), Input("call", 0),
           Input("print_call", 0), Input("print_and_fail", 0), Input("count_a_line", 0)}
Unset == 0                         \* no input gives x or f this value
ReadsX == 3                        \* the function that returns x
UsesX(i) == i.what \in {"add", "name", "print", "print_and_fail"}
UsesF(i) == i.what \in {"call", "print_call"}

(***************************************************************************)
(* The program and its run.                                                *)
(***************************************************************************)
Decl == {"def", "def_reading_x"}
classify(i) == CASE i.what \in Decl -> "Decl" [] i.what = "name" -> "BareExpr" [] OTHER -> "Stmt"
Mentions(items, what) == \E k \in DOMAIN items : items[k].what = what
\* functions are items of the program, x a local variable of its main:
\* no function sees it, and no function can be defined twice
Compiles(ds, stmts) ==
    /\ ~Mentions(ds, "def_reading_x")
    /\ Len(ds) <= 1
    /\ \A k \in DOMAIN stmts : /\ UsesX(stmts[k]) => \E j \in 1 .. k - 1 : stmts[j].what = "assign"
                               /\ UsesF(stmts[k]) => ds # <<>>
\* one statement: what becomes of x and of the file, and what it prints
Step(m, i, f) ==
    CASE i.what = "assign" -> [m EXCEPT !.x = i.v]
      [] i.what = "add" -> [m EXCEPT !.x = @ + 1]
      [] i.what \in {"name", "print"} -> [m EXCEPT !.out = Append(@, m.x)]
      [] i.what = "call" -> m
      [] i.what = "print_call" -> [m EXCEPT !.out = Append(@, f)]
      [] i.what = "print_and_fail" -> [m EXCEPT !.out = Append(@, m.x), !.ok = FALSE]
      [] i.what = "count_a_line" -> [m EXCEPT !.world = @ + 1, !.out = Append(@, m.world + 1)]
\* the main function after each of its statements, where f is what the function returns
Begun(w) == [x |-> Unset, world |-> w, out |-> <<>>, ok |-> TRUE]
Continue(m, i, f) == IF m.ok THEN Step(m, i, f) ELSE m
Main(stmts, w, f) ==
    LET upto[k \in 0 .. Len(stmts)] == IF k = 0 THEN Begun(w) ELSE Continue(upto[k - 1], stmts[k], f)
    IN  upto
FunctionOf(ds) == IF ds = <<>> THEN Unset ELSE ds[1].v
Run(ds, stmts, w) == Main(stmts, w, FunctionOf(ds))[Len(stmts)]

\* what follows the common prefix
output_delta_whole(prev, new) == new
output_delta(prev, new) ==
    LET same == {n \in 0 .. Len(new) : n <= Len(prev) /\ SubSeq(prev, 1, n) = SubSeq(new, 1, n)}
        n == CHOOSE n \in same : \A m \in same : m <= n
    IN  SubSeq(new, n + 1, Len(new))

(***************************************************************************)
(* Python's shell: names are looked up when they are used, an expression's *)
(* value is shown, a name can be bound again.                              *)
(***************************************************************************)
PyCall(p) == IF p.f = ReadsX THEN p.x ELSE p.f
PyFails(p, i) == \/ UsesX(i) /\ p.x = Unset
                 \/ UsesF(i) /\ (p.f = Unset \/ (p.f = ReadsX /\ p.x = Unset))
                 \/ i.what = "print_and_fail"
PyShows(p, i) ==
    CASE i.what \in {"name", "print", "print_and_fail"} /\ p.x # Unset -> <<p.x>>
      [] UsesF(i) /\ ~PyFails(p, i) -> <<PyCall(p)>>
      [] OTHER -> <<>>
PyAfter(p, i) ==
    CASE i.what = "assign" -> [p EXCEPT !.x = i.v]
      [] i.what = "add" /\ p.x # Unset -> [p EXCEPT !.x = @ + 1]
      [] i.what = "def" -> [p EXCEPT !.f = i.v]
      [] i.what = "def_reading_x" -> [p EXCEPT !.f = ReadsX]
      [] OTHER -> p

(***************************************************************************)
(* An input.                                                               *)
(***************************************************************************)
\* where the two shells are meant to differ: the value of a call is not
\* shown, a function can neither see the variables nor be defined again, what
\* a failing input printed is lost, and what a program did to the world it
\* does again with every later input
Departs(i) == \/ i.what \in {"call", "def_reading_x", "print_and_fail", "count_a_line"}
              \/ i.what = "def" /\ decls # <<>>
execute_early(i) ==
    LET ds == IF classify(i) = "Decl" THEN Append(decls, i) ELSE decls
        stmts == IF classify(i) = "Decl" THEN body ELSE Append(body, i)
        run == Run(ds, stmts, world)
    IN  /\ decls' = ds /\ body' = stmts
        /\ IF Compiles(ds, stmts) /\ run.ok
           THEN last_output' = run.out /\ shown_last' = output_delta(last_output, run.out)
           ELSE UNCHANGED last_output /\ shown_last' = <<>>
        /\ world' = IF Compiles(ds, stmts) THEN run.world ELSE world
\* the session is what it was unless everything went well; the world is not
execute(i) ==
    LET ds == IF classify(i) = "Decl" THEN Append(decls, i) ELSE decls
        stmts == IF classify(i) = "Decl" THEN body ELSE Append(body, i)
        run == Run(ds, stmts, world)
    IN  IF Compiles(ds, stmts) /\ run.ok
        THEN /\ shown_last' = output_delta(last_output, run.out)
             /\ decls' = ds /\ body' = stmts /\ last_output' = run.out
             /\ world' = run.world
        ELSE /\ shown_last' = <<>>
             /\ world' = IF Compiles(ds, stmts) THEN run.world ELSE world
             /\ UNCHANGED <<decls, body, last_output>>
Enter(i) == /\ execute(i)
            /\ python' = [env |-> PyAfter(python.env, i), shows |-> PyShows(python.env, i), count |-> python.count + 1]
            /\ departed' = (departed \/ Departs(i))

ReplInit == /\ decls = <<>> /\ body = <<>> /\ last_output = <<>> /\ world = 0
            /\ shown_last = <<>> /\ departed = FALSE
            /\ python = [env |-> [x |-> Unset, f |-> Unset], shows |-> <<>>, count |-> 0]
ReplNext == \E i \in Inputs : python.count < MaxInputs /\ Enter(i)

(***************************************************************************)
(* Properties.                                                             *)
(***************************************************************************)
ReplSpec == ReplInit /\ [][ReplNext]_replVars

\* Until an input differs by design, every input shows what Python's shell
\* shows for it, though everything before it was compiled and run again.
ReplayShowsTheSame == ~departed => shown_last = python.shows

\* A session stays one that runs: what was kept compiles, runs to its end,
\* and - unless it counts the lines of the file - prints what it printed.
SessionRuns ==
    LET run == Run(decls, body, world)
    IN  /\ Compiles(decls, body) /\ run.ok
        /\ Mentions(body, "count_a_line") \/ run.out = last_output
=============================================================================
