----------------------------- MODULE PyMeaning -----------------------------
(***************************************************************************)
(* What a function body means to the Python programmer who wrote it: the   *)
(* set of its runs.  It is the promise the checker and the code generator  *)
(* are held to, and models no code of the repository but the language its  *)
(* documentation promises to compile.                                      *)
(*                                                                         *)
(* A state is [env, out, how, v, scoped]: the value of each name, what the *)
(* run has shown or was told so far, how control goes on, the last value,  *)
(* and whether a block that changes the kind of a name keeps it, as a Rust *)
(* block does.  All that a run does not decide (a flag, an optional        *)
(* result, a failure, how many items there are) is recorded in out, so     *)
(* that two runs that agree on out took the same choices.  A handle is a   *)
(* value that one name owns: passing it on leaves the name "gone".         *)
(* <<"bad", w>> in out marks a read of a name that is gone or unbound, or  *)
(* an operation on None.                                                   *)
(***************************************************************************)
EXTENDS Ast

CONSTANT MaxTurns       \* how often a loop is taken before it must end
ASSUME TurnsAreCounted == MaxTurns \in Nat

State(env) == [env |-> env, out |-> <<>>, how |-> "next", v |-> "None", scoped |-> FALSE]
Say(st, w) == [st EXCEPT !.out = Append(@, w)]
Give(st, v) == [st EXCEPT !.v = v]
Fail(st, w) == [Say(st, <<"bad", w>>) EXCEPT !.how = "raise"]
Bind(st, x, v) == [st EXCEPT !.env = (x :> v) @@ @]
Value(st, x) == IF x \in DOMAIN st.env THEN st.env[x] ELSE "unbound"

(* Go on from every run that may go on. *)
Then(runs, next(_)) == UNION {IF r.how = "next" THEN next(r) ELSE {r} : r \in runs}
Choose(st, f, vs) == {Give(Say(st, <<f, v>>), v) : v \in vs}

Truthy(v) == v # "false"
Plus(v) == IF v = "1" THEN "2" ELSE "3"

Flag(st) == Choose(st, "flag", {"true", "false"})

(* Handing a handle over leaves the name that held it without one. *)
Move(e, st) == IF e.k = "Ident" /\ st.v = "live" THEN Bind(st, e.n, "gone") ELSE st

RECURSIVE Eval(_, _)
Eval(e, st) ==
  LET arg(next(_)) == Then(Eval(e.kids[1], st), next)
  IN CASE e.k = "Lit"   -> {Give(st, e.n)}
       [] e.k = "Ident" ->
            LET v == Value(st, e.n)
            IN IF v \in {"gone", "unbound"} THEN {Fail(st, v)} ELSE {Give(st, v)}
       [] e.k \in {"Is", "IsNot"} ->
            arg(LAMBDA r : {Give(r, IF (r.v = "None") = (e.k = "Is") THEN "true" ELSE "false")})
       [] e.k = "And" -> arg(LAMBDA r : IF Truthy(r.v) THEN Eval(e.kids[2], r) ELSE {r})
       [] e.k = "Method" -> arg(LAMBDA r : Flag(r))
       [] e.k = "Lambda" -> {Give(st, "func")}
       [] e.k = "Call" ->
            CASE e.n = "open"  -> {Give(st, "live")}
              [] e.n = "maybe" -> Choose(st, "maybe", {"None", "1"})
              [] e.n = "flag"  -> Flag(st)
              [] e.n = "items" -> {Give(st, "list")}
              [] e.n = "risky" -> {Say(st, <<"fine", "">>),
                                   [Say(st, <<"fails", "">>) EXCEPT !.how = "raise"]}
              [] e.n = "take"  -> arg(LAMBDA r : {Move(e.kids[1], r)})
              [] e.n = "inc"   -> arg(LAMBDA r : IF r.v = "None" THEN {Fail(r, "None")}
                                                 ELSE {Give(r, Plus(r.v))})
              [] e.n = "show"  -> arg(LAMBDA r : {Say(r, <<"show", r.v>>)})

RECURSIVE Exec(_, _), Turns(_, _, _), Arms(_, _, _)

Run(body, st) ==
  FoldLeft(LAMBDA runs, s : Then(runs, LAMBDA r : Exec(s, r)), {st}, body)

(* A nested block.  Where the state is scoped, a name the block leaves with *)
(* a value of another kind than it found was a variable of the block: the  *)
(* enclosing one is as it was.                                             *)
Kind(v) == IF v \in {"1", "2", "3"} THEN "int" ELSE v
Nested(body, st) ==
  IF ~st.scoped THEN Run(body, st)
  ELSE {[r EXCEPT !.env = [x \in DOMAIN st.env |->
           IF Kind(st.env[x]) = Kind(r.env[x]) THEN r.env[x] ELSE st.env[x]] @@ @]
          : r \in Run(body, st)}

(* A condition, and where it leads. *)
Test(test, st, yes(_), no(_)) ==
  IF test = <<>> THEN yes(st)
  ELSE Then(Eval(test[1], st), LAMBDA r : IF Truthy(r.v) THEN yes(r) ELSE no(r))

(* The first branch whose condition holds, and no other condition after    *)
(* it; a literal pattern may match or not.                                 *)
Arms(blocks, subject, st) ==
  IF blocks = <<>> THEN {st}
  ELSE LET b == Head(blocks)
           skip(r) == Arms(Tail(blocks), subject, r)
           enter(r) == Test(b.test, IF b.bind = <<>> THEN r ELSE Bind(r, b.bind[1], subject),
                            LAMBDA q : Nested(b.body, q), skip)
       IN IF b.role = "literal"
          THEN UNION {IF r.v = "true" THEN enter(r) ELSE skip(r) : r \in Flag(st)}
          ELSE enter(st)

Turns(s, st, n) ==
  LET b == s.blocks[1]
      again(r) == Turns(s, [r EXCEPT !.how = "next"], n + 1)
      body(r) ==
        UNION {CASE q.how \in {"next", "continue"} -> again(q)
                 [] q.how = "break" -> {[q EXCEPT !.how = "next"]}
                 [] OTHER -> {q}
               : q \in Nested(b.body, IF s.k = "For" THEN Bind(r, s.binds[1], "1") ELSE r)}
      stop(r) == {r}
      enter(r) == IF n >= MaxTurns THEN {} ELSE body(r)
  IN IF s.k = "While" THEN Test(b.test, st, enter, stop)
     ELSE IF n >= MaxTurns THEN {st}
     ELSE UNION {IF Truthy(r.v) THEN body(r) ELSE {r} : r \in Flag(st)}

(* `finally` runs after every outcome and goes on with it unless it has    *)
(* one of its own.                                                         *)
Finally(s, runs) ==
  IF ~HasRole(s, "finally") THEN runs
  ELSE UNION {{IF f.how = "next" THEN [f EXCEPT !.how = r.how] ELSE f :
                 f \in Nested(BodyOf(s, "finally"), [r EXCEPT !.how = "next"])} : r \in runs}

Exec(s, st) ==
  CASE s.k = "Expr" -> Eval(s.own[1], st)
    [] s.k = "Assign" -> Then(Eval(s.own[1], st),
                              LAMBDA r : {Bind(Move(s.own[1], r), s.binds[1], r.v)})
    [] s.k = "AugAssign" -> Then(Eval(Ident(s.binds[1]), st),
                                 LAMBDA r : {Bind(r, s.binds[1], Plus(r.v))})
    [] s.k \in {"Break", "Continue", "Raise"} ->
         {[st EXCEPT !.how = IF s.k = "Break" THEN "break"
                             ELSE IF s.k = "Continue" THEN "continue" ELSE "raise"]}
    [] s.k = "Return" ->
         IF s.own = <<>> THEN {[st EXCEPT !.how = "return"]}
         ELSE Then(Eval(s.own[1], st), LAMBDA r : {[Move(s.own[1], r) EXCEPT !.how = "return"]})
    [] s.k = "If" -> Arms(s.blocks, "None", st)
    [] s.k = "Match" -> Then(Eval(s.own[1], st), LAMBDA r : Arms(s.blocks, r.v, r))
    [] s.k = "While" -> Turns(s, st, 0)
    [] s.k = "For" -> Then(Eval(s.own[1], st), LAMBDA r : Turns(s, r, 0))
    [] s.k = "With" -> Then(Eval(s.own[1], st),
                            LAMBDA r : Nested(BodyOf(s, "body"),
                                              Bind(Move(s.own[1], r), s.blocks[1].bind[1], "live")))
    [] s.k = "Try" ->
         LET after(r) == IF HasRole(s, "else") THEN Nested(BodyOf(s, "else"), r) ELSE {r}
             caught(r) == LET h == Role(s, "handler")[1]
                              in == [r EXCEPT !.how = "next"]
                          IN Nested(h.body, IF h.bind = <<>> THEN in ELSE Bind(in, h.bind[1], "s"))
         IN Finally(s, UNION {CASE r.how = "next" -> after(r)
                                [] r.how = "raise" /\ HasRole(s, "handler") -> caught(r)
                                [] OTHER -> {r} : r \in Nested(BodyOf(s, "body"), st)})

Runs(body, env) == Run(body, State(env))
ScopedRuns(body, env) == Run(body, [State(env) EXCEPT !.scoped = TRUE])
Shown(runs) == {[out |-> r.out, how |-> r.how] : r \in runs}

Bad(run) == {run.out[i][2] : i \in {j \in DOMAIN run.out : run.out[j][1] = "bad"}}
=============================================================================
