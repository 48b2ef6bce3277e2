------------------------------ MODULE CloneStore ------------------------------
(***************************************************************************)
(* What the clone cache promises to `pyrst install`: a store of whole,      *)
(* immutable checkouts that only grows, and calls each of which takes its   *)
(* answer in one atomic step.  The answer to a ref is a commit the ref has  *)
(* named since the call began, and it is in the store when the call returns.*)
(* The one exception: a commit that is in the store already also answers a  *)
(* ref that ls-remote mistakes for the one that names it.                   *)
(* Temporary directories, races and half-made clones do not exist here.     *)
(***************************************************************************)
CONSTANTS Calls, Commits, Refs, None, Errors,
          ParseLsRemote(_)    \* the ref whose commit ls-remote gives for a ref

VARIABLES
    upstream,   \* the commit each ref of the remote names
    store,      \* the commits whose checkout is in the cache
    want,       \* what each call asked for
    out,        \* its answer
    named,      \* the commits its ref has named since
    shown       \* the commits the ref ls-remote takes for it has named since

vars == <<upstream, store, want, out, named, shown>>

Init ==
    /\ upstream \in [Refs -> Commits]
    /\ store = {}
    /\ want = [p \in Calls |-> None]
    /\ out = [p \in Calls |-> None]
    /\ named = [p \in Calls |-> {}]
    /\ shown = [p \in Calls |-> {}]

Ask(p, w) ==
    /\ want[p] = None
    /\ want' = [want EXCEPT ![p] = w]
    /\ named' = [named EXCEPT ![p] = IF w \in Refs THEN {upstream[w]} ELSE {w}]
    /\ shown' = [shown EXCEPT ![p] = IF w \in Refs THEN {upstream[ParseLsRemote(w)]} ELSE {}]
    /\ UNCHANGED <<upstream, store, out>>

Open(p) == want[p] # None /\ out[p] = None

Answers(p, c) ==
    /\ Open(p)
    /\ c \in named[p] \/ (c \in shown[p] /\ c \in store)
    /\ store' = store \cup {c}
    /\ out' = [out EXCEPT ![p] = c]
    /\ UNCHANGED <<upstream, want, named, shown>>

Fails(p, e) ==
    /\ Open(p)
    /\ out' = [out EXCEPT ![p] = e]
    /\ UNCHANGED <<upstream, store, want, named, shown>>

Push(r, c) ==
    /\ upstream' = [upstream EXCEPT ![r] = c]
    /\ named' = [p \in Calls |-> IF want[p] = r /\ out[p] = None
                                 THEN named[p] \cup {c} ELSE named[p]]
    /\ shown' = [p \in Calls |-> IF want[p] \in Refs /\ out[p] = None /\ ParseLsRemote(want[p]) = r
                                 THEN shown[p] \cup {c} ELSE shown[p]]
    /\ UNCHANGED <<store, want, out>>

Next ==
    \/ \E p \in Calls : \/ \E w \in Commits \cup Refs : Ask(p, w)
                        \/ \E c \in Commits : Answers(p, c)
                        \/ \E e \in Errors : Fails(p, e)
    \/ \E r \in Refs, c \in Commits : Push(r, c)

Spec == Init /\ [][Next]_vars
=============================================================================
