-------------------------------- MODULE Lending --------------------------------
(***************************************************************************)
(* The fixpoint of compute_mut_self: a method that calls one that changes   *)
(* its object changes it too.  The methods are any keys; calls is the set   *)
(* of pairs of a method and one it calls, both keys; own are the methods    *)
(* that change the object themselves.                                      *)
(***************************************************************************)
EXTENDS Naturals, FiniteSets

Callers(calls, known) == {e[1] : e \in {x \in calls : x[2] \in known}}
Closed(calls, S) == \A e \in calls : e[2] \in S => e[1] \in S
\* the fewest methods such that one that changes the object, or calls one of
\* them, is one
Least(keys, calls, own) ==
    LET closed == {S \in SUBSET keys : own \subseteq S /\ Closed(calls, S)}
    IN  {key \in keys : \A S \in closed : key \in S}

\* A round visits the keys of a map, in whatever order it has them.
VisitKey(calls, known, key) ==
    IF \E e \in calls : e[1] = key /\ e[2] \in known THEN known \cup {key} ELSE known
IsRound(keys, calls, known, found) ==
    \E n \in Nat : \E order \in [1 .. n -> keys], seen \in [0 .. n -> SUBSET keys] :
        /\ \A key \in keys : \E i \in 1 .. n : order[i] = key
        /\ seen[0] = known
        /\ \A i \in 1 .. n : seen[i] = VisitKey(calls, seen[i - 1], order[i])
        /\ seen[n] = found

\* n rounds in the worst order: every method comes before those it calls
Further(calls, known) == known \cup Callers(calls, known)
Rounds(calls, own, n) ==
    LET after[i \in 0 .. n] == IF i = 0 THEN own ELSE Further(calls, after[i - 1])
    IN  after[n]
=============================================================================
