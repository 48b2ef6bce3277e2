----------------------------- MODULE MCCloneCache -----------------------------
(* Small instances of CloneCache: the calls are interchangeable, and so are the *)
(* commits, so both are symmetry sets (no liveness property is checked here).    *)
EXTENDS CloneCache, TLC

CONSTANTS p1, p2, p3, c1, c2

ThreeCalls == {p1, p2, p3}
TwoCalls   == {p1, p2}
TwoCommits == {c1, c2}

\* A tag, and a branch whose path ends in its name and is listed before it.
TwoRefs  == {"v1", "rc/v1"}
Tails    == [r \in TwoRefs |-> IF r = "v1" THEN <<"rc/v1", "v1">> ELSE <<r>>]
HeadOnly == [r \in {"HEAD"} |-> <<r>>]

Sym2 == Permutations({p1, p2}) \cup Permutations(TwoCommits)
Sym3 == Permutations(ThreeCalls) \cup Permutations(TwoCommits)
=============================================================================
