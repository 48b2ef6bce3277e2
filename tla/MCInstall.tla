------------------------------ MODULE MCInstall ------------------------------
(* Package universes for Install: three names, four sources (two of them carry  *)
(* the name "lib") and one ref.                                                 *)
EXTENDS Install, TLC

Dep(n, s) == [name |-> n, spec |-> s]

Universe(app, lib1, lib2, util) ==
    "app1" :> [name |-> "app", deps |-> app] @@
    "lib1" :> [name |-> "lib", deps |-> lib1] @@
    "lib2" :> [name |-> "lib", deps |-> lib2] @@
    "util1" :> [name |-> "util", deps |-> util]

App  == Dep("app", "app1")
Lib1 == Dep("lib", "lib1")
Lib2 == Dep("lib", "lib2")
LibH == Dep("lib", "url")
Util == Dep("util", "util1")

Diamond    == Universe(<<Lib1, Util>>, <<Util>>, <<>>, <<>>)
TwoSources == Universe(<<Lib1, Util>>, <<>>, <<Util>>, <<Lib2>>)
Moving     == Universe(<<LibH, Util>>, <<>>, <<>>, <<LibH>>)
Cycle      == Universe(<<Lib1>>, <<Util>>, <<>>, <<App>>)
Wrong      == Universe(<<Dep("util", "lib1")>>, <<>>, <<Util>>, <<>>)
Opposed    == Universe(<<Lib2, Lib1>>, <<Util>>, <<>>, <<Lib2>>)

CONSTANTS r1, r2
TwoRuns == {r1, r2}
RunSymmetry == Permutations(TwoRuns)

SixUniverses == {Diamond, TwoSources, Moving, Cycle, Wrong, Opposed}
OverlapUniverses == {TwoSources, Cycle}
OneUniverse == {Diamond}
=============================================================================
