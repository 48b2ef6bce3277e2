----------------------------- MODULE MCResolver ------------------------------
(* Trees for Resolver: import graphs of four modules in one directory, and small *)
(* layouts with a search directory, packages and embedded modules.               *)
EXTENDS Resolver, TLC

MCFiles == {"main", "a", "b", "c", "os", "pkg/u", "pkg/init", "path/u", "path/os",
            "std/os", "std/getpass"}
MCEmbedded == {"std/os", "std/getpass"}
MCIds == {"main", "a", "b", "c", "os", "getpass", "u", "pkg", "pkg.u", "dataclasses", "absent"}
MCDirs == {"home", "path", "std"}
MCStems == {"main", "a", "b", "c", "os", "u", "init", "getpass"}

Stem(f) == CASE f \in {"os", "std/os", "path/os"} -> "os"
             [] f \in {"pkg/u", "path/u"} -> "u"
             [] f = "pkg/init" -> "init"
             [] f = "std/getpass" -> "getpass"
             [] OTHER -> f

Nowhere == [m \in MCIds |-> None]
Flat == [m \in MCIds |-> IF m \in {"main", "a", "b", "c"} THEN m ELSE None]

Use(m) == [id |-> m, names |-> {}]
From(m, ns) == [id |-> m, names |-> ns]
Mod(imports, defs) == [parses |-> TRUE, imports |-> imports, defs |-> defs, classes |-> defs \cap {"P"}]
Broken == [Mod(<<>>, {}) EXCEPT !.parses = FALSE]
Texts(given) == [f \in MCFiles |-> IF f \in DOMAIN given THEN given[f]
                                   ELSE IF f = "std/getpass" THEN Mod(<<Use("os")>>, {"g"})
                                   ELSE Mod(<<>>, {"f"})]

Layout(home, path, pkg, env, given) ==
    [root |-> "main", home |-> "home", env |-> env,
     search |-> IF path = Nowhere THEN <<>> ELSE <<"path">>,
     at |-> "home" :> home @@ "path" :> path @@ "std" :> Nowhere,
     pkg |-> "home" :> pkg @@ "path" :> Nowhere @@ "std" :> Nowhere,
     builtin |-> ("os" :> "std/os" @@ "getpass" :> "std/getpass" @@ Nowhere),
     stem |-> [f \in MCFiles |-> Stem(f)],
     text |-> Texts(given)]

\* Every choice of import lists: chains, diamonds, self-imports, cycles through the root
\* and beside it, a missing module, a module that does not parse.
Graphs ==
    {Layout(Flat, Nowhere, Nowhere, FALSE,
            "main" :> Mod(m, md) @@ "a" :> Mod(a, {"f"}) @@ "b" :> Mod(b, {"P"}) @@ "c" :> c) :
        md \in {{}, {"P"}},
        m \in {<<Use("a"), Use("b")>>, <<Use("c"), Use("a")>>, <<Use("dataclasses"), Use("a")>>},
        a \in {<<>>, <<Use("b")>>, <<Use("c"), Use("b")>>, <<Use("main")>>, <<Use("a")>>},
        b \in {<<>>, <<Use("c")>>, <<Use("c"), Use("dataclasses"), Use("a")>>, <<Use("absent")>>},
        c \in {Mod(<<>>, {"f"}), Mod(<<Use("b")>>, {"P"}), Mod(<<Use("a")>>, {}), Broken}}

Home(more) == more @@ Flat
PackageDir(entry) == "pkg" :> entry @@ Nowhere
WithSub == Home("pkg.u" :> "pkg/u")

\* A package's entry file that re-exports, from a submodule and from an embedded module.
Packaged(entry, main) ==
    Layout(WithSub, Nowhere, PackageDir("pkg/init"), FALSE,
           "main" :> Mod(main, {}) @@ "pkg/init" :> entry)

\* A search directory that holds modules of its own, or that lies below the root's
\* directory, so that a file has two ids.
Searched(main, env, path) ==
    Layout(WithSub, path, PackageDir(Bare), env, "main" :> Mod(main, {"P"}) @@ "path/u" :> Mod(<<Use("os")>>, {"f"}))
PathHolds == "u" :> "path/u" @@ "os" :> "path/os" @@ Nowhere
PathBelow == "u" :> "pkg/u" @@ Nowhere

Layouts ==
    {Packaged(Mod(i, d), m) :
        i \in {<<From("pkg.u", {"f"})>>, <<From("pkg.u", {"f"}), From("os", {"f"})>>, <<Use("pkg.u")>>,
               <<From("os", {"P"})>>},
        d \in {{}, {"g"}, {"f"}},
        m \in {<<From("pkg", {"f"})>>, <<Use("a"), From("pkg", {"g"})>>, <<From("pkg.u", {"f"}), Use("pkg")>>,
               <<From("pkg", {"P"})>>}}
    \cup
    {Searched(m, env, path) :
        path \in {PathHolds, PathBelow},
        m \in {<<Use("u"), From("pkg.u", {"f"})>>, <<Use("pkg.u"), Use("u")>>, <<Use("pkg")>>, <<Use("absent")>>,
               <<Use("getpass"), Use("os")>>, <<From("pkg.u", {"g"})>>},
        env \in BOOLEAN}
    \cup Graphs

\* One layout per claim of the source that the code does not keep.
SameStem == {Layout(WithSub, PathHolds, Nowhere, FALSE,
                    "main" :> Mod(<<Use("u"), Use("pkg.u")>>, {}) @@
                    "path/u" :> Mod(<<>>, {"P"}) @@ "pkg/u" :> Mod(<<>>, {"P"}))}
BadReexport == {Packaged(Mod(<<From("os", {"P"})>>, {"g"}), <<From("pkg", {"g"})>>)}
=============================================================================
