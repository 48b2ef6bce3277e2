------------------------------ MODULE Resolver -------------------------------
(***************************************************************************)
(* The import resolver (src/src/resolver.rs): a depth-first walk of the      *)
(* import graph from the root file, which lists every module after the      *)
(* modules it imports, and the passes over that list that check class names, *)
(* build each package's public surface and bind the names of from-imports.   *)
(*                                                                         *)
(* A tree is what the walk finds on disk, in the editor's buffers and in the *)
(* embedded library while it runs.  A file stands for a canonical path, or   *)
(* for the synthetic path of an embedded module; an id is a dotted import    *)
(* path.  Of a module's text the model keeps its import statements, the      *)
(* names it defines and which of those are classes.                          *)
(***************************************************************************)
EXTENDS Naturals, Sequences, FiniteSets

CONSTANTS
    Files,      \* module keys
    Embedded,   \* the keys of embedded modules
    Ids,        \* dotted import paths
    Dotted,     \* those of more than one component
    Skipped,    \* those resolved to nothing: dataclasses
    Names,      \* top-level names
    Stems,      \* file stems
    Dirs,       \* directories imports are looked up in
    StdlibDir,  \* the base directory of embedded modules, which holds no file
    Trees       \* what a walk may find

None == "none"
Bare == "bare"      \* a package directory without an __init__.pyrs

Statement == [id: Ids, names: SUBSET Names]
Text == [parses: BOOLEAN, imports: Seq(Statement), defs: SUBSET Names, classes: SUBSET Names]
Tree == [root: Files \ Embedded, home: Dirs, search: Seq(Dirs), env: BOOLEAN,
         at: [Dirs -> [Ids -> Files \cup {None}]],
         pkg: [Dirs -> [Ids -> Files \cup {None, Bare}]],
         builtin: [Ids -> Embedded \cup {None}],
         stem: [Files -> Stems], text: [Files -> Text]]

ASSUME TreesAssumption ==
    /\ {None, Bare} \cap (Files \cup Ids \cup Dirs) = {}
    /\ Embedded \subseteq Files /\ StdlibDir \in Dirs
    /\ Trees \subseteq Tree

VARIABLES
    tree,       \* the tree the walk runs in (never changes)
    phase,      \* where resolve_with_overlay stands, or how it ended
    stack,      \* dfs_stack, with each frame's next import statement
    inFlight,   \* Resolver.in_flight
    order,      \* Resolver.order
    id,         \* the module_id stamped on each module; None for the root
    base,       \* the directory each module's own imports are looked up from
    cycle,      \* the cycle a CircularImport reports
    initIds,    \* Resolver.package_init_ids
    surface,    \* ctx.package_exports
    bound       \* every binding the from-import loop records

walking == <<stack, inFlight, order, id, base, initIds>>
vars == <<tree, phase, walking, cycle, surface, bound>>

Elements(s) == {s[i] : i \in 1 .. Len(s)}

Imports(f) == tree.text[f].imports
Defs(f)    == tree.text[f].defs

Init ==
    /\ tree \in Trees
    /\ phase = "start"
    /\ stack = <<>> /\ inFlight = {} /\ order = <<>>
    /\ id = [f \in Files |-> None]
    /\ base = [f \in Files |-> None]
    /\ cycle = <<>>
    /\ initIds = {}
    /\ surface = [p \in Ids |-> {}]
    /\ bound = {}

-----------------------------------------------------------------------------
(* Where an import leads                                                     *)

\* root-relative, then the env store and PYRST_PATH.
Places(dir) == <<dir>> \o tree.search
First(S) == CHOOSE i \in S : \A j \in S : i <= j

ModulePlaces(dir, m)  == {i \in 1 .. Len(Places(dir)) : tree.at[Places(dir)[i]][m] # None}
PackagePlaces(dir, m) == {i \in 1 .. Len(Places(dir)) : tree.pkg[Places(dir)[i]][m] # None}

IsModule(dir, m)  == ModulePlaces(dir, m) # {}
IsBuiltin(dir, m) == ~IsModule(dir, m) /\ tree.builtin[m] # None
IsPackage(dir, m) == ~IsModule(dir, m) /\ tree.builtin[m] = None /\ PackagePlaces(dir, m) # {}

PackageEntry(dir, m) == tree.pkg[Places(dir)[First(PackagePlaces(dir, m))]][m]

\* The module an import of m from a module based in dir leads to, and the directory
\* that becomes its base.
Target(dir, m) ==
    CASE IsModule(dir, m) ->
            LET d == Places(dir)[First(ModulePlaces(dir, m))] IN [file |-> tree.at[d][m], base |-> d]
      [] IsBuiltin(dir, m) -> [file |-> tree.builtin[m], base |-> StdlibDir]
      [] IsPackage(dir, m) /\ PackageEntry(dir, m) # Bare ->
            [file |-> PackageEntry(dir, m), base |-> dir]
      [] OTHER -> [file |-> None, base |-> dir]

-----------------------------------------------------------------------------
(* The walk: visit and process_module                                        *)

Top == stack[Len(stack)]
Statements == Imports(Top.key)
Wanted == Statements[Top.next].id
Found == Target(base[Top.key], Wanted)

\* The top frame has a statement to look at.
AtImport == phase = "walk" /\ stack # <<>> /\ Top.next <= Len(Statements)
AtTarget == AtImport /\ Wanted \notin Skipped /\ Found.file # None

Advanced == [stack EXCEPT ![Len(stack)].next = @ + 1]

\* A package entry is recorded before it is visited.
NotePackage ==
    initIds' = IF IsPackage(base[Top.key], Wanted) THEN initIds \cup {Wanted} ELSE initIds

\* process_module up to its loop: the module goes in flight, then it is parsed and stamped.
Load(f, frames, m, dir) ==
    /\ inFlight' = inFlight \cup {f}
    /\ stack' = Append(frames, [key |-> f, next |-> 1])
    /\ IF tree.text[f].parses
       THEN /\ phase' = "walk"
            /\ id' = [id EXCEPT ![f] = m]
            /\ base' = [base EXCEPT ![f] = dir]
       ELSE phase' = "unparsable" /\ UNCHANGED <<id, base>>

Start ==
    /\ phase = "start"
    /\ Load(tree.root, <<>>, None, tree.home)
    /\ UNCHANGED <<tree, order, cycle, initIds, surface, bound>>

\* The root is not there, or is not text.
StartFails ==
    /\ phase = "start"
    /\ phase' = "not_found"
    /\ UNCHANGED <<tree, walking, cycle, surface, bound>>

\* Mutant: the statement is skipped but the loop does not go on.
SkipImport_stuck ==
    /\ AtImport /\ Wanted \in Skipped
    /\ UNCHANGED vars

SkipImport ==
    /\ AtImport /\ Wanted \in Skipped
    /\ stack' = Advanced
    /\ UNCHANGED <<tree, phase, inFlight, order, id, base, cycle, initIds, surface, bound>>

\* Mutant: a module in flight is taken for finished.
Processed_in_flight(f) == f \in Elements(order) \cup inFlight

Processed(f) == f \in Elements(order)

\* Mutant: a second import restamps the module with its own id.
ImportAgain_restamps ==
    /\ AtTarget /\ Processed(Found.file)
    /\ NotePackage
    /\ stack' = Advanced
    /\ id' = [id EXCEPT ![Found.file] = Wanted]
    /\ UNCHANGED <<tree, phase, inFlight, order, base, cycle, surface, bound>>

\* The diamond.
ImportAgain ==
    /\ AtTarget /\ Processed(Found.file)
    /\ NotePackage
    /\ stack' = Advanced
    /\ UNCHANGED <<tree, phase, inFlight, order, id, base, cycle, surface, bound>>

\* Mutant: the path starts at the root, not where the cycle starts.
CyclePath_whole(f) == Append([k \in 1 .. Len(stack) |-> stack[k].key], f)

CyclePath(f) ==
    LET from == First({k \in 1 .. Len(stack) : stack[k].key = f})
    IN  Append([k \in 1 .. Len(stack) + 1 - from |-> stack[from + k - 1].key], f)

\* A file is read before process_module finds it in flight.
ImportCycle ==
    /\ AtTarget /\ ~Processed(Found.file) /\ Found.file \in inFlight
    /\ NotePackage
    /\ cycle' = CyclePath(Found.file)
    /\ phase' = "circular"
    /\ UNCHANGED <<tree, stack, inFlight, order, id, base, surface, bound>>

ImportNew ==
    /\ AtTarget /\ ~Processed(Found.file) /\ Found.file \notin inFlight
    /\ NotePackage
    /\ Load(Found.file, Advanced, Wanted, Found.base)
    /\ UNCHANGED <<tree, order, cycle, surface, bound>>

\* IsPackageNotModule, PackageNotInstalled, ImportNotFound.
ImportMissing ==
    /\ AtImport /\ Wanted \notin Skipped /\ Found.file = None
    /\ phase' = CASE IsPackage(base[Top.key], Wanted) -> "package"
                  [] tree.env /\ ~IsPackage(base[Top.key], Wanted) -> "not_installed"
                  [] OTHER -> "not_found"
    /\ UNCHANGED <<tree, walking, cycle, surface, bound>>

\* The file is there and cannot be read: deleted since, or not text.
ReadFails ==
    /\ AtTarget /\ ~Processed(Found.file) /\ Found.file \notin Embedded
    /\ NotePackage
    /\ phase' = "not_found"
    /\ UNCHANGED <<tree, stack, inFlight, order, id, base, cycle, surface, bound>>

FinishModule ==
    /\ phase = "walk" /\ stack # <<>> /\ Top.next > Len(Statements)
    /\ stack' = SubSeq(stack, 1, Len(stack) - 1)
    /\ inFlight' = inFlight \ {Top.key}
    /\ order' = Append(order, Top.key)
    /\ phase' = IF Len(stack) = 1 THEN "classes" ELSE "walk"
    /\ UNCHANGED <<tree, id, base, cycle, initIds, surface, bound>>

-----------------------------------------------------------------------------
(* The passes over the list                                                  *)

\* detect_cross_module_collisions tells modules apart by their file stems.
ClassClash ==
    \E i, j \in 1 .. Len(order) :
        /\ tree.text[order[i]].classes \cap tree.text[order[j]].classes # {}
        /\ tree.stem[order[i]] # tree.stem[order[j]]

CheckClasses ==
    /\ phase = "classes"
    /\ phase' = IF ClassClash THEN "collision" ELSE "merge"
    /\ UNCHANGED <<tree, walking, cycle, surface, bound>>

\* merge_ctx_from_module may refuse an annotation.
Merge ==
    /\ phase = "merge"
    /\ phase' \in {"surfaces", "ill_typed"}
    /\ UNCHANGED <<tree, walking, cycle, surface, bound>>

\* ctx.module_symbols: the root's names are not in it, and neither is a module that
\* defines none.
Imported == {order[i] : i \in 1 .. Len(order) - 1}
Symbols(m) == UNION {Defs(f) : f \in {g \in Imported : id[g] = m}}

Entries == {f \in Elements(order) : id[f] \in initIds}

\* Mutant: a re-exported name is surfaced without looking at its owner.
Surfaced_unchecked(f) ==
    {[name |-> n, owner |-> id[f], at |-> 0] : n \in Defs(f)} \cup
    UNION {{[name |-> n, owner |-> Imports(f)[k].id, at |-> k] : n \in Imports(f)[k].names} :
           k \in 1 .. Len(Imports(f))}

\* What a package's entry file publishes: its definitions, and the names it imports
\* from modules that define them.
Surfaced(f) ==
    {[name |-> n, owner |-> id[f], at |-> 0] : n \in Defs(f)} \cup
    UNION {{[name |-> n, owner |-> Imports(f)[k].id, at |-> k] :
               n \in Imports(f)[k].names \cap Symbols(Imports(f)[k].id)} :
           k \in 1 .. Len(Imports(f))}

PublishedTwice == \E f \in Entries : \E c, d \in Surfaced(f) : c # d /\ c.name = d.name

\* A later entry file of the same package id replaces an earlier one's surface.
LastEntry(p) ==
    LET at == {i \in 1 .. Len(order) : order[i] \in Entries /\ id[order[i]] = p}
    IN  order[CHOOSE i \in at : \A j \in at : j <= i]
Packages == {id[f] : f \in Entries}

BuildSurfaces ==
    /\ phase = "surfaces"
    /\ IF PublishedTwice
       THEN phase' = "surface_clash" /\ UNCHANGED surface
       ELSE /\ phase' = "bind"
            /\ surface' = [p \in Ids |-> IF p \in Packages
                                         THEN {[name |-> c.name, owner |-> c.owner] : c \in Surfaced(LastEntry(p))}
                                         ELSE {}]
    /\ UNCHANGED <<tree, walking, cycle, bound>>

\* Every name of every from-import statement of the program.
FromImports ==
    {b \in [file: Elements(order), id: Ids \ Skipped, name: Names] :
        \E k \in 1 .. Len(Imports(b.file)) :
            Imports(b.file)[k].id = b.id /\ b.name \in Imports(b.file)[k].names}

\* A package answers from its surface.  Otherwise only a dotted id with a symbol table
\* is looked into.
Refused(b) ==
    \/ b.id \in Packages /\ \A c \in surface[b.id] : c.name # b.name
    \/ b.id \notin Packages /\ b.id \in Dotted /\ Symbols(b.id) # {} /\ b.name \notin Symbols(b.id)

Owner(b) ==
    IF b.id \in Packages THEN (CHOOSE c \in surface[b.id] : c.name = b.name).owner ELSE b.id

BindNames ==
    /\ phase = "bind"
    /\ IF \E b \in FromImports : Refused(b)
       THEN phase' = "unknown_name" /\ UNCHANGED bound
       ELSE /\ phase' = "ok"
            /\ bound' = {[importer |-> id[b.file], id |-> b.id, name |-> b.name, owner |-> Owner(b)] :
                            b \in FromImports}
    /\ UNCHANGED <<tree, walking, cycle, surface>>

Walk ==
    \/ Start \/ StartFails \/ SkipImport \/ ImportAgain \/ ImportCycle \/ ImportNew \/ ImportMissing
    \/ ReadFails \/ FinishModule

Next == Walk \/ CheckClasses \/ Merge \/ BuildSurfaces \/ BindNames

Spec == Init /\ [][Next]_vars

\* A resolution is one call that keeps running until it returns.
FairSpec == Spec /\ WF_vars(Next)
-----------------------------------------------------------------------------
Errors == {"unparsable", "circular", "package", "not_installed", "not_found", "collision",
           "ill_typed", "surface_clash", "unknown_name"}
Passes == {"classes", "merge", "surfaces", "bind", "ok"}
Frame == [key: Files, next: Nat \ {0}]
Export == [name: Names, owner: Ids]

\* The types of the variables.
TypeOK ==
    /\ tree \in Trees
    /\ phase \in {"start", "walk"} \cup Passes \cup Errors
    /\ stack \in Seq(Frame)
    /\ inFlight \in SUBSET Files
    /\ order \in Seq(Files)
    /\ id \in [Files -> Ids \cup {None}]
    /\ base \in [Files -> Dirs \cup {None}]
    /\ cycle \in Seq(Files)
    /\ initIds \in SUBSET Ids

\* The modules f imports, each looked up from the directory f was based in.
Deps(f) ==
    {Target(base[f], Imports(f)[k].id).file :
        k \in {j \in 1 .. Len(Imports(f)) : Imports(f)[j].id \notin Skipped}}

\* "Modules are in topological order": whenever a module is listed, every module it
\* imports is listed before it (resolver.rs, ResolvedProgram, process_module).
ImportsComeFirst ==
    \A i \in 1 .. Len(order) : Deps(order[i]) \subseteq {order[j] : j \in 1 .. i - 1}

\* No module is listed twice, or listed while it is still being walked: merging one
\* twice would define its names twice (process_module, the diamond).
ListedOnce ==
    /\ \A i, j \in 1 .. Len(order) : order[i] = order[j] => i = j
    /\ \A k \in 1 .. Len(stack) : stack[k].key \notin Elements(order)

\* A CircularImport names a real cycle: each file imports the next, and the last is the
\* first again.
CycleIsReal ==
    phase = "circular" =>
        /\ Len(cycle) > 1 /\ cycle[1] = cycle[Len(cycle)]
        /\ \A k \in 1 .. Len(cycle) - 1 : cycle[k + 1] \in Deps(cycle[k])

\* Once the walk is over the root is the last of the list, which is what merging and
\* binding take for the root, and it alone has no module id.
RootIsLast ==
    phase \in Passes =>
        /\ order # <<>> /\ order[Len(order)] = tree.root
        /\ \A f \in Elements(order) : id[f] = None <=> f = tree.root

\* What the passes after the walk take the list for: imports before importers, each
\* module once, the root last (ResolvedProgram, merge, the order of the globals).
TopologicalOrder == ImportsComeFirst /\ ListedOnce /\ RootIsLast

\* What a from-import of a package binds is defined by the module the binding names:
\* a re-export is bound to its true owner, never to the package.
RedirectsAreReal ==
    phase = "ok" => \A b \in bound : b.id \in Packages => b.name \in Symbols(b.owner)

\* The id and the base directory a module was first reached by are its own for good.
FirstReachStays ==
    [][\A f \in Elements(order) \cup inFlight : id'[f] = id[f] /\ base'[f] = base[f]]_vars

\* A resolution ends, on every import graph.
ResolveEnds == <>(phase \in Errors \cup {"ok"})
=============================================================================
