------------------------------- MODULE Install --------------------------------
(***************************************************************************)
(* `pyrst install` into a virtual environment (src/src/venv.rs).            *)
(*                                                                         *)
(* A run walks the dependency graph depth first: it copies each package     *)
(* into the env's store as it is visited, pins it in a lock set it holds in *)
(* memory, and writes pyrst.lock once, at the end.  With no argument a run  *)
(* re-materialises the packages pyrst.lock pins.  Nothing guards the env:   *)
(* runs may overlap, any step may fail, and a killed run leaves its copies. *)
(*                                                                         *)
(* A source is a package as some origin holds it: a local directory, or a   *)
(* commit of a remote.  A ref is a git URL that names a commit only once it *)
(* is resolved.  Two sources may carry the same package name.  A store      *)
(* directory is two parts, the manifest and the .pyrs tree, each remembered *)
(* by the source it was copied from.                                        *)
(***************************************************************************)
EXTENDS Naturals, Sequences, FiniteSets

CONSTANTS
    Runs,        \* executions of pyrst install
    Names,       \* package names
    Sources,     \* local directories and pinned commits
    Refs,        \* git URLs of a branch, a tag or HEAD
    Catalogs,    \* the package universes: functions from Sources to packages
    Overlap      \* may two runs be under way at once

None == "none"

Dependencies == [name: Names, spec: Sources \cup Refs]

ASSUME CatalogsAssumption ==
    /\ None \notin Names \cup Sources \cup Refs
    /\ Sources \cap Refs = {}
    /\ Overlap \in BOOLEAN
    /\ \A cat \in Catalogs : cat \in [Sources -> [name: Names, deps: Seq(Dependencies)]]

VARIABLES
    pkg,        \* the manifest at each source (never changes)
    tip,        \* the commit each ref names
    store,      \* <env>/packages
    lockfile,   \* <env>/pyrst.lock
    text,       \* is its text of one writer, "mixed" at some time, or "torn": unreadable
    op,         \* what each run does next
    mode,       \* is it an install, one with --force, or a reproduce
    lock,       \* InstallState.lock
    done,       \* InstallState.done; for a reproduce, the packages copied so far
    memo,       \* InstallState.git_memo
    stack,      \* InstallState.stack, with each frame's next dependency
    cur,        \* the package being visited and the name its parent declared
    base        \* history: the lock the run started from

locking == <<lockfile, text>>
files == <<store, locking>>
world == <<pkg, tip>>
vars == <<pkg, tip, store, lockfile, text, op, mode, lock, done, memo, stack, cur, base>>

Absent   == [manifest |-> None, code |-> None]
Whole(s) == [manifest |-> s, code |-> s]
NoLock   == [n \in Names |-> None]
Locked(l) == {n \in Names : l[n] # None}

NameOf(s) == pkg[s].name
DepsOf(s) == pkg[s].deps
Resolve(spec) == IF spec \in Refs THEN tip[spec] ELSE spec

Ended  == {"ok", "error", "crashed"}
Active == {r \in Runs : op[r] \notin Ended \cup {"idle"}}

Init ==
    /\ pkg \in Catalogs
    /\ tip \in [Refs -> Sources]
    /\ store = [n \in Names |-> Absent]
    /\ lockfile = NoLock
    /\ text = "whole"
    /\ op = [r \in Runs |-> "idle"]
    /\ mode = [r \in Runs |-> "install"]
    /\ lock = [r \in Runs |-> NoLock]
    /\ done = [r \in Runs |-> {}]
    /\ memo = [r \in Runs |-> [h \in Refs |-> None]]
    /\ stack = [r \in Runs |-> <<>>]
    /\ cur = [r \in Runs |-> [src |-> None, exp |-> None]]
    /\ base = [r \in Runs |-> NoLock]

\* A run that stops short takes its memory with it; what it wrote stays.
Stops(r, how) ==
    /\ op' = [op EXCEPT ![r] = how]
    /\ lock' = [lock EXCEPT ![r] = NoLock]
    /\ base' = [base EXCEPT ![r] = NoLock]
    /\ done' = [done EXCEPT ![r] = {}]
    /\ memo' = [memo EXCEPT ![r] = [h \in Refs |-> None]]
    /\ stack' = [stack EXCEPT ![r] = <<>>]
    /\ cur' = [cur EXCEPT ![r] = [src |-> None, exp |-> None]]
    /\ UNCHANGED <<world, files, mode>>

Goto(r, from, to) == op[r] = from /\ op' = [op EXCEPT ![r] = to]

Name(r)   == NameOf(cur[r].src)
OnStack(r) == {NameOf(stack[r][i].src) : i \in 1 .. Len(stack[r])}

\* Mutant: no memo, every edge asks the remote again.
Resolved_afresh(r, spec) == Resolve(spec)

\* clone_git_package and canonicalize: a spec as a source, each ref asked once a run.
Resolved(r, spec) ==
    IF spec \in Refs /\ memo[r][spec] # None THEN memo[r][spec] ELSE Resolve(spec)
Memoised(r, spec) ==
    IF spec \in Refs THEN [memo EXCEPT ![r][spec] = Resolved(r, spec)] ELSE memo

-----------------------------------------------------------------------------
(* Starting a run                                                           *)

MayStart(r) == op[r] = "idle" /\ (Overlap \/ Active = {})

\* install with a path or a URL: new_state reads the lock, then the root is visited.
StartInstall(r) ==
    /\ MayStart(r)
    /\ text # "torn"
    /\ \E m \in {"install", "force"} : mode' = [mode EXCEPT ![r] = m]
    /\ \E spec \in Sources \cup Refs :
        /\ memo' = Memoised(r, spec)
        /\ cur' = [cur EXCEPT ![r] = [src |-> Resolved(r, spec), exp |-> None]]
    /\ lock' = [lock EXCEPT ![r] = lockfile]
    /\ base' = [base EXCEPT ![r] = lockfile]
    /\ op' = [op EXCEPT ![r] = "visit"]
    /\ UNCHANGED <<world, files, done, stack>>

\* install with no argument.
StartReproduce(r) ==
    /\ MayStart(r)
    /\ text # "torn" /\ Locked(lockfile) # {}
    /\ mode' = [mode EXCEPT ![r] = "reproduce"]
    /\ lock' = [lock EXCEPT ![r] = lockfile]
    /\ base' = [base EXCEPT ![r] = lockfile]
    /\ op' = [op EXCEPT ![r] = "reproduce"]
    /\ UNCHANGED <<world, files, done, memo, stack, cur>>

\* reproduce_into refuses an empty lock; read_lock a text with a malformed line.
StartRefused(r) ==
    /\ MayStart(r)
    /\ Locked(lockfile) = {} \/ text = "torn"
    /\ op' = [op EXCEPT ![r] = "error"]
    /\ UNCHANGED <<world, files, mode, lock, done, memo, stack, cur, base>>

-----------------------------------------------------------------------------
(* install_dfs: what to do with the visited package                         *)

\* Mutant: a collision counts only within the run.
Collides_in_run(r)  == /\ mode[r] # "force" /\ Name(r) \in done[r]
                       /\ lock[r][Name(r)] \notin {None, cur[r].src}

Mismatched(r) == cur[r].exp \notin {None, Name(r)}
Cyclic(r)     == Name(r) \in OnStack(r)
Collides(r)   == mode[r] # "force" /\ lock[r][Name(r)] \notin {None, cur[r].src}

VisitRefused(r) ==
    /\ op[r] = "visit"
    /\ Mismatched(r) \/ Cyclic(r) \/ Collides(r)
    /\ Stops(r, "error")

Accepted(r) == ~Mismatched(r) /\ ~Cyclic(r) /\ ~Collides(r)

\* Mutants: a package on the stack counts as installed; the diamond's second source
\* is pinned before the short-circuit.
VisitDone_in_progress(r) ==
    /\ Goto(r, "visit", "next")
    /\ ~Mismatched(r) /\ ~Collides(r)
    /\ Name(r) \in done[r] \cup OnStack(r)
    /\ UNCHANGED <<world, files, mode, lock, done, memo, stack, cur, base>>
VisitDone_repins(r) ==
    /\ Goto(r, "visit", "next")
    /\ Accepted(r)
    /\ Name(r) \in done[r]
    /\ lock' = [lock EXCEPT ![r][Name(r)] = cur[r].src]
    /\ UNCHANGED <<world, files, mode, done, memo, stack, cur, base>>

\* The diamond: installed earlier in this run.
VisitDone(r) ==
    /\ Goto(r, "visit", "next")
    /\ Accepted(r)
    /\ Name(r) \in done[r]
    /\ UNCHANGED <<world, files, mode, lock, done, memo, stack, cur, base>>

VisitNew(r) ==
    /\ Goto(r, "visit", "clear")
    /\ Accepted(r)
    /\ Name(r) \notin done[r]
    /\ UNCHANGED <<world, files, mode, lock, done, memo, stack, cur, base>>

-----------------------------------------------------------------------------
(* copy_package, for an install and for a reproduce                         *)

CopyClear(r) ==
    /\ Goto(r, "clear", "manifest")
    /\ store' = [store EXCEPT ![Name(r)] = Absent]
    /\ UNCHANGED <<world, locking, mode, lock, done, memo, stack, cur, base>>

CopyManifest(r) ==
    /\ Goto(r, "manifest", "code")
    /\ store' = [store EXCEPT ![Name(r)].manifest = cur[r].src]
    /\ UNCHANGED <<world, locking, mode, lock, done, memo, stack, cur, base>>

\* Mutant: the loop over the dependencies starts one too far.
CopyCode_skips_first(r) ==
    /\ Goto(r, "code", IF mode[r] = "reproduce" THEN "reproduce" ELSE "next")
    /\ store' = [store EXCEPT ![Name(r)].code = cur[r].src]
    /\ IF mode[r] = "reproduce"
       THEN /\ done' = [done EXCEPT ![r] = @ \cup {Name(r)}]
            /\ UNCHANGED <<lock, stack>>
       ELSE /\ lock' = [lock EXCEPT ![r][Name(r)] = cur[r].src]
            /\ stack' = [stack EXCEPT ![r] = Append(@, [src |-> cur[r].src, next |-> 2])]
            /\ UNCHANGED done
    /\ UNCHANGED <<world, locking, mode, memo, cur, base>>

\* The .pyrs tree follows.  An install then pins the package and opens its frame.
CopyCode(r) ==
    /\ Goto(r, "code", IF mode[r] = "reproduce" THEN "reproduce" ELSE "next")
    /\ store' = [store EXCEPT ![Name(r)].code = cur[r].src]
    /\ IF mode[r] = "reproduce"
       THEN /\ done' = [done EXCEPT ![r] = @ \cup {Name(r)}]
            /\ UNCHANGED <<lock, stack>>
       ELSE /\ lock' = [lock EXCEPT ![r][Name(r)] = cur[r].src]
            /\ stack' = [stack EXCEPT ![r] = Append(@, [src |-> cur[r].src, next |-> 1])]
            /\ UNCHANGED done
    /\ UNCHANGED <<world, locking, mode, memo, cur, base>>

-----------------------------------------------------------------------------
(* install_dfs: the loop over the dependencies of the top frame             *)

Top(r) == stack[r][Len(stack[r])]

\* Mutant: the loop does not advance.
NextDependency_stuck(r) ==
    /\ Goto(r, "next", "visit")
    /\ Top(r).next <= Len(DepsOf(Top(r).src))
    /\ LET dep == DepsOf(Top(r).src)[Top(r).next] IN
        /\ memo' = Memoised(r, dep.spec)
        /\ cur' = [cur EXCEPT ![r] = [src |-> Resolved(r, dep.spec), exp |-> dep.name]]
    /\ UNCHANGED <<world, files, mode, lock, done, stack, base>>

NextDependency(r) ==
    /\ Goto(r, "next", "visit")
    /\ Top(r).next <= Len(DepsOf(Top(r).src))
    /\ LET dep == DepsOf(Top(r).src)[Top(r).next] IN
        /\ memo' = Memoised(r, dep.spec)
        /\ cur' = [cur EXCEPT ![r] = [src |-> Resolved(r, dep.spec), exp |-> dep.name]]
    /\ stack' = [stack EXCEPT ![r][Len(stack[r])].next = @ + 1]
    /\ UNCHANGED <<world, files, mode, lock, done, base>>

FinishPackage(r) ==
    /\ Goto(r, "next", IF Len(stack[r]) = 1 THEN "truncate" ELSE "next")
    /\ Top(r).next > Len(DepsOf(Top(r).src))
    /\ stack' = [stack EXCEPT ![r] = SubSeq(@, 1, Len(@) - 1)]
    /\ done' = [done EXCEPT ![r] = @ \cup {NameOf(Top(r).src)}]
    /\ UNCHANGED <<world, files, mode, lock, memo, cur, base>>

-----------------------------------------------------------------------------
(* write_lock: fs::write truncates the file, then writes it with one call,   *)
(* from the start of the file whatever another run has written there since    *)

Readable == IF text = "torn" THEN "mixed" ELSE text

TruncateLock(r) ==
    /\ Goto(r, "truncate", "write")
    /\ lockfile' = NoLock
    /\ text' = Readable
    /\ UNCHANGED <<world, store, mode, lock, done, memo, stack, cur, base>>

\* A text written over a longer one leaves the lines at the end of that: a line that is
\* there twice counts the second time, and the first of them may lack its start, so
\* that its package passes for another name.
Overlaid(new, old) ==
    LET Kept(ns) == [n \in Names |-> IF n \in ns THEN old[n] ELSE new[n]]
        kept == {Kept(ns) : ns \in SUBSET Locked(old)}
    IN  kept \cup {[l EXCEPT ![n] = old[o]] : l \in kept, n \in Names, o \in Locked(old)}

\* The text replaces what is there if it is not the shorter one; else the two mix, and
\* the result may not parse.
WriteLock(r) ==
    /\ Goto(r, "write", "ok")
    /\ \/ lockfile' = lock[r] /\ text' = Readable
       \/ /\ lockfile # NoLock
          /\ lockfile' \in Overlaid(lock[r], lockfile)
          /\ text' \in {"mixed", "torn"}
    /\ UNCHANGED <<world, store, mode, lock, done, memo, stack, cur, base>>

-----------------------------------------------------------------------------
(* reproduce_into: a flat pass over the lock, no recursion, no write        *)

\* A package that no longer has the locked name is one of the ways a run Fails.
ReproduceNext(r) ==
    /\ Goto(r, "reproduce", "clear")
    /\ \E n \in Locked(lock[r]) \ done[r] :
        /\ NameOf(lock[r][n]) = n
        /\ cur' = [cur EXCEPT ![r] = [src |-> lock[r][n], exp |-> n]]
    /\ UNCHANGED <<world, files, mode, lock, done, memo, stack, base>>

ReproduceEnds(r) ==
    /\ Goto(r, "reproduce", "ok")
    /\ Locked(lock[r]) \subseteq done[r]
    /\ UNCHANGED <<world, files, mode, lock, done, memo, stack, cur, base>>

-----------------------------------------------------------------------------
\* A missing path, a failed clone, a repository without a manifest, a full disk:
\* the error leaves the run at once, and nothing it copied is undone.
Fails(r) == r \in Active /\ Stops(r, "error")

Crash(r) == r \in Active /\ Stops(r, "crashed")

\* Somebody pushes to a remote.
Push(h) ==
    /\ \E s \in Sources \ {tip[h]} : tip' = [tip EXCEPT ![h] = s]
    /\ UNCHANGED <<pkg, files, op, mode, lock, done, memo, stack, cur, base>>

Work(r) ==
    \/ VisitRefused(r) \/ VisitDone(r) \/ VisitNew(r)
    \/ CopyClear(r) \/ CopyManifest(r) \/ CopyCode(r)
    \/ NextDependency(r) \/ FinishPackage(r) \/ TruncateLock(r) \/ WriteLock(r)
    \/ ReproduceNext(r) \/ ReproduceEnds(r)

Next ==
    \/ \E r \in Runs : \/ StartInstall(r) \/ StartReproduce(r) \/ StartRefused(r)
                     \/ Work(r) \/ Fails(r) \/ Crash(r)
    \/ \E h \in Refs : Push(h)

Spec == Init /\ [][Next]_vars

\* A run is a thread of straight code: it keeps taking steps until it ends.
FairSpec == Spec /\ \A r \in Runs : WF_vars(Work(r))
-----------------------------------------------------------------------------
Ops == Ended \cup {"idle", "visit", "clear", "manifest", "code", "next",
                   "truncate", "write", "reproduce"}
Locks  == [Names -> Sources \cup {None}]
Memos  == [Refs -> Sources \cup {None}]
Copies == [manifest: Sources \cup {None}, code: Sources \cup {None}]
Visits == [src: Sources \cup {None}, exp: Names \cup {None}]
Frame  == [src: Sources, next: Nat \ {0}]
Stacks == Seq(Frame)

\* The types of the variables.
TypeOK ==
    /\ pkg \in Catalogs
    /\ tip \in [Refs -> Sources]
    /\ store \in [Names -> Copies]
    /\ lockfile \in Locks
    /\ text \in {"whole", "mixed", "torn"}
    /\ op \in [Runs -> Ops]
    /\ mode \in [Runs -> {"install", "force", "reproduce"}]
    /\ lock \in [Runs -> Locks]
    /\ done \in [Runs -> SUBSET Names]
    /\ memo \in [Runs -> Memos]
    /\ stack \in [Runs -> Stacks]
    /\ cur \in [Runs -> Visits]
    /\ base \in [Runs -> Locks]

Closed(l) ==
    \A n \in Locked(l) : \A i \in 1 .. Len(DepsOf(l[n])) : l[DepsOf(l[n])[i].name] # None

\* pyrst.lock is a complete install set: every dependency a locked package declares
\* is locked too, through failures, kills, --force replacements and overlapping runs,
\* until two writes overlap so that the shorter text leaves an end of the longer one
\* (venv.rs, reproduce_into: "the lock is already the complete, coherent, flattened
\* install set").
LockComplete == text = "whole" => Closed(lockfile)

\* No name is ever on the DFS stack twice: dependency cycles, through whatever
\* sources, are refused before they are walked (venv.rs, install_dfs).
StackDistinct ==
    \A r \in Runs : \A i, j \in 1 .. Len(stack[r]) :
        NameOf(stack[r][i].src) = NameOf(stack[r][j].src) => i = j

DependsOn(l, n) == {DepsOf(l[n])[i].name : i \in 1 .. Len(DepsOf(l[n]))}

\* A set of locked names in which each depends on another of the set is a cycle.
\* The lock never holds one, although --force may replace a package under others
\* that were installed earlier, a name may come from several sources and runs overlap,
\* until an overlapping write mixes two texts.
LockAcyclic ==
    text = "whole" =>
        \A S \in SUBSET Locked(lockfile) :
            S # {} => \E n \in S : DependsOn(lockfile, n) \cap S = {}

\* Without --force a run never changes the pin of a package that was locked when
\* it started (venv.rs, install_dfs, the collision check; package-management.md E.3).
UnforcedKeepsPins ==
    \A r \in Runs : mode[r] = "install" =>
        \A n \in Locked(base[r]) : lock[r][n] = base[r][n]

\* When a run ends well, each package it handled lies in the store whole, copied from
\* the very source pyrst.lock pins it to, diamonds with two sources included
\* (venv.rs, install_dfs and reproduce_into).
EndsCoherent ==
    [][\A r \in Runs : op[r] # "ok" /\ op'[r] = "ok" =>
           \A n \in done'[r] : store'[n] = Whole(lockfile'[n])]_vars

\* Do all manifests that depend on the package name it by one and the same spec?
OneSpec(n) ==
    \A s, t \in Sources : \A i \in 1 .. Len(DepsOf(s)), j \in 1 .. Len(DepsOf(t)) :
        DepsOf(s)[i].name = n /\ DepsOf(t)[j].name = n => DepsOf(s)[i].spec = DepsOf(t)[j].spec

\* A diamond that all its dependents name by one spec is no collision: without --force
\* a run that has pinned such a package meets it again at the commit it pinned, however
\* long the walk between the two edges and whatever is pushed meanwhile, unless an
\* earlier install had pinned it (venv.rs, install_dfs and clone_git_package).
DiamondsAgree ==
    \A r \in Runs :
        /\ op[r] = "visit" /\ mode[r] = "install"
        /\ cur[r].exp = Name(r) /\ OneSpec(Name(r))
        /\ Name(r) \notin OnStack(r) /\ base[r][Name(r)] = None
        => ~Collides(r)

\* Every run ends, on every dependency graph (venv.rs, install_dfs).
EveryRunEnds == \A r \in Runs : (r \in Active) ~> (op[r] \in Ended)
=============================================================================
