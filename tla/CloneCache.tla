------------------------------ MODULE CloneCache ------------------------------
(***************************************************************************)
(* The SHA-keyed clone cache of `pyrst install <url>` (src/src/fetch.rs).   *)
(*                                                                         *)
(* Several pyrst processes share one cache directory with no lock.  A call  *)
(* of `resolve` looks a commit up, and on a miss clones into a private      *)
(* temporary directory and renames it into place.  Meanwhile branches move  *)
(* upstream, git fails, processes die, and `pyrst cache clean` deletes the  *)
(* tree one file at a time.                                                 *)
(*                                                                         *)
(* One remote URL is modelled (a key is a URL and a SHA, and entries of     *)
(* other URLs never meet), so a commit stands for its key.  A directory is  *)
(* two parts: `git` (the commit HEAD of its .git names) and `work` (the     *)
(* commit its files come from).                                             *)
(***************************************************************************)
EXTENDS Naturals, Sequences, FiniteSets

CONSTANTS
    Calls,      \* calls of resolve, each with its own temporary directory
    Cleaners,   \* runs of `pyrst cache clean`
    Commits,    \* full SHAs
    Refs,       \* branches and tags, HEAD (RefSpec::Default) among them
    Listed,     \* for each ref, the refs `git ls-remote url ref` lists, in its order
    Annotated   \* the annotated tags, for which it lists a peeled `^{}` line too

None   == "none"     \* no .git, no files, no commit known
Unborn == "unborn"   \* a .git that `git init` made: HEAD names no commit yet

ASSUME NamesDistinct ==
    /\ Commits \cap {None, Unborn, "git_error", "populate_error", "io_error"} = {}
    /\ Refs \cap ({None} \cup Commits) = {}

\* git matches a ref by the tail of its path: `main` lists refs/heads/feature/main too,
\* and lists it first.
ASSUME ListedAssumption ==
    /\ Listed \in [Refs -> Seq(Refs) \ {<<>>}]
    /\ Annotated \subseteq Refs

VARIABLES
    upstream,   \* the commit each ref of the remote names
    root,       \* does the clones/ directory exist
    cache,      \* the directory at each commit's key
    tmp,        \* the temporary directory of each call
    pc,         \* where each call is
    want,       \* the commit or ref each call was asked for
    target,     \* the commit whose key the call looks up or fills
    out,        \* the commit the call answered, or its error
    cpc,        \* where each cleaner is
    named,      \* history: commits the wanted ref has named since the call began
    shown,      \* history: commits the ref ls-remote answers for it has named since
    unremoved   \* history: has a remove_dir_all of the call's own tmp failed

history == <<named, shown, unremoved>>
vars == <<upstream, root, cache, tmp, pc, want, target, out, cpc, history>>

Dirs == [there: BOOLEAN, git: Commits \cup {None, Unborn}, work: Commits \cup {None}]

NoDir       == [there |-> FALSE, git |-> None, work |-> None]
EmptyDir    == [there |-> TRUE,  git |-> None, work |-> None]
NewGitDir   == [there |-> TRUE,  git |-> Unborn, work |-> None]
Checkout(c) == [there |-> TRUE,  git |-> c,    work |-> c]

\* "A directory counts as a completed clone iff it holds a .git"
IsValidClone(d) == d.there /\ d.git # None

Errors == {"git_error", "populate_error", "io_error"}

Init ==
    /\ upstream \in [Refs -> Commits]
    /\ root = FALSE
    /\ cache = [c \in Commits |-> NoDir]
    /\ tmp = [p \in Calls |-> NoDir]
    /\ pc = [p \in Calls |-> "idle"]
    /\ want = [p \in Calls |-> None]
    /\ target = [p \in Calls |-> None]
    /\ out = [p \in Calls |-> None]
    /\ cpc = [k \in Cleaners |-> "idle"]
    /\ named = [p \in Calls |-> {}]
    /\ shown = [p \in Calls |-> {}]
    /\ unremoved = [p \in Calls |-> FALSE]

\* parse_ls_remote: the first peeled line, else the first line, whatever ref it is of.
ParseLsRemote(r) ==
    LET Peeled(i) == /\ Listed[r][i] \in Annotated
                     /\ \A j \in 1 .. i - 1 : Listed[r][j] \notin Annotated
        lines == 1 .. Len(Listed[r])
    IN  IF \E i \in lines : Peeled(i)
        THEN Listed[r][CHOOSE i \in lines : Peeled(i)]
        ELSE Head(Listed[r])

Goto(p, from, to) == pc[p] = from /\ pc' = [pc EXCEPT ![p] = to]

Answer(p, c) == out' = [out EXCEPT ![p] = c]

SetTmp(p, d) == tmp' = [tmp EXCEPT ![p] = d]

\* What a remove_dir_all that fails may leave of a directory.
Remains(d) == [there: {TRUE}, git: {d.git, None}, work: {d.work, None}]

\* `let _ = remove_dir_all(tmp)`: when it fails, the call goes on all the same.
Discard(p) ==
    /\ \/ SetTmp(p, NoDir) /\ UNCHANGED unremoved
       \/ /\ tmp[p].there
          /\ \E d \in Remains(tmp[p]) : SetTmp(p, d)
          /\ unremoved' = [unremoved EXCEPT ![p] = TRUE]
    /\ UNCHANGED <<named, shown>>

-----------------------------------------------------------------------------
(* A call of resolve                                                        *)

\* ensure_git, then create_dir_all(clones); only a ref asks ls-remote.  (Where one of
\* the two fails, resolve returns before it has done anything: no call of this model.)
Begin(p) ==
    /\ \E w \in Commits \cup Refs :
        /\ want' = [want EXCEPT ![p] = w]
        /\ Goto(p, "idle", IF w \in Refs THEN "ls_remote" ELSE "lookup")
        /\ target' = [target EXCEPT ![p] = IF w \in Refs THEN None ELSE w]
        /\ named' = [named EXCEPT ![p] = IF w \in Refs THEN {upstream[w]} ELSE {w}]
        /\ shown' = [shown EXCEPT ![p] = IF w \in Refs THEN {upstream[ParseLsRemote(w)]} ELSE {}]
    /\ root' = TRUE
    /\ UNCHANGED <<upstream, cache, tmp, out, cpc, unremoved>>

\* Mutant: any commit already cached answers a ref, without asking the remote.
LsRemote_trusts_cache(p) ==
    /\ Goto(p, "ls_remote", "lookup")
    /\ \E c \in Commits : IsValidClone(cache[c]) /\ target' = [target EXCEPT ![p] = c]
    /\ UNCHANGED <<upstream, root, cache, tmp, want, out, cpc, history>>

\* git ls-remote names a commit without a clone: that of the ref parse_ls_remote takes.
LsRemote(p) ==
    /\ Goto(p, "ls_remote", "lookup")
    /\ target' = [target EXCEPT ![p] = upstream[ParseLsRemote(want[p])]]
    /\ UNCHANGED <<upstream, root, cache, tmp, want, out, cpc, history>>

\* ls-remote failed or gave nothing usable: fall back to cloning.
LsRemoteFails(p) ==
    /\ Goto(p, "ls_remote", "clone")
    /\ UNCHANGED <<upstream, root, cache, tmp, want, target, out, cpc, history>>

\* Mutant: the lookup believes the key without looking at the directory.
Hit_unchecked(p) ==
    /\ Goto(p, "lookup", "ok")
    /\ Answer(p, target[p])
    /\ UNCHANGED <<upstream, root, cache, tmp, want, target, cpc, history>>

Hit(p) ==
    /\ Goto(p, "lookup", "ok")
    /\ IsValidClone(cache[target[p]])
    /\ Answer(p, target[p])
    /\ UNCHANGED <<upstream, root, cache, tmp, want, target, cpc, history>>

Miss(p) ==
    /\ Goto(p, "lookup", IF want[p] \in Commits THEN "mkdir" ELSE "clone")
    /\ ~IsValidClone(cache[target[p]])
    /\ UNCHANGED <<upstream, root, cache, tmp, want, target, out, cpc, history>>

\* fetch_commit_into: create_dir_all(tmp) makes the missing parents as well.
MakeTmp(p) ==
    /\ Goto(p, "mkdir", "init")
    /\ root' = TRUE
    /\ SetTmp(p, EmptyDir)
    /\ UNCHANGED <<upstream, cache, want, target, out, cpc, history>>

\* fetch_commit_into: git init runs inside tmp.
GitInit(p) ==
    /\ tmp[p].there
    /\ Goto(p, "init", "fetch")
    /\ SetTmp(p, [tmp[p] EXCEPT !.git = Unborn])
    /\ UNCHANGED <<upstream, root, cache, want, target, out, cpc, history>>

\* Mutant: the fetched commit is never checked out.
FetchCommit_no_checkout(p) ==
    /\ IsValidClone(tmp[p])
    /\ Goto(p, "fetch", "head")
    /\ SetTmp(p, [tmp[p] EXCEPT !.git = want[p]])
    /\ UNCHANGED <<upstream, root, cache, want, target, out, cpc, history>>

\* fetch_commit_into: git fetch <sha>, then checkout --detach FETCH_HEAD.
FetchCommit(p) ==
    /\ IsValidClone(tmp[p])
    /\ Goto(p, "fetch", "head")
    /\ SetTmp(p, Checkout(want[p]))
    /\ UNCHANGED <<upstream, root, cache, want, target, out, cpc, history>>

\* clone_into: git clone makes the directory and its .git ...
CloneStarts(p) ==
    /\ Goto(p, "clone", "cloning")
    /\ root' = TRUE
    /\ SetTmp(p, NewGitDir)
    /\ UNCHANGED <<upstream, cache, want, target, out, cpc, history>>

\* ... and checks out what the ref names by then.
CloneEnds(p) ==
    /\ IsValidClone(tmp[p])
    /\ Goto(p, "cloning", "head")
    /\ SetTmp(p, Checkout(upstream[want[p]]))
    /\ UNCHANGED <<upstream, root, cache, want, target, out, cpc, history>>

\* Any git command of fetch_commit_into or clone_into may fail at any time; it
\* must when a cleaner took the directory it works in.  resolve then removes tmp.
GitFails(p) ==
    /\ \E from \in {"mkdir", "init", "fetch", "clone", "cloning"} :
           Goto(p, from, "git_error")
    /\ Discard(p)
    /\ Answer(p, "git_error")
    /\ UNCHANGED <<upstream, root, cache, want, target, cpc>>

\* Mutant: the key stays the commit ls-remote named.
ReadHead_keeps_target(p) ==
    /\ tmp[p].there /\ tmp[p].git \in Commits
    /\ Goto(p, "head", IF want[p] \in Commits THEN "parent" ELSE "recheck")
    /\ target' = [target EXCEPT ![p] = IF target[p] # None THEN target[p] ELSE tmp[p].git]
    /\ UNCHANGED <<upstream, root, cache, tmp, want, out, cpc, history>>

\* git rev-parse HEAD.  The commit that was cloned, not the one ls-remote named,
\* is the key from here on; only the ref path looks the cache up once more.
ReadHead(p) ==
    /\ tmp[p].there /\ tmp[p].git \in Commits
    /\ Goto(p, "head", IF want[p] \in Commits THEN "parent" ELSE "recheck")
    /\ target' = [target EXCEPT ![p] = IF want[p] \in Commits THEN want[p] ELSE tmp[p].git]
    /\ UNCHANGED <<upstream, root, cache, tmp, want, out, cpc, history>>

\* The `?` on git_head_sha returns without removing tmp.
ReadHeadFails(p) ==
    /\ Goto(p, "head", "head_error")
    /\ Answer(p, "git_error")
    /\ UNCHANGED <<upstream, root, cache, tmp, want, target, cpc, history>>

\* Mutant: the redundant clone is not removed.
RecheckHit_keeps_tmp(p) ==
    /\ Goto(p, "recheck", "ok")
    /\ IsValidClone(cache[target[p]])
    /\ Answer(p, target[p])
    /\ UNCHANGED <<upstream, root, cache, tmp, want, target, cpc, history>>

\* Another call filled the entry while this one cloned: use it, drop ours.
RecheckHit(p) ==
    /\ Goto(p, "recheck", "ok")
    /\ IsValidClone(cache[target[p]])
    /\ Discard(p)
    /\ Answer(p, target[p])
    /\ UNCHANGED <<upstream, root, cache, want, target, cpc>>

RecheckMiss(p) ==
    /\ Goto(p, "recheck", "parent")
    /\ ~IsValidClone(cache[target[p]])
    /\ UNCHANGED <<upstream, root, cache, tmp, want, target, out, cpc, history>>

\* finalize: create_dir_all(parent of dst).
MakeParent(p) ==
    /\ Goto(p, "parent", "rename")
    /\ root' = TRUE
    /\ UNCHANGED <<upstream, cache, tmp, want, target, out, cpc, history>>

\* The `?` on it returns without removing tmp.
MakeParentFails(p) ==
    /\ Goto(p, "parent", "parent_error")
    /\ Answer(p, "io_error")
    /\ UNCHANGED <<upstream, root, cache, tmp, want, target, cpc, history>>

\* rename(2) replaces nothing or an empty directory.
CanRename(p) ==
    /\ root
    /\ tmp[p].there
    /\ cache[target[p]] \in {NoDir, EmptyDir}

\* finalize: the rename that publishes the clone.
Rename(p) ==
    /\ Goto(p, "rename", "ok")
    /\ CanRename(p)
    /\ cache' = [cache EXCEPT ![target[p]] = tmp[p]]
    /\ SetTmp(p, NoDir)
    /\ Answer(p, target[p])
    /\ UNCHANGED <<upstream, root, want, target, cpc, history>>

\* Mutant: the destination in the way is cleared.
RenameFails_clears(p) ==
    /\ Goto(p, "rename", "renamed_not")
    /\ ~CanRename(p)
    /\ cache' = [cache EXCEPT ![target[p]] = NoDir]
    /\ UNCHANGED <<upstream, root, tmp, want, target, out, cpc, history>>

RenameFails(p) ==
    /\ Goto(p, "rename", "renamed_not")
    /\ ~CanRename(p)
    /\ UNCHANGED <<upstream, root, cache, tmp, want, target, out, cpc, history>>

\* finalize, Err arm: the loser of a race uses the winner's clone.
UseWinner(p) ==
    /\ Goto(p, "renamed_not", "ok")
    /\ IsValidClone(cache[target[p]])
    /\ Discard(p)
    /\ Answer(p, target[p])
    /\ UNCHANGED <<upstream, root, cache, want, target, cpc>>

\* and only where there is none is a failed rename an error.
PopulateFails(p) ==
    /\ Goto(p, "renamed_not", "populate_error")
    /\ ~IsValidClone(cache[target[p]])
    /\ Discard(p)
    /\ Answer(p, "populate_error")
    /\ UNCHANGED <<upstream, root, cache, want, target, cpc>>

Ended == {"ok", "git_error", "head_error", "parent_error", "populate_error", "crashed"}

\* The process is killed: what it wrote stays.
Crash(p) ==
    /\ pc[p] \notin Ended \cup {"idle"}
    /\ pc' = [pc EXCEPT ![p] = "crashed"]
    /\ UNCHANGED <<upstream, root, cache, tmp, want, target, out, cpc, history>>

CallStep(p) ==
    \/ Begin(p) \/ LsRemote(p) \/ LsRemoteFails(p) \/ Hit(p) \/ Miss(p)
    \/ MakeTmp(p) \/ GitInit(p) \/ FetchCommit(p) \/ CloneStarts(p) \/ CloneEnds(p)
    \/ GitFails(p) \/ ReadHead(p) \/ ReadHeadFails(p) \/ RecheckHit(p)
    \/ RecheckMiss(p) \/ MakeParent(p) \/ MakeParentFails(p) \/ Rename(p) \/ RenameFails(p) \/ UseWinner(p)
    \/ PopulateFails(p) \/ Crash(p)

-----------------------------------------------------------------------------
(* pyrst cache clean: is_dir, then remove_dir_all over every entry and       *)
(* temporary directory, in whatever order the file system lists them         *)

CleanBegins(k) ==
    /\ cpc[k] = "idle"
    /\ cpc' = [cpc EXCEPT ![k] = IF root THEN "removing" ELSE "done"]
    /\ UNCHANGED <<upstream, root, cache, tmp, pc, want, target, out, history>>

\* One file or one empty directory goes.
Shrunk(d) ==
    IF d = EmptyDir
    THEN {NoDir}
    ELSE {[d EXCEPT !.git = None], [d EXCEPT !.work = None]} \ {d}

RemoveFromEntry(k) ==
    /\ cpc[k] = "removing"
    /\ \E c \in Commits : \E d \in Shrunk(cache[c]) :
           cache[c].there /\ cache' = [cache EXCEPT ![c] = d]
    /\ UNCHANGED <<upstream, root, tmp, pc, want, target, out, cpc, history>>

RemoveFromTmp(k) ==
    /\ cpc[k] = "removing"
    /\ \E p \in Calls : \E d \in Shrunk(tmp[p]) : tmp[p].there /\ SetTmp(p, d)
    /\ UNCHANGED <<upstream, root, cache, pc, want, target, out, cpc, history>>

\* rmdir of the root, once everything under it is gone.
RemoveRoot(k) ==
    /\ cpc[k] = "removing"
    /\ \A c \in Commits : ~cache[c].there
    /\ \A p \in Calls : ~tmp[p].there
    /\ root' = FALSE
    /\ cpc' = [cpc EXCEPT ![k] = "done"]
    /\ UNCHANGED <<upstream, cache, tmp, pc, want, target, out, history>>

\* Killed, or an rmdir found a directory refilled behind its back: it stops half
\* way, and what it did not reach stays.
CleanStops(k) ==
    /\ cpc[k] = "removing"
    /\ cpc' = [cpc EXCEPT ![k] = "stopped"]
    /\ UNCHANGED <<upstream, root, cache, tmp, pc, want, target, out, history>>

CleanStep(k) ==
    CleanBegins(k) \/ RemoveFromEntry(k) \/ RemoveFromTmp(k) \/ RemoveRoot(k) \/ CleanStops(k)

-----------------------------------------------------------------------------
\* Somebody pushes: a ref names another commit.
Push(r) ==
    /\ \E c \in Commits \ {upstream[r]} :
        /\ upstream' = [upstream EXCEPT ![r] = c]
        /\ named' = [p \in Calls |->
                        IF want[p] = r /\ out[p] = None
                        THEN named[p] \cup {c} ELSE named[p]]
        /\ shown' = [p \in Calls |->
                        IF want[p] \in Refs /\ out[p] = None /\ ParseLsRemote(want[p]) = r
                        THEN shown[p] \cup {c} ELSE shown[p]]
    /\ UNCHANGED <<root, cache, tmp, pc, want, target, out, cpc, unremoved>>

Next ==
    \/ \E p \in Calls : CallStep(p)
    \/ \E k \in Cleaners : CleanStep(k)
    \/ \E r \in Refs : Push(r)

Spec == Init /\ [][Next]_vars

-----------------------------------------------------------------------------
PCs == Ended \cup {"idle", "ls_remote", "lookup", "mkdir", "init", "fetch", "clone",
                   "cloning", "head", "recheck", "parent", "rename", "renamed_not"}

\* The types of the variables, and which requests reach which part of resolve.
TypeOK ==
    /\ upstream \in [Refs -> Commits]
    /\ root \in BOOLEAN
    /\ cache \in [Commits -> Dirs]
    /\ tmp \in [Calls -> Dirs]
    /\ pc \in [Calls -> PCs]
    /\ want \in [Calls -> Commits \cup Refs \cup {None}]
    /\ target \in [Calls -> Commits \cup {None}]
    /\ out \in [Calls -> Commits \cup Errors \cup {None}]
    /\ cpc \in [Cleaners -> {"idle", "removing", "done", "stopped"}]
    /\ named \in [Calls -> SUBSET Commits]
    /\ shown \in [Calls -> SUBSET Commits]
    /\ unremoved \in [Calls -> BOOLEAN]

\* The key tells the truth: whatever lies at a commit's key, intact or half
\* deleted, came from that commit and no other, although ls-remote may name one
\* commit and the clone that follows fetch another (fetch.rs, cache_key and resolve).
ContentAddressed ==
    \A c \in Commits : cache[c].git \in {c, None} /\ cache[c].work \in {c, None}

\* An answer is fresh: the commit a call pins for a ref is one that some ref named at
\* some moment of that call, whether it came from the cache, from a clone or from the
\* winner of a race.  It is the ref that was asked for, or the one whose line
\* parse_ls_remote took for it: those differ where another ref ends in the same path
\* (fetch.rs, resolve and parse_ls_remote).
FreshAnswer ==
    \A p \in Calls : out[p] \in Commits => out[p] \in named[p] \cup shown[p]

\* A call that ends leaves no temporary directory, except a killed one, one whose
\* git_head_sha or create_dir_all returned through its `?`, and one whose
\* remove_dir_all failed (fetch.rs, resolve and finalize).
NoLeak ==
    \A p \in Calls : tmp[p].there =>
        unremoved[p] \/ pc[p] \in {"crashed", "head_error", "parent_error"} \/ pc[p] \notin Ended

\* A directory that is_valid_clone accepts is a whole checkout of its commit: no
\* call, however it races or dies, leaves a half-made clone where another would
\* hit it (fetch.rs, "A directory counts as a completed clone iff it holds a .git").
ValidMeansComplete ==
    \A c \in Commits : IsValidClone(cache[c]) => cache[c] = Checkout(c)

\* Losing the race to publish is not an error: with no cleaner about, finalize
\* never reports that it failed to populate the cache (fetch.rs, finalize).
RaceIsNoError == \A p \in Calls : out[p] # "populate_error"

\* The design keeps the promise of CloneStore: what a reader of the cache sees is a
\* growing set of whole checkouts and calls that answer atomically (fetch.rs, resolve).
Store == INSTANCE CloneStore WITH
             store <- {c \in Commits : IsValidClone(cache[c])}

ImplementsStore == Store!Spec

\* A published clone is never touched again by any call: no step replaces it,
\* empties it or moves it, so a checkout handed out earlier stays what it was.
PublishedIsFrozen ==
    [][\A c \in Commits : IsValidClone(cache[c]) => cache'[c] = cache[c]]_vars
=============================================================================
