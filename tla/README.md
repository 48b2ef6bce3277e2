# pyrst in TLA+

pyrst compiles a statically typed, Python-like language to Rust. This directory
holds TLA+ models of the parts of it where order, concurrency, failure or long
sequences of legal steps decide whether the program is right, the TLC runs that
check them on small instances, and the TLAPS proofs that hold for every
instance.  Paths are relative to the repository (`src/` here is the repository
root, `src/src/` its Rust code).

## 1. Inventory

| Component | State | Operations | Hard behaviour | What makes it right |
|---|---|---|---|---|
| **Clone cache** `fetch.rs` | `~/.pyrst/cache/clones/<key>`, temporary clone directories; no lock | `resolve_spec` / `resolve` (ls-remote, lookup, clone, rename), `cache clean`, `list`, `dir` | several processes race to publish; a ref moves while it is cloned, or is mistaken for another; git and the file system fail; processes die; a cleaner deletes file by file | a key never lies; a hit is a whole checkout; an answer is fresh; losing the race is no error; nothing leaks but where the code says so |
| **Package install** `venv.rs` 475-960 | `<env>/packages`, `pyrst.lock`, and in memory `InstallState` (lock, done, stack, git_memo) | install a directory or a URL, `--force`, reproduce | partial failure between two packages, a kill inside the lock write, two installs at once, refs that move, diamonds with two sources, dependency cycles | the lock is a complete acyclic set; store and lock agree after a good run; pins are kept without `--force`; every run ends |
| **Import resolver** `resolver.rs` | `order`, `in_flight`, `dfs_stack`, the id and base directory of each module, `package_init_ids`; then `TyCtx` | the depth-first walk, class-name check, merge, package surfaces, from-import bindings | cycles anywhere, a file under two ids, lookups in four places, embedded importers, re-exports of re-exports | topological order, root last, real cycles reported, bindings that exist |
| **Exception lowering** `codegen/stmts.rs` `emit_try` | in the generated program: open closures, the panic hook, a `__PyrstTryFlow` value, `__reraise` | try, except, else, finally, return, break, continue, raise | a jump through several trys, loops and calls; the hook on every path; re-raising | the emitted Rust behaves as Python's try does |
| **Flow checks and handle moves** `typeck/flow.rs` | `FuncEnv`: types of locals, narrowings, `moved`, sealed and loop handles | one check per statement | joins of branches, loops, handlers; a name retyped in a block; a constant assigned later | an accepted program never reads a moved handle, a None it narrowed away, an unbound name or a value a block has dropped |
| **Type inference** `typeck/*.rs` | `TyCtx` | check bodies, calls, classes, operators; layouts; `global` | inheritance with defaults, overrides and dataclasses; recursive layouts; keyword order; forward references | accepted programs build, and mean what Python says |
| **Code generation** `codegen/*.rs` | emitter flags, `mut_self`, order of the globals | one emission per node | the type the checker gave is found again; dispatch through a base; the receiver's `&mut`; statics made lazily | the program does what Python does |
| **Built-in values** `codegen/mod.rs` (emitted helpers), `codegen/exprs.rs` | none | operators, slices, methods, built-in functions | signs of `%` and `//`, ends of a range, empty and overlapping matches, ends of an `i64` | the helper's result is Python's |
| **Lexer** `lexer.rs` | indentation stack, bracket depth, line start | `lex` | continuation lines, blank lines, comments, tabs | layout means nothing but lines and nesting |
| **Parser, syntax tree** `parser.rs`, `ast.rs` | position | one method per level and statement | twelve levels, `not`, `**` and signs, ternaries | what is written is what is read |
| **Formatter** `formatter.rs` | none | `format_module` | brackets it must put back | the text reads as the tree it was made from |
| **REPL** `repl.rs` | declarations, statements, last output | execute one input | every input replays all before it; failures | a failed input changes nothing; each input shows what is new |
| **Language server** `lsp.rs`, **editor analysis** `analysis.rs` | open documents, published diagnostics | open, change, save, close, format | documents that import each other; an answer to an older text | what is shown is what a fresh analysis gives |
| **Driver** `driver.rs` | temporary files, output binary, source file (`fmt`) | build, check, emit, fmt, lint | two builds at once, kills, an edit during `fmt` | no half-written or lost file |
| **Environment lifecycle** `venv.rs` 51-471, 969-1011 | environment directory and its scripts | create, discover, activate, init, list, freeze, completeness gate | half-created environments | a build sees a coherent environment |
| **Manifest** `manifest.rs`, **embedded library** `stdlib.rs`, `lib/`, **linter** `linter.rs`, **diagnostics** `diag.rs`, **CLI** `main.rs`, **VS Code extension** | none between calls | parsing, lookup, rules, rendering, dispatch | none | none beyond their callers' |

How they meet: `main` dispatches to the driver, the environment commands, the
REPL and the server. The driver resolves (`resolver` reads files, the search
path, the active environment's store and the embedded library), type-checks each
module in `order`, runs the completeness gate against the same environment,
emits Rust and calls rustc or cargo. `install` asks `fetch` for a checkout and
copies it into the store the resolver later reads. The server runs the resolver
with the open documents as an overlay; the REPL runs the whole pipeline on
every input. Shared state is always the file system (the clone cache, the store
and lock, the output binary) and nothing is locked.

`PROJECT.json` lists the hazards at their lines, each with the properties that
catch it.

## 2. Modules

| Module | What it is |
|---|---|
| `CloneCache`, `CloneStore`, `CloneCacheProofs` | the cache with calls, cleaners and pushes; what it promises (a growing store of whole checkouts, atomic answers); theorems of both |
| `Install`, `InstallProofs` | runs of `pyrst install` in one environment; theorems |
| `Resolver`, `ResolverProofs` | the walk and the passes after it; theorems |
| `TryFlow`, `PyTry`, `TryFlowProofs` | the run-time behaviour of the Rust that `emit_try` writes; Python's rules for the same programs; theorems |
| `Ast` | the syntax tree, and the collectors that run over it |
| `TypeFlow`, `PyMeaning`, `Programs` | the statement checker of `flow.rs`; the runs of a body as its Python author means it; programs written statement by statement |
| `Lexer`, `Parser`, `Formatter` | the layout rules; the recursive descent; what `fmt` prints |
| `Runtime`, `Operators`, `Methods`, `Builtins` | the emitted helpers; for operators, methods and functions of built-in values, the checker's type, the generator's type and what the Rust computes |
| `PyObjects`, `PyFunctions` | what Python's come to |
| `Calls`, `Classes`, `Receivers` with `Lending`, `Globals` | arguments and their order; classes; which methods take `&mut self`, and the fixpoint that finds them; module-level bindings |
| `PyCalls`, `PyClasses`, `PyModules` | Python's calls, and every call there is; its classes; its imports and globals |
| `LanguageServer`, `Repl` | the server with an editor; the shell beside Python's |
| `ProgramProofs`, `ToolProofs`, `ValueProofs` | theorems about `PyCalls`, `Lending` and `Lexer`; about the two tools; about `MCValues` and the modules it compares |
| `Indices` | induction over the numbers of a set, for the proofs |
| `MCCloneCache`, `MCInstall`, `MCResolver`, `MCFlow`, `MCSource`, `MCBuiltins` and `MCValues`, `MCPrograms`, `MCTools` | instances, inputs and the properties that compare two modules |

### CloneCache and CloneStore

A call of `resolve` is a process with a program counter; each file-system or git
operation that others can observe is a step (`mkdir`, `init`, `fetch`, `clone`,
`head`, the second `is_valid_clone`, `rename`, and the re-check after a rename
that failed). A directory is `there`, its `.git` and its files, each remembered
by the commit it came from, so a half-deleted or half-cloned entry is a state of
its own. `git` may fail at every step and a call may be killed at every step. A
cleaner removes one file or empty directory at a time in any order. One URL is
modelled: keys of other URLs never meet.

`git ls-remote -- url v1` lists each ref whose path ends in `v1`; `Listed` gives
the refs it lists for each, in git's order, and `Annotated` the tags that have a
peeled line. `ParseLsRemote` takes the first peeled line or else the first line, as
`parse_ls_remote` does without a look at the ref's name, so the commit that is
looked up may be that of another ref. A clone is always of the ref asked for.

`Discard` is `let _ = remove_dir_all(tmp)`: it may fail and leave any part, and
the call goes on. `MakeParentFails` is the `?` on `create_dir_all` in `finalize`,
which returns with the clone still in its temporary directory.

Three history variables serve the properties: `named` and `shown`, the commits
that since the call began were named by the ref it asked for and by the ref
`ls-remote` takes for it, and `unremoved`, whether a removal failed. `FreshAnswer`
asks that an answer is in `named` or `shown`; `NoLeak` that a call which has ended
has no temporary directory, unless it was killed, a removal failed, or one of the
two errors that return past the removal ended it.

`CloneStore` has no directories. Its calls answer a commit of `named`, or one of
`shown` that is in the store already: a ref is mistaken only on a hit.
`ImplementsStore` maps its `store` to the keys `is_valid_clone` accepts and checks
that every behaviour of the races is one of atomic answers.

### Install

A run is a process whose `op` names the next file operation of `install_root`,
`install_dfs`, `copy_package`, `write_lock` or `reproduce_into`. `lock`, `done`,
`memo` and `stack` are the fields of `InstallState`. The lock file is truncated
and written in two steps, as `std::fs::write` does; the write itself is one
step (the file is small), from the start of the file. Where another run has
written since the truncation, it replaces that text if it is not the shorter one;
otherwise the end of the longer text stays (`Overlaid`): lines that count after the
new ones, the first of which may have lost its start and so pin a package under
another name. `text` remembers whether the lock is of one writer (`whole`), was
ever `mixed`, or is `torn`, so that it does not parse: `StartRefused` is what
happens to a run that finds it so, or a reproduce that finds it empty. A store
directory is its manifest and its modules, copied in this order. A run may fail or be killed at any step, and a push may
move a ref at any step. `Overlap` says whether two runs may be under way at
once. Sources on disk do not change while a run reads them.

### Resolver

The recursion of `process_module` is `stack`; an action is one import statement
or the end of a module. A tree (`Trees`) is what is on disk, in the buffers, in
the search path and in the embedded library; `Target` looks an import up in the
order the code does: modules in each place, embedded modules, package
directories. The passes after the walk (`CheckClasses`, `Merge`,
`BuildSurfaces`, `BindNames`) are an action each; `Merge`, which type-checks
signatures, either passes or refuses.

### TryFlow and PyTry

A behaviour is a run of some program: at any point any statement may follow.
`stack` holds the open calls, loops and try statements; a frame of a try keeps
`__prev_hook` (`prev`), `__pyrst_flow` (`flow`) and `__reraise`. `signal` is a
jump that has not reached the place that stops it: a panic is stopped by the
innermost `catch_unwind`, a return or loop jump by the closure it is written in,
its loop or its function, whichever is innermost. `Catch`, `Escape` and
`EndBody` are the arms of `match __try_result`, `Settle` what follows the
finally. A program that needs a `return __v` re-issued inside the closure of
another try is rejected by rustc and ends `refused`. `PyTry` has one rule for
every jump: it lands at the innermost handler, finally, loop or call that takes
it. The two differ where `emit_try` differs from Python (section 5), and there
`PyTry` may go `Astray`; the mapping uses that only for a run that lost a
finally or that would not have built.

### Ast, TypeFlow, PyMeaning, Programs

`Ast` gives every node one shape, so that a collector of the source is one
operator over `kids` and `blocks`. `TypeFlow` threads `env` through a body as
`check_stmt` threads `FuncEnv`: types, the narrowing of a None guard, moved
handles, seals and loop frames, and the passes that refuse a body as a whole
(`walk_unbound_local`, `walk_read_after`, definite return). Every argument of a
call is moved: no function of the programs has a `Mut[T]` parameter, to which it
would be lent. `PyMeaning` is the
set of runs of the same body, where what a run does not decide (a flag, a
failure, the number of items) is free; with `scoped` a block that retypes a
name forgets the value at its end, as the emitted Rust does. `Programs` writes a
body one statement at a time, and `MCFlow` asks of each whole one whether it is
accepted and, if so, what its runs can meet.

### Lexer, Parser, Formatter

A text is a sequence of words and layout characters. `Lexer` keeps the stack of
columns, the bracket depth and the line-start flag. `Parser` has one operator for
each method of `parser.rs`; a result is a position and a tree. `Formatter` prints
a tree as `format_module` does, with its own rule of where brackets go.
`MCSource` writes each tree with brackets where the grammar needs them.

### Runtime, Operators, Methods, Builtins

Integers are `Width` bits wide and every helper panics, wraps or saturates where
the emitted Rust does. A float is a fraction, exact in the range of the inputs.
For each operation there are four views: what the checker accepts and the type it
gives, the type `infer_expr_ty` finds again, what the emitted expression
computes with the order and number of evaluations of its operands, and what
Python comes to. `MCValues` tries all combinations; each known difference is a
named departure. `NumbersAgree` says that whole-number arithmetic, indices and
slices come to Python's, `OperationsAgree` the same of the other operators, of
methods and of functions.

### Calls, Classes, Receivers, Globals

A program is data: a call with its parameters and arguments; a sequence of
classes with fields, defaults, methods and constructors; methods with the
statements that may change their object; a sequence of modules with imports,
bindings and functions. `Calls` maps keyword arguments to slots, decides hoisting
and gives the order of evaluation. `Classes` resolves methods and `super()`
aliases, builds objects by each of the three paths, emits the companion enums of
polymorphic bases and decides which layouts are refused. `Receivers` is
`compute_mut_self` with its bounded rounds; a round visits the methods in the
order of a hash map, for which the model takes the worst there is (`Lending`,
section 4). `Globals` decides which bindings
become thread-local statics, finds the owner of a bare name, forces the statics
in the order of `dfs_global_init_order` and initialises each when first touched.
`PyCalls`, `PyClasses` and `PyModules` are Python's semantics of the same
programs. `PyCalls` also grows every call, parameter by parameter and argument
by argument, and `MCPrograms` programs of the other kinds declaration by
declaration.

### LanguageServer and Repl

The server's handlers do not await before they publish, so each is one step;
messages keep their order; `Touched` records which other documents changed since
one was analysed. The editor opens, edits (one or two edits in a message),
saves, closes and asks for formatting, and applies an answer only to the text it
was made from. The shell keeps declarations and statements, compiles and replays
them for every input and shows what follows the common prefix of the outputs;
one variable, one function and one file stand for what inputs can touch.

## 3. Runs

| Run | Question | Instance |
|---|---|---|
| `clone_race` | three racing calls, no cleaner: whole checkouts, published clones frozen, refinement of `CloneStore` | 3 calls, 2 commits, 1 ref |
| `clone_clean` | what survives a cleaner that works while calls run: keys, freshness, no leak | 2 calls, 1 cleaner, 2 commits, a tag `v1` and a branch `rc/v1` that `ls-remote` lists before it |
| `install_serial` | two runs one after the other, all failures: the pins, coherence, diamonds that name one spec, termination | 3 names, 4 sources, 1 ref, 6 universes |
| `install_overlap` | what still holds of the lock when the runs overlap, until two writes mix | 2 universes |
| `resolver_walk` | order, cycles, ids, bindings, termination on many trees | graphs over 4 modules, packages, a search path, embedded modules |
| `try_python` | the emitted code against Python's rules, the panic hook, uncaught exceptions | 4 open constructs, 1 exception, 1 value |
| `try_finally` (violation) | a jump out of a handler or else skips the finally | the same |
| `flow_accepted` | what the checker accepts, against the runs of the body | bodies of 4 statements, 3 blocks deep, loops of 2 turns, 4 themes |
| `source_trees` | parser, lexer and formatter on the same trees | expressions wrapped twice, 3 nested statements of every kind |
| `values_python` | operators, indices, slices, methods and built-in functions against Python's | `Width` = 8, texts of 3 characters, lists of 3 |
| `tools_agree` | the editor's diagnostics when all is quiet; the shell's answers | 2 documents, 4 user actions; 4 inputs |
| `programs_python` | classes, layouts, calls, receivers and globals against Python's | 3 classes in 5 declarations; 3 classes with 3 fields; 3 parameters and 3 arguments; 3 statements in 4 methods; a library module, one that calls it, and 3 more lines |

Why the bounds suffice. *Clone cache*: the races are pairwise and a third call
meets what the first two left; two commits let a ref move and a key lie, and two
refs that `ls-remote` confuses let an answer come from the wrong one (`clone_race`
has the one ref that cannot be confused, for its size). The theorems remove the
bounds. *Install*: two runs are a history and what follows
it; three names allow a chain, a diamond and a cycle with a replaced package;
the six universes are a diamond, one name with two sources, a ref named twice, a
cycle, a wrong name and two edges that disagree. *Resolver*: four modules allow
each shape of back edge (to the root, to a parent, to oneself, beside the root),
and the layouts each lookup order. *TryFlow*: four open constructs allow a try in
a try in a loop in a function, or a function called from a try; one exception
type suffices because a handler either catches it or not, chosen per try.
*Flow*: a fault of the checker needs a statement that changes a name, one that
reads it and the blocks between, and a second turn brings back what the first
left. *Source*: two wraps put every construct directly inside every other.
*Values*: eight bits bring the ends of the range within reach of every operator
(the emission does not depend on the width), and three characters hold a match at
the start, in the middle, at the end and overlapping. *Tools*: with four actions
a document is opened, imported, changed and closed under the other in every
order. *Programs*: three classes are a chain or two siblings, three parameters
allow each permutation, and three modules a diamond, the second module of
which starts amid the root's statements. `CHECK_DEADLOCK FALSE` is set where a run, a call or a
program really ends, or where a program has reached its bound.

Fairness. `EveryRunEnds` assumes weak fairness of each run's steps and
`ResolveEnds` of the resolver's: both are sequential code that nothing blocks.
Nothing is assumed of failures, kills, pushes or of other processes, and none of
the safety properties needs fairness.

## 4. Proofs

All theorems are checked by TLAPS for every value of the constants under named
assumptions, which TLC evaluates in the runs: `NamesDistinct`,
`ListedAssumption` (`ls-remote` lists at least one ref for each),
`CatalogsAssumption` and `TreesAssumption` (distinct names, well-formed
catalogues and trees), `NoneIsNoValue` and `NoneIsNoJump` (the mark for nothing
is none of the things it stands beside), `LanguageServerAssumption` (finitely
many documents, an import graph over them), `PyCallsAssumption` (a function's
parameters have different names), `WidthAssumption`, `PowersAssumption` and
`InputsFit` (numbers are at least two bits wide, `HalfRange` is half of them, and
the numbers of the run are among them). The type invariants of the proved
components are theorems (`TypeCorrect`) and not run again.

- **CloneCacheProofs.** `IInv` adds to the types, per call, what its program
  counter implies of its temporary directory and target: `finalize` renames what
  `git_head_sha` read, hence the key tells the truth. `NamedInv` says that the
  target is a commit of `shown` only while it is looked up and of `named` after a
  clone, for any listing of refs (`ParseLsRemoteType`); `DiscardLeavesParts`, that
  a removal leaves a part of what there was, and a directory only where it failed.
  From these `TypeCorrect`, `KeysTellTheTruth`, `AnswersAreFresh`, `NothingLeaks`. `AtomicInv`, under
  `Cleaners = {}`, says that an entry is absent or whole and that a failed
  rename found a winner; from it `PublicationIsAtomic` (with it: losing the race
  is never an error), `PublishedStaysFrozen` and the refinement
  `CacheImplementsStore`.
- **InstallProofs.** The lock on disk is closed because a run's own set is
  closed up to what its stack still owes: every dependency of a pinned package
  is pinned unless the package is on the stack (`LockedInv`), and there every
  dependency its loop has passed is pinned or in hand (`FramesInv`). The stack
  is empty when the lock is written. `PlaceInv` ties `op` to the rest;
  `LockAlwaysComplete` and `NoNameTwiceOnStack` follow, with overlapping runs
  and kills included. What is said of the lock holds until two writes mix: `IInv`
  asks it of the lock on disk, and of the sets of the runs, where `text` is
  `whole`, and a text that is whole was so in every state before (`WholeBefore`).
  `KInv` relates a run's set to the lock it started from:
  `UnforcedInstallKeepsPins`.
  `DiamondsNeverCollide` is about the time between two edges to one package: a
  package the run has pinned was reached by an edge that named it, and its commit
  is what that edge's spec means to the run, which neither a push nor a later
  package changes (`TakenInv`). An edge with the same spec therefore brings the
  pinned commit again, however deep the graph.
  `LockHasNoCycle` says that a set of packages without a package that leaves
  the set is empty, which is what no cycle means for graphs of any size. It
  needs `OrderInv`: what the run has finished is closed and acyclic, and what
  it has not reached is pinned as in the lock it started from, so a cycle would
  have had to be closed by the package it finishes, which the check of the
  stack refuses. `SerialRunsEndCoherent` assumes `Overlap = FALSE`; `CopiesInv`
  says that the store holds what the run has copied from where its set says,
  and the package being copied as far as the copy got.
- **ResolverProofs.** `IInv` says that the stack is a path of imports, in-flight
  files are those on it, and each frame's statements before its next one lead to
  listed modules. From it `ListIsTopological`, `ReportedCycleIsReal`,
  `FirstReachIsKept` (a file keeps the id and the base it was first reached by)
  and `TypeCorrect`. `BindingsNameTheirOwner` goes through `SurfaceInv`: a
  package's surface is built from those of the modules before it in the list, so
  that a name re-exported any number of times is defined by the module it is
  said to come from.
- **TryFlowProofs.** A frame tells what is open below it: the hook it saved is
  silent exactly if a try body is open there, and a break it holds back has its
  loop there (`Fits`). So restoring the hook is right on whichever path the try
  is left: `HookAlwaysBalanced`, `UncaughtAlwaysShown`, `BodyAlwaysRunsFinally`,
  for any nesting, exceptions and values. `EmittedCodeImplementsPython` is the
  refinement of `PyTry`. Under Python's rules a jump is where it lands at once,
  so a jump on its way is mapped to its landing, found by a recursion over the
  stack; `Catch`, `Escape` and the arms that pass a jump on are stutters, and
  what the proof of each step shows is that the landing does not change. It
  needs `HeldInv`: a try holds back one thing, and only in its finally.
- **ToolProofs**, of `Repl`. Every input replays the session in a world the earlier replays
  have changed, so the lemmas compare whole runs, by induction over the
  statements: in another world, with another function, with one statement more.
  `SyncInv` says that the kept program leaves the variable and the function as
  Python's shell has them. `SessionAlwaysRuns` and `ReplayAlwaysShowsTheSame`
  hold for sessions of any length, where the run has four inputs;
  `SessionTypeCorrect` and `ServerTypeCorrect` are the types of the two tools.
- **ToolProofs**, of `LanguageServer`. An analysis depends only on the texts of the
  documents it reaches. `CatchUpInv` says that the messages under way bring the
  server to the editor's text, `FreshInv` that what is shown, or what the last
  answer under way will show, is what an analysis of the stored texts finds,
  unless something it reaches changed since. `AlwaysFreshUnlessImportsChanged`
  follows for any documents, texts and import graph, cyclic or not, and any
  number of messages. `Failure` recurses along the imports; that such a function
  exists is proved by induction on the documents left off the stack.
- **ProgramProofs.** `CallsAlwaysBind` is about a call of any number of
  parameters and arguments, at each kind of call site. Slots and arguments are
  inverse to each other (`SlotOf`, `SlotsDiffer`, `SlotsInvert`), since names
  differ on both sides; hence what is in a slot is what Python binds
  (`MeantIs`). Where nothing is hoisted the arguments' parameters never come in
  the wrong order, and numbers that neither fall nor repeat rise (`Rising`), so
  that the i-th filled slot holds the i-th argument (`InOrder`). That the call
  compiles is proved where the arguments whose types nothing checks have the right
  ones (`Converts`, section 5).
  `AnyOrderSuffices` is the claim of the comment at `codegen/analysis.rs:2793`:
  each round in which the loop is not done finds a method, so a cap of one round
  more than there are methods is never what ends it too early, whatever order
  the hash map has. Its answer is the least set closed under calling, chains
  and cycles included. `WorstOrderAgrees` gives the rounds of the model the same
  answer, so `SelfIsLent`, which TLC checks with them, leaves no order out.
- **ProgramProofs**, of `Lexer`. A text is any sequence of words and layout
  characters. `Steady` is the inductive invariant of the loop: the stack of
  indentations rises from 0, and no line begins where a bracket is open. Two layouts of
  one text are read side by side: their states are alike, with the columns
  multiplied by the unit the one indents by (`Scaled`), and every comparison the
  lexer makes comes out the same. So `LayoutMeansNothing`: a level of indentation
  as one space or as a tab, empty lines, comments, spaces and continuations
  between words, and lines broken inside brackets make the same tokens.
  `RelaidIsRead` follows for the second layout that `LayoutIsFree` tries, on texts
  without a tab. `BlocksAreNested` is about every text, accepted or not: an
  Indent or Dedent stands only at the beginning of a line, no line is empty, no
  Dedent comes without an open block, and every block is closed before Eof
  (`Stands` says where a reader of the tokens so far is).
- **ValueProofs.** The properties are about what one step computes, so the work is
  in the cases: every method, operator on every pair of types, index, slice and
  function, with what the checker says of it, what the generator finds, and what
  the Rust comes to. `OperandsAlwaysOnce` needs what a call may have as arguments;
  `TypesAlwaysPredicted` goes through what each helper yields (`Yields`) and, for
  operators, through the form the emission chooses, since the two inferences
  choose by other conditions. The numbers are proved for any operands and any
  width. `Corrected` says that the correction of `__py_floordiv` is the quotient
  rounded down and that of `__py_mod` has the divisor's sign, from the uniqueness
  of the quotient; `IntegersAlike`, that checked arithmetic, folded literals and
  comparisons come to Python's or end the program where Python's number does not
  fit; `ItemsAlike`, that an index of either sign into a sequence of any length
  takes Python's item or fails with it. `SlicesAlike` compares two ways of
  thinking: the loop counts from a clamped start by the step while it is before a
  clamped stop; Python's slice is the set of places between the bounds that are a
  multiple of the step away, taken in order. The ends mean the same to every place
  there is (`EndsUpwards`, `EndsDownwards`), the loop goes through all such places
  and no other (`SteppedUpwards`, `SteppedDownwards`), and a rising sequence is its
  set gone through upwards (`GoneThroughUpwards`). From these, for the inputs of
  the run, `NumbersAlwaysAgree`.

Attempts at proofs changed the models. In `Repl` the value of a
name not yet bound was one that an input can give, so two states that differ
were one. Arms of a CASE overlapped, of which TLC takes the first and the
language any, in `LanguageServer`, in the helpers of `Runtime`, in what
`Operators` and `Builtins` accept and in Python's arithmetic, comparisons and
subscripts; they now exclude each other or are an IF. The types a built-in
function gives were also asked for names outside the table; `BuiltinAccepted` now
asks for the name first, as the code's `match` does. What could not be reasoned
about was said otherwise: `Failure`, `Lexer`'s loop (`LexFrom`) and `PyObjects`'
searches without RECURSIVE, the slots' order (`InSlots`) by counting positions,
Python's `Ascending` by how many are smaller, its slice in three parts (`Begins`,
`Stops`, `Taken`).

Only model-checked. Liveness: `EveryRunEnds`, `ResolveEnds` (out of this
prover's reach). What is said of syntax trees (`MCFlow`; `ReadsWhatIsWritten`,
`FormatKeepsTheTree` and the texts `LayoutIsFree` is about, `MCSource`), and of
programs by `ClassesAgree`, `GlobalsAgree` and, but for its rounds, `SelfIsLent`:
the modules they rest on (`Ast`, `TypeFlow`, `PyMeaning`, `Parser`, `Formatter`,
`MCSource`, `Classes`, `PyClasses`, `Receivers`, `Globals`, `PyModules`) recurse
over data of any depth with RECURSIVE operators, which this prover has no
induction for; no module with a theorem reaches one. `OperationsAgree`: the
methods search, split and sort by conditions on whole texts, and floats are
fractions; what is left after numbers, indices and slices is some hundred
comparisons of two definitions with nothing in common but their values.

## 5. Where the code differs

### From its own text

With a run (`findings`): a return, break, continue or raise in a handler or an
else clause skips the finally (`codegen/stmts.rs:1933`).

Seen while modelling, without a run:

- a directory with a `.git` passes for a completed clone after an interrupted
  `cache clean` (`fetch.rs:603`);
- the comment at `fetch.rs:553` promises the commit a ref points to; `ls-remote`
  matches by the end of a path and `parse_ls_remote` takes the first line, so a tag
  `v1` is answered with the commit of a branch `rc/v1` where that commit is cached
  (`fetch.rs:594`);
- a `create_dir_all` that fails in `finalize` (`fetch.rs:621`) or a `git_head_sha`
  that does (`fetch.rs:478`, `fetch.rs:505`) leaves the clone in its temporary
  directory;
- two overlapping installs: the later write forgets the packages of the earlier
  (`venv.rs:699`); two overlapping writes may mix the end of the longer text into
  the lock (`venv.rs:571`), which is then not the "complete, coherent, flattened
  install set" of `reproduce_into` and may not parse; a kill inside `write_lock`
  empties the lock (`venv.rs:571`);
- a failed install leaves copies in the store that no lock entry names
  (`docs/design/package-management.md:141`), and a later install of another
  source copies over them; reproduce (`venv.rs:719`) keeps whatever else the
  store holds;
- two files of one stem may define the same class (`resolver.rs:740`); `from os
  import nope` in an `__init__.pyrs` is dropped silently (`resolver.rs:771`); a
  from-import of a submodule without symbols is not validated
  (`resolver.rs:1033-1042`);
- a module in flight is read a second time before its cycle is reported
  (`resolver.rs:106-109`), so an unreadable file wins over the cycle; a local
  file does not shadow an embedded module for embedded importers
  (`resolver.rs:684`);
- an exception that an inner try re-raises and an outer one catches is printed
  all the same (`stmts.rs:1971`, against the comment at 1723); the comment at
  `stmts.rs:1980` calls the `return __v` arm always valid, and inside the closure
  of another try it does not type-check; a bare `raise` in a handler raises a
  payload without the type it re-raises;
- a handler is checked from the moves before its try (`flow.rs:3700`), although
  the body may have moved a handle before it raised; a loop body that opens a
  moved handle again revives it for the code after the loop (`flow.rs:3660`); a
  name a try body retypes is read in the finally with the old type
  (`flow.rs:2294`).

### From Python

The comparisons hold outside these departures, each named in its module.

*Programs* (`MCFlow`): types assigned in a branch reach the branches after it and
the turn before it, so narrowing is checked for programs that assign under one
guard; blocks that retype a name are checked one deep, without try and break.

*Formatter* (`MCSource`): `True` is printed `true`; keyword arguments, decorators,
type parameters, defaults of fields, an `as` without a type and most augmented
operators are not printed; a ternary, a lambda, a `not` or a sign that is an
operand loses its brackets; `class E(Exception): pass` makes `fmt` abort. `fmt`
reads, formats and renames: an edit saved in between is lost, and a kill leaves
its temporary file (`driver.rs:500-520`).

*Methods and operators* (`MCValues`): arguments without a place are dropped
(`Dropped`); an empty separator matches between all characters (`EmptyNeedle`);
`rsplit` without a limit takes overlapping matches from the left
(`FromTheLeft`); negative widths and indices past the list (`OutOfRange`); Rust's
classes of characters and line ends, and `title`'s blanks (`OtherClasses`);
`set.remove` of what is not there is silent (`QuietRemove`); division by zero of
floats and negative powers (`NoExact`); literals fold without a check and `<<`
drops bits (`PastTheEnds`); a list repeated a negative number of times
(`FewerThanNone`); operands Python refuses (`RefusedByPython`); bits of bools stay
bools (`BoolBits`). Operands evaluated for each element (`Rescanned`) or the other
way round (`TurnedRound`) are left out of `OperandsOnce`.

*Functions* (`MCBuiltins`): texts of sets and dicts are sorted, and dicts keep no
order (`SortedText`, `AnyOrder`); `ascii` of a whole float (`NoPoint`);
`isinstance`, `type` and `callable` go by the static type (`ByStaticType`);
`tuple(xs)` and `set(d)` (`AsOneElement`); floats out of range are clamped
(`Clamped`); halves round away from zero (`HalfAway`); integer `pow` goes through
floats (`PowAsFloat`; its rounding above 2^53 is abstracted); negative numbers in
`hex`, `oct`, `bin` (`TwosComplement`); `ord` and `chr` of what is no one
character (`NoOneCharacter`); the last step of a range and the sum before its
start at the ends of the numbers (`OneTooFar`); the sum of no floats
(`EmptySum`); surplus arguments (`Surplus`).

*Calls* (`Converts`, `CallsBind`): argument types of methods, constructors and
function values are not checked, and those values are not widened or wrapped; a
hoisted method call evaluates its receiver last.

*Classes* (`SuperIsDirect`, `PlainlyBuilt`, `Departs`, `HeldApart`): `super()`
reaches a plain method of the direct base only, and a chain of two or a `super()`
in a class that is itself inherited from does not build or loops; a class with an
`__init__` ignores declared defaults, and one that inherits it does not run it;
a construction without arguments takes defaults of the class and its direct base
only; a field declared again keeps the base's default; `@dataclass` text and
equality leave out or overwrite what a base defines; a dataclass that inherits
`__str__` and is shown by `repr` is accepted and does not build; a slot of a
polymorphic base has text, equality and order only where every variant has one,
and neither `repr` nor `+`; objects of a class without `__eq__` are equal by
their fields; a polymorphic base held inline, or fields held inline by a base,
escape the cycle check of layouts.

*Receivers* (`BlindSpots`): a change of `self` inside an elif condition, an
assigned index, a match, an assert, a raise, a del, an f-string, a slice, a
comprehension or a lambda, and `self` lent in a list element or by keyword, does
not make the method `&mut self`, and the program does not build.

*Globals* (`OneMeaning`, `Named`, `Snapshot`, `early`): a name is typed by the
program's flat table whoever binds it, so a name of a module that was not
imported is accepted and does not build or reaches the root's; a number
imported by a from-import stays live where Python takes a snapshot; a global
that a function sets before its module binds it keeps that value, where Python
binds it again.

*Shell* (`Repl`): the value of a call is not shown, a function can be defined
once and sees no variable of the session, what a failing input printed is lost,
and side effects are repeated with every later input. *Server*: the diagnostics of
a document are those of its last analysis until it changes itself, and a closed
document keeps what it showed.

## 6. Not modelled, and why

Rendering and text: the lock's and the manifest's syntax, URL parsing, shell
scripts, diagnostics, format specifications, the words of the emitted Rust. Of
the language: generics and their inference, generators, closures that capture,
comprehensions as values, f-strings, several targets, float arithmetic beyond
exact fractions, `<=` and `>=` of classes, overrides with other signatures,
conditional expressions of sibling subclasses. The scanners of numbers and
strings are the tokens they make. Git, rustc, cargo and the file system are
environment: an operation succeeds or fails; what rustc accepts is modelled only
where a run needs it. Environment lifecycle and driver are fixed sequences of
writes or a pipeline of what is modelled; linter, diagnostics, the editor's
queries, the command line and the extension keep no state. Kills between the
bytes of one `write` are outside: a write is empty or complete. Where `ensure_git`
or the first `create_dir_all` of `resolve` fails nothing has happened yet, and no
call is modelled. `EndsCoherent` speaks of the packages a run handled: one that an
earlier run, killed, left half copied and no later run visits stays as it is.

## 7. Plan

1. Proofs: `OperationsAgree`, method by method, from the searches (`find`,
   `count`, `split`) on; `SelfIsLent` once `Receivers` walks bodies without
   RECURSIVE.
2. Generators (`__PyrstGen`'s slot and done flag) and closures.
3. Generic functions and classes: the inference of type variables and its bounds.
4. The completeness gate composed with `Install`.
