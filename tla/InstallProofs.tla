---------------------------- MODULE InstallProofs -----------------------------
(***************************************************************************)
(* Proofs about Install, for any package universe and any number of runs,    *)
(* overlapping or not.  The lock is complete because of what a run in        *)
(* progress guarantees of its lock set: only a package on the DFS stack may   *)
(* have a dependency that is not pinned yet.  What is said of the contents    *)
(* of the lock holds until two writes that overlap mix their texts.           *)
(***************************************************************************)
EXTENDS Install, SequenceTheorems, TLAPS

Copying == {"clear", "manifest", "code"}

\* Whether a name is pinned in a lock set, or is the one a run at o has taken up.
Pinned(o, c, l, name) ==
    l[name] # None \/ (o \in {"visit"} \cup Copying /\ c.exp = name)

DepName(s, j) == DepsOf(s)[j].name

\* Where an installing run is, and which package it has in hand.
PlaceInv(r) ==
    /\ op[r] \in {"visit"} \cup Copying => cur[r].src \in Sources
    /\ op[r] \in {"visit", "next", "truncate", "write"} => mode[r] # "reproduce"
    /\ op[r] = "next" => stack[r] # <<>>
    /\ op[r] = "visit" /\ stack[r] = <<>> => done[r] = {}
    /\ op[r] = "reproduce" => mode[r] = "reproduce"
    /\ op[r] \in {"truncate", "write", "idle", "reproduce"} => stack[r] = <<>>
    /\ mode[r] = "reproduce" => stack[r] = <<>>
    /\ op[r] = "idle" => done[r] = {}
    /\ op[r] \in Copying /\ mode[r] # "reproduce" =>
           cur[r].exp \in {None, Name(r)} /\ Name(r) \notin OnStack(r)

\* Every package on the stack is pinned, and so are the dependencies its loop has passed.
FramesInv(r) ==
    \A k \in 1 .. Len(stack[r]) :
        /\ lock[r][NameOf(stack[r][k].src)] = stack[r][k].src
        /\ \A j \in 1 .. Len(DepsOf(stack[r][k].src)) :
               j < stack[r][k].next => Pinned(op[r], cur[r], lock[r], DepName(stack[r][k].src, j))

\* Every dependency of a pinned package is pinned, unless the package is on the stack.
LockedInv(r) ==
    /\ mode[r] # "reproduce" => done[r] \subseteq Locked(lock[r])
    /\ text = "whole" =>
           \A n \in Locked(lock[r]) \ OnStack(r) :
               \A j \in 1 .. Len(DepsOf(lock[r][n])) : lock[r][DepName(lock[r][n], j)] # None

RunInv(r) == PlaceInv(r) /\ FramesInv(r) /\ LockedInv(r)

Distinct(r) ==
    \A i, j \in 1 .. Len(stack[r]) :
        NameOf(stack[r][i].src) = NameOf(stack[r][j].src) => i = j

IInv == TypeOK /\ LockComplete /\ StackDistinct /\ \A r \in Runs : RunInv(r)

-----------------------------------------------------------------------------
(* A step of one run leaves the others' invariants alone                     *)

Same(q) ==
    /\ op'[q] = op[q] /\ mode'[q] = mode[q] /\ lock'[q] = lock[q] /\ done'[q] = done[q]
    /\ stack'[q] = stack[q] /\ cur'[q] = cur[q] /\ pkg' = pkg
    /\ text' = "whole" => text = "whole"

LEMMA SameKeeps ==
    ASSUME NEW q \in Runs, Same(q), RunInv(q), Distinct(q)
    PROVE  RunInv(q)' /\ Distinct(q)'
<1>1. pkg' = pkg /\ op'[q] = op[q] /\ mode'[q] = mode[q] /\ lock'[q] = lock[q]
      /\ done'[q] = done[q] /\ stack'[q] = stack[q] /\ cur'[q] = cur[q]
      /\ (text' = "whole" => text = "whole")
  BY DEF Same
<1>2. PlaceInv(q)'
  BY <1>1 DEF RunInv, PlaceInv, OnStack, Name, NameOf
<1>3. FramesInv(q)'
  <2>1. \A s : NameOf(s)' = NameOf(s) /\ DepsOf(s)' = DepsOf(s)
    BY <1>1 DEF NameOf, DepsOf
  <2>2. \A s, j : DepName(s, j)' = DepName(s, j)
    BY <2>1 DEF DepName
  <2> QED
    BY <1>1, <2>1, <2>2 DEF RunInv, FramesInv
<1>4. LockedInv(q)'
  BY <1>1 DEF RunInv, LockedInv, OnStack, Locked, NameOf, DepsOf, DepName
<1>5. Distinct(q)'
  BY <1>1 DEF Distinct, NameOf
<1> QED
  BY <1>2, <1>3, <1>4, <1>5 DEF RunInv

\* What is left to show of a step of run r.
LEMMA StepKeeps ==
    ASSUME IInv, NEW r \in Runs, \A q \in Runs \ {r} : Same(q),
           TypeOK', LockComplete', RunInv(r)', Distinct(r)'
    PROVE  IInv'
<1>1. ASSUME NEW q \in Runs PROVE RunInv(q)' /\ Distinct(q)'
  <2>1. CASE q = r
    BY <2>1
  <2>2. CASE q # r
    BY <2>2, SameKeeps DEF IInv, StackDistinct, Distinct
  <2> QED
    BY <2>1, <2>2
<1> QED
    BY <1>1 DEF IInv, StackDistinct, Distinct

-----------------------------------------------------------------------------
(* The types                                                                *)

LEMMA PkgType ==
    ASSUME TypeOK, NEW s \in Sources
    PROVE  /\ NameOf(s) \in Names
           /\ DepsOf(s) \in Seq(Dependencies)
           /\ \A j \in 1 .. Len(DepsOf(s)) : DepName(s, j) \in Names
<1>1. pkg[s] \in [name: Names, deps: Seq(Dependencies)]
  BY CatalogsAssumption DEF TypeOK
<1>2. NameOf(s) \in Names /\ DepsOf(s) \in Seq(Dependencies)
  BY <1>1 DEF NameOf, DepsOf
<1>3. ASSUME NEW j \in 1 .. Len(DepsOf(s)) PROVE DepsOf(s)[j] \in Dependencies
  BY <1>2
<1> QED
  BY <1>2, <1>3 DEF DepName, Dependencies

LEMMA ResolvedType ==
    ASSUME TypeOK, NEW r \in Runs, NEW spec \in Sources \cup Refs
    PROVE  /\ Resolved(r, spec) \in Sources
           /\ Memoised(r, spec) \in [Runs -> Memos]
<1>1. Resolve(spec) \in Sources
  BY DEF TypeOK, Resolve
<1>2. Resolved(r, spec) \in Sources
  BY <1>1 DEF TypeOK, Resolved, Memos
<1> QED
  BY <1>2 DEF TypeOK, Memoised, Memos

LEMMA NoneIsNothing == None \notin Names /\ None \notin Sources
BY CatalogsAssumption

LEMMA TopType ==
    ASSUME TypeOK, NEW r \in Runs, stack[r] # <<>>
    PROVE  /\ Len(stack[r]) \in Nat \ {0}
           /\ Top(r) = stack[r][Len(stack[r])]
           /\ Top(r) \in Frame
BY DEF TypeOK, Stacks, Top

LEMMA FrameType ==
    ASSUME TypeOK, NEW r \in Runs, NEW k \in 1 .. Len(stack[r])
    PROVE  stack[r][k] \in Frame
<1>1. stack[r] \in Seq(Frame)
  BY DEF TypeOK, Stacks
<1> QED
  BY <1>1, ElementOfSeq

\* The three ways a stack changes.
LEMMA Pushed ==
    ASSUME TypeOK, NEW r \in Runs, NEW f \in Frame,
           stack' = [stack EXCEPT ![r] = Append(@, f)]
    PROVE  /\ stack' \in [Runs -> Stacks]
           /\ Len(stack[r]) \in Nat
           /\ Len(stack'[r]) = Len(stack[r]) + 1
           /\ \A k \in 1 .. Len(stack[r]) : stack'[r][k] = stack[r][k]
           /\ stack'[r][Len(stack[r]) + 1] = f
<1>1. stack \in [Runs -> Stacks]
  BY DEF TypeOK, Stacks
<1>2. stack'[r] = Append(stack[r], f)
  BY <1>1
<1>3. Append(stack[r], f) \in Seq(Frame)
  BY <1>1 DEF Stacks
<1> QED
  BY <1>1, <1>2, <1>3 DEF Stacks

LEMMA Advanced ==
    ASSUME TypeOK, NEW r \in Runs, stack[r] # <<>>,
           stack' = [stack EXCEPT ![r][Len(stack[r])].next = @ + 1]
    PROVE  /\ stack' \in [Runs -> Stacks]
           /\ Len(stack'[r]) = Len(stack[r])
           /\ \A k \in 1 .. Len(stack[r]) :
                  /\ stack'[r][k].src = stack[r][k].src
                  /\ stack'[r][k].next =
                        IF k = Len(stack[r]) THEN stack[r][k].next + 1 ELSE stack[r][k].next
<1>1. stack \in [Runs -> Stacks]
  BY DEF TypeOK, Stacks
<1>2. Len(stack[r]) \in 1 .. Len(stack[r]) /\ Top(r) \in Frame /\ Top(r) = stack[r][Len(stack[r])]
  BY TopType
<1> DEFINE f == [src |-> Top(r).src, next |-> Top(r).next + 1]
<1>3. f \in Frame
  BY <1>2 DEF Frame
<1>4. [Top(r) EXCEPT !.next = @ + 1] = f
  BY <1>2 DEF Frame
<1>5. stack'[r] = [stack[r] EXCEPT ![Len(stack[r])] = f]
  BY <1>1, <1>2, <1>4
<1>6. stack' = [stack EXCEPT ![r] = [stack[r] EXCEPT ![Len(stack[r])] = f]]
  BY <1>1, <1>2, <1>4
<1> HIDE DEF f
<1>7. /\ stack'[r] \in Seq(Frame)
      /\ Len(stack'[r]) = Len(stack[r])
      /\ \A j \in 1 .. Len(stack[r]) :
             stack'[r][j] = IF j = Len(stack[r]) THEN f ELSE stack[r][j]
  <2>1. stack[r] \in Seq(Frame)
    BY <1>1 DEF Stacks
  <2> DEFINE t == stack[r]
             n == Len(stack[r])
             u == [t EXCEPT ![n] = f]
  <2>2. t \in Seq(Frame) /\ n \in 1 .. Len(t) /\ f \in Frame
    BY <1>2, <1>3, <2>1
  <2> HIDE DEF t, n
  <2>3. u \in Seq(Frame) /\ Len(u) = Len(t) /\ \A j \in 1 .. Len(t) : u[j] = IF j = n THEN f ELSE t[j]
    BY <2>2, ExceptSeq
  <2> QED
    BY <1>5, <2>3 DEF t, n
<1>8. stack' \in [Runs -> Stacks]
  BY <1>1, <1>5, <1>6, <1>7 DEF Stacks
<1> QED
  BY <1>2, <1>7, <1>8 DEF f

LEMMA Popped ==
    ASSUME TypeOK, NEW r \in Runs, stack[r] # <<>>,
           stack' = [stack EXCEPT ![r] = SubSeq(@, 1, Len(@) - 1)]
    PROVE  /\ stack' \in [Runs -> Stacks]
           /\ Len(stack'[r]) = Len(stack[r]) - 1
           /\ \A k \in 1 .. Len(stack[r]) - 1 : stack'[r][k] = stack[r][k]
<1>1. stack \in [Runs -> Stacks]
  BY DEF TypeOK, Stacks
<1>2. Len(stack[r]) \in Nat \ {0}
  BY TopType
<1>3. stack'[r] = SubSeq(stack[r], 1, Len(stack[r]) - 1)
  BY <1>1
<1>4. \A i \in 1 .. Len(stack[r]) - 1 : stack[r][i] \in Frame
  BY <1>1, <1>2, ElementOfSeq DEF Stacks
<1>5. /\ stack'[r] \in Seq(Frame)
      /\ Len(stack'[r]) = Len(stack[r]) - 1
      /\ \A k \in 1 .. Len(stack[r]) - 1 : stack'[r][k] = stack[r][k]
  BY <1>2, <1>3, <1>4, SubSeqProperties
<1> QED
  BY <1>1, <1>3, <1>5 DEF Stacks

LEMMA Blank ==
    /\ NoLock \in Locks /\ <<>> \in Stacks /\ Absent \in Copies
    /\ [h \in Refs |-> None] \in Memos /\ [src |-> None, exp |-> None] \in Visits
BY DEF NoLock, Locks, Stacks, Absent, Copies, Memos, Visits

LEMMA StopsType ==
    ASSUME TypeOK, NEW r \in Runs, NEW how \in Ended, Stops(r, how)
    PROVE  TypeOK'
BY Blank DEF Stops, TypeOK, world, files, locking, Ops, Ended

LEMMA OverlaidType ==
    ASSUME NEW new \in Locks, NEW old \in Locks
    PROVE  Overlaid(new, old) \subseteq Locks
<1> DEFINE Kept(ns) == [n \in Names |-> IF n \in ns THEN old[n] ELSE new[n]]
           kept == {Kept(ns) : ns \in SUBSET Locked(old)}
<1>1. kept \subseteq Locks
  BY DEF Locks
<1>2. ASSUME NEW l \in kept, NEW n \in Names, NEW o \in Locked(old)
      PROVE  [l EXCEPT ![n] = old[o]] \in Locks
  BY <1>1, <1>2 DEF Locks, Locked
<1> QED
  BY <1>1, <1>2 DEF Overlaid

LEMMA ReadableType == TypeOK => Readable \in {"whole", "mixed", "torn"}
BY DEF TypeOK, Readable

LEMMA InitType == Init => TypeOK
BY Blank DEF Init, TypeOK, Ops, Ended

LEMMA TypeKept == IInv /\ [Next]_vars => TypeOK'
<1> SUFFICES ASSUME IInv, [Next]_vars PROVE TypeOK'
  OBVIOUS
<1> USE DEF Goto, world, files, locking, Ops, Ended
<1>t. TypeOK
  BY DEF IInv
<1>1. ASSUME NEW r \in Runs, StartInstall(r) PROVE TypeOK'
  <2>1. PICK spec \in Sources \cup Refs :
            /\ memo' = Memoised(r, spec)
            /\ cur' = [cur EXCEPT ![r] = [src |-> Resolved(r, spec), exp |-> None]]
    BY <1>1 DEF StartInstall
  <2>2. memo' \in [Runs -> Memos] /\ Resolved(r, spec) \in Sources
    BY <1>t, <2>1, ResolvedType
  <2> QED
    BY <1>t, <1>1, <2>1, <2>2 DEF TypeOK, StartInstall, Visits
<1>2. ASSUME NEW r \in Runs, StartReproduce(r) PROVE TypeOK'
  BY <1>t, <1>2 DEF TypeOK, StartReproduce
<1>3. ASSUME NEW r \in Runs, NEW how \in Ended, Stops(r, how) PROVE TypeOK'
  BY <1>t, <1>3, StopsType
<1>4. ASSUME NEW r \in Runs, VisitDone(r) \/ VisitNew(r) \/ ReproduceEnds(r) PROVE TypeOK'
  BY <1>t, <1>4 DEF TypeOK, VisitDone, VisitNew, ReproduceEnds
<1>5. ASSUME NEW r \in Runs, op[r] \in Copying PROVE cur[r].src \in Sources /\ Name(r) \in Names
  BY <1>t, <1>5, PkgType DEF IInv, RunInv, PlaceInv, Name
<1>6. ASSUME NEW r \in Runs, CopyClear(r) PROVE TypeOK'
  BY <1>t, <1>6, Blank DEF TypeOK, CopyClear
<1>7. ASSUME NEW r \in Runs, CopyManifest(r) PROVE TypeOK'
  BY <1>t, <1>5, <1>7 DEF TypeOK, CopyManifest, Copying, Copies
<1>8. ASSUME NEW r \in Runs, CopyCode(r) PROVE TypeOK'
  <2>1. cur[r].src \in Sources /\ Name(r) \in Names
    BY <1>5, <1>8 DEF CopyCode, Copying
  <2>2. store' \in [Names -> Copies]
    BY <1>t, <1>8, <2>1 DEF TypeOK, CopyCode, Copies
  <2>3. CASE mode[r] = "reproduce"
    BY <1>t, <1>8, <2>1, <2>2, <2>3 DEF TypeOK, CopyCode
  <2>4. CASE mode[r] # "reproduce"
    <3>1. lock' \in [Runs -> Locks]
      <4>1. lock' = [lock EXCEPT ![r] = [lock[r] EXCEPT ![Name(r)] = cur[r].src]]
        BY <1>t, <1>8, <2>4 DEF CopyCode, TypeOK
      <4>2. [lock[r] EXCEPT ![Name(r)] = cur[r].src] \in Locks
        BY <1>t, <2>1 DEF TypeOK, Locks
      <4> QED
        BY <1>t, <4>1, <4>2 DEF TypeOK
    <3>2. stack' \in [Runs -> Stacks]
      <4>1. [src |-> cur[r].src, next |-> 1] \in Frame
        BY <2>1 DEF Frame
      <4>2. stack' = [stack EXCEPT ![r] = Append(@, [src |-> cur[r].src, next |-> 1])]
        BY <1>8, <2>4 DEF CopyCode
      <4> QED
        BY <1>t, <4>1, <4>2, Pushed
    <3> QED
      BY <1>t, <1>8, <2>2, <2>4, <3>1, <3>2 DEF TypeOK, CopyCode
  <2> QED
    BY <2>3, <2>4
<1>9. ASSUME NEW r \in Runs, op[r] = "next"
      PROVE  /\ stack[r] # <<>>
             /\ Top(r) \in Frame
             /\ Len(stack[r]) \in Nat \ {0}
             /\ Top(r) = stack[r][Len(stack[r])]
  BY <1>t, <1>9, TopType DEF IInv, RunInv, PlaceInv
<1>10. ASSUME NEW r \in Runs, NextDependency(r) PROVE TypeOK'
  <2> DEFINE dep == DepsOf(Top(r).src)[Top(r).next]
  <2>1. Top(r) \in Frame /\ Top(r).next \in 1 .. Len(DepsOf(Top(r).src))
        /\ Len(stack[r]) \in Nat \ {0}
    BY <1>9, <1>10, <1>t, PkgType DEF NextDependency, Frame
  <2>2. dep \in Dependencies
    BY <2>1, <1>t, PkgType DEF Frame
  <2>3. Resolved(r, dep.spec) \in Sources
        /\ Memoised(r, dep.spec) \in [Runs -> Memos]
    BY <2>2, <1>t, ResolvedType DEF Dependencies
  <2>4. cur' \in [Runs -> Visits]
    BY <1>t, <1>10, <2>2, <2>3 DEF TypeOK, NextDependency, Dependencies, Visits
  <2>5. stack' \in [Runs -> Stacks]
    BY <1>t, <1>9, <1>10, Advanced DEF NextDependency
  <2> QED
    BY <1>t, <1>10, <2>3, <2>4, <2>5 DEF TypeOK, NextDependency
<1>11. ASSUME NEW r \in Runs, FinishPackage(r) PROVE TypeOK'
  <2>1. NameOf(Top(r).src) \in Names /\ Len(stack[r]) \in Nat \ {0}
    BY <1>t, <1>9, <1>11, PkgType DEF FinishPackage, Frame
  <2>2. stack' \in [Runs -> Stacks]
    BY <1>t, <1>9, <1>11, Popped DEF FinishPackage
  <2> QED
    BY <1>t, <1>11, <2>1, <2>2 DEF TypeOK, FinishPackage
<1>12. ASSUME NEW r \in Runs, TruncateLock(r) PROVE TypeOK'
  BY <1>t, <1>12, Blank, ReadableType DEF TypeOK, TruncateLock
<1>13. ASSUME NEW r \in Runs, WriteLock(r) PROVE TypeOK'
  <2>1. lock[r] \in Locks /\ lockfile \in Locks /\ Readable \in {"whole", "mixed", "torn"}
    BY <1>t, ReadableType DEF TypeOK
  <2>2. lockfile' \in Locks /\ text' \in {"whole", "mixed", "torn"}
    BY <1>13, <2>1, OverlaidType DEF WriteLock
  <2> QED
    BY <1>t, <1>13, <2>2 DEF TypeOK, WriteLock
<1>14. ASSUME NEW r \in Runs, ReproduceNext(r) PROVE TypeOK'
  <2>1. PICK n \in Locked(lock[r]) \ done[r] :
            cur' = [cur EXCEPT ![r] = [src |-> lock[r][n], exp |-> n]]
    BY <1>14 DEF ReproduceNext
  <2>2. n \in Names /\ lock[r][n] \in Sources
    BY <1>t, <2>1 DEF TypeOK, Locks, Locked
  <2> QED
    BY <1>t, <1>14, <2>1, <2>2 DEF TypeOK, ReproduceNext, Visits
<1>15. ASSUME NEW h \in Refs, Push(h) PROVE TypeOK'
  <2>1. PICK s \in Sources : tip' = [tip EXCEPT ![h] = s]
    BY <1>15 DEF Push
  <2> QED
    BY <1>t, <1>15, <2>1 DEF TypeOK, Push
<1>16. ASSUME NEW r \in Runs, StartRefused(r) PROVE TypeOK'
  BY <1>t, <1>16 DEF TypeOK, StartRefused
<1>17. ASSUME UNCHANGED vars PROVE TypeOK'
  BY <1>t, <1>17 DEF TypeOK, vars
<1> QED
  BY <1>1, <1>2, <1>3, <1>4, <1>6, <1>7, <1>8, <1>10, <1>11, <1>12, <1>13, <1>14, <1>15, <1>16, <1>17
     DEF Next, Work, VisitRefused, Fails, Crash

-----------------------------------------------------------------------------
(* What each step does to the run that takes it                             *)

\* A step that leaves the stack and the lock set alone.
LEMMA Quiet ==
    ASSUME TypeOK, NEW r \in Runs, RunInv(r), Distinct(r),
           pkg' = pkg, stack'[r] = stack[r], lock'[r] = lock[r], text' = text,
           mode'[r] # "reproduce" => done'[r] \subseteq Locked(lock[r]),
           \A n \in Names : Pinned(op[r], cur[r], lock[r], n) => Pinned(op'[r], cur'[r], lock[r], n)
    PROVE  FramesInv(r)' /\ LockedInv(r)' /\ Distinct(r)'
<1>1. \A s : NameOf(s)' = NameOf(s) /\ DepsOf(s)' = DepsOf(s)
  BY DEF NameOf, DepsOf
<1>2. \A s, j : DepName(s, j)' = DepName(s, j)
  BY <1>1 DEF DepName
<1>4. ASSUME NEW k \in 1 .. Len(stack[r]) PROVE stack[r][k].src \in Sources
  BY FrameType DEF Frame
<1>5. FramesInv(r)'
  <2> SUFFICES ASSUME NEW k \in 1 .. Len(stack[r])
               PROVE  /\ lock[r][NameOf(stack[r][k].src)] = stack[r][k].src
                      /\ \A j \in 1 .. Len(DepsOf(stack[r][k].src)) :
                             j < stack[r][k].next => Pinned(op'[r], cur'[r], lock[r], DepName(stack[r][k].src, j))
    BY <1>1, <1>2 DEF FramesInv
  <2>1. \A j \in 1 .. Len(DepsOf(stack[r][k].src)) : DepName(stack[r][k].src, j) \in Names
    BY <1>4, PkgType
  <2>2. /\ lock[r][NameOf(stack[r][k].src)] = stack[r][k].src
        /\ \A j \in 1 .. Len(DepsOf(stack[r][k].src)) :
               j < stack[r][k].next => Pinned(op[r], cur[r], lock[r], DepName(stack[r][k].src, j))
    BY DEF RunInv, FramesInv
  <2> QED
    BY <2>1, <2>2
<1>6. LockedInv(r)'
  <2>1. OnStack(r)' = OnStack(r)
    BY <1>1 DEF OnStack
  <2> QED
    BY <1>1, <1>2, <2>1 DEF RunInv, LockedInv, Locked
<1>7. Distinct(r)'
  BY <1>1 DEF Distinct
<1> QED
  BY <1>5, <1>6, <1>7

\* A run whose stack is empty.
LEMMA Bare ==
    ASSUME NEW r \in Runs, stack'[r] = <<>>, text' = "whole" => Closed(lock[r])',
           mode'[r] # "reproduce" => done'[r] \subseteq Locked(lock'[r])
    PROVE  FramesInv(r)' /\ LockedInv(r)' /\ Distinct(r)'
<1>1. Len(stack'[r]) = 0
  OBVIOUS
<1>2. FramesInv(r)' /\ Distinct(r)'
  BY <1>1 DEF FramesInv, Distinct
<1>3. LockedInv(r)'
  BY DEF LockedInv, Closed, Locked, DepName
<1> QED
  BY <1>2, <1>3

\* A lock set with an empty stack is complete, if it came of whole locks.
LEMMA BareClosed ==
    ASSUME NEW r \in Runs, RunInv(r), stack[r] = <<>>
    PROVE  text = "whole" => Closed(lock[r])
<1>1. OnStack(r) = {}
  <2>1. Len(stack[r]) = 0
    OBVIOUS
  <2> QED
    BY <2>1 DEF OnStack
<1> QED
  BY <1>1 DEF RunInv, LockedInv, Closed, DepName

LEMMA NoLockClosed == Closed(NoLock)
BY DEF Closed, NoLock, Locked

LEMMA StopsKeeps ==
    ASSUME TypeOK, NEW r \in Runs, NEW how \in Ended, Stops(r, how)
    PROVE  RunInv(r)' /\ Distinct(r)'
<1>1. /\ op'[r] = how /\ stack'[r] = <<>> /\ done'[r] = {} /\ lock'[r] = NoLock
  BY DEF TypeOK, Stops
<1>2. PlaceInv(r)'
  BY <1>1 DEF PlaceInv, Ended, Copying
<1>3. Closed(lock[r])'
  BY <1>1 DEF Closed, NoLock, Locked
<1> QED
  BY <1>1, <1>2, <1>3, Bare DEF RunInv

LEMMA StartInstallKeeps ==
    ASSUME IInv, NEW r \in Runs, StartInstall(r)
    PROVE  RunInv(r)' /\ Distinct(r)'
<1>1. TypeOK /\ PlaceInv(r) /\ op[r] = "idle" /\ stack[r] = <<>> /\ done[r] = {}
  BY DEF IInv, RunInv, PlaceInv, StartInstall, MayStart
<1>2. /\ op'[r] = "visit" /\ lock'[r] = lockfile /\ stack'[r] = <<>> /\ done'[r] = {}
      /\ pkg' = pkg /\ text' = text /\ mode'[r] \in {"install", "force"} /\ cur'[r].src \in Sources
  <2>1. PICK spec \in Sources \cup Refs :
            cur' = [cur EXCEPT ![r] = [src |-> Resolved(r, spec), exp |-> None]]
    BY DEF StartInstall
  <2>2. cur'[r].src \in Sources
    BY <1>1, <2>1, ResolvedType DEF TypeOK
  <2> QED
    BY <1>1, <2>2 DEF StartInstall, TypeOK, world, files, locking
<1>3. PlaceInv(r)'
  BY <1>2 DEF PlaceInv, Copying
<1>4. text' = "whole" => Closed(lock[r])'
  BY <1>2 DEF IInv, LockComplete, Closed, Locked, DepsOf
<1> QED
  BY <1>2, <1>3, <1>4, Bare DEF RunInv

LEMMA StartReproduceKeeps ==
    ASSUME IInv, NEW r \in Runs, StartReproduce(r)
    PROVE  RunInv(r)' /\ Distinct(r)'
<1>1. TypeOK /\ RunInv(r) /\ op[r] = "idle" /\ stack[r] = <<>>
  BY DEF IInv, RunInv, PlaceInv, StartReproduce, MayStart
<1>2. /\ op'[r] = "reproduce" /\ lock'[r] = lockfile
      /\ stack'[r] = <<>> /\ pkg' = pkg /\ text' = text /\ mode'[r] = "reproduce"
  BY <1>1 DEF StartReproduce, TypeOK, world, files, locking
<1>3. PlaceInv(r)'
  BY <1>2 DEF PlaceInv, Copying
<1>4. text = "whole" => Closed(lockfile)
  BY DEF IInv, LockComplete
<1>5. text' = "whole" => Closed(lock[r])'
  BY <1>2, <1>4 DEF Closed, Locked, DepsOf
<1> QED
  BY <1>2, <1>3, <1>5, Bare DEF RunInv

LEMMA StartRefusedKeeps ==
    ASSUME IInv, NEW r \in Runs, StartRefused(r)
    PROVE  RunInv(r)' /\ Distinct(r)'
<1>1. TypeOK /\ RunInv(r) /\ Distinct(r) /\ op[r] = "idle" /\ stack[r] = <<>> /\ done[r] = {}
  BY DEF IInv, StackDistinct, Distinct, RunInv, PlaceInv, StartRefused, MayStart
<1>2. /\ op'[r] = "error" /\ lock' = lock /\ stack' = stack /\ done' = done /\ cur' = cur
      /\ pkg' = pkg /\ mode' = mode /\ text' = text
  BY <1>1 DEF StartRefused, TypeOK, world, files, locking
<1>3. PlaceInv(r)'
  BY <1>1, <1>2 DEF RunInv, PlaceInv, Copying
<1>4. \A n \in Names : Pinned(op[r], cur[r], lock[r], n) => Pinned(op'[r], cur'[r], lock[r], n)
  BY <1>1 DEF Pinned, Copying
<1> QED
  BY <1>1, <1>2, <1>3, <1>4, Quiet DEF RunInv

\* The package has been installed in this run, so it is pinned already.
LEMMA VisitDoneKeeps ==
    ASSUME IInv, NEW r \in Runs, VisitDone(r)
    PROVE  RunInv(r)' /\ Distinct(r)'
<1>1. TypeOK /\ RunInv(r) /\ Distinct(r) /\ op[r] = "visit" /\ cur[r].exp \in {None, Name(r)}
      /\ Name(r) \in done[r] /\ mode[r] # "reproduce"
  BY DEF IInv, StackDistinct, Distinct, RunInv, PlaceInv, VisitDone, Goto, Accepted, Mismatched
<1>2. /\ op'[r] = "next" /\ lock' = lock /\ stack' = stack /\ done' = done /\ cur' = cur
      /\ pkg' = pkg /\ mode' = mode /\ text' = text
  BY <1>1 DEF VisitDone, Goto, TypeOK, world, files, locking
<1>3. PlaceInv(r)'
  BY <1>1, <1>2 DEF RunInv, PlaceInv, Copying
<1>4. lock[r][Name(r)] # None
  BY <1>1 DEF RunInv, LockedInv, Locked
<1>5. \A n \in Names : Pinned(op[r], cur[r], lock[r], n) => Pinned(op'[r], cur'[r], lock[r], n)
  BY <1>1, <1>4, NoneIsNothing DEF Pinned
<1>6. done[r] \subseteq Locked(lock[r])
  BY <1>1 DEF RunInv, LockedInv
<1> QED
  BY <1>1, <1>2, <1>3, <1>5, <1>6, Quiet DEF RunInv

LEMMA VisitNewKeeps ==
    ASSUME IInv, NEW r \in Runs, VisitNew(r)
    PROVE  RunInv(r)' /\ Distinct(r)'
<1>1. TypeOK /\ RunInv(r) /\ Distinct(r) /\ op[r] = "visit" /\ cur[r].exp \in {None, Name(r)}
      /\ Name(r) \notin OnStack(r) /\ mode[r] # "reproduce" /\ cur[r].src \in Sources
  BY DEF IInv, StackDistinct, Distinct, RunInv, PlaceInv, VisitNew, Goto, Accepted, Mismatched, Cyclic
<1>2. /\ op'[r] = "clear" /\ lock' = lock /\ stack' = stack /\ done' = done /\ cur' = cur
      /\ pkg' = pkg /\ mode' = mode /\ text' = text
  BY <1>1 DEF VisitNew, Goto, TypeOK, world, files, locking
<1>3. PlaceInv(r)'
  BY <1>1, <1>2 DEF PlaceInv, Copying, OnStack, Name, NameOf
<1>4. \A n \in Names : Pinned(op[r], cur[r], lock[r], n) => Pinned(op'[r], cur'[r], lock[r], n)
  BY <1>2 DEF Pinned, Copying
<1>5. done[r] \subseteq Locked(lock[r])
  BY <1>1 DEF RunInv, LockedInv
<1> QED
  BY <1>1, <1>2, <1>3, <1>4, <1>5, Quiet DEF RunInv

LEMMA CopyingKeeps ==
    ASSUME IInv, NEW r \in Runs, CopyClear(r) \/ CopyManifest(r)
    PROVE  RunInv(r)' /\ Distinct(r)'
<1>1. TypeOK /\ RunInv(r) /\ Distinct(r) /\ op[r] \in Copying
  BY DEF IInv, StackDistinct, Distinct, CopyClear, CopyManifest, Goto, Copying
<1>2. /\ op'[r] \in Copying /\ lock' = lock /\ stack' = stack /\ done' = done /\ cur' = cur
      /\ pkg' = pkg /\ mode' = mode /\ text' = text
  BY <1>1 DEF CopyClear, CopyManifest, Goto, TypeOK, world, locking, Copying
<1>3. PlaceInv(r)'
  BY <1>1, <1>2 DEF RunInv, PlaceInv, Copying, OnStack, Name, NameOf
<1>4. \A n \in Names : Pinned(op[r], cur[r], lock[r], n) => Pinned(op'[r], cur'[r], lock[r], n)
  BY <1>2 DEF Pinned
<1>5. mode[r] # "reproduce" => done[r] \subseteq Locked(lock[r])
  BY <1>1 DEF RunInv, LockedInv
<1> QED
  BY <1>1, <1>2, <1>3, <1>4, <1>5, Quiet DEF RunInv

\* The package in hand is pinned and its frame pushed: nothing pinned is unpinned.
LEMMA CopyCodeKeeps ==
    ASSUME IInv, NEW r \in Runs, CopyCode(r)
    PROVE  RunInv(r)' /\ Distinct(r)'
<1>1. TypeOK /\ RunInv(r) /\ Distinct(r) /\ op[r] = "code" /\ cur[r].src \in Sources
      /\ Name(r) \in Names
  <2>1. TypeOK /\ RunInv(r) /\ Distinct(r) /\ op[r] = "code" /\ cur[r].src \in Sources
    BY DEF IInv, StackDistinct, Distinct, CopyCode, Goto, Copying, RunInv, PlaceInv
  <2> QED
    BY <2>1, PkgType DEF Name
<1>2. pkg' = pkg /\ mode' = mode /\ cur' = cur /\ text' = text
  BY DEF CopyCode, world, locking
<1>3. CASE mode[r] = "reproduce"
  <2>1. /\ op'[r] = "reproduce" /\ lock' = lock /\ stack' = stack /\ stack[r] = <<>>
    BY <1>1, <1>3 DEF CopyCode, Goto, TypeOK, RunInv, PlaceInv
  <2>2. PlaceInv(r)'
    BY <1>2, <1>3, <2>1 DEF PlaceInv, Copying
  <2>3. text = "whole" => Closed(lock[r])
    BY <1>1, <2>1, BareClosed
  <2>4. text' = "whole" => Closed(lock[r])'
    BY <1>2, <2>1, <2>3 DEF Closed, Locked, DepsOf
  <2> QED
    BY <1>2, <1>3, <2>1, <2>2, <2>4, Bare DEF RunInv
<1>4. CASE mode[r] # "reproduce"
  <2> DEFINE f == [src |-> cur[r].src, next |-> 1]
             L == Len(stack[r])
  <2>1. /\ op'[r] = "next" /\ done' = done /\ stack' = [stack EXCEPT ![r] = Append(@, f)]
        /\ lock'[r] = [lock[r] EXCEPT ![Name(r)] = cur[r].src]
    BY <1>1, <1>4 DEF CopyCode, Goto, TypeOK
  <2>2. f \in Frame
    BY <1>1 DEF Frame
  <2>3. /\ L \in Nat /\ Len(stack'[r]) = L + 1 /\ stack'[r][L + 1] = f
        /\ \A k \in 1 .. L : stack'[r][k] = stack[r][k]
    BY <1>1, <2>1, <2>2, Pushed
  <2>4. lock[r] \in [Names -> Sources \cup {None}]
    BY <1>1 DEF TypeOK, Locks
  <2>5. \A n \in Names : lock'[r][n] = IF n = Name(r) THEN cur[r].src ELSE lock[r][n]
    BY <2>1, <2>4
  <2>6. \A n \in Names : lock[r][n] # None => lock'[r][n] # None
    BY <1>1, <2>5, NoneIsNothing
  <2>7. Name(r) \notin OnStack(r) /\ cur[r].exp \in {None, Name(r)}
    BY <1>1, <1>4 DEF RunInv, PlaceInv, Copying
  <2>8. \A s : NameOf(s)' = NameOf(s) /\ DepsOf(s)' = DepsOf(s)
    BY <1>2 DEF NameOf, DepsOf
  <2>9. \A s, j : DepName(s, j)' = DepName(s, j)
    BY <2>8 DEF DepName
  <2>10. \A k \in 1 .. L : stack[r][k].src \in Sources /\ NameOf(stack[r][k].src) \in Names
                           /\ NameOf(stack[r][k].src) # Name(r)
    BY <1>1, <2>7, FrameType, PkgType DEF Frame, OnStack
  <2> HIDE DEF L
  <2>11. PlaceInv(r)'
    <3>1. stack'[r] # <<>>
      BY <2>3 DEF L
    <3> QED
      BY <1>2, <1>4, <2>1, <3>1 DEF PlaceInv, Copying
  <2>12. \A n \in Names : Pinned(op[r], cur[r], lock[r], n) => lock'[r][n] # None
    BY <1>1, <2>5, <2>6, <2>7, NoneIsNothing DEF Pinned
  <2>13. FramesInv(r)'
    <3> SUFFICES ASSUME NEW k \in 1 .. L + 1
                 PROVE  /\ lock'[r][NameOf(stack'[r][k].src)] = stack'[r][k].src
                        /\ \A j \in 1 .. Len(DepsOf(stack'[r][k].src)) :
                               j < stack'[r][k].next => lock'[r][DepName(stack'[r][k].src, j)] # None
      BY <2>3, <2>8, <2>9 DEF FramesInv, Pinned
    <3>1. CASE k \in 1 .. L
      <4>1. /\ lock[r][NameOf(stack[r][k].src)] = stack[r][k].src
            /\ \A j \in 1 .. Len(DepsOf(stack[r][k].src)) :
                  j < stack[r][k].next => Pinned(op[r], cur[r], lock[r], DepName(stack[r][k].src, j))
        BY <1>1, <3>1 DEF RunInv, FramesInv, L
      <4>2. \A j \in 1 .. Len(DepsOf(stack[r][k].src)) : DepName(stack[r][k].src, j) \in Names
        BY <1>1, <2>10, <3>1, PkgType
      <4> QED
        BY <2>3, <2>5, <2>10, <2>12, <3>1, <4>1, <4>2
    <3>2. CASE k = L + 1
      <4>1. stack'[r][k] = f /\ Name(r) = NameOf(f.src)
        BY <2>3, <3>2 DEF Name
      <4> QED
        BY <1>1, <2>5, <4>1
    <3> QED
      BY <2>3, <3>1, <3>2
  <2>14. OnStack(r)' = OnStack(r) \cup {Name(r)}
    <3>1. OnStack(r)' = {NameOf(stack'[r][k].src) : k \in 1 .. L + 1}
      BY <2>3, <2>8 DEF OnStack
    <3>2. OnStack(r) = {NameOf(stack[r][k].src) : k \in 1 .. L}
      BY DEF OnStack, L
    <3>3. Name(r) = NameOf(f.src)
      BY DEF Name
    <3>4. 1 .. L + 1 = (1 .. L) \cup {L + 1}
      BY <2>3
    <3> QED
      BY <2>3, <3>1, <3>2, <3>3, <3>4
  <2>15. LockedInv(r)'
    <3>1. done[r] \subseteq Locked(lock'[r])
      BY <1>1, <1>4, <2>6 DEF RunInv, LockedInv, Locked
    <3> SUFFICES ASSUME text = "whole",
                        NEW n \in Locked(lock'[r]), n \notin OnStack(r), n # Name(r),
                        NEW j \in 1 .. Len(DepsOf(lock'[r][n]))
                 PROVE  lock'[r][DepName(lock'[r][n], j)] # None
      BY <1>2, <2>1, <2>8, <2>9, <2>14, <3>1 DEF LockedInv, Locked
    <3>2. n \in Names /\ lock'[r][n] = lock[r][n] /\ n \in Locked(lock[r]) \ OnStack(r)
      BY <2>5 DEF Locked
    <3>3. lock[r][n] \in Sources
      BY <2>4, <3>2 DEF Locked
    <3>4. lock[r][DepName(lock[r][n], j)] # None /\ DepName(lock[r][n], j) \in Names
      BY <1>1, <3>2, <3>3, PkgType DEF RunInv, LockedInv
    <3> QED
      BY <2>6, <3>2, <3>4
  <2>16. Distinct(r)'
    <3> SUFFICES ASSUME NEW i \in 1 .. L + 1, NEW j \in 1 .. L + 1,
                        NameOf(stack'[r][i].src) = NameOf(stack'[r][j].src)
                 PROVE  i = j
      BY <2>3, <2>8 DEF Distinct
    <3>1. CASE i \in 1 .. L /\ j \in 1 .. L
      BY <1>1, <2>3, <3>1 DEF Distinct, L
    <3>2. NameOf(stack'[r][L + 1].src) = Name(r)
      BY <2>3 DEF Name
    <3>3. \A k \in 1 .. L : NameOf(stack'[r][k].src) # Name(r)
      BY <2>3, <2>10
    <3> QED
      BY <2>3, <3>1, <3>2, <3>3
  <2> QED
    BY <2>11, <2>13, <2>15, <2>16 DEF RunInv
<1> QED
  BY <1>3, <1>4

\* The dependency taken up is the one the run has in hand.
LEMMA NextDependencyKeeps ==
    ASSUME IInv, NEW r \in Runs, NextDependency(r)
    PROVE  RunInv(r)' /\ Distinct(r)'
<1> DEFINE L == Len(stack[r])
           dep == DepsOf(Top(r).src)[Top(r).next]
<1>1. TypeOK /\ RunInv(r) /\ Distinct(r) /\ op[r] = "next" /\ stack[r] # <<>> /\ mode[r] # "reproduce"
  BY DEF IInv, StackDistinct, Distinct, NextDependency, Goto, RunInv, PlaceInv
<1>2. L \in Nat \ {0} /\ Top(r) = stack[r][L] /\ Top(r) \in Frame
  BY <1>1, TopType
<1>3. /\ op'[r] = "visit" /\ lock' = lock /\ done' = done /\ pkg' = pkg /\ mode' = mode /\ text' = text
      /\ Top(r).next \in 1 .. Len(DepsOf(Top(r).src))
      /\ cur' = [cur EXCEPT ![r] = [src |-> Resolved(r, dep.spec), exp |-> dep.name]]
      /\ stack' = [stack EXCEPT ![r][Len(stack[r])].next = @ + 1]
  BY <1>1, <1>2, PkgType DEF NextDependency, Goto, TypeOK, world, files, locking, Frame
<1>4. dep \in Dependencies /\ dep.name = DepName(Top(r).src, Top(r).next)
  BY <1>1, <1>2, <1>3, PkgType DEF Frame, DepName
<1>5. cur'[r].src \in Sources /\ cur'[r].exp = dep.name
  <2>1. Resolved(r, dep.spec) \in Sources
    BY <1>1, <1>4, ResolvedType DEF Dependencies
  <2> QED
    BY <1>1, <1>3, <2>1 DEF TypeOK
<1>6. /\ Len(stack'[r]) = L
      /\ \A k \in 1 .. L :
            /\ stack'[r][k].src = stack[r][k].src
            /\ stack'[r][k].next = IF k = L THEN stack[r][k].next + 1 ELSE stack[r][k].next
  BY <1>1, <1>3, Advanced
<1>7. \A s : NameOf(s)' = NameOf(s) /\ DepsOf(s)' = DepsOf(s)
  BY <1>3 DEF NameOf, DepsOf
<1>8. \A s, j : DepName(s, j)' = DepName(s, j)
  BY <1>7 DEF DepName
<1>9. PlaceInv(r)'
  <2>1. stack'[r] # <<>>
    BY <1>2, <1>6
  <2> QED
    BY <1>1, <1>3, <1>5, <2>1 DEF PlaceInv, Copying
<1> HIDE DEF L, dep
<1>10. FramesInv(r)'
  <2> SUFFICES ASSUME NEW k \in 1 .. L
               PROVE  /\ lock[r][NameOf(stack[r][k].src)] = stack[r][k].src
                      /\ \A j \in 1 .. Len(DepsOf(stack[r][k].src)) :
                             j < stack'[r][k].next =>
                                 Pinned("visit", cur'[r], lock[r], DepName(stack[r][k].src, j))
    BY <1>3, <1>6, <1>7, <1>8 DEF FramesInv
  <2>1. /\ lock[r][NameOf(stack[r][k].src)] = stack[r][k].src
        /\ \A j \in 1 .. Len(DepsOf(stack[r][k].src)) :
              j < stack[r][k].next => lock[r][DepName(stack[r][k].src, j)] # None
    BY <1>1 DEF RunInv, FramesInv, Pinned, Copying, L
  <2>2. stack[r][k] \in Frame
    BY <1>1, FrameType DEF L
  <2>3. CASE k # L
    BY <1>6, <2>1, <2>3 DEF Pinned
  <2>4. CASE k = L
    <3> SUFFICES ASSUME NEW j \in 1 .. Len(DepsOf(stack[r][k].src)), j < stack'[r][k].next
                 PROVE  Pinned("visit", cur'[r], lock[r], DepName(stack[r][k].src, j))
      BY <2>1
    <3>1. CASE j < stack[r][k].next
      BY <2>1, <3>1 DEF Pinned
    <3>2. CASE j = stack[r][k].next
      BY <1>2, <1>4, <1>5, <2>4, <3>2 DEF Pinned
    <3>3. stack'[r][k].next = stack[r][k].next + 1 /\ stack[r][k].next \in Nat
          /\ Len(DepsOf(stack[r][k].src)) \in Nat
      BY <1>1, <1>6, <2>2, <2>4, PkgType DEF Frame
    <3> QED
      BY <3>1, <3>2, <3>3
  <2> QED
    BY <2>3, <2>4
<1>11. OnStack(r)' = OnStack(r)
  BY <1>6, <1>7 DEF OnStack, L
<1>12. LockedInv(r)'
  BY <1>1, <1>3, <1>7, <1>8, <1>11 DEF RunInv, LockedInv, Locked
<1>13. Distinct(r)'
  BY <1>1, <1>6, <1>7 DEF Distinct, L
<1> QED
  BY <1>9, <1>10, <1>12, <1>13 DEF RunInv

\* Only when its dependencies are all pinned does a package leave the stack.
LEMMA FinishPackageKeeps ==
    ASSUME IInv, NEW r \in Runs, FinishPackage(r)
    PROVE  RunInv(r)' /\ Distinct(r)'
<1> DEFINE L == Len(stack[r])
           top == NameOf(Top(r).src)
<1>1. TypeOK /\ RunInv(r) /\ Distinct(r) /\ op[r] = "next" /\ stack[r] # <<>> /\ mode[r] # "reproduce"
  BY DEF IInv, StackDistinct, Distinct, FinishPackage, Goto, RunInv, PlaceInv
<1>2. L \in Nat \ {0} /\ Top(r) = stack[r][L] /\ Top(r) \in Frame
  BY <1>1, TopType
<1>3. /\ op'[r] = (IF L = 1 THEN "truncate" ELSE "next")
      /\ lock' = lock /\ done'[r] = done[r] \cup {top} /\ pkg' = pkg /\ mode' = mode
      /\ text' = text
      /\ Top(r).next > Len(DepsOf(Top(r).src))
      /\ stack' = [stack EXCEPT ![r] = SubSeq(@, 1, Len(@) - 1)]
  BY <1>1, <1>2 DEF FinishPackage, Goto, TypeOK, world, files, locking
<1>4. /\ stack'[r] \in Stacks /\ Len(stack'[r]) = L - 1
      /\ \A k \in 1 .. L - 1 : stack'[r][k] = stack[r][k]
  BY <1>1, <1>3, Popped
<1>5. \A s : NameOf(s)' = NameOf(s) /\ DepsOf(s)' = DepsOf(s)
  BY <1>3 DEF NameOf, DepsOf
<1>6. \A s, j : DepName(s, j)' = DepName(s, j)
  BY <1>5 DEF DepName
<1>7. PlaceInv(r)'
  <2> HIDE DEF L
  <2>1. ASSUME L # 1 PROVE stack'[r] # <<>>
    <3>1. Len(stack'[r]) # 0
      BY <1>2, <1>4, <2>1
    <3> QED
      BY <3>1
  <2>2. ASSUME L = 1 PROVE stack'[r] = <<>>
    <3>1. stack'[r] \in Seq(Frame) /\ Len(stack'[r]) = 0
      BY <1>4, <2>2 DEF Stacks
    <3> QED
      BY <3>1, EmptySeq
  <2> QED
    BY <1>1, <1>3, <2>1, <2>2 DEF PlaceInv, Copying
<1>8. \A k \in 1 .. L :
         /\ lock[r][NameOf(stack[r][k].src)] = stack[r][k].src
         /\ \A j \in 1 .. Len(DepsOf(stack[r][k].src)) :
               j < stack[r][k].next => lock[r][DepName(stack[r][k].src, j)] # None
  BY <1>1 DEF RunInv, FramesInv, Pinned, Copying
<1> HIDE DEF L
<1>9. FramesInv(r)'
  <2> SUFFICES ASSUME NEW k \in 1 .. L - 1
               PROVE  /\ lock[r][NameOf(stack'[r][k].src)] = stack'[r][k].src
                      /\ \A j \in 1 .. Len(DepsOf(stack'[r][k].src)) :
                             j < stack'[r][k].next =>
                                 Pinned(op'[r], cur'[r], lock[r], DepName(stack'[r][k].src, j))
    <3>1. Len(stack'[r]) = L - 1 /\ lock' = lock
      BY <1>3, <1>4
    <3> QED
      BY <1>5, <1>6, <3>1 DEF FramesInv
  <2>1. k \in 1 .. L /\ stack'[r][k] = stack[r][k]
    BY <1>2, <1>4
  <2> QED
    BY <1>8, <2>1 DEF Pinned
<1>10. OnStack(r) \subseteq OnStack(r)' \cup {top}
  <2>1. OnStack(r)' = {NameOf(stack'[r][k].src) : k \in 1 .. L - 1}
    BY <1>4, <1>5 DEF OnStack
  <2>2. \A k \in 1 .. L : k = L \/ k \in 1 .. L - 1
    BY <1>2
  <2>3. OnStack(r) = {NameOf(stack[r][k].src) : k \in 1 .. L}
    BY DEF OnStack, L
  <2> QED
    BY <1>2, <1>4, <2>1, <2>2, <2>3
<1>11. top \in Names /\ lock[r][top] = Top(r).src /\ Top(r).src \in Sources
       /\ \A j \in 1 .. Len(DepsOf(Top(r).src)) : lock[r][DepName(Top(r).src, j)] # None
  <2>1. Top(r).src \in Sources /\ Top(r).next \in Nat
    BY <1>2 DEF Frame
  <2>2. top \in Names /\ Len(DepsOf(Top(r).src)) \in Nat
    BY <1>1, <2>1, PkgType
  <2>3. \A j \in 1 .. Len(DepsOf(Top(r).src)) : j < Top(r).next
    BY <1>3, <2>1, <2>2
  <2>4. L \in 1 .. L
    BY <1>2
  <2> QED
    BY <1>2, <1>8, <2>1, <2>2, <2>3, <2>4
<1> HIDE DEF top
<1>12. LockedInv(r)'
  <2>1. done[r] \cup {top} \subseteq Locked(lock[r])
    BY <1>1, <1>11, NoneIsNothing DEF RunInv, LockedInv, Locked
  <2> SUFFICES ASSUME text = "whole", NEW n \in Locked(lock[r]), n \notin OnStack(r)',
                      NEW j \in 1 .. Len(DepsOf(lock[r][n]))
               PROVE  lock[r][DepName(lock[r][n], j)] # None
    BY <1>3, <1>5, <1>6, <2>1 DEF LockedInv, Locked
  <2>2. CASE n = top
    BY <1>11, <2>2
  <2>3. CASE n # top
    BY <1>1, <1>10, <2>3 DEF RunInv, LockedInv
  <2> QED
    BY <2>2, <2>3
<1>13. Distinct(r)'
  <2>1. 1 .. L - 1 \subseteq 1 .. L
    BY <1>2
  <2>2. \A i, j \in 1 .. L : NameOf(stack[r][i].src) = NameOf(stack[r][j].src) => i = j
    BY <1>1 DEF Distinct, L
  <2> QED
    BY <1>4, <1>5, <2>1, <2>2 DEF Distinct
<1> QED
  BY <1>7, <1>9, <1>12, <1>13 DEF RunInv

LEMMA LockStepsKeep ==
    ASSUME IInv, NEW r \in Runs, TruncateLock(r) \/ WriteLock(r)
    PROVE  RunInv(r)' /\ Distinct(r)' /\ LockComplete'
<1>1. TypeOK /\ RunInv(r) /\ Distinct(r) /\ op[r] \in {"truncate", "write"} /\ stack[r] = <<>>
      /\ mode[r] # "reproduce"
  BY DEF IInv, StackDistinct, Distinct, TruncateLock, WriteLock, Goto, RunInv, PlaceInv
<1>2. /\ op'[r] \in {"write", "ok"} /\ lock' = lock /\ stack' = stack /\ done' = done
      /\ pkg' = pkg /\ mode' = mode
  BY <1>1 DEF TruncateLock, WriteLock, Goto, TypeOK, world
<1>3. (text = "whole" => Closed(lock[r])) /\ Closed(NoLock)
  BY <1>1, BareClosed, NoLockClosed
<1>4. text' = "whole" => Closed(lock[r])' /\ Closed(lockfile)'
  <2> SUFFICES ASSUME text' = "whole" PROVE Closed(lock[r])' /\ Closed(lockfile)'
    OBVIOUS
  <2>1. lockfile' \in {lock[r], NoLock} /\ text = "whole"
    BY DEF TruncateLock, WriteLock, Readable
  <2> QED
    BY <1>2, <1>3, <2>1 DEF Closed, Locked, DepsOf
<1>5. PlaceInv(r)'
  BY <1>1, <1>2 DEF PlaceInv, Copying
<1>6. done[r] \subseteq Locked(lock[r])
  BY <1>1 DEF RunInv, LockedInv
<1> QED
  BY <1>1, <1>2, <1>4, <1>5, <1>6, Bare DEF RunInv, Locked, LockComplete

LEMMA ReproduceKeeps ==
    ASSUME IInv, NEW r \in Runs, ReproduceNext(r) \/ ReproduceEnds(r)
    PROVE  RunInv(r)' /\ Distinct(r)'
<1>1. TypeOK /\ RunInv(r) /\ op[r] = "reproduce" /\ stack[r] = <<>> /\ mode[r] = "reproduce"
  BY DEF IInv, ReproduceNext, ReproduceEnds, Goto, RunInv, PlaceInv
<1>2. /\ op'[r] \in {"clear", "ok"} /\ lock' = lock /\ stack' = stack /\ done' = done
      /\ pkg' = pkg /\ mode' = mode /\ text' = text
  BY <1>1 DEF ReproduceNext, ReproduceEnds, Goto, TypeOK, world, files, locking
<1>3. op'[r] = "clear" => cur'[r].src \in Sources
  <2>1. CASE ReproduceNext(r)
    <3>1. PICK n \in Locked(lock[r]) : cur' = [cur EXCEPT ![r] = [src |-> lock[r][n], exp |-> n]]
      BY <2>1 DEF ReproduceNext
    <3>2. lock[r][n] \in Sources
      BY <1>1 DEF TypeOK, Locks, Locked
    <3> QED
      BY <1>1, <3>1, <3>2 DEF TypeOK
  <2>2. CASE ReproduceEnds(r)
    BY <1>1, <2>2 DEF ReproduceEnds, Goto, TypeOK
  <2> QED
    BY <2>1, <2>2
<1>4. PlaceInv(r)'
  BY <1>1, <1>2, <1>3 DEF PlaceInv, Copying
<1>5. text = "whole" => Closed(lock[r])
  BY <1>1, BareClosed
<1>6. text' = "whole" => Closed(lock[r])'
  BY <1>2, <1>5 DEF Closed, Locked, DepsOf
<1> QED
  BY <1>1, <1>2, <1>4, <1>6, Bare DEF RunInv

-----------------------------------------------------------------------------
(* The invariant of the specification                                       *)

LEMMA InitIInv == Init => IInv
<1> SUFFICES ASSUME Init PROVE IInv
  OBVIOUS
<1>1. ASSUME NEW r \in Runs
      PROVE  /\ op[r] = "idle" /\ stack[r] = <<>> /\ done[r] = {} /\ Locked(lock[r]) = {}
             /\ Len(stack[r]) = 0 /\ mode[r] = "install"
  BY <1>1 DEF Init, NoLock, Locked
<1>2. ASSUME NEW r \in Runs PROVE RunInv(r) /\ Distinct(r)
  BY <1>1, <1>2 DEF RunInv, PlaceInv, FramesInv, LockedInv, Distinct, Copying
<1>3. LockComplete
  BY NoLockClosed DEF Init, LockComplete
<1> QED
  BY <1>2, <1>3, InitType DEF IInv, StackDistinct, Distinct

LEMMA StepKeepsIInv == IInv /\ [Next]_vars => IInv'
<1> SUFFICES ASSUME IInv, [Next]_vars PROVE IInv'
  OBVIOUS
<1>t. TypeOK /\ TypeOK'
  BY TypeKept DEF IInv
<1>0. ASSUME lockfile' = lockfile, text' = text, pkg' = pkg PROVE LockComplete'
  BY <1>0 DEF IInv, LockComplete, Closed, Locked, DepsOf
<1> USE DEF Goto, world, files, locking
<1>1. ASSUME NEW r \in Runs, StartInstall(r) PROVE IInv'
  <2>1. lockfile' = lockfile /\ text' = text /\ pkg' = pkg /\ \A q \in Runs \ {r} : Same(q)
    BY <1>t, <1>1 DEF StartInstall, Same, TypeOK
  <2> QED
    BY <1>0, <1>1, <1>t, <2>1, StartInstallKeeps, StepKeeps
<1>2. ASSUME NEW r \in Runs, StartReproduce(r) PROVE IInv'
  <2>1. lockfile' = lockfile /\ text' = text /\ pkg' = pkg /\ \A q \in Runs \ {r} : Same(q)
    BY <1>t, <1>2 DEF StartReproduce, Same, TypeOK
  <2> QED
    BY <1>0, <1>2, <1>t, <2>1, StartReproduceKeeps, StepKeeps
<1>3. ASSUME NEW r \in Runs, NEW how \in Ended, Stops(r, how) PROVE IInv'
  <2>1. lockfile' = lockfile /\ text' = text /\ pkg' = pkg /\ \A q \in Runs \ {r} : Same(q)
    BY <1>t, <1>3 DEF Stops, Same, TypeOK
  <2> QED
    BY <1>0, <1>3, <1>t, <2>1, StopsKeeps, StepKeeps
<1>4. ASSUME NEW r \in Runs, VisitDone(r) PROVE IInv'
  <2>1. lockfile' = lockfile /\ text' = text /\ pkg' = pkg /\ \A q \in Runs \ {r} : Same(q)
    BY <1>t, <1>4 DEF VisitDone, Same, TypeOK
  <2> QED
    BY <1>0, <1>4, <1>t, <2>1, VisitDoneKeeps, StepKeeps
<1>5. ASSUME NEW r \in Runs, VisitNew(r) PROVE IInv'
  <2>1. lockfile' = lockfile /\ text' = text /\ pkg' = pkg /\ \A q \in Runs \ {r} : Same(q)
    BY <1>t, <1>5 DEF VisitNew, Same, TypeOK
  <2> QED
    BY <1>0, <1>5, <1>t, <2>1, VisitNewKeeps, StepKeeps
<1>6. ASSUME NEW r \in Runs, CopyClear(r) \/ CopyManifest(r) PROVE IInv'
  <2>1. lockfile' = lockfile /\ text' = text /\ pkg' = pkg /\ \A q \in Runs \ {r} : Same(q)
    BY <1>t, <1>6 DEF CopyClear, CopyManifest, Same, TypeOK
  <2> QED
    BY <1>0, <1>6, <1>t, <2>1, CopyingKeeps, StepKeeps
<1>7. ASSUME NEW r \in Runs, CopyCode(r) PROVE IInv'
  <2>1. lockfile' = lockfile /\ text' = text /\ pkg' = pkg /\ \A q \in Runs \ {r} : Same(q)
    BY <1>t, <1>7 DEF CopyCode, Same, TypeOK
  <2> QED
    BY <1>0, <1>7, <1>t, <2>1, CopyCodeKeeps, StepKeeps
<1>8. ASSUME NEW r \in Runs, NextDependency(r) PROVE IInv'
  <2>1. lockfile' = lockfile /\ text' = text /\ pkg' = pkg /\ \A q \in Runs \ {r} : Same(q)
    BY <1>t, <1>8 DEF NextDependency, Same, TypeOK
  <2> QED
    BY <1>0, <1>8, <1>t, <2>1, NextDependencyKeeps, StepKeeps
<1>9. ASSUME NEW r \in Runs, FinishPackage(r) PROVE IInv'
  <2>1. lockfile' = lockfile /\ text' = text /\ pkg' = pkg /\ \A q \in Runs \ {r} : Same(q)
    BY <1>t, <1>9 DEF FinishPackage, Same, TypeOK
  <2> QED
    BY <1>0, <1>9, <1>t, <2>1, FinishPackageKeeps, StepKeeps
<1>10. ASSUME NEW r \in Runs, TruncateLock(r) \/ WriteLock(r) PROVE IInv'
  <2>1. pkg' = pkg /\ \A q \in Runs \ {r} : Same(q)
    BY <1>t, <1>10 DEF TruncateLock, WriteLock, Readable, Same, TypeOK
  <2> QED
    BY <1>10, <1>t, <2>1, LockStepsKeep, StepKeeps
<1>11. ASSUME NEW r \in Runs, ReproduceNext(r) \/ ReproduceEnds(r) PROVE IInv'
  <2>1. lockfile' = lockfile /\ text' = text /\ pkg' = pkg /\ \A q \in Runs \ {r} : Same(q)
    BY <1>t, <1>11 DEF ReproduceNext, ReproduceEnds, Same, TypeOK
  <2> QED
    BY <1>0, <1>11, <1>t, <2>1, ReproduceKeeps, StepKeeps
<1>12. ASSUME (\E h \in Refs : Push(h)) \/ UNCHANGED vars PROVE IInv'
  <2>1. lockfile' = lockfile /\ text' = text /\ pkg' = pkg /\ \A q \in Runs : Same(q)
    BY <1>12 DEF Push, Same, vars
  <2>2. \A q \in Runs : RunInv(q)' /\ Distinct(q)'
    BY <2>1, SameKeeps DEF IInv, StackDistinct, Distinct
  <2> QED
    BY <1>0, <1>t, <2>1, <2>2 DEF IInv, StackDistinct, Distinct
<1>13. ASSUME NEW r \in Runs, StartRefused(r) PROVE IInv'
  <2>1. lockfile' = lockfile /\ text' = text /\ pkg' = pkg /\ \A q \in Runs \ {r} : Same(q)
    BY <1>t, <1>13 DEF StartRefused, Same, TypeOK
  <2> QED
    BY <1>0, <1>13, <1>t, <2>1, StartRefusedKeeps, StepKeeps
<1> QED
  BY <1>1, <1>2, <1>3, <1>4, <1>5, <1>6, <1>7, <1>8, <1>9, <1>10, <1>11, <1>12, <1>13
     DEF Next, Work, VisitRefused, Fails, Crash, Ended

\* Every reachable state satisfies the invariant.
THEOREM IInvHolds == Spec => []IInv
<1>1. Init => IInv
  BY InitIInv
<1>2. IInv /\ [Next]_vars => IInv'
  BY StepKeepsIInv
<1> QED
  BY <1>1, <1>2, PTL DEF Spec

\* The types of the variables, for every universe of packages.
THEOREM TypeCorrect == Spec => []TypeOK
<1>1. IInv => TypeOK
  BY DEF IInv
<1> QED
  BY <1>1, IInvHolds, PTL

\* Until two overlapping writes mix their texts pyrst.lock is at all times a complete
\* install set, whatever overlaps, fails or is killed (venv.rs, install_dfs and
\* write_lock).
THEOREM LockAlwaysComplete == Spec => []LockComplete
<1>1. IInv => LockComplete
  BY DEF IInv
<1> QED
  BY <1>1, IInvHolds, PTL

\* A dependency cycle is refused before any package of it is walked twice (venv.rs,
\* install_dfs).
THEOREM NoNameTwiceOnStack == Spec => []StackDistinct
<1>1. IInv => StackDistinct
  BY DEF IInv
<1> QED
  BY <1>1, IInvHolds, PTL

-----------------------------------------------------------------------------
(* Pins of the lock a run started from                                      *)

PinsInv(r) ==
    mode[r] = "install" =>
        /\ \A n \in Locked(base[r]) : lock[r][n] = base[r][n]
        /\ op[r] \in Copying => lock[r][Name(r)] \in {None, cur[r].src}

KInv == \A r \in Runs : PinsInv(r)

LEMMA StepKeepsKInv == IInv /\ KInv /\ [Next]_vars => KInv'
<1> SUFFICES ASSUME IInv, KInv, [Next]_vars, NEW q \in Runs PROVE PinsInv(q)'
  BY DEF KInv
<1>t. TypeOK /\ PlaceInv(q) /\ PinsInv(q)
  BY DEF IInv, KInv, RunInv
<1> USE DEF Goto, world, files, Copying
<1>0. ASSUME op'[q] = op[q], mode'[q] = mode[q], lock'[q] = lock[q], base'[q] = base[q],
             cur'[q] = cur[q], pkg' = pkg
      PROVE  PinsInv(q)'
  BY <1>t, <1>0 DEF PinsInv, Name, NameOf, Locked
<1>1. ASSUME NEW r \in Runs, StartInstall(r) PROVE PinsInv(q)'
  <2>1. CASE q = r
    <3>1. op'[q] = "visit" /\ lock'[q] = lockfile /\ base'[q] = lockfile
      BY <1>t, <1>1, <2>1 DEF StartInstall, TypeOK
    <3> QED
      BY <3>1 DEF PinsInv
  <2>2. CASE q # r
    BY <1>t, <1>0, <1>1, <2>2 DEF StartInstall, TypeOK
  <2> QED
    BY <2>1, <2>2
<1>2. ASSUME NEW r \in Runs, StartReproduce(r) PROVE PinsInv(q)'
  <2>1. CASE q = r
    <3>1. mode'[q] = "reproduce"
      BY <1>t, <1>2, <2>1 DEF StartReproduce, TypeOK
    <3> QED
      BY <3>1 DEF PinsInv
  <2>2. CASE q # r
    BY <1>t, <1>0, <1>2, <2>2 DEF StartReproduce, TypeOK
  <2> QED
    BY <2>1, <2>2
<1>3. ASSUME NEW r \in Runs, NEW how \in Ended, Stops(r, how) PROVE PinsInv(q)'
  <2>1. CASE q = r
    <3>1. op'[q] \in Ended /\ base'[q] = NoLock
      BY <1>t, <1>3, <2>1 DEF Stops, TypeOK
    <3> QED
      BY <3>1 DEF PinsInv, Ended, Locked, NoLock
  <2>2. CASE q # r
    BY <1>t, <1>0, <1>3, <2>2 DEF Stops, TypeOK
  <2> QED
    BY <2>1, <2>2
<1>4. ASSUME NEW r \in Runs, VisitNew(r) PROVE PinsInv(q)'
  <2>1. CASE q = r
    <3>1. /\ lock' = lock /\ base' = base /\ mode' = mode /\ cur' = cur /\ pkg' = pkg
          /\ mode[q] = "install" => lock[q][Name(q)] \in {None, cur[q].src}
      BY <1>4, <2>1 DEF VisitNew, Accepted, Collides
    <3> QED
      BY <1>t, <3>1 DEF PinsInv, Name, NameOf, Locked
  <2>2. CASE q # r
    BY <1>t, <1>0, <1>4, <2>2 DEF VisitNew, TypeOK
  <2> QED
    BY <2>1, <2>2
<1>5. ASSUME NEW r \in Runs, CopyClear(r) \/ CopyManifest(r) PROVE PinsInv(q)'
  <2>1. /\ lock' = lock /\ base' = base /\ mode' = mode /\ cur' = cur /\ pkg' = pkg
        /\ op'[q] \in Copying => op[q] \in Copying
    BY <1>t, <1>5 DEF CopyClear, CopyManifest, TypeOK
  <2> QED
    BY <1>t, <2>1 DEF PinsInv, Name, NameOf, Locked
<1>6. ASSUME NEW r \in Runs, CopyCode(r) PROVE PinsInv(q)'
  <2>1. CASE q = r
    <3> SUFFICES ASSUME mode[q] = "install" PROVE PinsInv(q)'
      BY <1>6 DEF CopyCode, PinsInv
    <3>1. /\ op'[q] = "next" /\ base' = base /\ op[q] = "code"
          /\ lock'[q] = [lock[q] EXCEPT ![Name(q)] = cur[q].src]
      BY <1>t, <1>6, <2>1 DEF CopyCode, TypeOK
    <3>2. /\ \A n \in Locked(base[q]) : lock[q][n] = base[q][n]
          /\ lock[q][Name(q)] \in {None, cur[q].src}
      BY <1>t, <3>1 DEF PinsInv
    <3>3. lock[q] \in [Names -> Sources \cup {None}]
      BY <1>t DEF TypeOK, Locks
    <3>4. \A n \in Locked(base[q]) : lock'[q][n] = base[q][n]
      BY <3>1, <3>2, <3>3 DEF Locked
    <3> QED
      BY <3>1, <3>4 DEF PinsInv, Locked
  <2>2. CASE q # r
    BY <1>t, <1>0, <1>6, <2>2 DEF CopyCode, TypeOK
  <2> QED
    BY <2>1, <2>2
<1>7. ASSUME NEW r \in Runs,
             \/ StartRefused(r) \/ VisitDone(r) \/ NextDependency(r) \/ FinishPackage(r)
             \/ TruncateLock(r) \/ WriteLock(r) \/ ReproduceEnds(r)
      PROVE  PinsInv(q)'
  <2>1. lock' = lock /\ base' = base /\ mode' = mode /\ pkg' = pkg
    BY <1>7 DEF StartRefused, VisitDone, NextDependency, FinishPackage, TruncateLock, WriteLock,
       ReproduceEnds
  <2>2. op'[q] \in Copying => q # r /\ op'[q] = op[q] /\ cur'[q] = cur[q]
    BY <1>t, <1>7 DEF TypeOK, StartRefused, VisitDone, NextDependency, FinishPackage, TruncateLock, WriteLock,
       ReproduceEnds
  <2> QED
    BY <1>t, <2>1, <2>2 DEF PinsInv, Name, NameOf, Locked
<1>8. ASSUME NEW r \in Runs, ReproduceNext(r) PROVE PinsInv(q)'
  <2>1. CASE q = r
    <3>1. mode'[q] = "reproduce"
      BY <1>t, <1>8, <2>1 DEF ReproduceNext, PlaceInv
    <3> QED
      BY <3>1 DEF PinsInv
  <2>2. CASE q # r
    <3>1. op'[q] = op[q] /\ cur'[q] = cur[q] /\ lock' = lock /\ base' = base /\ mode' = mode /\ pkg' = pkg
      BY <1>t, <1>8, <2>2 DEF ReproduceNext, TypeOK
    <3> QED
      BY <1>0, <3>1
  <2> QED
    BY <2>1, <2>2
<1>9. ASSUME (\E h \in Refs : Push(h)) \/ UNCHANGED vars PROVE PinsInv(q)'
  BY <1>0, <1>9 DEF Push, vars
<1> QED
  BY <1>1, <1>2, <1>3, <1>4, <1>5, <1>6, <1>7, <1>8, <1>9
     DEF Next, Work, VisitRefused, Fails, Crash, Ended

\* An install without --force keeps every pin of the lock it started from (venv.rs,
\* install_dfs, the collision check).
THEOREM UnforcedInstallKeepsPins == Spec => []UnforcedKeepsPins
<1>1. Init => KInv
  BY DEF Init, KInv, PinsInv, Copying, Locked, NoLock
<1>2. IInv /\ KInv /\ [Next]_vars => KInv'
  BY StepKeepsKInv
<1>3. KInv => UnforcedKeepsPins
  BY DEF KInv, PinsInv, UnforcedKeepsPins
<1> QED
  BY <1>1, <1>2, <1>3, IInvHolds, PTL DEF Spec

-----------------------------------------------------------------------------
(* A package its dependents name by one spec is met again at the same commit  *)

\* The spec of the source's dependency i, and what a run with this memo takes a spec for.
SpecOf(p, s, i) == p[s].deps[i].spec
Means(m, spec, s) == IF spec \in Refs THEN m[spec] = s ELSE spec = s

\* Is the source where one of the dependencies of that name says?
AtDeclared(p, m, n, s) ==
    \E t \in Sources : \E i \in 1 .. Len(p[t].deps) :
        p[t].deps[i].name = n /\ Means(m, SpecOf(p, t, i), s)

Visiting(r) == op[r] \in {"visit"} \cup Copying
Root(r) == NameOf(stack[r][1].src)

\* But for the root, what a run has pinned it took from where a dependency says, and so it
\* did what it has in hand.
TakenInv(r) ==
    /\ Visiting(r) /\ stack[r] = <<>> => lock[r] = base[r]
    /\ Visiting(r) /\ stack[r] # <<>> => cur[r].exp # None /\ AtDeclared(pkg, memo[r], cur[r].exp, cur[r].src)
    /\ stack[r] # <<>> =>
           \A n \in Names \ {Root(r)} :
               base[r][n] = None /\ lock[r][n] # None => AtDeclared(pkg, memo[r], n, lock[r][n])

DInv == \A r \in Runs : mode[r] # "reproduce" => TakenInv(r)

\* A spec once resolved keeps its meaning for the rest of the run.
LEMMA MeansStays ==
    ASSUME NEW p, NEW m, NEW m2, NEW n, NEW s \in Sources, AtDeclared(p, m, n, s),
           \A h \in Refs : m[h] # None => m2[h] = m[h]
    PROVE  AtDeclared(p, m2, n, s)
BY NoneIsNothing DEF AtDeclared, Means

LEMMA MemoStays ==
    ASSUME TypeOK, NEW r \in Runs, NEW spec \in Sources \cup Refs, memo' = Memoised(r, spec)
    PROVE  /\ \A h \in Refs : memo[r][h] # None => memo'[r][h] = memo[r][h]
           /\ Means(memo'[r], spec, Resolved(r, spec))
           /\ \A q \in Runs \ {r} : memo'[q] = memo[q]
BY CatalogsAssumption DEF TypeOK, Memos, Memoised, Resolved, Resolve, Means

\* A step that leaves alone what the run has pinned, and keeps what it has in hand.
LEMMA TakenStays ==
    ASSUME TypeOK, NEW r \in Runs, TakenInv(r), PlaceInv(r), pkg' = pkg,
           lock'[r] = lock[r], base'[r] = base[r], stack'[r] = stack[r], memo'[r] = memo[r],
           Visiting(r)' => Visiting(r) /\ cur'[r] = cur[r]
    PROVE  TakenInv(r)'
BY DEF TakenInv, Root, NameOf

\* The package copied is pinned where it was found; the root is the one on an empty stack.
LEMMA TakenCopied ==
    ASSUME IInv, NEW r \in Runs, TakenInv(r), CopyCode(r), mode[r] # "reproduce"
    PROVE  TakenInv(r)'
<1> DEFINE f == [src |-> cur[r].src, next |-> 1]
           L == Len(stack[r])
<1>1. /\ TypeOK /\ RunInv(r) /\ op[r] = "code" /\ cur[r].src \in Sources /\ Name(r) \in Names
      /\ cur[r].exp \in {None, Name(r)}
  <2>1. TypeOK /\ RunInv(r) /\ op[r] = "code" /\ cur[r].src \in Sources /\ cur[r].exp \in {None, Name(r)}
    BY DEF IInv, CopyCode, Goto, Copying, RunInv, PlaceInv
  <2> QED
    BY <2>1, PkgType DEF Name
<1>2. /\ pkg' = pkg /\ base' = base /\ memo' = memo /\ op'[r] = "next"
      /\ stack' = [stack EXCEPT ![r] = Append(@, f)]
      /\ lock'[r] = [lock[r] EXCEPT ![Name(r)] = cur[r].src]
  BY <1>1 DEF CopyCode, Goto, TypeOK, world
<1>3. f \in Frame
  BY <1>1 DEF Frame
<1>4. /\ L \in Nat /\ Len(stack'[r]) = L + 1 /\ stack'[r][L + 1] = f
      /\ \A k \in 1 .. L : stack'[r][k] = stack[r][k]
  BY <1>1, <1>2, <1>3, Pushed
<1>5. \A n \in Names : lock'[r][n] = IF n = Name(r) THEN cur[r].src ELSE lock[r][n]
  <2>1. lock[r] \in [Names -> Sources \cup {None}]
    BY <1>1 DEF TypeOK, Locks
  <2> QED
    BY <1>2, <2>1
<1>6. \A s : NameOf(s)' = NameOf(s)
  BY <1>2 DEF NameOf
<1> HIDE DEF L
<1> SUFFICES ASSUME NEW n \in Names, n # Root(r)', base[r][n] = None, lock'[r][n] # None
             PROVE  AtDeclared(pkg, memo[r], n, lock'[r][n])
  BY <1>2 DEF TakenInv, Visiting, Copying
<1>7. CASE stack[r] = <<>>
  <2>1. L = 0
    BY <1>7 DEF L
  <2>2. Root(r)' = Name(r)
    BY <1>4, <1>6, <2>1 DEF Root, Name
  <2>3. lock'[r][n] = base[r][n]
    BY <1>1, <1>5, <1>7, <2>2 DEF TakenInv, Visiting, Copying
  <2> QED
    BY <2>3
<1>8. CASE stack[r] # <<>>
  <2>1. L # 0
    BY <1>1, <1>8 DEF L, TypeOK, Stacks
  <2>2. Root(r)' = Root(r)
    BY <1>4, <1>6, <2>1 DEF Root
  <2>3. CASE n = Name(r)
    BY <1>1, <1>5, <1>8, <2>3 DEF TakenInv, Visiting, Copying
  <2>4. CASE n # Name(r)
    BY <1>5, <1>8, <2>2, <2>4 DEF TakenInv
  <2> QED
    BY <2>3, <2>4
<1> QED
  BY <1>7, <1>8

LEMMA TakenUp ==
    ASSUME IInv, NEW r \in Runs, TakenInv(r), NextDependency(r)
    PROVE  TakenInv(r)'
<1> DEFINE L == Len(stack[r])
           src == Top(r).src
           dep == DepsOf(src)[Top(r).next]
<1>1. TypeOK /\ RunInv(r) /\ op[r] = "next" /\ stack[r] # <<>>
  BY DEF IInv, NextDependency, Goto, RunInv, PlaceInv
<1>2. L \in Nat \ {0} /\ Top(r) = stack[r][L] /\ Top(r) \in Frame
  BY <1>1, TopType
<1>3. src \in Sources /\ Top(r).next \in 1 .. Len(DepsOf(src))
  BY <1>1, <1>2, PkgType DEF NextDependency, Frame
<1>4. /\ lock' = lock /\ pkg' = pkg /\ base' = base /\ memo' = Memoised(r, dep.spec)
      /\ cur' = [cur EXCEPT ![r] = [src |-> Resolved(r, dep.spec), exp |-> dep.name]]
      /\ stack' = [stack EXCEPT ![r][Len(stack[r])].next = @ + 1]
  BY DEF NextDependency, world
<1>5. dep \in Dependencies
  BY <1>1, <1>3, PkgType
<1>6. dep.name \in Names /\ dep.spec \in Sources \cup Refs
  BY <1>5 DEF Dependencies
<1>7. /\ \A h \in Refs : memo[r][h] # None => memo'[r][h] = memo[r][h]
      /\ Means(memo'[r], dep.spec, Resolved(r, dep.spec))
  BY <1>1, <1>4, <1>6, MemoStays
<1>8. /\ Len(stack'[r]) = L /\ stack'[r][1].src = stack[r][1].src
  <2>1. 1 \in 1 .. L
    BY <1>2
  <2> QED
    BY <1>1, <1>4, <2>1, Advanced
<1>9. Root(r)' = Root(r)
  BY <1>4, <1>8 DEF Root, NameOf
<1>10. stack'[r] # <<>>
  BY <1>2, <1>8
<1>11. cur'[r].exp # None /\ AtDeclared(pkg, memo'[r], cur'[r].exp, cur'[r].src)
  <2>1. cur'[r].exp = dep.name /\ cur'[r].src = Resolved(r, dep.spec)
    BY <1>1, <1>4 DEF TypeOK
  <2>2. dep = pkg[src].deps[Top(r).next] /\ DepsOf(src) = pkg[src].deps
    BY DEF DepsOf
  <2> HIDE DEF dep, src
  <2>3. AtDeclared(pkg, memo'[r], dep.name, Resolved(r, dep.spec))
    BY <1>3, <1>7, <2>2 DEF AtDeclared, SpecOf
  <2> QED
    BY <1>6, <2>1, <2>3, NoneIsNothing
<1>12. ASSUME NEW n \in Names \ {Root(r)}, base[r][n] = None, lock[r][n] # None
       PROVE  AtDeclared(pkg, memo'[r], n, lock[r][n])
  <2>1. lock[r][n] \in Sources
    BY <1>1, <1>12 DEF TypeOK, Locks
  <2>2. AtDeclared(pkg, memo[r], n, lock[r][n])
    BY <1>1, <1>12 DEF TakenInv
  <2> QED
    BY <1>7, <2>1, <2>2, MeansStays
<1> HIDE DEF L, src, dep
<1> QED
  BY <1>4, <1>9, <1>10, <1>11, <1>12 DEF TakenInv

LEMMA TakenFinished ==
    ASSUME IInv, NEW r \in Runs, TakenInv(r), FinishPackage(r)
    PROVE  TakenInv(r)'
<1> DEFINE L == Len(stack[r])
<1>1. TypeOK /\ RunInv(r) /\ op[r] = "next" /\ stack[r] # <<>>
  BY DEF IInv, FinishPackage, Goto, RunInv, PlaceInv
<1>2. L \in Nat \ {0}
  BY <1>1, TopType
<1>3. /\ op'[r] \in {"truncate", "next"} /\ base' = base /\ lock' = lock /\ pkg' = pkg /\ memo' = memo
      /\ stack' = [stack EXCEPT ![r] = SubSeq(@, 1, Len(@) - 1)]
  BY <1>1 DEF FinishPackage, Goto, TypeOK, world
<1>4. /\ stack'[r] \in Seq(Frame) /\ Len(stack'[r]) = L - 1
      /\ \A k \in 1 .. L - 1 : stack'[r][k] = stack[r][k]
  BY <1>1, <1>3, Popped DEF Stacks
<1> HIDE DEF L
<1>5. stack'[r] # <<>> => Root(r)' = Root(r)
  <2> SUFFICES ASSUME stack'[r] # <<>> PROVE Root(r)' = Root(r)
    OBVIOUS
  <2>1. Len(stack'[r]) # 0
    BY <1>4, EmptySeq
  <2>2. 1 \in 1 .. L - 1
    BY <1>2, <1>4, <2>1
  <2> QED
    BY <1>3, <1>4, <2>2 DEF Root, NameOf
<1> QED
  BY <1>1, <1>3, <1>5 DEF TakenInv, Visiting, Copying

LEMMA StepKeepsDInv == IInv /\ DInv /\ [Next]_vars => DInv'
<1> SUFFICES ASSUME IInv, DInv, [Next]_vars, NEW q \in Runs, mode'[q] # "reproduce" PROVE TakenInv(q)'
  BY DEF DInv
<1>t. TypeOK /\ RunInv(q) /\ PlaceInv(q) /\ (mode[q] # "reproduce" => TakenInv(q))
  BY DEF IInv, DInv, RunInv
<1> USE DEF Goto, world
<1>0. ASSUME op'[q] = op[q], mode'[q] = mode[q], lock'[q] = lock[q], base'[q] = base[q],
             cur'[q] = cur[q], stack'[q] = stack[q], memo'[q] = memo[q], pkg' = pkg
      PROVE  TakenInv(q)'
  BY <1>t, <1>0, TakenStays DEF Visiting
<1>1. ASSUME NEW r \in Runs, StartInstall(r) PROVE TakenInv(q)'
  <2>1. CASE q = r
    <3>1. lock'[q] = lockfile /\ base'[q] = lockfile /\ stack'[q] = <<>>
      BY <1>t, <1>1, <2>1 DEF StartInstall, MayStart, TypeOK, PlaceInv
    <3> QED
      BY <3>1 DEF TakenInv
  <2>2. CASE q # r
    <3>1. PICK spec \in Sources \cup Refs : memo' = Memoised(r, spec)
      BY <1>1 DEF StartInstall
    <3>2. memo'[q] = memo[q]
      BY <1>t, <2>2, <3>1, MemoStays
    <3> QED
      BY <1>t, <1>0, <1>1, <2>2, <3>2 DEF StartInstall, TypeOK
  <2> QED
    BY <2>1, <2>2
<1>2. ASSUME NEW r \in Runs, StartReproduce(r) PROVE TakenInv(q)'
  <2>1. q # r
    BY <1>t, <1>2 DEF StartReproduce, TypeOK
  <2> QED
    BY <1>t, <1>0, <1>2, <2>1 DEF StartReproduce, TypeOK
<1>3. ASSUME NEW r \in Runs, NEW how \in Ended, Stops(r, how) PROVE TakenInv(q)'
  <2>1. CASE q = r
    <3>1. op'[q] \in Ended /\ stack'[q] = <<>>
      BY <1>t, <1>3, <2>1 DEF Stops, TypeOK
    <3> QED
      BY <3>1 DEF TakenInv, Visiting, Copying, Ended
  <2>2. CASE q # r
    BY <1>t, <1>0, <1>3, <2>2 DEF Stops, TypeOK
  <2> QED
    BY <2>1, <2>2
<1>4. ASSUME NEW r \in Runs, CopyCode(r) PROVE TakenInv(q)'
  <2>1. CASE q = r
    BY <1>t, <1>4, <2>1, TakenCopied DEF CopyCode
  <2>2. CASE q # r
    BY <1>t, <1>0, <1>4, <2>2 DEF CopyCode, TypeOK
  <2> QED
    BY <2>1, <2>2
<1>5. ASSUME NEW r \in Runs, NextDependency(r) PROVE TakenInv(q)'
  <2>1. CASE q = r
    BY <1>t, <1>5, <2>1, TakenUp DEF NextDependency
  <2>2. CASE q # r
    <3>1. memo'[q] = memo[q]
      BY <1>t, <1>5, <2>2 DEF NextDependency, Memoised, TypeOK
    <3> QED
      BY <1>t, <1>0, <1>5, <2>2, <3>1 DEF NextDependency, TypeOK
  <2> QED
    BY <2>1, <2>2
<1>6. ASSUME NEW r \in Runs, FinishPackage(r) PROVE TakenInv(q)'
  <2>1. CASE q = r
    BY <1>t, <1>6, <2>1, TakenFinished DEF FinishPackage
  <2>2. CASE q # r
    BY <1>t, <1>0, <1>6, <2>2 DEF FinishPackage, TypeOK
  <2> QED
    BY <2>1, <2>2
<1>7. ASSUME NEW r \in Runs,
             \/ StartRefused(r) \/ VisitDone(r) \/ VisitNew(r) \/ CopyClear(r) \/ CopyManifest(r)
             \/ TruncateLock(r) \/ WriteLock(r) \/ ReproduceEnds(r)
      PROVE  TakenInv(q)'
  <2>1. /\ lock' = lock /\ base' = base /\ mode' = mode /\ pkg' = pkg /\ stack' = stack
        /\ memo' = memo /\ cur' = cur
    BY <1>7 DEF StartRefused, VisitDone, VisitNew, CopyClear, CopyManifest, TruncateLock,
       WriteLock, ReproduceEnds
  <2>2. Visiting(q)' => Visiting(q)
    BY <1>t, <1>7 DEF TypeOK, StartRefused, VisitDone, VisitNew, CopyClear, CopyManifest,
       TruncateLock, WriteLock, ReproduceEnds, Visiting, Copying
  <2> QED
    BY <1>t, <2>1, <2>2, TakenStays
<1>8. ASSUME NEW r \in Runs, ReproduceNext(r) PROVE TakenInv(q)'
  <2>1. q # r
    BY <1>t, <1>8 DEF ReproduceNext, PlaceInv
  <2> QED
    BY <1>t, <1>0, <1>8, <2>1 DEF ReproduceNext, TypeOK
<1>9. ASSUME (\E h \in Refs : Push(h)) \/ UNCHANGED vars PROVE TakenInv(q)'
  BY <1>0, <1>9 DEF Push, vars
<1> QED
  BY <1>1, <1>2, <1>3, <1>4, <1>5, <1>6, <1>7, <1>8, <1>9
     DEF Next, Work, VisitRefused, Fails, Crash, Ended

\* A diamond that all dependents name by one spec is no collision for the run that pinned
\* it, whatever is pushed between its edges (venv.rs, install_dfs, clone_git_package and
\* git_memo).
THEOREM DiamondsNeverCollide == Spec => []DiamondsAgree
<1>1. Init => DInv
  BY DEF Init, DInv, TakenInv, Visiting, Copying
<1>2. IInv /\ DInv /\ [Next]_vars => DInv'
  BY StepKeepsDInv
<1>3. IInv /\ DInv => DiamondsAgree
  <2> SUFFICES ASSUME IInv, DInv, NEW r \in Runs,
                      op[r] = "visit", mode[r] = "install", cur[r].exp = Name(r), OneSpec(Name(r)),
                      Name(r) \notin OnStack(r), base[r][Name(r)] = None,
                      lock[r][Name(r)] # None
               PROVE  lock[r][Name(r)] = cur[r].src
    BY DEF DiamondsAgree, Collides
  <2>1. TypeOK /\ TakenInv(r) /\ cur[r].src \in Sources /\ Visiting(r)
    BY DEF IInv, DInv, RunInv, PlaceInv, Visiting
  <2>2. Name(r) \in Names
    BY <2>1, PkgType DEF Name
  <2>3. stack[r] # <<>>
    BY <2>1 DEF TakenInv
  <2>4. Name(r) # Root(r)
    <3>1. Len(stack[r]) \in Nat \ {0}
      BY <2>1, <2>3, TopType
    <3> QED
      BY <3>1 DEF OnStack, Root
  <2>5. AtDeclared(pkg, memo[r], Name(r), lock[r][Name(r)]) /\ AtDeclared(pkg, memo[r], Name(r), cur[r].src)
    BY <2>1, <2>2, <2>3, <2>4 DEF TakenInv
  <2> QED
    BY <2>5 DEF AtDeclared, SpecOf, Means, OneSpec, DepsOf
<1> QED
  BY <1>1, <1>2, <1>3, IInvHolds, PTL DEF Spec

-----------------------------------------------------------------------------
(* The lock has no cycle                                                    *)

\* Every set of packages of D holds one that depends on none of the set.
Acyclic(l, D) ==
    \A S \in SUBSET D : S # {} => \E n \in S : DependsOn(l, n) \cap S = {}

\* A dependency a frame has passed is installed, or it is the one in hand.
PassedInv(r) ==
    \A k \in 1 .. Len(stack[r]) : \A j \in 1 .. Len(DepsOf(stack[r][k].src)) :
        j < stack[r][k].next =>
            \/ DepName(stack[r][k].src, j) \in done[r]
            \/ k < Len(stack[r]) /\ DepName(stack[r][k].src, j) = NameOf(stack[r][k + 1].src)
            \/ /\ k = Len(stack[r]) /\ op[r] \in {"visit"} \cup Copying
               /\ cur[r].exp = DepName(stack[r][k].src, j)

\* What this run has installed is closed under dependencies and without cycles; what it has
\* not reached is pinned as it was in the lock it started from, which had no cycle.
OrderInv(r) ==
    /\ done[r] \cap OnStack(r) = {}
    /\ op[r] \in Copying => Name(r) \notin done[r]
    /\ Acyclic(base[r], Locked(base[r]))
    /\ \A n \in Names \ (done[r] \cup OnStack(r)) : lock[r][n] = base[r][n]
    /\ Acyclic(lock[r], done[r])
    /\ \A n \in done[r] : DependsOn(lock[r], n) \subseteq done[r]
    /\ PassedInv(r)

Installs(r) == mode[r] # "reproduce" /\ op[r] \notin Ended \cup {"idle"}

AInv == text = "whole" => LockAcyclic /\ \A r \in Runs : Installs(r) => OrderInv(r)

\* A text that is mixed once counts as mixed for good.
LEMMA WholeBefore == [Next]_vars /\ text' = "whole" => text = "whole"
<1> SUFFICES ASSUME [Next]_vars, text' = "whole" PROVE text = "whole"
  OBVIOUS
<1>1. ASSUME NEW r \in Runs, TruncateLock(r) \/ WriteLock(r) PROVE text = "whole"
  BY <1>1 DEF TruncateLock, WriteLock, Readable
<1>2. text' = text \/ \E r \in Runs : TruncateLock(r) \/ WriteLock(r)
  BY DEF Next, Work, StartInstall, StartReproduce, StartRefused, VisitRefused, VisitDone, VisitNew,
     CopyClear, CopyManifest, CopyCode, NextDependency, FinishPackage, ReproduceNext, ReproduceEnds,
     Fails, Crash, Stops, Push, vars, files, locking
<1> QED
  BY <1>1, <1>2

LEMMA DependsType ==
    ASSUME TypeOK, NEW s \in Sources, NEW l, NEW n, l[n] = s
    PROVE  DependsOn(l, n) = {DepName(s, j) : j \in 1 .. Len(DepsOf(s))}
BY DEF DependsOn, DepName

\* The lock a run is about to write.
LEMMA EndsAcyclic ==
    ASSUME TypeOK, NEW r \in Runs, RunInv(r), OrderInv(r), stack[r] = <<>>
    PROVE  Acyclic(lock[r], Locked(lock[r]))
<1> SUFFICES ASSUME NEW S \in SUBSET Locked(lock[r]), S # {}
             PROVE  \E n \in S : DependsOn(lock[r], n) \cap S = {}
  BY DEF Acyclic
<1>1. CASE S \cap done[r] # {}
  <2>1. PICK n \in S \cap done[r] : DependsOn(lock[r], n) \cap (S \cap done[r]) = {}
    BY <1>1 DEF OrderInv, Acyclic
  <2>2. DependsOn(lock[r], n) \subseteq done[r]
    BY <2>1 DEF OrderInv
  <2> QED
    BY <2>1, <2>2
<1>2. CASE S \cap done[r] = {}
  <2>1. OnStack(r) = {}
    BY DEF OnStack
  <2>2. \A n \in S : n \in Names /\ lock[r][n] = base[r][n]
    BY <1>2, <2>1 DEF OrderInv, Locked
  <2>3. S \subseteq Locked(base[r])
    BY <2>2 DEF Locked
  <2>4. PICK n \in S : DependsOn(base[r], n) \cap S = {}
    BY <2>3 DEF OrderInv, Acyclic
  <2>5. DependsOn(lock[r], n) = DependsOn(base[r], n)
    BY <2>2 DEF DependsOn
  <2> QED
    BY <2>4, <2>5
<1> QED
  BY <1>1, <1>2

\* A step that leaves the lock set, the stack and what is done alone.
LEMMA OrderStays ==
    ASSUME NEW r \in Runs, OrderInv(r), pkg' = pkg,
           lock'[r] = lock[r], base'[r] = base[r], stack'[r] = stack[r], done'[r] = done[r],
           op'[r] \in Copying => Name(r)' \notin done[r],
           \A k \in 1 .. Len(stack[r]) : \A j \in 1 .. Len(DepsOf(stack[r][k].src)) :
              op[r] \in {"visit"} \cup Copying /\ k = Len(stack[r]) /\ cur[r].exp = DepName(stack[r][k].src, j)
                 => \/ cur[r].exp \in done[r]
                    \/ op'[r] \in {"visit"} \cup Copying /\ cur'[r].exp = cur[r].exp
    PROVE  OrderInv(r)'
<1>1. \A s : NameOf(s)' = NameOf(s) /\ DepsOf(s)' = DepsOf(s)
  BY DEF NameOf, DepsOf
<1>2. \A s, j : DepName(s, j)' = DepName(s, j)
  BY <1>1 DEF DepName
<1>3. OnStack(r)' = OnStack(r)
  BY <1>1 DEF OnStack
<1>4. \A n : DependsOn(lock[r], n)' = DependsOn(lock[r], n) /\ DependsOn(base[r], n)' = DependsOn(base[r], n)
  BY <1>1 DEF DependsOn
<1>5. Acyclic(base[r], Locked(base[r]))' /\ Acyclic(lock[r], done[r])'
  BY <1>4 DEF OrderInv, Acyclic, Locked
<1>6. PassedInv(r)'
  <2> SUFFICES ASSUME NEW k \in 1 .. Len(stack[r]), NEW j \in 1 .. Len(DepsOf(stack[r][k].src)),
                      j < stack[r][k].next
               PROVE  \/ DepName(stack[r][k].src, j) \in done[r]
                      \/ k < Len(stack[r]) /\ DepName(stack[r][k].src, j) = NameOf(stack[r][k + 1].src)
                      \/ /\ k = Len(stack[r]) /\ op'[r] \in {"visit"} \cup Copying
                         /\ cur'[r].exp = DepName(stack[r][k].src, j)
    BY <1>1, <1>2 DEF PassedInv
  <2>1. \/ DepName(stack[r][k].src, j) \in done[r]
        \/ k < Len(stack[r]) /\ DepName(stack[r][k].src, j) = NameOf(stack[r][k + 1].src)
        \/ /\ k = Len(stack[r]) /\ op[r] \in {"visit"} \cup Copying
           /\ cur[r].exp = DepName(stack[r][k].src, j)
    BY DEF OrderInv, PassedInv
  <2> QED
    BY <2>1
<1>7. \A n \in done[r] : DependsOn(lock[r], n)' \subseteq done[r]
  BY <1>4 DEF OrderInv
<1> QED
  BY <1>3, <1>4, <1>5, <1>6, <1>7 DEF OrderInv, Copying

LEMMA OrderStarts ==
    ASSUME IInv, AInv, text = "whole", NEW r \in Runs, StartInstall(r)
    PROVE  OrderInv(r)'
<1>1. /\ lock'[r] = lockfile /\ base'[r] = lockfile /\ stack' = stack /\ done' = done
      /\ op'[r] = "visit" /\ pkg' = pkg /\ op[r] = "idle"
  BY DEF IInv, TypeOK, StartInstall, MayStart, world
<1>2. stack'[r] = <<>> /\ done'[r] = {}
  BY <1>1 DEF IInv, RunInv, PlaceInv
<1>3. OnStack(r)' = {} /\ PassedInv(r)'
  BY <1>2 DEF OnStack, PassedInv
<1>4. \A n : DependsOn(lockfile, n)' = DependsOn(lockfile', n)
  BY <1>1 DEF DependsOn, DepsOf
<1>5. Acyclic(base[r], Locked(base[r]))'
  <2>1. Acyclic(lockfile, Locked(lockfile))
    BY DEF AInv, LockAcyclic, Acyclic
  <2>2. Acyclic(base'[r], Locked(base'[r]))
    BY <1>1, <2>1
  <2>3. \A n : DependsOn(base[r], n)' = DependsOn(base'[r], n)
    BY <1>1 DEF DependsOn, DepsOf
  <2>4. Locked(base[r])' = Locked(base'[r])
    BY DEF Locked
  <2> QED
    BY <2>2, <2>3, <2>4 DEF Acyclic
<1>6. Acyclic(lock[r], done[r])'
  BY <1>2 DEF Acyclic
<1> QED
  BY <1>1, <1>2, <1>3, <1>5, <1>6 DEF OrderInv, Copying

\* The package just copied opens a frame: nothing that is done depends on its pin.
LEMMA OrderCopies ==
    ASSUME IInv, NEW r \in Runs, OrderInv(r), CopyCode(r), mode[r] # "reproduce"
    PROVE  OrderInv(r)'
<1> DEFINE f == [src |-> cur[r].src, next |-> 1]
           L == Len(stack[r])
<1>1. TypeOK /\ RunInv(r) /\ op[r] = "code" /\ cur[r].src \in Sources /\ Name(r) \in Names
  <2>1. TypeOK /\ RunInv(r) /\ op[r] = "code" /\ cur[r].src \in Sources
    BY DEF IInv, CopyCode, Goto, Copying, RunInv, PlaceInv
  <2> QED
    BY <2>1, PkgType DEF Name
<1>2. /\ pkg' = pkg /\ base' = base /\ cur' = cur
      /\ op'[r] = "next" /\ done' = done /\ stack' = [stack EXCEPT ![r] = Append(@, f)]
      /\ lock'[r] = [lock[r] EXCEPT ![Name(r)] = cur[r].src]
  BY <1>1 DEF CopyCode, Goto, TypeOK, world
<1>3. f \in Frame
  BY <1>1 DEF Frame
<1>4. /\ L \in Nat /\ Len(stack'[r]) = L + 1 /\ stack'[r][L + 1] = f
      /\ \A k \in 1 .. L : stack'[r][k] = stack[r][k]
  BY <1>1, <1>2, <1>3, Pushed
<1>5. \A n \in Names : n # Name(r) => lock'[r][n] = lock[r][n]
  <2>1. lock[r] \in [Names -> Sources \cup {None}]
    BY <1>1 DEF TypeOK, Locks
  <2> QED
    BY <1>2, <2>1
<1>6. /\ Name(r) \notin OnStack(r) /\ cur[r].exp \in {None, Name(r)}
      /\ Name(r) \notin done[r] /\ done[r] \subseteq Names
  BY <1>1 DEF RunInv, PlaceInv, Copying, OrderInv, TypeOK
<1>7. \A s : NameOf(s)' = NameOf(s) /\ DepsOf(s)' = DepsOf(s)
  BY <1>2 DEF NameOf, DepsOf
<1>8. \A s, j : DepName(s, j)' = DepName(s, j)
  BY <1>7 DEF DepName
<1>9. OnStack(r)' = OnStack(r) \cup {Name(r)}
  <2> HIDE DEF L, f
  <2>1. OnStack(r)' = {NameOf(stack'[r][k].src) : k \in 1 .. L + 1}
    BY <1>4, <1>7 DEF OnStack
  <2>2. 1 .. L + 1 = (1 .. L) \cup {L + 1}
    BY <1>4
  <2>3. NameOf(f.src) = Name(r)
    BY DEF f, Name
  <2>4. OnStack(r) = {NameOf(stack[r][k].src) : k \in 1 .. L}
    BY DEF OnStack, L
  <2> QED
    BY <1>4, <2>1, <2>2, <2>3, <2>4
<1>10. \A n \in done[r] : DependsOn(lock[r], n)' = DependsOn(lock[r], n)
  BY <1>5, <1>6, <1>7 DEF DependsOn
<1>11. Acyclic(lock[r], done[r])'
  BY <1>2, <1>10 DEF OrderInv, Acyclic
<1>12. Acyclic(base[r], Locked(base[r]))'
  <2>1. \A n : DependsOn(base[r], n)' = DependsOn(base[r], n)
    BY <1>2, <1>7 DEF DependsOn
  <2> QED
    BY <1>2, <2>1 DEF OrderInv, Acyclic, Locked
<1>13. PassedInv(r)'
  <2> HIDE DEF L, f
  <2> SUFFICES ASSUME NEW k \in 1 .. L + 1, NEW j \in 1 .. Len(DepsOf(stack'[r][k].src)),
                      j < stack'[r][k].next
               PROVE  \/ DepName(stack'[r][k].src, j) \in done[r]
                      \/ k < L + 1 /\ DepName(stack'[r][k].src, j) = NameOf(stack'[r][k + 1].src)
    BY <1>2, <1>4, <1>7, <1>8 DEF PassedInv
  <2>1. CASE k = L + 1
    BY <1>4, <2>1 DEF f
  <2>2. CASE k \in 1 .. L
    <3>1. stack[r][k] \in Frame
      BY <1>1, <2>2, FrameType DEF L
    <3>2. DepName(stack[r][k].src, j) \in Names
      BY <1>1, <1>4, <2>2, <3>1, PkgType DEF Frame
    <3>3. \/ DepName(stack[r][k].src, j) \in done[r]
          \/ k < L /\ DepName(stack[r][k].src, j) = NameOf(stack[r][k + 1].src)
          \/ k = L /\ cur[r].exp = DepName(stack[r][k].src, j)
      BY <1>4, <2>2 DEF OrderInv, PassedInv, L
    <3>4. k = L /\ cur[r].exp = DepName(stack[r][k].src, j) => DepName(stack[r][k].src, j) = NameOf(stack'[r][k + 1].src)
      BY <1>4, <1>6, <3>2, NoneIsNothing DEF Name, f
    <3>5. k < L => k + 1 \in 1 .. L
      BY <1>4, <2>2
    <3> QED
      BY <1>4, <2>2, <3>3, <3>4, <3>5
  <2>3. k \in 1 .. L \/ k = L + 1
    BY <1>4
  <2> QED
    BY <2>1, <2>2, <2>3
<1> QED
  BY <1>2, <1>5, <1>6, <1>9, <1>10, <1>11, <1>12, <1>13 DEF OrderInv, Copying

LEMMA OrderTakesUp ==
    ASSUME IInv, NEW r \in Runs, OrderInv(r), NextDependency(r)
    PROVE  OrderInv(r)'
<1> DEFINE L == Len(stack[r])
           dep == DepsOf(Top(r).src)[Top(r).next]
<1>1. TypeOK /\ RunInv(r) /\ op[r] = "next" /\ stack[r] # <<>>
  BY DEF IInv, NextDependency, Goto, RunInv, PlaceInv
<1>2. L \in Nat \ {0} /\ Top(r) = stack[r][L] /\ Top(r) \in Frame
  BY <1>1, TopType
<1>3. /\ op'[r] = "visit" /\ lock' = lock /\ done' = done /\ pkg' = pkg /\ base' = base
      /\ cur'[r].exp = dep.name
      /\ stack' = [stack EXCEPT ![r][Len(stack[r])].next = @ + 1]
  BY <1>1, <1>2 DEF NextDependency, Goto, TypeOK, world
<1>4. dep.name = DepName(Top(r).src, Top(r).next)
  BY DEF DepName
<1>5. /\ Len(stack'[r]) = L
      /\ \A k \in 1 .. L :
            /\ stack'[r][k].src = stack[r][k].src
            /\ stack'[r][k].next = IF k = L THEN stack[r][k].next + 1 ELSE stack[r][k].next
  BY <1>1, <1>3, Advanced
<1>6. \A s : NameOf(s)' = NameOf(s) /\ DepsOf(s)' = DepsOf(s)
  BY <1>3 DEF NameOf, DepsOf
<1>7. \A s, j : DepName(s, j)' = DepName(s, j)
  BY <1>6 DEF DepName
<1> HIDE DEF L, dep
<1>8. OnStack(r)' = OnStack(r)
  BY <1>5, <1>6 DEF OnStack, L
<1>9. \A l, n : DependsOn(lock[r], n)' = DependsOn(lock[r], n) /\ DependsOn(base[r], n)' = DependsOn(base[r], n)
  BY <1>3, <1>6 DEF DependsOn
<1>10. Acyclic(base[r], Locked(base[r]))' /\ Acyclic(lock[r], done[r])'
  BY <1>3, <1>9 DEF OrderInv, Acyclic, Locked
<1>11. PassedInv(r)'
  <2> SUFFICES ASSUME NEW k \in 1 .. L, NEW j \in 1 .. Len(DepsOf(stack[r][k].src)),
                      j < stack'[r][k].next
               PROVE  \/ DepName(stack[r][k].src, j) \in done[r]
                      \/ k < L /\ DepName(stack[r][k].src, j) = NameOf(stack[r][k + 1].src)
                      \/ k = L /\ cur'[r].exp = DepName(stack[r][k].src, j)
    <3>1. \A k \in 1 .. L : k < L => k + 1 \in 1 .. L
      BY <1>2
    <3>2. Len(stack'[r]) = L /\ \A k \in 1 .. L : stack'[r][k].src = stack[r][k].src
      BY <1>5
    <3> HIDE DEF L
    <3> QED
      BY <1>3, <1>6, <1>7, <3>1, <3>2 DEF PassedInv
  <2>1. j < stack[r][k].next =>
            \/ DepName(stack[r][k].src, j) \in done[r]
            \/ k < L /\ DepName(stack[r][k].src, j) = NameOf(stack[r][k + 1].src)
    BY <1>1 DEF OrderInv, PassedInv, L, Copying
  <2>2. CASE j < stack[r][k].next
    BY <2>1, <2>2
  <2>3. CASE ~(j < stack[r][k].next)
    <3>1. stack[r][k] \in Frame
      BY <1>1, FrameType DEF L
    <3>2. Len(DepsOf(stack[r][k].src)) \in Nat /\ stack[r][k].next \in Nat
      BY <1>1, <3>1, PkgType DEF Frame
    <3>3. k = L /\ j = stack[r][k].next
      BY <1>5, <2>3, <3>2
    <3> QED
      BY <1>2, <1>3, <1>4, <3>3
  <2> QED
    BY <2>2, <2>3
<1> QED
  BY <1>3, <1>8, <1>9, <1>10, <1>11 DEF OrderInv, Copying

\* A package that leaves the stack depends on packages that are done and is none of them.
LEMMA OrderFinishes ==
    ASSUME IInv, NEW r \in Runs, OrderInv(r), FinishPackage(r)
    PROVE  OrderInv(r)'
<1> DEFINE L == Len(stack[r])
           top == NameOf(Top(r).src)
<1>1. TypeOK /\ RunInv(r) /\ Distinct(r) /\ op[r] = "next" /\ stack[r] # <<>>
  BY DEF IInv, StackDistinct, Distinct, FinishPackage, Goto, RunInv, PlaceInv
<1>2. L \in Nat \ {0} /\ Top(r) = stack[r][L] /\ Top(r) \in Frame
  BY <1>1, TopType
<1>3. /\ op'[r] \in {"truncate", "next"} /\ base' = base
      /\ lock' = lock /\ done'[r] = done[r] \cup {top} /\ pkg' = pkg
      /\ Top(r).next > Len(DepsOf(Top(r).src))
      /\ stack' = [stack EXCEPT ![r] = SubSeq(@, 1, Len(@) - 1)]
  BY <1>1, <1>2 DEF FinishPackage, Goto, TypeOK, world
<1>4. /\ Len(stack'[r]) = L - 1
      /\ \A k \in 1 .. L - 1 : stack'[r][k] = stack[r][k]
  BY <1>1, <1>3, Popped
<1>5. \A s : NameOf(s)' = NameOf(s) /\ DepsOf(s)' = DepsOf(s)
  BY <1>3 DEF NameOf, DepsOf
<1>6. \A s, j : DepName(s, j)' = DepName(s, j)
  BY <1>5 DEF DepName
<1> HIDE DEF L
<1>7. OnStack(r)' = OnStack(r) \ {top} /\ top \in OnStack(r)
  <2>1. OnStack(r)' = {NameOf(stack'[r][k].src) : k \in 1 .. L - 1}
    BY <1>4, <1>5 DEF OnStack
  <2>2. OnStack(r) = {NameOf(stack[r][k].src) : k \in 1 .. L}
    BY DEF OnStack, L
  <2>3. 1 .. L = (1 .. L - 1) \cup {L} /\ L \notin 1 .. L - 1
    BY <1>2
  <2>4. \A i \in 1 .. L - 1 : NameOf(stack[r][i].src) # NameOf(stack[r][L].src)
    BY <1>1, <2>3 DEF Distinct, L
  <2> QED
    BY <1>2, <1>4, <2>1, <2>2, <2>3, <2>4
<1>8. top \notin done[r]
  BY <1>7 DEF OrderInv
<1>9. Top(r).src \in Sources /\ lock[r][top] = Top(r).src
  BY <1>1, <1>2 DEF RunInv, FramesInv, Frame, L
<1>10. DependsOn(lock[r], top) \subseteq done[r]
  <2>1. Top(r).next \in Nat /\ Len(DepsOf(Top(r).src)) \in Nat
    BY <1>1, <1>2, <1>9, PkgType DEF Frame
  <2>2. \A j \in 1 .. Len(DepsOf(Top(r).src)) : j < stack[r][L].next
    BY <1>2, <1>3, <2>1
  <2>3. L \in 1 .. L /\ op[r] \notin {"visit"} \cup Copying
    BY <1>1, <1>2 DEF Copying
  <2>4. \A j \in 1 .. Len(DepsOf(stack[r][L].src)) :
           j < stack[r][L].next => DepName(stack[r][L].src, j) \in done[r]
    BY <1>2, <2>3 DEF OrderInv, PassedInv, L
  <2>5. \A j \in 1 .. Len(DepsOf(Top(r).src)) : DepName(Top(r).src, j) \in done[r]
    BY <1>2, <2>2, <2>4
  <2> QED
    BY <1>9, <2>5 DEF DependsOn, DepName
<1> HIDE DEF top
<1>11. \A n : DependsOn(lock[r], n)' = DependsOn(lock[r], n) /\ DependsOn(base[r], n)' = DependsOn(base[r], n)
  BY <1>3, <1>5 DEF DependsOn
<1>12. \A n \in done'[r] : DependsOn(lock[r], n)' \subseteq done'[r]
  BY <1>3, <1>10, <1>11 DEF OrderInv
<1>13. Acyclic(base[r], Locked(base[r]))'
  BY <1>3, <1>11 DEF OrderInv, Acyclic, Locked
<1>14. Acyclic(lock[r], done[r])'
  <2> SUFFICES ASSUME NEW S \in SUBSET (done[r] \cup {top}), S # {}
               PROVE  \E n \in S : DependsOn(lock[r], n) \cap S = {}
    BY <1>3, <1>11 DEF Acyclic
  <2>1. CASE S \ {top} = {}
    BY <1>8, <1>10, <2>1
  <2>2. CASE S \ {top} # {}
    <3>1. PICK n \in S \ {top} : DependsOn(lock[r], n) \cap (S \ {top}) = {}
      <4>1. S \ {top} \in SUBSET done[r]
        OBVIOUS
      <4> QED
        BY <2>2, <4>1 DEF OrderInv, Acyclic
    <3>2. top \notin DependsOn(lock[r], n)
      BY <1>8, <3>1 DEF OrderInv
    <3> QED
      BY <3>1, <3>2
  <2> QED
    BY <2>1, <2>2
<1>15. PassedInv(r)'
  <2> SUFFICES ASSUME NEW k \in 1 .. L - 1, NEW j \in 1 .. Len(DepsOf(stack[r][k].src)),
                      j < stack[r][k].next
               PROVE  \/ DepName(stack[r][k].src, j) \in done'[r]
                      \/ k < L - 1 /\ DepName(stack[r][k].src, j) = NameOf(stack[r][k + 1].src)
    <3>1. \A k \in 1 .. L - 1 : k < L - 1 => k + 1 \in 1 .. L - 1
      BY <1>2
    <3> QED
      BY <1>4, <1>5, <1>6, <3>1 DEF PassedInv
  <2>1. k \in 1 .. L /\ k # L
    BY <1>2
  <2>2. \/ DepName(stack[r][k].src, j) \in done[r]
        \/ k < L /\ DepName(stack[r][k].src, j) = NameOf(stack[r][k + 1].src)
    BY <1>1, <2>1 DEF OrderInv, PassedInv, L
  <2>3. k = L - 1 => NameOf(stack[r][k + 1].src) \in done'[r]
    BY <1>2, <1>3 DEF top
  <2> QED
    BY <1>2, <1>3, <2>1, <2>2, <2>3
<1> QED
  BY <1>3, <1>7, <1>8, <1>12, <1>13, <1>14, <1>15 DEF OrderInv, Copying

LEMMA StepKeepsOrder ==
    ASSUME IInv, AInv, text = "whole", [Next]_vars, NEW q \in Runs, Installs(q)'
    PROVE  OrderInv(q)'
<1>t. TypeOK /\ RunInv(q) /\ PlaceInv(q) /\ (Installs(q) => OrderInv(q))
  BY DEF IInv, AInv, RunInv
<1> USE DEF Goto, world, files, locking
<1>0. ASSUME op'[q] = op[q], mode'[q] = mode[q], lock'[q] = lock[q], base'[q] = base[q],
             cur'[q] = cur[q], stack'[q] = stack[q], done'[q] = done[q], pkg' = pkg
      PROVE  OrderInv(q)'
  <2>1. OrderInv(q)
    BY <1>t, <1>0 DEF Installs
  <2>2. op'[q] \in Copying => Name(q)' \notin done[q]
    BY <1>0, <2>1 DEF OrderInv, Name, NameOf
  <2> QED
    BY <1>0, <2>1, <2>2, OrderStays
<1>1. ASSUME NEW r \in Runs, StartInstall(r) PROVE OrderInv(q)'
  <2>1. CASE q = r
    BY <1>1, <2>1, OrderStarts
  <2>2. CASE q # r
    BY <1>t, <1>0, <1>1, <2>2 DEF StartInstall, TypeOK
  <2> QED
    BY <2>1, <2>2
<1>2. ASSUME NEW r \in Runs, StartReproduce(r) PROVE OrderInv(q)'
  <2>1. q # r
    BY <1>t, <1>2 DEF StartReproduce, TypeOK, Installs
  <2> QED
    BY <1>t, <1>0, <1>2, <2>1 DEF StartReproduce, TypeOK
<1>3. ASSUME NEW r \in Runs, NEW how \in Ended, Stops(r, how) PROVE OrderInv(q)'
  <2>1. q # r
    BY <1>t, <1>3 DEF Stops, TypeOK, Installs
  <2> QED
    BY <1>t, <1>0, <1>3, <2>1 DEF Stops, TypeOK
<1>4. ASSUME NEW r \in Runs, CopyCode(r) PROVE OrderInv(q)'
  <2>1. CASE q = r
    BY <1>t, <1>4, <2>1, OrderCopies DEF CopyCode, Installs, Ended
  <2>2. CASE q # r
    BY <1>t, <1>0, <1>4, <2>2 DEF CopyCode, TypeOK
  <2> QED
    BY <2>1, <2>2
<1>5. ASSUME NEW r \in Runs, NextDependency(r) PROVE OrderInv(q)'
  <2>1. CASE q = r
    BY <1>t, <1>5, <2>1, OrderTakesUp DEF NextDependency, Installs, Ended
  <2>2. CASE q # r
    BY <1>t, <1>0, <1>5, <2>2 DEF NextDependency, TypeOK
  <2> QED
    BY <2>1, <2>2
<1>6. ASSUME NEW r \in Runs, FinishPackage(r) PROVE OrderInv(q)'
  <2>1. CASE q = r
    BY <1>t, <1>6, <2>1, OrderFinishes DEF FinishPackage, Installs, Ended
  <2>2. CASE q # r
    BY <1>t, <1>0, <1>6, <2>2 DEF FinishPackage, TypeOK
  <2> QED
    BY <2>1, <2>2
<1>7. ASSUME NEW r \in Runs, VisitDone(r) PROVE OrderInv(q)'
  <2>1. CASE q = r
    <3>1. /\ op[q] = "visit" /\ op'[q] = "next" /\ pkg' = pkg /\ lock' = lock /\ base' = base
          /\ stack' = stack /\ done' = done /\ mode' = mode /\ cur' = cur
          /\ Name(q) \in done[q] /\ cur[q].exp \in {None, Name(q)}
      BY <1>t, <1>7, <2>1 DEF VisitDone, Accepted, Mismatched, TypeOK
    <3>2. OrderInv(q)
      BY <1>t, <3>1 DEF Installs, Ended
    <3>3. ASSUME NEW k \in 1 .. Len(stack[q]), NEW j \in 1 .. Len(DepsOf(stack[q][k].src)),
                 cur[q].exp = DepName(stack[q][k].src, j)
          PROVE  cur[q].exp \in done[q]
      <4>1. cur[q].exp \in Names
        BY <1>t, <3>3, FrameType, PkgType DEF Frame
      <4> QED
        BY <3>1, <4>1, NoneIsNothing
    <3> QED
      BY <3>1, <3>2, <3>3, OrderStays DEF Copying
  <2>2. CASE q # r
    BY <1>t, <1>0, <1>7, <2>2 DEF VisitDone, TypeOK
  <2> QED
    BY <2>1, <2>2
<1>8. ASSUME NEW r \in Runs, VisitNew(r) \/ CopyClear(r) \/ CopyManifest(r) PROVE OrderInv(q)'
  <2>1. CASE q = r
    <3>1. /\ op[q] \in {"visit"} \cup Copying /\ op'[q] \in Copying /\ pkg' = pkg /\ lock' = lock
          /\ base' = base /\ stack' = stack /\ done' = done /\ mode' = mode /\ cur' = cur
          /\ op[q] = "visit" => Name(q) \notin done[q]
      BY <1>t, <1>8, <2>1 DEF VisitNew, CopyClear, CopyManifest, TypeOK, Copying
    <3>2. OrderInv(q)
      BY <1>t, <3>1 DEF Installs, Ended, Copying
    <3>3. Name(q)' = Name(q) /\ Name(q) \notin done[q]
      BY <3>1, <3>2 DEF OrderInv, Name, NameOf
    <3> QED
      BY <3>1, <3>2, <3>3, OrderStays
  <2>2. CASE q # r
    BY <1>t, <1>0, <1>8, <2>2 DEF VisitNew, CopyClear, CopyManifest, TypeOK
  <2> QED
    BY <2>1, <2>2
<1>9. ASSUME NEW r \in Runs, TruncateLock(r) PROVE OrderInv(q)'
  <2>1. CASE q = r
    <3>1. /\ op[q] = "truncate" /\ op'[q] = "write" /\ pkg' = pkg /\ lock' = lock
          /\ base' = base /\ stack' = stack /\ done' = done /\ mode' = mode
      BY <1>t, <1>9, <2>1 DEF TruncateLock, TypeOK
    <3>2. OrderInv(q)
      BY <1>t, <3>1 DEF Installs, Ended
    <3> QED
      BY <3>1, <3>2, OrderStays DEF Copying
  <2>2. CASE q # r
    BY <1>t, <1>0, <1>9, <2>2 DEF TruncateLock, TypeOK
  <2> QED
    BY <2>1, <2>2
<1>10. ASSUME NEW r \in Runs, WriteLock(r) \/ ReproduceNext(r) \/ ReproduceEnds(r)
       PROVE  OrderInv(q)'
  <2>1. q # r
    BY <1>t, <1>10 DEF WriteLock, ReproduceNext, ReproduceEnds, TypeOK, Installs, Ended, PlaceInv
  <2> QED
    BY <1>t, <1>0, <1>10, <2>1 DEF WriteLock, ReproduceNext, ReproduceEnds, TypeOK
<1>11. CASE (\E h \in Refs : Push(h)) \/ UNCHANGED vars
  BY <1>0, <1>11 DEF Push, vars
<1>12. ASSUME NEW r \in Runs, StartRefused(r) PROVE OrderInv(q)'
  <2>1. q # r
    BY <1>t, <1>12 DEF StartRefused, TypeOK, Installs, Ended
  <2> QED
    BY <1>t, <1>0, <1>12, <2>1 DEF StartRefused, TypeOK
<1> QED
  BY <1>1, <1>2, <1>3, <1>4, <1>5, <1>6, <1>7, <1>8, <1>9, <1>10, <1>11, <1>12
     DEF Next, Work, VisitRefused, Fails, Crash, Ended

\* Until two overlapping writes mix their texts pyrst.lock never holds a dependency cycle:
\* every set of locked packages has one that depends on none of the others, whatever
\* --force has replaced (venv.rs, install_dfs and write_lock).
THEOREM LockHasNoCycle == Spec => []LockAcyclic
<1>1. Init => AInv
  BY DEF Init, AInv, LockAcyclic, Locked, NoLock, Installs
<1>2. IInv /\ AInv /\ [Next]_vars => AInv'
  <2> SUFFICES ASSUME IInv, AInv, [Next]_vars, text' = "whole"
               PROVE  LockAcyclic' /\ \A q \in Runs : Installs(q)' => OrderInv(q)'
    BY DEF AInv
  <2>0. text = "whole"
    BY WholeBefore
  <2>1. \A q \in Runs : Installs(q)' => OrderInv(q)'
    BY <2>0, StepKeepsOrder
  <2>2. LockAcyclic'
    <3>1. CASE lockfile' = lockfile
      <4>1. pkg' = pkg
        BY DEF Next, Work, StartInstall, StartReproduce, StartRefused, VisitRefused, VisitDone, VisitNew,
           CopyClear, CopyManifest, CopyCode, NextDependency, FinishPackage, TruncateLock, WriteLock,
           ReproduceNext, ReproduceEnds, Fails, Crash, Stops, Push, vars, world
      <4>2. \A n : DependsOn(lockfile, n)' = DependsOn(lockfile, n)
        BY <3>1, <4>1 DEF DependsOn, DepsOf
      <4> QED
        BY <2>0, <3>1, <4>2 DEF AInv, LockAcyclic, Locked
    <3>2. ASSUME NEW r \in Runs, TruncateLock(r) PROVE LockAcyclic'
      BY <3>2 DEF TruncateLock, LockAcyclic, Locked, NoLock
    <3>3. ASSUME NEW r \in Runs, WriteLock(r) PROVE LockAcyclic'
      <4>1. /\ lockfile' = lock[r] /\ pkg' = pkg /\ op[r] = "write"
            /\ TypeOK /\ RunInv(r) /\ stack[r] = <<>> /\ mode[r] # "reproduce"
        BY <3>3 DEF WriteLock, Goto, world, IInv, RunInv, PlaceInv
      <4>2. OrderInv(r)
        BY <2>0, <4>1 DEF AInv, Installs, Ended
      <4>3. Acyclic(lock[r], Locked(lock[r]))
        BY <4>1, <4>2, EndsAcyclic
      <4>4. \A n : DependsOn(lockfile, n)' = DependsOn(lock[r], n)
        BY <4>1 DEF DependsOn, DepsOf
      <4> QED
        BY <4>1, <4>3, <4>4 DEF LockAcyclic, Acyclic, Locked
    <3>4. \/ lockfile' = lockfile
          \/ \E r \in Runs : TruncateLock(r) \/ WriteLock(r)
      BY DEF Next, Work, StartInstall, StartReproduce, StartRefused, VisitRefused, VisitDone, VisitNew,
         CopyClear, CopyManifest, CopyCode, NextDependency, FinishPackage, ReproduceNext, ReproduceEnds, Fails,
         Crash, Stops, Push, vars, files, locking
    <3> QED
      BY <3>1, <3>2, <3>3, <3>4
  <2> QED
    BY <2>1, <2>2
<1>3. AInv => LockAcyclic
  BY DEF AInv, LockAcyclic
<1> QED
  BY <1>1, <1>2, <1>3, IInvHolds, PTL DEF Spec

-----------------------------------------------------------------------------
(* What a run leaves in the store                                           *)

\* The store holds what the run has copied, from where its lock set says; a package being
\* copied is there as far as the copy got.
CopiesInv(r) ==
    /\ \A n \in done[r] \cup OnStack(r) : store[n] = Whole(lock[r][n])
    /\ mode[r] = "reproduce" => lock[r] = lockfile
    /\ op[r] \in Copying => Name(r) \notin done[r] \cup OnStack(r)
    /\ op[r] \in Copying /\ mode[r] = "reproduce" => lock[r][Name(r)] = cur[r].src
    /\ op[r] = "write" => lockfile = NoLock
    /\ op[r] = "manifest" => store[Name(r)] = Absent
    /\ op[r] = "code" => store[Name(r)] = [manifest |-> cur[r].src, code |-> None]

Alone == \A r, q \in Active : r = q

SInv == Alone /\ \A r \in Active : CopiesInv(r)

\* A step of one run, when no other may be under way.
LEMMA AloneStays ==
    ASSUME TypeOK, Alone, Overlap = FALSE, NEW r \in Runs,
           r \in Active \/ Active = {}, \A q \in Runs \ {r} : op'[q] = op[q]
    PROVE  Alone' /\ Active' \subseteq {r}
BY DEF Alone, Active

LEMMA CopiesStart ==
    ASSUME IInv, NEW r \in Runs, StartInstall(r) \/ StartReproduce(r), r \in Active'
    PROVE  CopiesInv(r)'
<1>1. /\ stack' = stack /\ done' = done /\ op[r] = "idle" /\ op'[r] \notin Copying
      /\ lockfile' = lockfile /\ op'[r] # "write"
      /\ mode'[r] = "reproduce" => lock'[r] = lockfile
  <2>1. TypeOK
    BY DEF IInv
  <2>2. CASE StartInstall(r)
    BY <2>1, <2>2 DEF TypeOK, StartInstall, MayStart, files, locking, Copying
  <2>3. CASE StartReproduce(r)
    BY <2>1, <2>3 DEF TypeOK, StartReproduce, MayStart, files, locking, Copying, Active, Ended
  <2> QED
    BY <2>2, <2>3
<1>2. stack'[r] = <<>> /\ done'[r] = {}
  BY <1>1 DEF IInv, RunInv, PlaceInv
<1>3. OnStack(r)' = {}
  BY <1>2 DEF OnStack
<1> QED
  BY <1>1, <1>2, <1>3 DEF CopiesInv, Copying

LEMMA CopiesVisit ==
    ASSUME IInv, NEW r \in Runs, CopiesInv(r),
           VisitDone(r) \/ VisitNew(r) \/ TruncateLock(r)
    PROVE  CopiesInv(r)'
<1>1. /\ stack' = stack /\ done' = done /\ lock' = lock /\ store' = store /\ cur' = cur
      /\ pkg' = pkg /\ mode' = mode /\ mode[r] # "reproduce" /\ op'[r] \notin {"manifest", "code"}
      /\ op'[r] = "write" => lockfile' = NoLock
      /\ op'[r] \in Copying => Name(r) \notin done[r] \cup OnStack(r)
  BY DEF IInv, RunInv, PlaceInv, TypeOK, VisitDone, VisitNew, TruncateLock, Goto, files, locking, world,
     Copying, Accepted, Cyclic
<1>2. Name(r)' = Name(r) /\ OnStack(r)' = OnStack(r)
  BY <1>1 DEF Name, OnStack, NameOf
<1> QED
  BY <1>1, <1>2 DEF CopiesInv, Copying

LEMMA CopiesCopy ==
    ASSUME IInv, NEW r \in Runs, CopiesInv(r), CopyClear(r) \/ CopyManifest(r)
    PROVE  CopiesInv(r)'
<1>1. /\ TypeOK /\ op[r] \in Copying /\ cur[r].src \in Sources /\ Name(r) \in Names
  <2>1. TypeOK /\ op[r] \in Copying /\ cur[r].src \in Sources
    BY DEF IInv, CopyClear, CopyManifest, Goto, Copying, RunInv, PlaceInv
  <2> QED
    BY <2>1, PkgType DEF Name
<1>2. /\ stack' = stack /\ done' = done /\ lock' = lock /\ lockfile' = lockfile /\ cur' = cur
      /\ pkg' = pkg /\ mode' = mode /\ op'[r] \in Copying
      /\ \A n \in Names : n # Name(r) => store'[n] = store[n]
  BY <1>1 DEF TypeOK, CopyClear, CopyManifest, Goto, locking, world, Copying
<1>3. Name(r)' = Name(r) /\ OnStack(r)' = OnStack(r)
  BY <1>2 DEF Name, OnStack, NameOf
<1>4. done[r] \cup OnStack(r) \subseteq Names
  <2>1. \A k \in 1 .. Len(stack[r]) : NameOf(stack[r][k].src) \in Names
    BY <1>1, FrameType, PkgType DEF Frame
  <2> QED
    BY <1>1, <2>1 DEF TypeOK, OnStack
<1>5. op'[r] = "manifest" => store'[Name(r)] = Absent
  BY <1>1 DEF TypeOK, CopyClear, CopyManifest, Goto
<1>6. op'[r] = "code" => store'[Name(r)] = [manifest |-> cur[r].src, code |-> None]
  BY <1>1 DEF TypeOK, CopyClear, CopyManifest, Goto, CopiesInv, Absent
<1> QED
  BY <1>1, <1>2, <1>3, <1>4, <1>5, <1>6 DEF CopiesInv, Copying

LEMMA CopiesWhole ==
    ASSUME IInv, NEW r \in Runs, CopiesInv(r), CopyCode(r)
    PROVE  CopiesInv(r)'
<1> DEFINE f == [src |-> cur[r].src, next |-> 1]
           L == Len(stack[r])
<1>1. TypeOK /\ RunInv(r) /\ op[r] = "code" /\ cur[r].src \in Sources /\ Name(r) \in Names
  <2>1. TypeOK /\ RunInv(r) /\ op[r] = "code" /\ cur[r].src \in Sources
    BY DEF IInv, CopyCode, Goto, Copying, RunInv, PlaceInv
  <2> QED
    BY <2>1, PkgType DEF Name
<1>2. /\ pkg' = pkg /\ mode' = mode /\ lockfile' = lockfile /\ op'[r] \in {"reproduce", "next"}
      /\ \A n \in Names : n # Name(r) => store'[n] = store[n]
  BY <1>1 DEF TypeOK, CopyCode, Goto, locking, world
<1>3. store'[Name(r)] = Whole(cur[r].src)
  BY <1>1 DEF TypeOK, CopyCode, CopiesInv, Whole
<1>4. /\ Name(r) \notin done[r] \cup OnStack(r)
      /\ done[r] \cup OnStack(r) \subseteq Names
      /\ \A n \in done[r] \cup OnStack(r) : store[n] = Whole(lock[r][n])
  <2>1. \A k \in 1 .. Len(stack[r]) : NameOf(stack[r][k].src) \in Names
    BY <1>1, FrameType, PkgType DEF Frame
  <2> QED
    BY <1>1, <2>1 DEF TypeOK, OnStack, CopiesInv, Copying
<1>5. /\ \A n \in Names : n # Name(r) => lock'[r][n] = lock[r][n]
      /\ lock'[r][Name(r)] = cur[r].src
      /\ mode[r] = "reproduce" => lock'[r] = lock[r]
  BY <1>1 DEF TypeOK, Locks, CopyCode, CopiesInv, Copying
<1>6. done'[r] \cup OnStack(r)' \subseteq done[r] \cup OnStack(r) \cup {Name(r)}
  <2>1. CASE mode[r] = "reproduce"
    <3>1. stack' = stack /\ done'[r] = done[r] \cup {Name(r)}
      BY <1>1, <2>1 DEF CopyCode, TypeOK
    <3> QED
      BY <1>2, <3>1 DEF OnStack, NameOf
  <2>2. CASE mode[r] # "reproduce"
    <3>1. done' = done /\ stack' = [stack EXCEPT ![r] = Append(@, f)] /\ f \in Frame
      BY <1>1, <2>2 DEF CopyCode, Frame
    <3>2. /\ L \in Nat /\ Len(stack'[r]) = L + 1 /\ stack'[r][L + 1] = f
          /\ \A k \in 1 .. L : stack'[r][k] = stack[r][k]
      BY <1>1, <3>1, Pushed
    <3>3. \A s : NameOf(s)' = NameOf(s)
      BY <1>2 DEF NameOf
    <3>4. NameOf(f.src) = Name(r)
      BY DEF Name
    <3> HIDE DEF f, L
    <3>5. OnStack(r)' = {NameOf(stack'[r][k].src) : k \in 1 .. L + 1}
      BY <3>2, <3>3 DEF OnStack
    <3>6. \A k \in 1 .. L + 1 : k \in 1 .. L \/ k = L + 1
      BY <3>2
    <3>7. OnStack(r) = {NameOf(stack[r][k].src) : k \in 1 .. L}
      BY DEF OnStack, L
    <3> QED
      BY <3>1, <3>2, <3>4, <3>5, <3>6, <3>7
  <2> QED
    BY <2>1, <2>2
<1>7. \A n \in done'[r] \cup OnStack(r)' : store'[n] = Whole(lock'[r][n])
  BY <1>2, <1>3, <1>4, <1>5, <1>6
<1> QED
  BY <1>2, <1>5, <1>7 DEF CopiesInv, Copying

LEMMA CopiesNext ==
    ASSUME IInv, NEW r \in Runs, CopiesInv(r),
           NextDependency(r) \/ FinishPackage(r) \/ ReproduceNext(r)
    PROVE  CopiesInv(r)'
<1> DEFINE L == Len(stack[r])
<1>1. TypeOK /\ RunInv(r)
  BY DEF IInv
<1>2. /\ pkg' = pkg /\ mode' = mode /\ lockfile' = lockfile /\ store' = store /\ lock' = lock
      /\ op'[r] \notin {"manifest", "code", "write"}
  BY <1>1 DEF TypeOK, NextDependency, FinishPackage, ReproduceNext, Goto, files, locking, world
<1>3. \A s : NameOf(s)' = NameOf(s)
  BY <1>2 DEF NameOf
<1>4. done'[r] \cup OnStack(r)' \subseteq done[r] \cup OnStack(r)
  <2>1. CASE NextDependency(r)
    <3>1. stack[r] # <<>> /\ done' = done /\ stack' = [stack EXCEPT ![r][Len(stack[r])].next = @ + 1]
      BY <1>1, <2>1 DEF NextDependency, Goto, RunInv, PlaceInv
    <3>2. Len(stack'[r]) = L /\ \A k \in 1 .. L : stack'[r][k].src = stack[r][k].src
      BY <1>1, <3>1, Advanced
    <3> QED
      BY <1>3, <3>1, <3>2 DEF OnStack
  <2>2. CASE FinishPackage(r)
    <3>1. /\ stack[r] # <<>> /\ stack' = [stack EXCEPT ![r] = SubSeq(@, 1, Len(@) - 1)]
          /\ done'[r] = done[r] \cup {NameOf(Top(r).src)}
      BY <1>1, <2>2 DEF FinishPackage, Goto, RunInv, PlaceInv, TypeOK
    <3>2. Len(stack'[r]) = L - 1 /\ \A k \in 1 .. L - 1 : stack'[r][k] = stack[r][k]
      BY <1>1, <3>1, Popped
    <3>3. L \in Nat \ {0} /\ Top(r) = stack[r][L]
      BY <1>1, <3>1, TopType
    <3>4. L \in 1 .. L /\ \A k \in 1 .. L - 1 : k \in 1 .. L
      BY <3>3
    <3>5. OnStack(r) = {NameOf(stack[r][k].src) : k \in 1 .. L}
      BY DEF OnStack
    <3> HIDE DEF L
    <3>6. OnStack(r)' = {NameOf(stack'[r][k].src) : k \in 1 .. L - 1}
      BY <1>3, <3>2 DEF OnStack
    <3> QED
      BY <3>1, <3>2, <3>3, <3>4, <3>5, <3>6
  <2>3. CASE ReproduceNext(r)
    BY <1>3, <2>3 DEF ReproduceNext, OnStack
  <2> QED
    BY <2>1, <2>2, <2>3
<1>5. op'[r] \in Copying => /\ mode[r] = "reproduce" /\ lock[r][Name(r)'] = cur'[r].src
                            /\ Name(r)' \notin done'[r] \cup OnStack(r)'
  <2>1. CASE ReproduceNext(r)
    <3>1. PICK n \in Locked(lock[r]) \ done[r] :
              NameOf(lock[r][n]) = n /\ cur' = [cur EXCEPT ![r] = [src |-> lock[r][n], exp |-> n]]
      BY <2>1 DEF ReproduceNext
    <3>2. cur'[r].src = lock[r][n] /\ Name(r)' = n
      BY <1>1, <1>3, <3>1 DEF TypeOK, Name
    <3>3. op[r] = "reproduce" /\ stack' = stack /\ done' = done
      BY <2>1 DEF ReproduceNext, Goto
    <3>4. stack[r] = <<>> /\ mode[r] = "reproduce"
      BY <1>1, <3>3 DEF RunInv, PlaceInv
    <3>5. OnStack(r)' = {}
      BY <3>3, <3>4 DEF OnStack
    <3> QED
      BY <3>1, <3>2, <3>3, <3>4, <3>5
  <2>2. CASE NextDependency(r) \/ FinishPackage(r)
    BY <1>1, <2>2 DEF NextDependency, FinishPackage, Goto, TypeOK, Copying
  <2> QED
    BY <2>1, <2>2
<1> QED
  BY <1>2, <1>4, <1>5 DEF CopiesInv, Copying

LEMMA StepKeepsSInv == Overlap = FALSE /\ IInv /\ SInv /\ [Next]_vars => SInv'
<1> SUFFICES ASSUME Overlap = FALSE, IInv, SInv, [Next]_vars PROVE SInv'
  OBVIOUS
<1>t. TypeOK /\ Alone
  BY DEF IInv, SInv
<1>1. ASSUME NEW r \in Runs, r \in Active \/ Active = {}, \A q \in Runs \ {r} : op'[q] = op[q],
             r \in Active' => CopiesInv(r)'
      PROVE  SInv'
  <2>1. Alone' /\ Active' \subseteq {r}
    BY <1>t, <1>1, AloneStays
  <2> QED
    BY <1>1, <2>1 DEF SInv
<1> USE DEF Goto
<1>2. ASSUME NEW r \in Runs, StartInstall(r) \/ StartReproduce(r) PROVE SInv'
  <2>1. (\A q \in Runs \ {r} : op'[q] = op[q]) /\ Active = {}
    BY <1>t, <1>2 DEF StartInstall, StartReproduce, TypeOK, MayStart
  <2> QED
    BY <1>1, <1>2, <2>1, CopiesStart
<1>3. ASSUME NEW r \in Runs, NEW how \in Ended, Stops(r, how), r \in Active PROVE SInv'
  <2>1. op' = [op EXCEPT ![r] = how] /\ r \notin Active'
    BY <1>t, <1>3 DEF Stops, TypeOK, Active
  <2> QED
    BY <1>t, <1>1, <1>3, <2>1 DEF TypeOK
<1>4. ASSUME NEW r \in Runs, Work(r), ~VisitRefused(r) PROVE SInv'
  <2>1. (\A q \in Runs \ {r} : op'[q] = op[q]) /\ r \in Active
    BY <1>t, <1>4 DEF Work, VisitDone, VisitNew, CopyClear, CopyManifest, CopyCode, NextDependency,
       FinishPackage, TruncateLock, WriteLock, ReproduceNext, ReproduceEnds, TypeOK, Active, Ended
  <2>2. CopiesInv(r)
    BY <2>1 DEF SInv
  <2>3. CASE WriteLock(r) \/ ReproduceEnds(r)
    <3>1. r \notin Active'
      BY <1>t, <2>3 DEF WriteLock, ReproduceEnds, TypeOK, Active, Ended
    <3> QED
      BY <1>1, <2>1, <3>1
  <2>4. CASE ~(WriteLock(r) \/ ReproduceEnds(r))
    <3>1. CopiesInv(r)'
      BY <1>4, <2>2, <2>4, CopiesVisit, CopiesCopy, CopiesWhole, CopiesNext DEF Work
    <3> QED
      BY <1>1, <2>1, <3>1
  <2> QED
    BY <2>3, <2>4
<1>5. CASE (\E h \in Refs : Push(h)) \/ UNCHANGED vars
  <2>1. /\ pkg' = pkg /\ store' = store /\ lockfile' = lockfile /\ op' = op /\ mode' = mode
        /\ lock' = lock /\ done' = done /\ stack' = stack /\ cur' = cur
    BY <1>5 DEF Push, vars, files, locking
  <2>2. Active' = Active /\ \A r \in Runs : Name(r)' = Name(r) /\ OnStack(r)' = OnStack(r)
    BY <2>1 DEF Active, Name, OnStack, NameOf
  <2> QED
    BY <2>1, <2>2 DEF SInv, Alone, CopiesInv, Active
<1>6. ASSUME NEW r \in Runs, StartRefused(r) PROVE SInv'
  <2>1. (\A q \in Runs \ {r} : op'[q] = op[q]) /\ Active = {} /\ r \notin Active'
    BY <1>t, <1>6 DEF StartRefused, TypeOK, MayStart, Active, Ended
  <2> QED
    BY <1>1, <2>1
<1> QED
  BY <1>2, <1>3, <1>4, <1>5, <1>6 DEF Next, Work, VisitRefused, Fails, Crash, Ended, Active

\* When no two runs overlap, a run that ends well leaves each package it handled whole in
\* the store, copied from the source pyrst.lock pins it to (venv.rs, install_dfs,
\* copy_package, write_lock and reproduce_into).
THEOREM SerialRunsEndCoherent == Overlap = FALSE /\ Spec => EndsCoherent
<1> DEFINE Ends == \A r \in Runs : op[r] # "ok" /\ op'[r] = "ok" =>
                       \A n \in done'[r] : store'[n] = Whole(lockfile'[n])
<1> SUFFICES ASSUME Overlap = FALSE PROVE Spec => EndsCoherent
  OBVIOUS
<1>1. Init => SInv
  BY DEF Init, SInv, Alone, Active
<1>2. IInv /\ SInv /\ [Next]_vars => SInv'
  BY StepKeepsSInv
<1>3. ASSUME IInv, SInv, [Next]_vars, NEW r \in Runs, op[r] # "ok", op'[r] = "ok",
             NEW n \in done'[r]
      PROVE  store'[n] = Whole(lockfile'[n])
  <2>1. TypeOK
    BY <1>3 DEF IInv
  <2>2. WriteLock(r) \/ ReproduceEnds(r)
    <3> USE DEF Goto
    <3>1. ASSUME NEW q \in Runs, StartInstall(q) \/ StartReproduce(q) \/ StartRefused(q) PROVE FALSE
      BY <1>3, <2>1, <3>1 DEF StartInstall, StartReproduce, StartRefused, TypeOK
    <3>2. ASSUME NEW q \in Runs, Stops(q, "error") \/ Stops(q, "crashed") PROVE FALSE
      BY <1>3, <2>1, <3>2 DEF Stops, TypeOK
    <3>3. ASSUME NEW q \in Runs,
                 \/ VisitDone(q) \/ VisitNew(q) \/ CopyClear(q) \/ CopyManifest(q) \/ CopyCode(q)
                 \/ NextDependency(q) \/ FinishPackage(q) \/ TruncateLock(q) \/ ReproduceNext(q)
          PROVE  FALSE
      <4>1. PICK to \in {"next", "clear", "manifest", "code", "reproduce", "visit", "truncate", "write"} :
                op' = [op EXCEPT ![q] = to]
        BY <3>3 DEF VisitDone, VisitNew, CopyClear, CopyManifest, CopyCode, NextDependency,
           FinishPackage, TruncateLock, ReproduceNext
      <4> QED
        BY <1>3, <2>1, <4>1 DEF TypeOK
    <3>4. CASE (\E h \in Refs : Push(h)) \/ UNCHANGED vars
      BY <1>3, <3>4 DEF Push, vars
    <3>5. ASSUME NEW q \in Runs, WriteLock(q) \/ ReproduceEnds(q) PROVE q = r
      BY <1>3, <2>1, <3>5 DEF WriteLock, ReproduceEnds, TypeOK
    <3> QED
      BY <1>3, <3>1, <3>2, <3>3, <3>4, <3>5 DEF Next, Work, VisitRefused, Fails, Crash
  <2>3. CopiesInv(r)
    BY <1>3, <2>2 DEF SInv, Active, Ended, WriteLock, ReproduceEnds, Goto
  <2>4. store' = store /\ done' = done /\ lockfile' = lock[r]
    <3>1. op[r] = "reproduce" => mode[r] = "reproduce"
      BY <1>3 DEF IInv, RunInv, PlaceInv
    <3> QED
      BY <2>2, <2>3, <3>1 DEF WriteLock, ReproduceEnds, files, locking, CopiesInv, Goto
  <2> QED
    BY <1>3, <2>3, <2>4 DEF CopiesInv
<1>4. IInv /\ SInv /\ [Next]_vars => [Ends]_vars
  BY <1>3
<1> QED
  BY <1>1, <1>2, <1>4, IInvHolds, PTL DEF Spec, EndsCoherent
=============================================================================
