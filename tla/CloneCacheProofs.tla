--------------------------- MODULE CloneCacheProofs ---------------------------
(***************************************************************************)
(* Proofs about CloneCache, for any number of calls, cleaners, commits and   *)
(* refs.  TypeOK and the two properties that survive a concurrent cleaner    *)
(* come from one inductive invariant: what each call knows at each point of  *)
(* resolve about its target, its temporary clone and its ref.                *)
(***************************************************************************)
EXTENDS CloneCache, TLAPS

\* Where a call holds a commit it looks up or is about to publish.
HasTarget == {"lookup", "recheck", "parent", "rename", "renamed_not"}

\* Which arm of resolve the call is in.
ArmInv(p) ==
    /\ pc[p] = "idle" => want[p] = None
    /\ pc[p] # "idle" => want[p] \in Commits \cup Refs
    /\ pc[p] \in {"mkdir", "init", "fetch"} => want[p] \in Commits
    /\ pc[p] \in {"ls_remote", "clone", "cloning"} => want[p] \in Refs
    /\ pc[p] \in HasTarget => target[p] \in Commits
    /\ pc[p] \in HasTarget /\ want[p] \in Commits => target[p] = want[p]

\* What the temporary directory holds: nothing before the call makes it and
\* after the call removed it, the commit to publish once git is through.
CloneInv(p) ==
    /\ pc[p] \in {"idle", "ls_remote", "lookup", "mkdir", "clone"} => ~tmp[p].there
    /\ pc[p] \in {"ok", "git_error", "populate_error"} /\ tmp[p].there => unremoved[p]
    /\ pc[p] = "head" => tmp[p].git # Unborn
    /\ pc[p] = "head" /\ tmp[p].git \in Commits => tmp[p].work \in {tmp[p].git, None}
    /\ pc[p] = "head" /\ want[p] \in Commits =>
           tmp[p].git \in {want[p], None} /\ tmp[p].work \in {want[p], None}
    /\ pc[p] \in {"recheck", "parent", "rename"} =>
           tmp[p].git \in {target[p], None} /\ tmp[p].work \in {target[p], None}

\* Every commit the call may still answer is one its ref has named, or one that the
\* ref ls-remote took for it has: the latter only while it is looked up, and after.
NamedInv(p) ==
    /\ pc[p] \notin Ended => out[p] = None
    /\ want[p] \in Commits => want[p] \in named[p]
    /\ want[p] \in Refs /\ out[p] = None => upstream[want[p]] \in named[p]
    /\ want[p] \in Refs /\ out[p] = None => upstream[ParseLsRemote(want[p])] \in shown[p]
    /\ pc[p] = "lookup" => target[p] \in named[p] \cup shown[p]
    /\ pc[p] \in HasTarget \ {"lookup"} => target[p] \in named[p]
    /\ pc[p] = "head" /\ tmp[p].git \in Commits => tmp[p].git \in named[p]
    /\ out[p] \in Commits => out[p] \in named[p] \cup shown[p]

CallInv(p) == ArmInv(p) /\ CloneInv(p) /\ NamedInv(p)

IInv == TypeOK /\ ContentAddressed /\ \A p \in Calls : CallInv(p)

USE DEF None, Unborn, NoDir, EmptyDir, NewGitDir, Checkout, Dirs, Errors, Ended, PCs, HasTarget,
        IsValidClone, Goto, Answer, SetTmp, Shrunk, history

\* ls-remote's answer for a ref is some ref's line.
LEMMA ParseLsRemoteType ==
    ASSUME NEW r \in Refs
    PROVE  ParseLsRemote(r) \in Refs
<1> DEFINE Peeled(i) == /\ Listed[r][i] \in Annotated
                        /\ \A j \in 1 .. i - 1 : Listed[r][j] \notin Annotated
           lines == 1 .. Len(Listed[r])
<1>1. Listed[r] \in Seq(Refs) /\ Listed[r] # <<>>
    BY ListedAssumption
<1>2. \A i \in lines : Listed[r][i] \in Refs
    BY <1>1
<1>3. Head(Listed[r]) \in Refs
    BY <1>1
<1>4. ASSUME \E i \in lines : Peeled(i)
      PROVE  (CHOOSE i \in lines : Peeled(i)) \in lines
  <2> HIDE DEF lines, Peeled
  <2> QED
    BY <1>4
<1> QED
    BY <1>2, <1>3, <1>4 DEF ParseLsRemote

\* Whether or not the removal succeeds, what is left is part of what there was, and a
\* directory is left only where it failed.
LEMMA DiscardLeavesParts ==
    ASSUME TypeOK, NEW p \in Calls, Discard(p)
    PROVE  /\ \E d \in Dirs : tmp' = [tmp EXCEPT ![p] = d] /\ (d.there => unremoved'[p])
           /\ unremoved' \in [Calls -> BOOLEAN]
           /\ \A q \in Calls \ {p} : unremoved'[q] = unremoved[q]
           /\ UNCHANGED <<named, shown>>
<1>1. CASE SetTmp(p, NoDir) /\ UNCHANGED unremoved
  <2>1. NoDir \in Dirs /\ ~NoDir.there
    OBVIOUS
  <2>2. \E d \in Dirs : tmp' = [tmp EXCEPT ![p] = d] /\ (d.there => unremoved'[p])
    BY <1>1, <2>1 DEF SetTmp
  <2> QED
    BY <1>1, <2>2 DEF Discard, TypeOK
<1>2. CASE /\ \E d \in Remains(tmp[p]) : SetTmp(p, d)
           /\ unremoved' = [unremoved EXCEPT ![p] = TRUE]
  <2>1. PICK d \in Remains(tmp[p]) : SetTmp(p, d)
    BY <1>2
  <2>2. d \in Dirs
    BY <2>1 DEF Remains, TypeOK
  <2>3. unremoved'[p]
    BY <1>2 DEF TypeOK
  <2>4. \E e \in Dirs : tmp' = [tmp EXCEPT ![p] = e] /\ (e.there => unremoved'[p])
    BY <2>1, <2>2, <2>3
  <2> QED
    BY <1>2, <2>4 DEF Discard, TypeOK
<1> QED
    BY <1>1, <1>2 DEF Discard

\* A step of one call changes nothing that the invariant says of another.
SameFor(q) ==
    /\ pc'[q] = pc[q] /\ want'[q] = want[q] /\ target'[q] = target[q] /\ out'[q] = out[q]
    /\ tmp'[q] = tmp[q] /\ named'[q] = named[q] /\ shown'[q] = shown[q]
    /\ unremoved'[q] = unremoved[q]

LEMMA CallKeepsTypes ==
    ASSUME IInv, NEW p \in Calls, CallStep(p)
    PROVE  TypeOK'
<1>0. NoDir \in Dirs /\ EmptyDir \in Dirs /\ NewGitDir \in Dirs /\ \A c \in Commits : Checkout(c) \in Dirs
    OBVIOUS
<1> USE <1>0
<1> HIDE DEF NoDir, EmptyDir, NewGitDir, Checkout
<1>1. CASE Begin(p)
    BY <1>1, ParseLsRemoteType DEF Begin, IInv, TypeOK, CallInv, ArmInv
<1>2. CASE LsRemote(p)
    BY <1>2, ParseLsRemoteType DEF LsRemote, IInv, TypeOK, CallInv, ArmInv
<1>3. CASE LsRemoteFails(p)
    BY <1>3 DEF LsRemoteFails, IInv, TypeOK, CallInv, ArmInv
<1>4. CASE Hit(p)
    BY <1>4 DEF Hit, IInv, TypeOK, CallInv, ArmInv
<1>5. CASE Miss(p)
    BY <1>5 DEF Miss, IInv, TypeOK, CallInv, ArmInv
<1>6. CASE MakeTmp(p)
    BY <1>6 DEF MakeTmp, IInv, TypeOK, CallInv, ArmInv
<1>7. CASE GitInit(p)
    BY <1>7 DEF GitInit, IInv, TypeOK, CallInv, ArmInv
<1>8. CASE FetchCommit(p)
    BY <1>8 DEF FetchCommit, IInv, TypeOK, CallInv, ArmInv
<1>9. CASE CloneStarts(p)
    BY <1>9 DEF CloneStarts, IInv, TypeOK, CallInv, ArmInv
<1>10. CASE CloneEnds(p)
    BY <1>10 DEF CloneEnds, IInv, TypeOK, CallInv, ArmInv
<1>11. CASE GitFails(p)
  <2>1. PICK d \in Dirs : tmp' = [tmp EXCEPT ![p] = d]
    BY <1>11, DiscardLeavesParts DEF GitFails, IInv
  <2>2. unremoved' \in [Calls -> BOOLEAN] /\ UNCHANGED <<named, shown>>
    BY <1>11, DiscardLeavesParts DEF GitFails, IInv
  <2>3. pc' \in [Calls -> PCs] /\ out' \in [Calls -> Commits \cup Errors \cup {None}]
    BY <1>11 DEF GitFails, IInv, TypeOK, CallInv, ArmInv
  <2>4. UNCHANGED <<upstream, root, cache, want, target, cpc>>
    BY <1>11 DEF GitFails
  <2> QED
    BY <2>1, <2>2, <2>3, <2>4 DEF IInv, TypeOK
<1>12. CASE ReadHead(p)
    BY <1>12 DEF ReadHead, IInv, TypeOK, CallInv, ArmInv
<1>13. CASE ReadHeadFails(p)
    BY <1>13 DEF ReadHeadFails, IInv, TypeOK, CallInv, ArmInv
<1>14. CASE RecheckHit(p)
  <2>1. PICK d \in Dirs : tmp' = [tmp EXCEPT ![p] = d]
    BY <1>14, DiscardLeavesParts DEF RecheckHit, IInv
  <2>2. unremoved' \in [Calls -> BOOLEAN] /\ UNCHANGED <<named, shown>>
    BY <1>14, DiscardLeavesParts DEF RecheckHit, IInv
  <2>3. pc' \in [Calls -> PCs] /\ out' \in [Calls -> Commits \cup Errors \cup {None}]
    BY <1>14 DEF RecheckHit, IInv, TypeOK, CallInv, ArmInv
  <2>4. UNCHANGED <<upstream, root, cache, want, target, cpc>>
    BY <1>14 DEF RecheckHit
  <2> QED
    BY <2>1, <2>2, <2>3, <2>4 DEF IInv, TypeOK
<1>15. CASE RecheckMiss(p)
    BY <1>15 DEF RecheckMiss, IInv, TypeOK, CallInv, ArmInv
<1>16. CASE MakeParent(p)
    BY <1>16 DEF MakeParent, IInv, TypeOK, CallInv, ArmInv
<1>17. CASE MakeParentFails(p)
    BY <1>17 DEF MakeParentFails, IInv, TypeOK, CallInv, ArmInv
<1>18. CASE Rename(p)
    BY <1>18 DEF Rename, CanRename, IInv, TypeOK, CallInv, ArmInv
<1>19. CASE RenameFails(p)
    BY <1>19 DEF RenameFails, CanRename, IInv, TypeOK, CallInv, ArmInv
<1>20. CASE UseWinner(p)
  <2>1. PICK d \in Dirs : tmp' = [tmp EXCEPT ![p] = d]
    BY <1>20, DiscardLeavesParts DEF UseWinner, IInv
  <2>2. unremoved' \in [Calls -> BOOLEAN] /\ UNCHANGED <<named, shown>>
    BY <1>20, DiscardLeavesParts DEF UseWinner, IInv
  <2>3. pc' \in [Calls -> PCs] /\ out' \in [Calls -> Commits \cup Errors \cup {None}]
    BY <1>20 DEF UseWinner, IInv, TypeOK, CallInv, ArmInv
  <2>4. UNCHANGED <<upstream, root, cache, want, target, cpc>>
    BY <1>20 DEF UseWinner
  <2> QED
    BY <2>1, <2>2, <2>3, <2>4 DEF IInv, TypeOK
<1>21. CASE PopulateFails(p)
  <2>1. PICK d \in Dirs : tmp' = [tmp EXCEPT ![p] = d]
    BY <1>21, DiscardLeavesParts DEF PopulateFails, IInv
  <2>2. unremoved' \in [Calls -> BOOLEAN] /\ UNCHANGED <<named, shown>>
    BY <1>21, DiscardLeavesParts DEF PopulateFails, IInv
  <2>3. pc' \in [Calls -> PCs] /\ out' \in [Calls -> Commits \cup Errors \cup {None}]
    BY <1>21 DEF PopulateFails, IInv, TypeOK, CallInv, ArmInv
  <2>4. UNCHANGED <<upstream, root, cache, want, target, cpc>>
    BY <1>21 DEF PopulateFails
  <2> QED
    BY <2>1, <2>2, <2>3, <2>4 DEF IInv, TypeOK
<1>22. CASE Crash(p)
    BY <1>22 DEF Crash, IInv, TypeOK, CallInv, ArmInv
<1> QED
    BY <1>1, <1>2, <1>3, <1>4, <1>5, <1>6, <1>7, <1>8, <1>9, <1>10, <1>11, <1>12, <1>13, <1>14, <1>15, <1>16, <1>17, <1>18, <1>19, <1>20, <1>21, <1>22 DEF CallStep

LEMMA CallKeepsKeys ==
    ASSUME IInv, NEW p \in Calls, CallStep(p)
    PROVE  ContentAddressed'
<1>1. CASE Rename(p)
    BY <1>1 DEF Rename, CanRename, IInv, TypeOK, ContentAddressed, CallInv, ArmInv, CloneInv
<1>2. CASE UNCHANGED cache
    BY <1>2 DEF IInv, ContentAddressed
<1> QED
    BY <1>1, <1>2 DEF CallStep, Begin, LsRemote, LsRemoteFails, Hit, Miss, MakeTmp, GitInit, FetchCommit, CloneStarts, CloneEnds, GitFails, ReadHead, ReadHeadFails, RecheckHit, RecheckMiss, MakeParent, MakeParentFails, RenameFails, UseWinner, PopulateFails, Crash

LEMMA CallKeepsItself ==
    ASSUME IInv, NEW p \in Calls, CallStep(p)
    PROVE  CallInv(p)'
<1> HIDE DEF Dirs, PCs, Shrunk, IsValidClone
<1>0. want[p] \in Commits \cup Refs \cup {None} /\ CallInv(p)
    BY DEF IInv, TypeOK
<1>1. CASE Begin(p)
  <2>1. /\ pc[p] = "idle"
        /\ \E w \in Commits \cup Refs :
              /\ want'[p] = w
              /\ pc'[p] = IF w \in Refs THEN "ls_remote" ELSE "lookup"
              /\ target'[p] = IF w \in Refs THEN None ELSE w
              /\ named'[p] = IF w \in Refs THEN {upstream[w]} ELSE {w}
              /\ shown'[p] = IF w \in Refs THEN {upstream[ParseLsRemote(w)]} ELSE {}
        /\ UNCHANGED <<upstream, out, unremoved, tmp>>
    BY <1>1 DEF Begin, IInv, TypeOK
  <2> QED
    BY <1>0, <2>1, ParseLsRemoteType, NamesDistinct DEF CallInv, ArmInv, CloneInv, NamedInv
<1>2. CASE LsRemote(p)
  <2>1. /\ pc[p] = "ls_remote" /\ pc'[p] = "lookup"
        /\ target'[p] = upstream[ParseLsRemote(want[p])]
        /\ UNCHANGED <<upstream, want, out, named, shown, unremoved, tmp>>
    BY <1>2 DEF LsRemote, IInv, TypeOK
  <2>2. want[p] \in Refs /\ upstream[ParseLsRemote(want[p])] \in Commits
    BY <2>1, ParseLsRemoteType DEF IInv, TypeOK, CallInv, ArmInv
  <2> QED
    BY <1>0, <2>1, <2>2, NamesDistinct DEF CallInv, ArmInv, CloneInv, NamedInv
<1>3. CASE LsRemoteFails(p)
  <2>1. /\ pc[p] = "ls_remote" /\ pc'[p] = "clone"
        /\ UNCHANGED <<upstream, want, target, out, named, shown, unremoved, tmp>>
    BY <1>3 DEF LsRemoteFails, IInv, TypeOK
  <2> QED
    BY <1>0, <2>1, NamesDistinct DEF CallInv, ArmInv, CloneInv, NamedInv
<1>4. CASE Hit(p)
  <2>1. /\ pc[p] = "lookup" /\ pc'[p] = "ok"
        /\ out'[p] = target[p]
        /\ UNCHANGED <<upstream, want, target, named, shown, unremoved, tmp>>
    BY <1>4 DEF Hit, IInv, TypeOK
  <2> QED
    BY <1>0, <2>1, NamesDistinct DEF CallInv, ArmInv, CloneInv, NamedInv
<1>5. CASE Miss(p)
  <2>1. /\ pc[p] = "lookup" /\ pc'[p] = IF want[p] \in Commits THEN "mkdir" ELSE "clone"
        /\ UNCHANGED <<upstream, want, target, out, named, shown, unremoved, tmp>>
    BY <1>5 DEF Miss, IInv, TypeOK
  <2> QED
    BY <1>0, <2>1, NamesDistinct DEF CallInv, ArmInv, CloneInv, NamedInv
<1>6. CASE MakeTmp(p)
  <2>1. /\ pc[p] = "mkdir" /\ pc'[p] = "init"
        /\ tmp'[p] = EmptyDir
        /\ UNCHANGED <<upstream, want, target, out, named, shown, unremoved>>
    BY <1>6 DEF MakeTmp, IInv, TypeOK
  <2> QED
    BY <1>0, <2>1, NamesDistinct DEF CallInv, ArmInv, CloneInv, NamedInv
<1>7. CASE GitInit(p)
  <2>1. /\ pc[p] = "init" /\ pc'[p] = "fetch"
        /\ tmp'[p] = [tmp[p] EXCEPT !.git = Unborn]
        /\ UNCHANGED <<upstream, want, target, out, named, shown, unremoved>>
    BY <1>7 DEF GitInit, IInv, TypeOK
  <2> QED
    BY <1>0, <2>1, NamesDistinct DEF CallInv, ArmInv, CloneInv, NamedInv
<1>8. CASE FetchCommit(p)
  <2>1. /\ pc[p] = "fetch" /\ pc'[p] = "head"
        /\ tmp'[p] = Checkout(want[p])
        /\ UNCHANGED <<upstream, want, target, out, named, shown, unremoved>>
    BY <1>8 DEF FetchCommit, IInv, TypeOK
  <2> QED
    BY <1>0, <2>1, NamesDistinct DEF CallInv, ArmInv, CloneInv, NamedInv
<1>9. CASE CloneStarts(p)
  <2>1. /\ pc[p] = "clone" /\ pc'[p] = "cloning"
        /\ tmp'[p] = NewGitDir
        /\ UNCHANGED <<upstream, want, target, out, named, shown, unremoved>>
    BY <1>9 DEF CloneStarts, IInv, TypeOK
  <2> QED
    BY <1>0, <2>1, NamesDistinct DEF CallInv, ArmInv, CloneInv, NamedInv
<1>10. CASE CloneEnds(p)
  <2>1. /\ pc[p] = "cloning" /\ pc'[p] = "head"
        /\ tmp'[p] = Checkout(upstream[want[p]])
        /\ UNCHANGED <<upstream, want, target, out, named, shown, unremoved>>
    BY <1>10 DEF CloneEnds, IInv, TypeOK
  <2>2. want[p] \in Refs /\ upstream[want[p]] \in Commits
    BY <2>1 DEF IInv, TypeOK, CallInv, ArmInv
  <2> QED
    BY <1>0, <2>1, <2>2, NamesDistinct DEF CallInv, ArmInv, CloneInv, NamedInv
<1>11. CASE GitFails(p)
  <2>1. PICK d \in Dirs : tmp' = [tmp EXCEPT ![p] = d] /\ (d.there => unremoved'[p])
    BY <1>11, DiscardLeavesParts DEF GitFails, IInv
  <2>2. /\ \E from \in {"mkdir", "init", "fetch", "clone", "cloning"} : pc[p] = from
        /\ pc'[p] = "git_error" /\ out'[p] = "git_error"
        /\ UNCHANGED <<upstream, want, target, named, shown>>
    BY <1>11 DEF GitFails, Discard, IInv, TypeOK
  <2>3. tmp'[p].there => unremoved'[p]
    BY <2>1 DEF IInv, TypeOK
  <2> QED
    BY <1>0, <2>2, <2>3, NamesDistinct DEF CallInv, ArmInv, CloneInv, NamedInv
<1>12. CASE ReadHead(p)
  <2>1. /\ pc[p] = "head" /\ pc'[p] = IF want[p] \in Commits THEN "parent" ELSE "recheck"
        /\ tmp[p].git \in Commits
        /\ target'[p] = IF want[p] \in Commits THEN want[p] ELSE tmp[p].git
        /\ UNCHANGED <<upstream, want, out, named, shown, unremoved, tmp>>
    BY <1>12 DEF ReadHead, IInv, TypeOK
  <2> QED
    BY <1>0, <2>1, NamesDistinct DEF CallInv, ArmInv, CloneInv, NamedInv
<1>13. CASE ReadHeadFails(p)
  <2>1. /\ pc[p] = "head" /\ pc'[p] = "head_error"
        /\ out'[p] = "git_error"
        /\ UNCHANGED <<upstream, want, target, named, shown, unremoved, tmp>>
    BY <1>13 DEF ReadHeadFails, IInv, TypeOK
  <2> QED
    BY <1>0, <2>1, NamesDistinct DEF CallInv, ArmInv, CloneInv, NamedInv
<1>14. CASE RecheckHit(p)
  <2>1. PICK d \in Dirs : tmp' = [tmp EXCEPT ![p] = d] /\ (d.there => unremoved'[p])
    BY <1>14, DiscardLeavesParts DEF RecheckHit, IInv
  <2>2. /\ pc[p] = "recheck"
        /\ pc'[p] = "ok" /\ out'[p] = target[p]
        /\ UNCHANGED <<upstream, want, target, named, shown>>
    BY <1>14 DEF RecheckHit, Discard, IInv, TypeOK
  <2>3. tmp'[p].there => unremoved'[p]
    BY <2>1 DEF IInv, TypeOK
  <2> QED
    BY <1>0, <2>2, <2>3, NamesDistinct DEF CallInv, ArmInv, CloneInv, NamedInv
<1>15. CASE RecheckMiss(p)
  <2>1. /\ pc[p] = "recheck" /\ pc'[p] = "parent"
        /\ UNCHANGED <<upstream, want, target, out, named, shown, unremoved, tmp>>
    BY <1>15 DEF RecheckMiss, IInv, TypeOK
  <2> QED
    BY <1>0, <2>1, NamesDistinct DEF CallInv, ArmInv, CloneInv, NamedInv
<1>16. CASE MakeParent(p)
  <2>1. /\ pc[p] = "parent" /\ pc'[p] = "rename"
        /\ UNCHANGED <<upstream, want, target, out, named, shown, unremoved, tmp>>
    BY <1>16 DEF MakeParent, IInv, TypeOK
  <2> QED
    BY <1>0, <2>1, NamesDistinct DEF CallInv, ArmInv, CloneInv, NamedInv
<1>17. CASE MakeParentFails(p)
  <2>1. /\ pc[p] = "parent" /\ pc'[p] = "parent_error"
        /\ out'[p] = "io_error"
        /\ UNCHANGED <<upstream, want, target, named, shown, unremoved, tmp>>
    BY <1>17 DEF MakeParentFails, IInv, TypeOK
  <2> QED
    BY <1>0, <2>1, NamesDistinct DEF CallInv, ArmInv, CloneInv, NamedInv
<1>18. CASE Rename(p)
  <2>1. /\ pc[p] = "rename" /\ pc'[p] = "ok"
        /\ tmp'[p] = NoDir /\ out'[p] = target[p]
        /\ UNCHANGED <<upstream, want, target, named, shown, unremoved>>
    BY <1>18 DEF Rename, IInv, TypeOK
  <2> QED
    BY <1>0, <2>1, NamesDistinct DEF CallInv, ArmInv, CloneInv, NamedInv
<1>19. CASE RenameFails(p)
  <2>1. /\ pc[p] = "rename" /\ pc'[p] = "renamed_not"
        /\ UNCHANGED <<upstream, want, target, out, named, shown, unremoved, tmp>>
    BY <1>19 DEF RenameFails, IInv, TypeOK
  <2> QED
    BY <1>0, <2>1, NamesDistinct DEF CallInv, ArmInv, CloneInv, NamedInv
<1>20. CASE UseWinner(p)
  <2>1. PICK d \in Dirs : tmp' = [tmp EXCEPT ![p] = d] /\ (d.there => unremoved'[p])
    BY <1>20, DiscardLeavesParts DEF UseWinner, IInv
  <2>2. /\ pc[p] = "renamed_not"
        /\ pc'[p] = "ok" /\ out'[p] = target[p]
        /\ UNCHANGED <<upstream, want, target, named, shown>>
    BY <1>20 DEF UseWinner, Discard, IInv, TypeOK
  <2>3. tmp'[p].there => unremoved'[p]
    BY <2>1 DEF IInv, TypeOK
  <2> QED
    BY <1>0, <2>2, <2>3, NamesDistinct DEF CallInv, ArmInv, CloneInv, NamedInv
<1>21. CASE PopulateFails(p)
  <2>1. PICK d \in Dirs : tmp' = [tmp EXCEPT ![p] = d] /\ (d.there => unremoved'[p])
    BY <1>21, DiscardLeavesParts DEF PopulateFails, IInv
  <2>2. /\ pc[p] = "renamed_not"
        /\ pc'[p] = "populate_error" /\ out'[p] = "populate_error"
        /\ UNCHANGED <<upstream, want, target, named, shown>>
    BY <1>21 DEF PopulateFails, Discard, IInv, TypeOK
  <2>3. tmp'[p].there => unremoved'[p]
    BY <2>1 DEF IInv, TypeOK
  <2> QED
    BY <1>0, <2>2, <2>3, NamesDistinct DEF CallInv, ArmInv, CloneInv, NamedInv
<1>22. CASE Crash(p)
  <2>1. /\ pc[p] \notin Ended \cup {"idle"} /\ pc'[p] = "crashed"
        /\ UNCHANGED <<upstream, want, target, out, named, shown, unremoved, tmp>>
    BY <1>22 DEF Crash, IInv, TypeOK
  <2> QED
    BY <1>0, <2>1, NamesDistinct DEF CallInv, ArmInv, CloneInv, NamedInv
<1> QED
    BY <1>1, <1>2, <1>3, <1>4, <1>5, <1>6, <1>7, <1>8, <1>9, <1>10, <1>11, <1>12, <1>13, <1>14, <1>15, <1>16, <1>17, <1>18, <1>19, <1>20, <1>21, <1>22 DEF CallStep

LEMMA CallLeavesOthers ==
    ASSUME IInv, NEW p \in Calls, CallStep(p)
    PROVE  UNCHANGED upstream /\ \A q \in Calls \ {p} : SameFor(q)
<1>1. CASE GitFails(p) \/ RecheckHit(p) \/ UseWinner(p) \/ PopulateFails(p)
    BY <1>1, DiscardLeavesParts DEF GitFails, RecheckHit, UseWinner, PopulateFails, IInv, TypeOK, SameFor
<1> QED
    BY <1>1 DEF CallStep, Begin, LsRemote, LsRemoteFails, Hit, Miss, MakeTmp, GitInit, FetchCommit, CloneStarts, CloneEnds, ReadHead, ReadHeadFails, RecheckMiss, MakeParent, MakeParentFails, Rename, RenameFails, Crash, SameFor, IInv, TypeOK

LEMMA CallKeepsIInv ==
    ASSUME IInv, NEW p \in Calls, CallStep(p)
    PROVE  IInv'
<1>1. ASSUME NEW q \in Calls \ {p} PROVE CallInv(q)'
  <2>1. UNCHANGED upstream /\ SameFor(q) /\ CallInv(q)
    BY CallLeavesOthers DEF IInv
  <2> QED
    BY <2>1 DEF SameFor, CallInv, ArmInv, CloneInv, NamedInv
<1> QED
    BY <1>1, CallKeepsTypes, CallKeepsKeys, CallKeepsItself DEF IInv

\* What a cleaner leaves of a directory is a directory with no new part.
LEMMA ShrunkIsSmaller ==
    ASSUME NEW d \in Dirs, NEW e \in Shrunk(d)
    PROVE  e \in Dirs /\ e.git \in {d.git, None} /\ e.work \in {d.work, None}
<1>1. CASE d = EmptyDir
  <2>1. e = NoDir
    BY <1>1
  <2> QED
    BY <2>1
<1>2. CASE d # EmptyDir
    BY <1>2
<1> QED
    BY <1>1, <1>2

LEMMA CleanerKeepsIInv ==
    ASSUME IInv, NEW k \in Cleaners, CleanStep(k)
    PROVE  IInv'
<1>1. CASE CleanBegins(k)
    BY <1>1 DEF CleanBegins, IInv, TypeOK, ContentAddressed, CallInv, ArmInv, CloneInv, NamedInv
<1>2. CASE RemoveFromEntry(k)
  <2>1. PICK c \in Commits : \E d \in Shrunk(cache[c]) : cache' = [cache EXCEPT ![c] = d]
    BY <1>2 DEF RemoveFromEntry
  <2>d. PICK d \in Shrunk(cache[c]) : cache' = [cache EXCEPT ![c] = d]
    BY <2>1
  <2>2. UNCHANGED <<upstream, root, tmp, pc, want, target, out, cpc, history>>
    BY <1>2 DEF RemoveFromEntry
  <2>3. d \in Dirs /\ d.git \in {cache[c].git, None} /\ d.work \in {cache[c].work, None}
    BY <2>d, ShrunkIsSmaller DEF IInv, TypeOK
  <2> QED
    BY <2>d, <2>2, <2>3
       DEF IInv, TypeOK, ContentAddressed, CallInv, ArmInv, CloneInv, NamedInv
<1>3. CASE RemoveFromTmp(k)
  <2>1. PICK q \in Calls : \E d \in Shrunk(tmp[q]) : tmp[q].there /\ tmp' = [tmp EXCEPT ![q] = d]
    BY <1>3 DEF RemoveFromTmp, SetTmp
  <2>d. PICK d \in Shrunk(tmp[q]) : tmp[q].there /\ tmp' = [tmp EXCEPT ![q] = d]
    BY <2>1
  <2>2. UNCHANGED <<upstream, root, cache, pc, want, target, out, cpc, history>>
    BY <1>3 DEF RemoveFromTmp
  <2>3. d \in Dirs /\ d.git \in {tmp[q].git, None} /\ d.work \in {tmp[q].work, None}
    BY <2>d, ShrunkIsSmaller DEF IInv, TypeOK
  <2>4. TypeOK' /\ ContentAddressed'
    BY <2>d, <2>2, <2>3 DEF IInv, TypeOK, ContentAddressed
  <2>5. ASSUME NEW p \in Calls PROVE CallInv(p)'
    <3>1. /\ tmp'[p].git \in {tmp[p].git, None} /\ tmp'[p].work \in {tmp[p].work, None}
          /\ tmp'[p].there => tmp[p].there
      BY <2>d, <2>3 DEF IInv, TypeOK
    <3> QED
      BY <2>2, <3>1, NamesDistinct DEF IInv, CallInv, ArmInv, CloneInv, NamedInv
  <2> QED
    BY <2>4, <2>5 DEF IInv
<1>4. CASE RemoveRoot(k)
    BY <1>4 DEF RemoveRoot, IInv, TypeOK, ContentAddressed, CallInv, ArmInv, CloneInv, NamedInv
<1>5. CASE CleanStops(k)
    BY <1>5 DEF CleanStops, IInv, TypeOK, ContentAddressed, CallInv, ArmInv, CloneInv, NamedInv
<1> QED
    BY <1>1, <1>2, <1>3, <1>4, <1>5 DEF CleanStep

LEMMA PushKeepsIInv ==
    ASSUME IInv, NEW r \in Refs, Push(r)
    PROVE  IInv'
<1>1. PICK c \in Commits : upstream' = [upstream EXCEPT ![r] = c] /\
          named' = [p \in Calls |-> IF want[p] = r /\ out[p] = None
                                    THEN named[p] \cup {c} ELSE named[p]] /\
          shown' = [p \in Calls |-> IF want[p] \in Refs /\ out[p] = None /\ ParseLsRemote(want[p]) = r
                                    THEN shown[p] \cup {c} ELSE shown[p]]
    BY DEF Push
<1>2. UNCHANGED <<root, cache, tmp, pc, want, target, out, cpc, unremoved>>
    BY DEF Push
<1> QED
    BY <1>1, <1>2, ParseLsRemoteType DEF IInv, TypeOK, ContentAddressed, CallInv, ArmInv, CloneInv, NamedInv

LEMMA IInvInit == Init => IInv
<1> SUFFICES ASSUME Init PROVE IInv
    OBVIOUS
<1>1. NoDir \in Dirs
    OBVIOUS
<1>2. TypeOK
    BY <1>1 DEF Init, TypeOK
<1>3. ContentAddressed
    BY DEF Init, ContentAddressed
<1>4. ASSUME NEW p \in Calls PROVE CallInv(p)
    BY NamesDistinct DEF Init, CallInv, ArmInv, CloneInv, NamedInv
<1> QED
    BY <1>2, <1>3, <1>4 DEF IInv

THEOREM IInvHolds == Spec => []IInv
<1>1. Init => IInv
    BY IInvInit
<1>2. IInv /\ [Next]_vars => IInv'
  <2> SUFFICES ASSUME IInv, [Next]_vars PROVE IInv'
    OBVIOUS
  <2>1. CASE Next
    BY <2>1, CallKeepsIInv, CleanerKeepsIInv, PushKeepsIInv DEF Next
  <2>2. CASE UNCHANGED vars
    BY <2>2 DEF vars, IInv, TypeOK, ContentAddressed, CallInv, ArmInv, CloneInv, NamedInv
  <2> QED
    BY <2>1, <2>2
<1> QED
    BY <1>1, <1>2, PTL DEF Spec

\* Every variable keeps its type in every behaviour (fetch.rs, resolve).
THEOREM TypeCorrect == Spec => []TypeOK
<1>1. IInv => TypeOK
    BY DEF IInv
<1> QED
    BY <1>1, IInvHolds, PTL

\* Whatever lies at a commit's key came from that commit, with any number of
\* racing calls, kills, branch moves and cleaners (fetch.rs, cache_key and resolve).
THEOREM KeysTellTheTruth == Spec => []ContentAddressed
<1>1. IInv => ContentAddressed
    BY DEF IInv
<1> QED
    BY <1>1, IInvHolds, PTL

\* A call answers only a commit that its ref named while the call ran, or that the ref
\* did which ls-remote took for it, whatever refs the remote has and lists for it
\* (fetch.rs, resolve and parse_ls_remote).
THEOREM AnswersAreFresh == Spec => []FreshAnswer
<1>1. IInv => FreshAnswer
    BY DEF IInv, FreshAnswer, CallInv, NamedInv
<1> QED
    BY <1>1, IInvHolds, PTL

\* Only a kill, a failed git_head_sha or create_dir_all, or a removal that itself fails
\* leaks a temporary directory (fetch.rs, resolve and finalize).
THEOREM NothingLeaks == Spec => []NoLeak
<1>1. IInv => NoLeak
    BY DEF IInv, NoLeak, CallInv, CloneInv, TypeOK
<1> QED
    BY <1>1, IInvHolds, PTL

-----------------------------------------------------------------------------
(* With no cleaner about, the cache only ever holds whole checkouts          *)

WholeInv(p) ==
    /\ pc[p] # "idle" => root
    /\ pc[p] = "head" => \E c \in Commits : tmp[p] = Checkout(c)
    /\ pc[p] \in {"recheck", "parent", "rename"} => tmp[p] = Checkout(target[p])
    /\ pc[p] = "renamed_not" => cache[target[p]] = Checkout(target[p])
    /\ out[p] # "populate_error"

AtomicInv ==
    /\ IInv
    /\ \A c \in Commits : cache[c] \in {NoDir, Checkout(c)}
    /\ \A p \in Calls : WholeInv(p)

\* A step of a call leaves the cache alone, or publishes one whole checkout
\* where there was nothing.
Publishes(c) == cache[c] = NoDir /\ cache' = [cache EXCEPT ![c] = Checkout(c)]

\* All the rest needs of directories: what a whole checkout is not and holds.
LEMMA CheckoutFacts ==
    ASSUME NEW c \in Commits
    PROVE  /\ Checkout(c).there /\ Checkout(c).git = c /\ IsValidClone(Checkout(c))
           /\ Checkout(c) # NoDir /\ Checkout(c) # EmptyDir /\ NoDir # EmptyDir
           /\ ~IsValidClone(NoDir)
BY NamesDistinct

HIDE DEF NoDir, EmptyDir, NewGitDir, Checkout, Dirs, IsValidClone, Shrunk, PCs, Ended

LEMMA CallKeepsAtomicInv ==
    ASSUME AtomicInv, NEW p \in Calls, CallStep(p)
    PROVE  AtomicInv' /\ (UNCHANGED cache \/ \E c \in Commits : Publishes(c))
<1> USE CheckoutFacts DEF AtomicInv
<1>0. IInv'
    BY CallKeepsIInv
<1>1. CASE Begin(p)
    BY <1>0, <1>1, NamesDistinct DEF Begin, WholeInv, IInv, TypeOK, CallInv, ArmInv
<1>2. CASE LsRemote(p)
    BY <1>0, <1>2, NamesDistinct DEF LsRemote, WholeInv, IInv, TypeOK, CallInv, ArmInv
<1>3. CASE LsRemoteFails(p)
    BY <1>0, <1>3, NamesDistinct DEF LsRemoteFails, WholeInv, IInv, TypeOK, CallInv, ArmInv
<1>4. CASE Hit(p)
    BY <1>0, <1>4, NamesDistinct DEF Hit, WholeInv, IInv, TypeOK, CallInv, ArmInv
<1>5. CASE Miss(p)
    BY <1>0, <1>5, NamesDistinct DEF Miss, WholeInv, IInv, TypeOK, CallInv, ArmInv
<1>6. CASE MakeTmp(p)
    BY <1>0, <1>6, NamesDistinct DEF MakeTmp, WholeInv, IInv, TypeOK, CallInv, ArmInv
<1>7. CASE GitInit(p)
    BY <1>0, <1>7, NamesDistinct DEF GitInit, WholeInv, IInv, TypeOK, CallInv, ArmInv
<1>8. CASE FetchCommit(p)
  <2>1. tmp' = [tmp EXCEPT ![p] = Checkout(want[p])] /\ want[p] \in Commits
        /\ UNCHANGED <<root, cache, target, out>>
        /\ pc[p] = "fetch" /\ pc' = [pc EXCEPT ![p] = "head"]
    BY <1>8 DEF FetchCommit, IInv, CallInv, ArmInv
  <2> QED
    BY <1>0, <2>1 DEF WholeInv, IInv, TypeOK
<1>9. CASE CloneStarts(p)
    BY <1>0, <1>9, NamesDistinct DEF CloneStarts, WholeInv, IInv, TypeOK, CallInv, ArmInv
<1>10. CASE CloneEnds(p)
  <2>1. PICK c \in Commits : tmp' = [tmp EXCEPT ![p] = Checkout(c)]
    BY <1>10 DEF CloneEnds, IInv, TypeOK, CallInv, ArmInv
  <2>2. UNCHANGED <<root, cache, target, out>> /\ pc[p] = "cloning"
        /\ pc' = [pc EXCEPT ![p] = "head"]
    BY <1>10 DEF CloneEnds
  <2> QED
    BY <1>0, <2>1, <2>2 DEF WholeInv, IInv, TypeOK
<1>11. CASE GitFails(p)
    BY <1>0, <1>11, NamesDistinct DEF GitFails, Discard, WholeInv, IInv, TypeOK, CallInv, ArmInv
<1>12. CASE ReadHead(p)
  <2>1. PICK c \in Commits : tmp[p] = Checkout(c)
    BY <1>12 DEF ReadHead, WholeInv
  <2>2. target' = [target EXCEPT ![p] = c]
    <3>1. tmp[p].git = c
      BY <2>1
    <3>2. want[p] \in Commits => want[p] = c
      BY <1>12, <3>1, NamesDistinct DEF ReadHead, IInv, CallInv, CloneInv
    <3> QED
      BY <1>12, <3>1, <3>2 DEF ReadHead
  <2>3. UNCHANGED <<root, cache, tmp, out>> /\ pc[p] = "head"
        /\ \E to \in {"parent", "recheck"} : pc' = [pc EXCEPT ![p] = to]
    BY <1>12 DEF ReadHead
  <2> QED
    BY <1>0, <2>1, <2>2, <2>3 DEF WholeInv, IInv, TypeOK
<1>13. CASE ReadHeadFails(p)
    BY <1>0, <1>13, NamesDistinct DEF ReadHeadFails, WholeInv, IInv, TypeOK, CallInv, ArmInv
<1>14. CASE RecheckHit(p)
    BY <1>0, <1>14, NamesDistinct DEF RecheckHit, Discard, WholeInv, IInv, TypeOK, CallInv, ArmInv
<1>15. CASE RecheckMiss(p)
    BY <1>0, <1>15, NamesDistinct DEF RecheckMiss, WholeInv, IInv, TypeOK, CallInv, ArmInv
<1>16. CASE MakeParent(p)
    BY <1>0, <1>16, NamesDistinct DEF MakeParent, WholeInv, IInv, TypeOK, CallInv, ArmInv
<1>22. CASE MakeParentFails(p)
    BY <1>0, <1>22, NamesDistinct DEF MakeParentFails, WholeInv, IInv, TypeOK, CallInv, ArmInv
<1>17. CASE Rename(p)
  <2>1. cache[target[p]] = NoDir /\ target[p] \in Commits
    BY <1>17 DEF Rename, CanRename, IInv, CallInv, ArmInv
  <2>2. cache' = [cache EXCEPT ![target[p]] = Checkout(target[p])]
    BY <1>17 DEF Rename, WholeInv
  <2>3. Publishes(target[p])
    BY <2>1, <2>2 DEF Publishes
  <2>4. UNCHANGED <<root, target>> /\ pc[p] = "rename" /\ pc' = [pc EXCEPT ![p] = "ok"]
        /\ tmp' = [tmp EXCEPT ![p] = NoDir] /\ out' = [out EXCEPT ![p] = target[p]]
    BY <1>17 DEF Rename
  <2>5. \A c \in Commits : cache'[c] \in {NoDir, Checkout(c)}
    BY <2>1, <2>2 DEF IInv, TypeOK
  <2>6. ASSUME NEW q \in Calls PROVE WholeInv(q)'
    BY <2>1, <2>2, <2>4, NamesDistinct DEF WholeInv, IInv, TypeOK
  <2> QED
    BY <1>0, <2>1, <2>3, <2>5, <2>6
<1>18. CASE RenameFails(p)
  <2>1. UNCHANGED <<root, cache, tmp, target, out>> /\ pc[p] = "rename"
        /\ pc' = [pc EXCEPT ![p] = "renamed_not"]
    BY <1>18 DEF RenameFails
  <2>2. root /\ tmp[p].there /\ target[p] \in Commits
    BY <2>1 DEF WholeInv, IInv, CallInv, ArmInv
  <2>3. cache[target[p]] = Checkout(target[p])
    BY <1>18, <2>2 DEF RenameFails, CanRename
  <2> QED
    BY <1>0, <2>1, <2>3 DEF WholeInv, IInv, TypeOK
<1>19. CASE UseWinner(p)
    BY <1>0, <1>19, NamesDistinct DEF UseWinner, Discard, WholeInv, IInv, TypeOK, CallInv, ArmInv
<1>20. CASE PopulateFails(p)
    BY <1>0, <1>20, NamesDistinct DEF PopulateFails, Discard, WholeInv, IInv, TypeOK, CallInv, ArmInv
<1>21. CASE Crash(p)
    BY <1>0, <1>21, NamesDistinct DEF Crash, WholeInv, IInv, TypeOK, CallInv, ArmInv
<1> QED
    BY <1>1, <1>2, <1>3, <1>4, <1>5, <1>6, <1>7, <1>8, <1>9, <1>10, <1>11, <1>12, <1>13, <1>14, <1>15, <1>16, <1>17, <1>18, <1>19, <1>20, <1>21, <1>22 DEF CallStep

LEMMA PushKeepsAtomicInv ==
    ASSUME AtomicInv, NEW r \in Refs, Push(r)
    PROVE  AtomicInv' /\ UNCHANGED cache
<1>1. IInv' /\ UNCHANGED <<root, cache, tmp, pc, target, out>>
    BY PushKeepsIInv DEF AtomicInv, Push
<1> QED
    BY <1>1 DEF AtomicInv, WholeInv

LEMMA AtomicStep ==
    ASSUME Cleaners = {}, AtomicInv, [Next]_vars
    PROVE  AtomicInv' /\ (UNCHANGED cache \/ \E c \in Commits : Publishes(c))
<1>1. CASE Next
    BY <1>1, CallKeepsAtomicInv, PushKeepsAtomicInv DEF Next
<1>2. CASE UNCHANGED vars
  <2>1. IInv'
    BY <1>2 DEF vars, AtomicInv, IInv, TypeOK, ContentAddressed, CallInv, ArmInv, CloneInv, NamedInv
  <2> QED
    BY <1>2, <2>1 DEF vars, AtomicInv, WholeInv
<1> QED
    BY <1>1, <1>2

LEMMA AtomicInit == Init => AtomicInv
<1> SUFFICES ASSUME Init PROVE AtomicInv
    OBVIOUS
<1>1. IInv
    BY IInvInit
<1>2. ASSUME NEW p \in Calls PROVE WholeInv(p)
    BY NamesDistinct DEF Init, WholeInv
<1> QED
    BY <1>1, <1>2 DEF Init, AtomicInv

\* With no cleaner about, is_valid_clone never accepts a half-made clone, however
\* many calls race, fail and die (fetch.rs, finalize and is_valid_clone).
THEOREM PublicationIsAtomic ==
    ASSUME Cleaners = {}
    PROVE  Spec => [](ValidMeansComplete /\ RaceIsNoError)
<1>1. AtomicInv => ValidMeansComplete /\ RaceIsNoError
    BY CheckoutFacts DEF AtomicInv, ValidMeansComplete, RaceIsNoError, WholeInv
<1> QED
    BY <1>1, AtomicInit, AtomicStep, PTL DEF Spec

\* With no cleaner about, no step ever changes a published clone (fetch.rs, finalize:
\* rename replaces nothing but an absent or empty directory).
THEOREM PublishedStaysFrozen ==
    ASSUME Cleaners = {}
    PROVE  Spec => PublishedIsFrozen
<1>1. AtomicInv /\ [Next]_vars =>
          [\A c \in Commits : IsValidClone(cache[c]) => cache'[c] = cache[c]]_vars
    BY AtomicStep, CheckoutFacts DEF Publishes, AtomicInv, IInv, TypeOK
<1> QED
    BY <1>1, AtomicInit, AtomicStep, PTL DEF Spec, PublishedIsFrozen

-----------------------------------------------------------------------------
(* The cache implements the abstract store                                   *)

published == {c \in Commits : IsValidClone(cache[c])}

\* A call moves the abstract store in four ways.
LEMMA CallImplements ==
    ASSUME AtomicInv, NEW p \in Calls, CallStep(p)
    PROVE  Store!Next \/ UNCHANGED Store!vars
<1> USE CheckoutFacts DEF AtomicInv
<1>a. published' = published \/ \E c \in Commits : Publishes(c)
    BY CallKeepsAtomicInv DEF published
<1>1. ASSUME NEW w \in Commits \cup Refs, want[p] = None, UNCHANGED <<upstream, cache, out>>,
             want' = [want EXCEPT ![p] = w],
             named' = [named EXCEPT ![p] = IF w \in Refs THEN {upstream[w]} ELSE {w}],
             shown' = [shown EXCEPT ![p] = IF w \in Refs THEN {upstream[ParseLsRemote(w)]} ELSE {}]
      PROVE  Store!Next
    BY <1>1 DEF Store!Next, Store!Ask
<1>2. ASSUME UNCHANGED <<upstream, want, named, shown>>, pc[p] \notin Ended \cup {"idle"},
             NEW c \in Commits, c \in named[p] \/ (c \in shown[p] /\ c \in published), out' = [out EXCEPT ![p] = c],
             published' = published \cup {c}
      PROVE  Store!Next
    BY <1>2, NamesDistinct
       DEF Store!Next, Store!Answers, Store!Open, published, IInv, CallInv, ArmInv, NamedInv
<1>3. ASSUME UNCHANGED <<upstream, cache, want, named, shown>>, pc[p] \notin Ended \cup {"idle"},
             NEW e \in Errors, out' = [out EXCEPT ![p] = e]
      PROVE  Store!Next
  <2>1. Store!Open(p)
    BY <1>3, NamesDistinct DEF Store!Open, IInv, CallInv, ArmInv, NamedInv
  <2>2. published' = published
    BY <1>3 DEF published
  <2>3. Store!Fails(p, e)
    BY <1>3, <2>1, <2>2 DEF Store!Fails, published
  <2> QED
    BY <2>3 DEF Store!Next
<1>4. ASSUME UNCHANGED <<upstream, cache, want, out, named, shown>>
      PROVE  UNCHANGED Store!vars
    BY <1>4 DEF Store!vars
<1>5. CASE Begin(p)
    BY <1>5, <1>1 DEF Begin, IInv, CallInv, ArmInv
<1>6. CASE Hit(p) \/ RecheckHit(p) \/ UseWinner(p)
  <2>1. UNCHANGED <<upstream, want, named, shown, cache>> /\ pc[p] \in HasTarget
        /\ out' = [out EXCEPT ![p] = target[p]] /\ IsValidClone(cache[target[p]])
    BY <1>6 DEF Hit, RecheckHit, UseWinner, Discard
  <2>2. target[p] \in Commits /\ target[p] \in named[p] \cup shown[p] /\ target[p] \in published
    BY <2>1 DEF IInv, CallInv, ArmInv, NamedInv, published
  <2>3. published' = published \cup {target[p]}
    BY <2>1, <2>2 DEF published
  <2> QED
    BY <1>2, <2>1, <2>2, <2>3 DEF Ended
<1>7. CASE Rename(p)
  <2>1. UNCHANGED <<upstream, want, named, shown>> /\ pc[p] = "rename"
        /\ out' = [out EXCEPT ![p] = target[p]]
        /\ cache' = [cache EXCEPT ![target[p]] = Checkout(target[p])]
    BY <1>7 DEF Rename, WholeInv
  <2>2. target[p] \in Commits /\ target[p] \in named[p]
    BY <2>1 DEF IInv, CallInv, ArmInv, NamedInv
  <2>3. published' = published \cup {target[p]}
    BY <2>1, <2>2 DEF published, IInv, TypeOK
  <2> QED
    BY <1>2, <2>1, <2>2, <2>3 DEF Ended
<1>8. CASE GitFails(p) \/ ReadHeadFails(p) \/ MakeParentFails(p) \/ PopulateFails(p)
  <2>1. UNCHANGED <<upstream, cache, want, named, shown>> /\ pc[p] \notin Ended \cup {"idle"}
        /\ \E e \in Errors : out' = [out EXCEPT ![p] = e]
    BY <1>8 DEF GitFails, ReadHeadFails, MakeParentFails, PopulateFails, Discard, Ended
  <2> QED
    BY <2>1, <1>3
<1>9. CASE LsRemote(p) \/ LsRemoteFails(p) \/ Miss(p) \/ MakeTmp(p) \/
           GitInit(p) \/ FetchCommit(p) \/ CloneStarts(p) \/ CloneEnds(p) \/
           ReadHead(p) \/ RecheckMiss(p) \/ MakeParent(p) \/ RenameFails(p) \/
           Crash(p)
    BY <1>9, <1>4 DEF LsRemote, LsRemoteFails, Miss, MakeTmp, GitInit, FetchCommit, CloneStarts,
       CloneEnds, ReadHead, RecheckMiss, MakeParent, RenameFails, Crash
<1> QED
    BY <1>5, <1>6, <1>7, <1>8, <1>9 DEF CallStep

\* With no cleaner about, resolve implements the abstract store: whole immutable
\* checkouts, atomic answers (fetch.rs, resolve and finalize).
THEOREM CacheImplementsStore ==
    ASSUME Cleaners = {}
    PROVE  Spec => ImplementsStore
<1>1. Init => Store!Init
    BY CheckoutFacts DEF Init, Store!Init
<1>2. AtomicInv /\ [Next]_vars => [Store!Next]_(Store!vars)
  <2> SUFFICES ASSUME AtomicInv, [Next]_vars PROVE [Store!Next]_(Store!vars)
    OBVIOUS
  <2>1. ASSUME NEW p \in Calls, CallStep(p) PROVE Store!Next \/ UNCHANGED Store!vars
    BY <2>1, CallImplements
  <2>2. ASSUME NEW r \in Refs, Push(r) PROVE Store!Next
    BY <2>2 DEF Push, Store!Next, Store!Push
  <2>3. CASE UNCHANGED vars
    BY <2>3 DEF vars, Store!vars
  <2> QED
    BY <2>1, <2>2, <2>3 DEF Next
<1> QED
    BY <1>1, <1>2, AtomicInit, AtomicStep, PTL DEF Spec, ImplementsStore, Store!Spec
=============================================================================
