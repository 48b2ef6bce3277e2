---------------------------- MODULE ResolverProofs ----------------------------
(***************************************************************************)
(* Proofs about Resolver, for any tree of any size: the walk lists every      *)
(* module once and after the modules it imports, and the cycle it reports is  *)
(* one.  What carries them is the state of the frames: a statement a frame    *)
(* has passed leads to a listed module, or to the frame above.                *)
(***************************************************************************)
EXTENDS Resolver, SequenceTheorems, WellFoundedInduction, TLAPS

Keys == {stack[k].key : k \in 1 .. Len(stack)}

\* Where the k-th import of module f leads.
Leads(f, k) == Target(base[f], Imports(f)[k].id).file
Real(f) == {k \in 1 .. Len(Imports(f)) : Imports(f)[k].id \notin Skipped}

\* Every module listed or in flight has its base, but for one that does not parse.
BasesInv ==
    phase # "unparsable" => \A f \in Elements(order) \cup Keys : base[f] \in Dirs

\* in_flight is the stack, no key is on it twice, and no key is listed.
PlacesInv ==
    /\ inFlight = Keys
    /\ \A i, j \in 1 .. Len(stack) : stack[i].key = stack[j].key => i = j

FramesInv ==
    \A p \in 1 .. Len(stack) :
        /\ \A k \in Real(stack[p].key) : k < stack[p].next =>
               \/ Leads(stack[p].key, k) \in Elements(order)
               \/ p < Len(stack) /\ Leads(stack[p].key, k) = stack[p + 1].key
        /\ p < Len(stack) => stack[p + 1].key \in Deps(stack[p].key)

\* The walk starts at the root and ends with it, and a module has an id once it is
\* imported.
WalkInv ==
    /\ phase = "start" => stack = <<>> /\ order = <<>>
    /\ phase = "walk" => stack # <<>> /\ stack[1].key = tree.root
    /\ phase \in Passes => order # <<>> /\ order[Len(order)] = tree.root
    /\ phase # "unparsable" => \A f \in Elements(order) \cup Keys : id[f] = None <=> f = tree.root

IInv ==
    /\ TypeOK /\ WalkInv /\ BasesInv /\ PlacesInv /\ ListedOnce /\ FramesInv
    /\ ImportsComeFirst /\ CycleIsReal

-----------------------------------------------------------------------------
(* Where imports lead                                                        *)

LEMMA NoneIsNothing == None \notin Files /\ None \notin Ids /\ None \notin Dirs
BY TreesAssumption

LEMMA FirstIn ==
    ASSUME NEW S, S \subseteq Nat, S # {}
    PROVE  First(S) \in S /\ \A j \in S : First(S) <= j
<1> DEFINE R == OpToRel(<, Nat)
<1>1. IsWellFoundedOn(R, Nat)
  BY NatLessThanWellFounded
<1>2. \A x, y \in Nat : <<x, y>> \in R <=> x < y
  BY DEF OpToRel
<1> HIDE DEF R
<1>3. PICK x \in S : \A y \in S : <<y, x>> \notin R
  BY <1>1, WFMin
<1>4. ASSUME NEW j \in S PROVE x <= j
  <2>1. x \in Nat /\ j \in Nat /\ <<j, x>> \notin R
    BY <1>3
  <2>2. ~(j < x)
    BY <1>2, <2>1
  <2> QED
    BY <2>1, <2>2
<1> QED
  BY <1>4 DEF First

LEMMA TreeType ==
    ASSUME TypeOK
    PROVE  /\ tree.root \in Files /\ tree.home \in Dirs /\ tree.search \in Seq(Dirs)
           /\ tree.at \in [Dirs -> [Ids -> Files \cup {None}]]
           /\ tree.pkg \in [Dirs -> [Ids -> Files \cup {None, Bare}]]
           /\ tree.builtin \in [Ids -> Embedded \cup {None}]
           /\ \A f \in Files : Imports(f) \in Seq(Statement)
<1>1. tree \in Tree
  BY TreesAssumption DEF TypeOK
<1>2. tree.text \in [Files -> Text]
  BY <1>1 DEF Tree
<1>3. ASSUME NEW f \in Files PROVE Imports(f) \in Seq(Statement)
  <2>1. tree.text[f] \in Text
    BY <1>2
  <2> QED
    BY <2>1 DEF Imports, Text
<1>4. /\ tree.root \in Files /\ tree.home \in Dirs /\ tree.search \in Seq(Dirs)
      /\ tree.at \in [Dirs -> [Ids -> Files \cup {None}]]
      /\ tree.pkg \in [Dirs -> [Ids -> Files \cup {None, Bare}]]
      /\ tree.builtin \in [Ids -> Embedded \cup {None}]
  BY <1>1 DEF Tree
<1> QED
  BY <1>3, <1>4

LEMMA PlacesType ==
    ASSUME TypeOK, NEW dir \in Dirs
    PROVE  /\ Len(Places(dir)) \in Nat
           /\ \A i \in 1 .. Len(Places(dir)) : Places(dir)[i] \in Dirs
<1>1. tree.search \in Seq(Dirs)
  BY TreeType
<1>2. <<dir>> \in Seq(Dirs)
  OBVIOUS
<1>3. Places(dir) \in Seq(Dirs)
  BY <1>1, <1>2, ConcatProperties DEF Places
<1> QED
  BY <1>3, ElementOfSeq, LenProperties

LEMMA TargetType ==
    ASSUME TypeOK, NEW dir \in Dirs, NEW m \in Ids
    PROVE  Target(dir, m).file \in Files \cup {None} /\ Target(dir, m).base \in Dirs
<1>0. /\ tree.at \in [Dirs -> [Ids -> Files \cup {None}]]
      /\ tree.pkg \in [Dirs -> [Ids -> Files \cup {None, Bare}]]
      /\ tree.builtin \in [Ids -> Embedded \cup {None}]
  BY TreeType
<1>1. CASE IsModule(dir, m)
  <2> DEFINE i == First(ModulePlaces(dir, m))
             d == Places(dir)[i]
  <2>1. i \in 1 .. Len(Places(dir))
    <3>1. ModulePlaces(dir, m) \subseteq 1 .. Len(Places(dir))
      BY DEF ModulePlaces
    <3>2. ModulePlaces(dir, m) \subseteq Nat
      BY <3>1, PlacesType
    <3> QED
      BY <1>1, <3>1, <3>2, FirstIn DEF IsModule
  <2>2. d \in Dirs
    BY <2>1, PlacesType
  <2> HIDE DEF i
  <2>3. Target(dir, m) = [file |-> tree.at[d][m], base |-> d]
    <3>1. ~IsBuiltin(dir, m) /\ ~IsPackage(dir, m)
      BY <1>1 DEF IsBuiltin, IsPackage
    <3> QED
      BY <1>1, <3>1 DEF Target, i
  <2> HIDE DEF d
  <2> QED
    BY <1>0, <2>2, <2>3
<1>2. CASE IsBuiltin(dir, m)
  <2>1. Target(dir, m) = [file |-> tree.builtin[m], base |-> StdlibDir]
    <3>1. ~IsModule(dir, m) /\ ~IsPackage(dir, m)
      BY <1>2 DEF IsBuiltin, IsPackage
    <3> QED
      BY <1>2, <3>1 DEF Target
  <2> QED
    BY <1>0, <2>1, TreesAssumption
<1>3. CASE ~IsModule(dir, m) /\ ~IsBuiltin(dir, m) /\ IsPackage(dir, m) /\ PackageEntry(dir, m) # Bare
  <2> DEFINE i == First(PackagePlaces(dir, m))
  <2>1. i \in 1 .. Len(Places(dir))
    <3>1. PackagePlaces(dir, m) \subseteq 1 .. Len(Places(dir))
      BY DEF PackagePlaces
    <3>2. PackagePlaces(dir, m) \subseteq Nat
      BY <3>1, PlacesType
    <3> QED
      BY <1>3, <3>1, <3>2, FirstIn DEF IsPackage
  <2>2. Places(dir)[i] \in Dirs
    BY <2>1, PlacesType
  <2>3. PackageEntry(dir, m) \in Files \cup {None, Bare}
    BY <1>0, <2>2 DEF PackageEntry
  <2>4. Target(dir, m) = [file |-> PackageEntry(dir, m), base |-> dir]
    BY <1>3 DEF Target
  <2> QED
    BY <1>3, <2>3, <2>4
<1>4. CASE ~IsModule(dir, m) /\ ~IsBuiltin(dir, m) /\ ~(IsPackage(dir, m) /\ PackageEntry(dir, m) # Bare)
  BY <1>4 DEF Target
<1> QED
  BY <1>1, <1>2, <1>3, <1>4

-----------------------------------------------------------------------------
(* The stack                                                                 *)

LEMMA TopType ==
    ASSUME TypeOK, stack # <<>>
    PROVE  /\ Len(stack) \in Nat \ {0} /\ Top = stack[Len(stack)]
           /\ \A k \in 1 .. Len(stack) : stack[k].key \in Files /\ stack[k].next \in Nat \ {0}
           /\ Top.key \in Files /\ Top.next \in Nat \ {0}
<1>1. stack \in Seq(Frame)
  BY DEF TypeOK
<1>2. Len(stack) \in Nat \ {0}
  BY <1>1, EmptySeq
<1>3. \A k \in 1 .. Len(stack) : stack[k] \in Frame
  BY <1>1, ElementOfSeq
<1> QED
  BY <1>2, <1>3 DEF Frame, Top

LEMMA AdvancedType ==
    ASSUME TypeOK, stack # <<>>
    PROVE  /\ Advanced \in Seq(Frame) /\ Len(Advanced) = Len(stack)
           /\ \A k \in 1 .. Len(stack) :
                  /\ Advanced[k].key = stack[k].key
                  /\ Advanced[k].next = IF k = Len(stack) THEN stack[k].next + 1 ELSE stack[k].next
<1>1. stack \in Seq(Frame) /\ Top \in Frame /\ Len(stack) \in 1 .. Len(stack) /\ Top = stack[Len(stack)]
  BY TopType, ElementOfSeq DEF TypeOK
<1> DEFINE t == stack
           n == Len(stack)
           f == [key |-> Top.key, next |-> Top.next + 1]
<1>2. f \in Frame
  BY <1>1 DEF Frame
<1>3. [Top EXCEPT !.next = @ + 1] = f
  BY <1>1 DEF Frame
<1>4. Advanced = [t EXCEPT ![n] = f]
  BY <1>1, <1>3 DEF Advanced
<1>5. t \in Seq(Frame) /\ n \in 1 .. Len(t)
  BY <1>1
<1> HIDE DEF t, n, f
<1>6. /\ [t EXCEPT ![n] = f] \in Seq(Frame) /\ Len([t EXCEPT ![n] = f]) = Len(t)
      /\ \A j \in 1 .. Len(t) : [t EXCEPT ![n] = f][j] = IF j = n THEN f ELSE t[j]
  BY <1>2, <1>5, ExceptSeq
<1> QED
  BY <1>1, <1>4, <1>6 DEF t, n, f

LEMMA PushedType ==
    ASSUME NEW s \in Seq(Frame), NEW f \in Files
    PROVE  LET t == Append(s, [key |-> f, next |-> 1]) IN
           /\ t \in Seq(Frame) /\ Len(t) = Len(s) + 1 /\ Len(s) \in Nat
           /\ \A k \in 1 .. Len(s) : t[k] = s[k]
           /\ t[Len(s) + 1] = [key |-> f, next |-> 1]
<1> DEFINE e == [key |-> f, next |-> 1]
<1>1. e \in Frame
  BY DEF Frame
<1> HIDE DEF e
<1>2. LET t == Append(s, e) IN
      /\ t \in Seq(Frame) /\ Len(t) = Len(s) + 1 /\ Len(s) \in Nat
      /\ \A k \in 1 .. Len(s) : t[k] = s[k]
      /\ t[Len(s) + 1] = e
  BY <1>1
<1> QED
  BY <1>2 DEF e

LEMMA PrefixType ==
    ASSUME NEW S, NEW s, NEW n \in Nat, \A i \in 1 .. n : s[i] \in S
    PROVE  /\ SubSeq(s, 1, n) \in Seq(S) /\ Len(SubSeq(s, 1, n)) = n
           /\ \A k \in 1 .. n : SubSeq(s, 1, n)[k] = s[k]
<1>1. 1 \in Int /\ n \in Int
  OBVIOUS
<1>2. /\ SubSeq(s, 1, n) \in Seq(S)
      /\ Len(SubSeq(s, 1, n)) = IF 1 <= n THEN n - 1 + 1 ELSE 0
      /\ \A i \in 1 .. n - 1 + 1 : SubSeq(s, 1, n)[i] = s[1 + i - 1]
  BY <1>1, SubSeqProperties
<1> QED
  BY <1>2

LEMMA PoppedType ==
    ASSUME TypeOK, stack # <<>>
    PROVE  LET t == SubSeq(stack, 1, Len(stack) - 1) IN
           /\ t \in Seq(Frame) /\ Len(t) = Len(stack) - 1
           /\ \A k \in 1 .. Len(stack) - 1 : t[k] = stack[k]
<1>1. stack \in Seq(Frame) /\ Len(stack) \in Nat \ {0}
  BY TopType DEF TypeOK
<1>2. \A i \in 1 .. Len(stack) - 1 : stack[i] \in Frame
  BY <1>1, ElementOfSeq
<1> DEFINE n == Len(stack) - 1
           s == stack
<1>3. n \in Nat /\ \A i \in 1 .. n : s[i] \in Frame
  BY <1>1, <1>2
<1> HIDE DEF n, s
<1>4. /\ SubSeq(s, 1, n) \in Seq(Frame) /\ Len(SubSeq(s, 1, n)) = n
      /\ \A k \in 1 .. n : SubSeq(s, 1, n)[k] = s[k]
  BY <1>3, PrefixType
<1> QED
  BY <1>4 DEF n, s

LEMMA Listed ==
    ASSUME NEW S, NEW s \in Seq(S), NEW e \in S
    PROVE  /\ Append(s, e) \in Seq(S) /\ Len(s) \in Nat /\ Len(Append(s, e)) = Len(s) + 1
           /\ \A i \in 1 .. Len(s) : Append(s, e)[i] = s[i]
           /\ Append(s, e)[Len(s) + 1] = e
           /\ Elements(Append(s, e)) = Elements(s) \cup {e}
<1>1. /\ Append(s, e) \in Seq(S) /\ Len(s) \in Nat /\ Len(Append(s, e)) = Len(s) + 1
      /\ \A i \in 1 .. Len(s) : Append(s, e)[i] = s[i]
      /\ Append(s, e)[Len(s) + 1] = e
  OBVIOUS
<1>2. Elements(Append(s, e)) = Elements(s) \cup {e}
  <2>1. 1 .. Len(s) + 1 = (1 .. Len(s)) \cup {Len(s) + 1}
    BY <1>1
  <2> QED
    BY <1>1, <2>1 DEF Elements
<1> QED
  BY <1>1, <1>2

-----------------------------------------------------------------------------
(* The import at the top of the stack                                        *)

LEMMA AtImportFacts ==
    ASSUME IInv, AtImport
    PROVE  /\ Top.next \in 1 .. Len(Imports(Top.key)) /\ Wanted = Imports(Top.key)[Top.next].id
           /\ Wanted \in Ids /\ base[Top.key] \in Dirs
           /\ Found = Target(base[Top.key], Wanted) /\ Found.file = Leads(Top.key, Top.next)
           /\ Found.file \in Files \cup {None} /\ Found.base \in Dirs
           /\ Wanted \notin Skipped => Top.next \in Real(Top.key) /\ Found.file \in Deps(Top.key)
<1>1. TypeOK /\ stack # <<>> /\ phase = "walk"
  BY DEF IInv, AtImport
<1>2. Top.key \in Files /\ Top.next \in Nat \ {0} /\ Len(stack) \in 1 .. Len(stack) /\ Top = stack[Len(stack)]
  BY <1>1, TopType
<1>3. Imports(Top.key) \in Seq(Statement)
  BY <1>1, <1>2, TreeType
<1>4. Top.next \in 1 .. Len(Imports(Top.key)) /\ Wanted = Imports(Top.key)[Top.next].id
  BY <1>2, <1>3 DEF AtImport, Statements, Wanted
<1>5. Wanted \in Ids
  <2>1. Imports(Top.key)[Top.next] \in Statement
    BY <1>3, <1>4, ElementOfSeq
  <2> QED
    BY <1>4, <2>1 DEF Statement
<1>6. base[Top.key] \in Dirs
  BY <1>1, <1>2 DEF IInv, BasesInv, Keys
<1>7. Found = Target(base[Top.key], Wanted) /\ Found.file = Leads(Top.key, Top.next)
  BY <1>4 DEF Found, Leads
<1>8. Found.file \in Files \cup {None} /\ Found.base \in Dirs
  BY <1>1, <1>5, <1>6, <1>7, TargetType
<1>9. Wanted \notin Skipped => Top.next \in Real(Top.key) /\ Found.file \in Deps(Top.key)
  BY <1>4, <1>7 DEF Real, Deps, Leads
<1> QED
  BY <1>4, <1>5, <1>6, <1>7, <1>8, <1>9

LEMMA CyclePathType ==
    ASSUME IInv, NEW f \in inFlight
    PROVE  LET from == First({k \in 1 .. Len(stack) : stack[k].key = f}) IN
           /\ from \in 1 .. Len(stack) /\ stack[from].key = f
           /\ CyclePath(f) \in Seq(Files) /\ Len(CyclePath(f)) = Len(stack) + 2 - from
           /\ \A k \in 1 .. Len(stack) + 1 - from : CyclePath(f)[k] = stack[from + k - 1].key
           /\ CyclePath(f)[Len(stack) + 2 - from] = f
<1> DEFINE S == {k \in 1 .. Len(stack) : stack[k].key = f}
           from == First(S)
           n == Len(stack) + 1 - from
           path == [k \in 1 .. n |-> stack[from + k - 1].key]
<1>1. stack \in Seq(Frame) /\ Len(stack) \in Nat /\ f \in Files
  BY DEF IInv, TypeOK
<1>2. S # {} /\ S \subseteq Nat
  BY DEF IInv, PlacesInv, Keys
<1>3. from \in S
  BY <1>2, FirstIn
<1> HIDE DEF from
<1>4. from \in 1 .. Len(stack) /\ stack[from].key = f
  BY <1>3
<1>5. n \in Nat \ {0}
  BY <1>1, <1>4
<1>6. \A k \in 1 .. n : stack[from + k - 1].key \in Files
  <2>1. ASSUME NEW k \in 1 .. n PROVE from + k - 1 \in 1 .. Len(stack)
    BY <1>1, <1>4
  <2>2. \A k \in 1 .. Len(stack) : stack[k].key \in Files
    <3>1. \A k \in 1 .. Len(stack) : stack[k] \in Frame
      BY <1>1, ElementOfSeq
    <3> QED
      BY <3>1 DEF Frame
  <2> QED
    BY <2>1, <2>2
<1>7. path \in [1 .. n -> Files]
  BY <1>6
<1>8. path \in Seq(Files) /\ Len(path) = n
  <2>1. path \in Seq(Files)
    BY <1>5, <1>7, SeqDef
  <2>2. DOMAIN path = 1 .. n
    OBVIOUS
  <2> QED
    BY <1>5, <2>1, <2>2, LenProperties
<1>9. \A k \in 1 .. n : path[k] = stack[from + k - 1].key
  OBVIOUS
<1>10. CyclePath(f) = Append(path, f)
  BY DEF CyclePath, from
<1> HIDE DEF path
<1>11. /\ Append(path, f) \in Seq(Files) /\ Len(Append(path, f)) = n + 1
       /\ \A k \in 1 .. n : Append(path, f)[k] = path[k]
       /\ Append(path, f)[n + 1] = f
  BY <1>1, <1>8, Listed
<1>12. n + 1 = Len(stack) + 2 - from
  BY <1>1, <1>4
<1> QED
  BY <1>4, <1>9, <1>10, <1>11, <1>12 DEF from

-----------------------------------------------------------------------------
(* What the steps of the walk preserve                                       *)

\* Targets depend on the tree and on the base alone.
LEMMA SameLeads ==
    ASSUME tree' = tree
    PROVE  /\ \A f : Imports(f)' = Imports(f) /\ Real(f)' = Real(f)
           /\ \A f, k : base'[f] = base[f] => Leads(f, k)' = Leads(f, k)
           /\ \A f : base'[f] = base[f] => Deps(f)' = Deps(f)
<1>1. \A f : Imports(f)' = Imports(f)
  BY DEF Imports
<1>2. \A d : Places(d)' = Places(d)
  BY DEF Places
<1>3. \A d, m : ModulePlaces(d, m)' = ModulePlaces(d, m) /\ PackagePlaces(d, m)' = PackagePlaces(d, m)
  BY <1>2 DEF ModulePlaces, PackagePlaces
<1>4. \A d, m : PackageEntry(d, m)' = PackageEntry(d, m)
  BY <1>2, <1>3 DEF PackageEntry
<1>5. \A d, m : /\ IsModule(d, m)' = IsModule(d, m) /\ IsBuiltin(d, m)' = IsBuiltin(d, m)
               /\ IsPackage(d, m)' = IsPackage(d, m)
  BY <1>3 DEF IsModule, IsBuiltin, IsPackage
<1>6. \A d, m : Target(d, m)' = Target(d, m)
  BY <1>2, <1>3, <1>4, <1>5 DEF Target
<1>7. \A f : Real(f)' = Real(f)
  BY <1>1 DEF Real
<1>8. \A f, k : base'[f] = base[f] => Leads(f, k)' = Leads(f, k)
  BY <1>1, <1>6 DEF Leads
<1>9. \A f : base'[f] = base[f] => Deps(f)' = Deps(f)
  BY <1>1, <1>6 DEF Deps
<1> QED
  BY <1>1, <1>7, <1>8, <1>9

LEMMA LoadType ==
    ASSUME TypeOK, NEW f \in Files, NEW s \in Seq(Frame), NEW m \in Ids \cup {None}, NEW dir \in Dirs,
           Load(f, s, m, dir)
    PROVE  /\ stack' \in Seq(Frame) /\ inFlight' \in SUBSET Files
           /\ phase' \in {"walk", "unparsable"}
           /\ id' \in [Files -> Ids \cup {None}] /\ base' \in [Files -> Dirs \cup {None}]
<1>1. stack' \in Seq(Frame)
  BY PushedType DEF Load
<1> QED
  BY <1>1 DEF Load, TypeOK

LEMMA TypeKept == IInv /\ [Next]_vars => TypeOK'
<1> SUFFICES ASSUME IInv, [Next]_vars PROVE TypeOK'
  OBVIOUS
<1> USE DEF walking, Errors, Passes
<1>t. TypeOK
  BY DEF IInv
<1>a. ASSUME AtImport PROVE stack # <<>> /\ Wanted \in Ids /\ Found.file \in Files \cup {None} /\ Found.base \in Dirs
  BY <1>a, AtImportFacts DEF AtImport
<1>s. ASSUME stack # <<>> PROVE Advanced \in Seq(Frame)
  BY <1>t, <1>s, AdvancedType
<1>n. ASSUME AtImport, NotePackage PROVE initIds' \in SUBSET Ids
  BY <1>t, <1>a, <1>n DEF NotePackage, TypeOK
<1>1. ASSUME Start PROVE TypeOK'
  <2>1. <<>> \in Seq(Frame) /\ tree.root \in Files /\ tree.home \in Dirs
    BY <1>t, TreeType
  <2> QED
    BY <1>t, <1>1, <2>1, LoadType DEF Start, TypeOK
<1>2. ASSUME SkipImport PROVE TypeOK'
  BY <1>t, <1>a, <1>s, <1>2 DEF SkipImport, TypeOK
<1>3. ASSUME ImportAgain PROVE TypeOK'
  BY <1>t, <1>a, <1>s, <1>n, <1>3 DEF ImportAgain, AtTarget, TypeOK
<1>4. ASSUME ImportCycle PROVE TypeOK'
  <2>1. AtImport /\ Found.file \in inFlight
    BY <1>4 DEF ImportCycle, AtTarget
  <2>2. cycle' \in Seq(Files)
    BY <1>4, <2>1, CyclePathType DEF ImportCycle
  <2> QED
    BY <1>t, <1>n, <1>4, <2>1, <2>2 DEF ImportCycle, TypeOK
<1>5. ASSUME ImportNew PROVE TypeOK'
  <2>1. AtImport /\ Found.file \in Files
    BY <1>a, <1>5 DEF ImportNew, AtTarget
  <2>2. /\ stack' \in Seq(Frame) /\ inFlight' \in SUBSET Files
        /\ phase' \in {"walk", "unparsable"}
        /\ id' \in [Files -> Ids \cup {None}] /\ base' \in [Files -> Dirs \cup {None}]
    BY <1>t, <1>a, <1>s, <1>5, <2>1, LoadType DEF ImportNew
  <2> QED
    BY <1>t, <1>n, <1>5, <2>1, <2>2 DEF ImportNew, TypeOK
<1>6. ASSUME ImportMissing PROVE TypeOK'
  <2>1. phase' \in {"package", "not_installed", "not_found"}
    BY <1>6 DEF ImportMissing
  <2> QED
    BY <1>t, <1>6, <2>1 DEF ImportMissing, TypeOK
<1>7. ASSUME ReadFails \/ StartFails PROVE TypeOK'
  BY <1>t, <1>n, <1>7 DEF ReadFails, StartFails, AtTarget, TypeOK
<1>8. ASSUME FinishModule PROVE TypeOK'
  <2>1. stack # <<>> /\ Top.key \in Files
    BY <1>t, <1>8, TopType DEF FinishModule
  <2>2. SubSeq(stack, 1, Len(stack) - 1) \in Seq(Frame)
    BY <1>t, <2>1, PoppedType
  <2>3. Append(order, Top.key) \in Seq(Files)
    BY <1>t, <2>1 DEF TypeOK
  <2> QED
    BY <1>t, <1>8, <2>1, <2>2, <2>3 DEF FinishModule, TypeOK
<1>9. ASSUME CheckClasses \/ Merge \/ BuildSurfaces \/ BindNames PROVE TypeOK'
  BY <1>t, <1>9 DEF CheckClasses, Merge, BuildSurfaces, BindNames, TypeOK
<1>10. ASSUME UNCHANGED vars PROVE TypeOK'
  BY <1>t, <1>10 DEF vars, TypeOK
<1> QED
  BY <1>1, <1>2, <1>3, <1>4, <1>5, <1>6, <1>7, <1>8, <1>9, <1>10 DEF Next, Walk

\* A step that leaves the walk's state alone.
LEMMA Still ==
    ASSUME IInv, TypeOK', WalkInv', CycleIsReal', phase # "unparsable", phase' # "unparsable",
           tree' = tree, stack' = stack, inFlight' = inFlight, order' = order, base' = base
    PROVE  IInv'
<1>1. /\ \A f : Real(f)' = Real(f) /\ Deps(f)' = Deps(f)
      /\ \A f, k : Leads(f, k)' = Leads(f, k)
  BY SameLeads
<1>2. Keys' = Keys /\ Elements(order)' = Elements(order)
  BY DEF Keys, Elements
<1>3. BasesInv'
  BY <1>2 DEF IInv, BasesInv
<1>4. PlacesInv'
  BY <1>2 DEF IInv, PlacesInv
<1>5. ListedOnce'
  BY <1>2 DEF IInv, ListedOnce
<1>6. FramesInv'
  BY <1>1, <1>2 DEF IInv, FramesInv
<1>7. ImportsComeFirst'
  BY <1>1 DEF IInv, ImportsComeFirst
<1> QED
  BY <1>3, <1>4, <1>5, <1>6, <1>7 DEF IInv

LEMMA Unmoved ==
    ASSUME IInv, TypeOK', WalkInv', UNCHANGED vars
    PROVE  IInv'
<1> USE DEF vars, walking
<1>1. \A f : Real(f)' = Real(f) /\ Deps(f)' = Deps(f) /\ \A k : Leads(f, k)' = Leads(f, k)
  BY SameLeads
<1>2. Keys' = Keys /\ Elements(order)' = Elements(order)
  BY DEF Keys, Elements
<1>3. BasesInv' /\ PlacesInv' /\ ListedOnce'
  BY <1>2 DEF IInv, BasesInv, PlacesInv, ListedOnce
<1>4. FramesInv'
  BY <1>1, <1>2 DEF IInv, FramesInv
<1>5. ImportsComeFirst'
  BY <1>1 DEF IInv, ImportsComeFirst
<1>6. CycleIsReal'
  BY <1>1 DEF IInv, CycleIsReal
<1> QED
  BY <1>3, <1>4, <1>5, <1>6 DEF IInv

\* The statement at the top leads to nothing, or to a listed module.
LEMMA PassedKeeps ==
    ASSUME IInv, TypeOK', WalkInv', AtImport, Wanted \in Skipped \/ Found.file \in Elements(order),
           stack' = Advanced, phase' = phase,
           tree' = tree, inFlight' = inFlight, order' = order, base' = base, cycle' = cycle
    PROVE  IInv'
<1>1. /\ \A f : Real(f)' = Real(f) /\ Deps(f)' = Deps(f)
      /\ \A f, k : Leads(f, k)' = Leads(f, k)
  BY SameLeads
<1> DEFINE L == Len(stack)
<1>2. TypeOK /\ stack # <<>> /\ phase = "walk"
  BY DEF IInv, AtImport
<1>3. L \in Nat \ {0} /\ Top = stack[L] /\ \A k \in 1 .. L : stack[k].next \in Nat \ {0}
  BY <1>2, TopType
<1>4. /\ Len(stack') = L
      /\ \A k \in 1 .. L :
            /\ stack'[k].key = stack[k].key
            /\ stack'[k].next = IF k = L THEN stack[k].next + 1 ELSE stack[k].next
  BY <1>2, AdvancedType
<1>5. Keys' = Keys /\ Elements(order)' = Elements(order)
  BY <1>4 DEF Keys, Elements
<1>6. BasesInv'
  BY <1>5 DEF IInv, BasesInv
<1>7. PlacesInv'
  BY <1>4, <1>5 DEF IInv, PlacesInv
<1>8. ListedOnce'
  BY <1>4, <1>5 DEF IInv, ListedOnce
<1>9. \A k \in Real(Top.key) : k = Top.next => Leads(Top.key, k) \in Elements(order)
  BY AtImportFacts DEF Real
<1> HIDE DEF L
<1>10. FramesInv'
  <2> SUFFICES ASSUME NEW p \in 1 .. L
               PROVE  /\ \A k \in Real(stack[p].key) : k < stack'[p].next =>
                             \/ Leads(stack[p].key, k) \in Elements(order)
                             \/ p < L /\ Leads(stack[p].key, k) = stack'[p + 1].key
                      /\ p < L => stack'[p + 1].key \in Deps(stack[p].key)
    BY <1>1, <1>4, <1>5 DEF FramesInv
  <2>1. /\ \A k \in Real(stack[p].key) : k < stack[p].next =>
               \/ Leads(stack[p].key, k) \in Elements(order)
               \/ p < L /\ Leads(stack[p].key, k) = stack[p + 1].key
        /\ p < L => stack[p + 1].key \in Deps(stack[p].key)
    BY DEF IInv, FramesInv, L
  <2>2. CASE p < L
    <3>1. p + 1 \in 1 .. L /\ p # L
      BY <1>3, <2>2
    <3>2. stack'[p + 1].key = stack[p + 1].key /\ stack'[p].next = stack[p].next
      BY <1>4, <3>1
    <3> QED
      BY <2>1, <3>2
  <2>3. CASE p = L
    <3> SUFFICES ASSUME NEW k \in Real(Top.key), k < Top.next + 1
                 PROVE  Leads(Top.key, k) \in Elements(order)
      BY <1>3, <1>4, <2>3
    <3>1. k \in Nat /\ Top.next \in Nat
      BY <1>3 DEF Real
    <3>2. k < Top.next \/ k = Top.next
      BY <3>1
    <3> QED
      BY <1>3, <1>9, <2>1, <2>3, <3>2
  <2> QED
    BY <1>3, <2>2, <2>3
<1>11. ImportsComeFirst'
  <2>1. \A f : Deps(f)' = Deps(f)
    BY <1>1
  <2>2. ImportsComeFirst
    BY DEF IInv
  <2> QED
    BY <2>1, <2>2 DEF ImportsComeFirst
<1>12. CycleIsReal'
  BY <1>2 DEF CycleIsReal
<1> QED
  BY <1>6, <1>7, <1>8, <1>10, <1>11, <1>12 DEF IInv

\* The stack with the import at its top passed, and the imported module pushed.
LEMMA NewFacts ==
    ASSUME IInv, ImportNew
    PROVE  /\ Len(stack) \in Nat \ {0} /\ Top = stack[Len(stack)]
           /\ Len(stack') = Len(stack) + 1
           /\ \A k \in 1 .. Len(stack) :
                 /\ stack'[k].key = stack[k].key
                 /\ stack'[k].next = IF k = Len(stack) THEN stack[k].next + 1 ELSE stack[k].next
           /\ stack'[Len(stack) + 1].key = Found.file /\ stack'[Len(stack) + 1].next = 1
           /\ Keys' = Keys \cup {Found.file}
           /\ Found.file \in Files /\ Found.file \notin Elements(order) /\ Found.file \notin Keys
           /\ \A f \in Files : f # Found.file => base'[f] = base[f]
<1> DEFINE L == Len(stack)
           F == Found.file
<1>1. TypeOK /\ AtImport /\ stack # <<>>
  BY DEF IInv, ImportNew, AtTarget, AtImport
<1>2. L \in Nat \ {0} /\ Top = stack[L]
  BY <1>1, TopType
<1>3. F \in Files
  BY <1>1, AtImportFacts DEF ImportNew, AtTarget
<1>4. F \notin Elements(order) /\ F \notin Keys
  BY DEF ImportNew, Processed, IInv, PlacesInv
<1>5. /\ Advanced \in Seq(Frame) /\ Len(Advanced) = L
      /\ \A k \in 1 .. L :
            /\ Advanced[k].key = stack[k].key
            /\ Advanced[k].next = IF k = L THEN stack[k].next + 1 ELSE stack[k].next
  BY <1>1, AdvancedType
<1>6. stack' = Append(Advanced, [key |-> F, next |-> 1])
  BY DEF ImportNew, Load
<1>7. /\ Len(stack') = L + 1
      /\ \A k \in 1 .. L : stack'[k] = Advanced[k]
      /\ stack'[L + 1] = [key |-> F, next |-> 1]
  BY <1>3, <1>5, <1>6, PushedType
<1>8. \A f \in Files : f # F => base'[f] = base[f]
  <2>1. base \in [Files -> Dirs \cup {None}]
    BY <1>1 DEF TypeOK
  <2>2. base' = [base EXCEPT ![F] = Found.base] \/ base' = base
    BY DEF ImportNew, Load
  <2> QED
    BY <2>1, <2>2
<1> HIDE DEF L, F
<1>9. \A k \in 1 .. L :
         /\ stack'[k].key = stack[k].key
         /\ stack'[k].next = IF k = L THEN stack[k].next + 1 ELSE stack[k].next
  BY <1>5, <1>7
<1>10. stack'[L + 1].key = F /\ stack'[L + 1].next = 1
  BY <1>7
<1>11. Keys' = Keys \cup {F}
  <2>1. 1 .. L + 1 = (1 .. L) \cup {L + 1}
    BY <1>2
  <2>2. Keys' = {stack'[k].key : k \in 1 .. L + 1}
    BY <1>7 DEF Keys
  <2>3. Keys = {stack[k].key : k \in 1 .. L}
    BY DEF Keys, L
  <2> QED
    BY <1>9, <1>10, <2>1, <2>2, <2>3
<1> QED
  BY <1>2, <1>3, <1>4, <1>7, <1>8, <1>9, <1>10, <1>11 DEF L, F

\* The stack with its top taken off.
LEMMA FinishFacts ==
    ASSUME IInv, FinishModule
    PROVE  /\ Len(stack) \in Nat \ {0} /\ Top = stack[Len(stack)] /\ Top.key \in Files
           /\ Len(stack') = Len(stack) - 1
           /\ \A k \in 1 .. Len(stack) - 1 : stack'[k] = stack[k]
           /\ Top.key \notin Elements(order) /\ Top.key \in Keys
           /\ Keys' = Keys \ {Top.key}
           /\ Len(order) \in Nat /\ Len(order') = Len(order) + 1
           /\ \A i \in 1 .. Len(order) : order'[i] = order[i]
           /\ order'[Len(order) + 1] = Top.key
           /\ Elements(order)' = Elements(order) \cup {Top.key}
<1> DEFINE L == Len(stack)
<1>1. TypeOK /\ stack # <<>>
  BY DEF IInv, FinishModule
<1>2. L \in Nat \ {0} /\ Top = stack[L] /\ Top.key \in Files
  BY <1>1, TopType
<1>3. stack' = SubSeq(stack, 1, L - 1) /\ order' = Append(order, Top.key)
  BY DEF FinishModule
<1>4. Len(stack') = L - 1 /\ \A k \in 1 .. L - 1 : stack'[k] = stack[k]
  BY <1>1, <1>3, PoppedType
<1>5. L \in 1 .. L
  BY <1>2
<1>6. Top.key \notin Elements(order) /\ Top.key \in Keys
  BY <1>2, <1>5 DEF IInv, ListedOnce, Keys
<1>7. Keys' = Keys \ {Top.key}
  <2>1. Keys' = {stack[k].key : k \in 1 .. L - 1}
    BY <1>4 DEF Keys
  <2>2. 1 .. L = (1 .. L - 1) \cup {L}
    BY <1>2
  <2>3. \A k \in 1 .. L - 1 : k \in 1 .. L /\ k # L
    BY <1>2
  <2>4. \A k \in 1 .. L - 1 : stack[k].key # stack[L].key
    BY <1>5, <2>3 DEF IInv, PlacesInv
  <2>5. Keys = {stack[k].key : k \in 1 .. L}
    BY DEF Keys
  <2> QED
    BY <1>2, <2>1, <2>2, <2>4, <2>5
<1>8. order \in Seq(Files)
  BY <1>1 DEF TypeOK
<1>9. /\ Len(order) \in Nat /\ Len(order') = Len(order) + 1
      /\ \A i \in 1 .. Len(order) : order'[i] = order[i]
      /\ order'[Len(order) + 1] = Top.key
      /\ Elements(order') = Elements(order) \cup {Top.key}
  BY <1>2, <1>3, <1>8, Listed
<1> QED
  BY <1>2, <1>4, <1>6, <1>7, <1>9 DEF Elements

LEMMA WalkKept == IInv /\ [Next]_vars => WalkInv'
<1> SUFFICES ASSUME IInv, [Next]_vars PROVE WalkInv'
  OBVIOUS
<1> USE DEF walking, Errors, Passes
<1>w. TypeOK /\ WalkInv /\ (AtImport => phase = "walk" /\ stack # <<>>)
  BY DEF IInv, AtImport
<1>1. ASSUME Start PROVE WalkInv'
  <2>1. <<>> \in Seq(Frame) /\ tree.root \in Files
    BY <1>w, TreeType
  <2>2. /\ Len(stack') = 1 /\ stack'[1].key = tree.root
        /\ phase' \in {"walk", "unparsable"} /\ order' = <<>> /\ tree' = tree
    <3>1. /\ Len(<<>>) = 0 /\ stack' = Append(<<>>, [key |-> tree.root, next |-> 1])
          /\ phase' \in {"walk", "unparsable"} /\ order' = <<>> /\ tree' = tree
      BY <1>w, <1>1 DEF Start, Load, WalkInv
    <3> QED
      BY <2>1, <3>1
  <2>3. Keys' = {tree.root} /\ Elements(order)' = {}
    BY <2>2 DEF Keys, Elements
  <2>4. phase' = "walk" => id'[tree.root] = None
    BY <1>w, <1>1, <2>1 DEF Start, Load, TypeOK
  <2>5. stack' # <<>>
    BY <2>2
  <2> QED
    BY <2>2, <2>3, <2>4, <2>5 DEF WalkInv
<1>2. ASSUME SkipImport \/ ImportAgain PROVE WalkInv'
  <2>1. phase = "walk" /\ stack # <<>>
    BY <1>w, <1>2 DEF SkipImport, ImportAgain, AtTarget
  <2>2. stack' = Advanced /\ phase' = phase /\ order' = order /\ tree' = tree /\ id' = id
    BY <1>2 DEF SkipImport, ImportAgain
  <2>3. Len(stack) \in Nat \ {0} /\ Len(stack') = Len(stack) /\ \A k \in 1 .. Len(stack) : stack'[k].key = stack[k].key
    BY <1>w, <2>1, <2>2, AdvancedType, TopType
  <2>4. stack' # <<>> /\ stack'[1].key = stack[1].key /\ Keys' = Keys /\ Elements(order)' = Elements(order)
    BY <2>2, <2>3 DEF Keys, Elements
  <2> QED
    BY <1>w, <2>1, <2>2, <2>4 DEF WalkInv
<1>3. ASSUME StartFails \/ ImportCycle \/ ImportMissing \/ ReadFails PROVE WalkInv'
  <2>1. phase' \in Errors
    BY <1>3 DEF StartFails, ImportCycle, ImportMissing, ReadFails
  <2>2. phase \in {"start", "walk"} /\ stack' = stack /\ order' = order /\ tree' = tree /\ id' = id
    BY <1>w, <1>3 DEF StartFails, ImportCycle, ImportMissing, ReadFails, AtTarget
  <2>3. Keys' = Keys /\ Elements(order)' = Elements(order)
    BY <2>2 DEF Keys, Elements
  <2> QED
    BY <1>w, <2>1, <2>2, <2>3 DEF WalkInv
<1>4. ASSUME ImportNew PROVE WalkInv'
  <2>1. phase = "walk" /\ stack # <<>> /\ Wanted \in Ids
    BY <1>w, <1>4, AtImportFacts DEF ImportNew, AtTarget
  <2>2. /\ Len(stack) \in Nat \ {0} /\ Len(stack') = Len(stack) + 1
        /\ \A k \in 1 .. Len(stack) : stack'[k].key = stack[k].key
        /\ Keys' = Keys \cup {Found.file} /\ Found.file \in Files
        /\ Found.file \notin Elements(order) /\ Found.file \notin Keys
    BY <1>4, NewFacts
  <2>3. /\ order' = order /\ tree' = tree /\ phase' \in {"walk", "unparsable"}
        /\ phase' = "walk" => id' = [id EXCEPT ![Found.file] = Wanted]
    BY <1>4 DEF ImportNew, Load
  <2>4. stack' # <<>> /\ stack'[1].key = tree.root /\ stack[1].key \in Keys
    <3>1. 1 \in 1 .. Len(stack)
      BY <2>2
    <3>2. Len(stack') # 0
      BY <2>2
    <3> QED
      BY <1>w, <2>1, <2>2, <3>1, <3>2 DEF WalkInv, Keys
  <2>5. ASSUME phase' = "walk", NEW f \in Elements(order)' \cup Keys' PROVE id'[f] = None <=> f = tree.root
    <3>1. f \in Elements(order) \cup Keys \cup {Found.file}
      BY <2>2, <2>3, <2>5 DEF Elements
    <3>2. Found.file # tree.root
      BY <1>w, <2>1, <2>2, <2>4 DEF WalkInv
    <3>3. CASE f = Found.file
      <4>1. id'[f] = Wanted
        BY <1>w, <2>2, <2>3, <2>5, <3>3 DEF TypeOK
      <4> QED
        BY <2>1, <3>2, <3>3, <4>1, NoneIsNothing
    <3>4. CASE f # Found.file
      <4>1. f \in Files
        <5>1. Keys \subseteq Files
          BY <1>w DEF IInv, PlacesInv, TypeOK
        <5>2. Elements(order) \subseteq Files
          BY <1>w, ElementOfSeq DEF TypeOK, Elements
        <5> QED
          BY <3>1, <3>4, <5>1, <5>2
      <4>2. id'[f] = id[f]
        BY <1>w, <2>3, <2>5, <3>4, <4>1 DEF TypeOK
      <4> QED
        BY <1>w, <2>1, <3>1, <3>4, <4>2 DEF WalkInv
    <3> QED
      BY <3>3, <3>4
  <2> QED
    BY <2>3, <2>4, <2>5 DEF WalkInv
<1>5. ASSUME FinishModule PROVE WalkInv'
  <2>1. /\ Len(stack) \in Nat \ {0} /\ Top = stack[Len(stack)] /\ Len(stack') = Len(stack) - 1
        /\ \A k \in 1 .. Len(stack) - 1 : stack'[k] = stack[k]
        /\ Top.key \in Keys /\ Keys' = Keys \ {Top.key}
        /\ Len(order) \in Nat /\ Len(order') = Len(order) + 1
        /\ order'[Len(order) + 1] = Top.key
        /\ Elements(order)' = Elements(order) \cup {Top.key}
    BY <1>5, FinishFacts
  <2>2. /\ phase = "walk" /\ id' = id /\ tree' = tree
        /\ phase' = IF Len(stack) = 1 THEN "classes" ELSE "walk"
    BY <1>5 DEF FinishModule
  <2>3. stack[1].key = tree.root
    BY <1>w, <2>2 DEF WalkInv
  <2>4. order' # <<>> /\ order'[Len(order')] = Top.key
    BY <2>1
  <2>5. Len(stack) # 1 => stack' # <<>> /\ stack'[1] = stack[1]
    BY <2>1
  <2> QED
    BY <1>w, <2>1, <2>2, <2>3, <2>4, <2>5 DEF WalkInv
<1>6. ASSUME CheckClasses \/ Merge \/ BuildSurfaces \/ BindNames \/ UNCHANGED vars PROVE WalkInv'
  <2>1. /\ stack' = stack /\ order' = order /\ tree' = tree /\ id' = id
        /\ \/ phase' = phase
           \/ phase \in Passes /\ phase' \in Passes \cup (Errors \ {"unparsable"})
    BY <1>6 DEF CheckClasses, Merge, BuildSurfaces, BindNames, vars
  <2>2. Keys' = Keys /\ Elements(order)' = Elements(order)
    BY <2>1 DEF Keys, Elements
  <2> QED
    BY <1>w, <2>1, <2>2 DEF WalkInv
<1> QED
  BY <1>1, <1>2, <1>3, <1>4, <1>5, <1>6 DEF Next, Walk

LEMMA StartKeeps ==
    ASSUME IInv, TypeOK', WalkInv', Start
    PROVE  IInv'
<1>1. <<>> \in Seq(Frame) /\ tree.root \in Files /\ tree.home \in Dirs
  BY TreeType DEF IInv
<1>2. TypeOK /\ stack = <<>> /\ order = <<>>
  BY DEF IInv, WalkInv, Start
<1>3. inFlight = {}
  BY <1>2 DEF IInv, PlacesInv, Keys
<1>4. /\ Len(stack') = 1 /\ stack'[1].key = tree.root /\ stack'[1].next = 1
      /\ order' = <<>> /\ tree' = tree /\ inFlight' = {tree.root}
      /\ phase' \in {"walk", "unparsable"}
  <2>1. /\ stack' = Append(<<>>, [key |-> tree.root, next |-> 1]) /\ Len(<<>>) = 0
        /\ order' = <<>> /\ tree' = tree /\ inFlight' = {tree.root}
        /\ phase' \in {"walk", "unparsable"}
    BY <1>2, <1>3 DEF Start, Load
  <2> QED
    BY <1>1, <2>1
<1>5. Keys' = {tree.root} /\ Elements(order)' = {}
  BY <1>4 DEF Keys, Elements
<1>6. BasesInv'
  <2>1. phase' # "unparsable" => base' = [base EXCEPT ![tree.root] = tree.home]
    BY DEF Start, Load
  <2> QED
    BY <1>1, <1>2, <1>5, <2>1 DEF BasesInv, TypeOK
<1>7. PlacesInv'
  BY <1>4, <1>5 DEF PlacesInv
<1>8. ListedOnce'
  BY <1>4, <1>5 DEF ListedOnce
<1>9. FramesInv'
  <2>1. \A k \in Real(stack[1].key)' : ~(k < 1)
    BY DEF Real
  <2> QED
    BY <1>4, <2>1 DEF FramesInv, Real
<1>10. ImportsComeFirst' /\ CycleIsReal'
  BY <1>4 DEF ImportsComeFirst, CycleIsReal
<1> QED
  BY <1>6, <1>7, <1>8, <1>9, <1>10 DEF IInv

\* A module not seen before is pushed.
LEMMA NewKeeps ==
    ASSUME IInv, TypeOK', WalkInv', ImportNew
    PROVE  IInv'
<1> DEFINE L == Len(stack)
           F == Found.file
<1>1. /\ L \in Nat \ {0} /\ Top = stack[L] /\ Len(stack') = L + 1
      /\ \A k \in 1 .. L :
            /\ stack'[k].key = stack[k].key
            /\ stack'[k].next = IF k = L THEN stack[k].next + 1 ELSE stack[k].next
      /\ stack'[L + 1].key = F /\ stack'[L + 1].next = 1
      /\ Keys' = Keys \cup {F}
      /\ F \in Files /\ F \notin Elements(order) /\ F \notin Keys
      /\ \A f \in Files : f # F => base'[f] = base[f]
  BY NewFacts
<1>2. /\ tree' = tree /\ order' = order /\ inFlight' = inFlight \cup {F}
      /\ phase' \in {"walk", "unparsable"}
      /\ phase' # "unparsable" => base' = [base EXCEPT ![F] = Found.base]
  BY DEF ImportNew, Load
<1>3. TypeOK /\ AtImport /\ Wanted \notin Skipped /\ phase = "walk"
  BY DEF IInv, ImportNew, AtTarget, AtImport
<1>4. F = Leads(Top.key, Top.next) /\ F \in Deps(Top.key) /\ Found.base \in Dirs
  BY <1>3, AtImportFacts
<1>5. Elements(order)' = Elements(order) /\ Elements(order) \subseteq Files /\ Keys \subseteq Files
  <2>1. Keys \subseteq Files
    BY <1>3 DEF IInv, PlacesInv, TypeOK
  <2>2. Elements(order) \subseteq Files
    BY <1>3, ElementOfSeq DEF TypeOK, Elements
  <2> QED
    BY <1>2, <2>1, <2>2 DEF Elements
<1>6. \A f \in Elements(order) \cup Keys : f # F /\ base'[f] = base[f]
  BY <1>1, <1>5
<1>7. \A f \in Elements(order) \cup Keys :
          Real(f)' = Real(f) /\ Deps(f)' = Deps(f) /\ \A k : Leads(f, k)' = Leads(f, k)
  BY <1>2, <1>6, SameLeads
<1>8. \A k \in 1 .. L : stack[k].key \in Keys /\ stack[k].next \in Nat
  <2>1. stack # <<>>
    BY <1>3 DEF AtImport
  <2> QED
    BY <1>3, <2>1, TopType DEF Keys
<1> HIDE DEF L, F
<1>9. BasesInv'
  <2> SUFFICES ASSUME phase' # "unparsable", NEW f \in Elements(order) \cup Keys \cup {F}
               PROVE  base'[f] \in Dirs
    BY <1>1, <1>5 DEF BasesInv
  <2>1. CASE f = F
    BY <1>1, <1>2, <1>3, <1>4, <2>1 DEF TypeOK
  <2>2. CASE f # F
    BY <1>3, <1>6, <2>2 DEF IInv, BasesInv
  <2> QED
    BY <2>1, <2>2
<1>10. PlacesInv'
  <2>1. inFlight' = Keys'
    BY <1>1, <1>2 DEF IInv, PlacesInv
  <2>2. ASSUME NEW i \in 1 .. L + 1, NEW j \in 1 .. L + 1, stack'[i].key = stack'[j].key
        PROVE  i = j
    <3>1. \A k \in 1 .. L : stack'[k].key # F
      BY <1>1, <1>8
    <3>2. CASE i \in 1 .. L /\ j \in 1 .. L
      <4>1. stack[i].key = stack[j].key
        BY <1>1, <2>2, <3>2
      <4> QED
        BY <3>2, <4>1 DEF IInv, PlacesInv, L
    <3>3. CASE i = L + 1 \/ j = L + 1
      BY <1>1, <2>2, <3>1, <3>3
    <3> QED
      BY <1>1, <3>2, <3>3
  <2> QED
    BY <1>1, <2>1, <2>2 DEF PlacesInv
<1>11. ListedOnce'
  <2>1. ListedOnce
    BY DEF IInv
  <2>2. ASSUME NEW k \in 1 .. L + 1 PROVE stack'[k].key \notin Elements(order)
    <3>1. CASE k \in 1 .. L
      BY <1>1, <2>1, <3>1 DEF ListedOnce, L
    <3>2. CASE k = L + 1
      BY <1>1, <3>2
    <3> QED
      BY <1>1, <3>1, <3>2
  <2> QED
    BY <1>1, <1>2, <1>5, <2>1, <2>2 DEF ListedOnce
<1>12. FramesInv'
  <2> SUFFICES ASSUME NEW p \in 1 .. L + 1, NEW g, g = stack'[p].key
               PROVE  /\ \A k \in Real(g) : k < stack'[p].next =>
                             \/ Leads(g, k)' \in Elements(order)
                             \/ p < L + 1 /\ Leads(g, k)' = stack'[p + 1].key
                      /\ p < L + 1 => stack'[p + 1].key \in Deps(g)'
    <3>1. \A f : Real(f)' = Real(f)
      BY <1>2, SameLeads
    <3> QED
      BY <1>1, <1>5, <3>1 DEF FramesInv
  <2>1. CASE p < L
    <3>1. p \in 1 .. L /\ p + 1 \in 1 .. L /\ p # L /\ p < L + 1
      BY <1>1, <2>1
    <3>2. /\ g = stack[p].key /\ stack'[p + 1].key = stack[p + 1].key
          /\ stack'[p].next = stack[p].next /\ g \in Keys
      BY <1>1, <1>8, <3>1
    <3>3. /\ \A k \in Real(g) : k < stack[p].next =>
                 Leads(g, k) \in Elements(order) \/ Leads(g, k) = stack[p + 1].key
          /\ stack[p + 1].key \in Deps(g)
      BY <2>1, <3>1, <3>2 DEF IInv, FramesInv, L
    <3> QED
      BY <1>7, <3>1, <3>2, <3>3
  <2>2. CASE p = L
    <3>1. L \in 1 .. L /\ ~(L < L) /\ L < L + 1
      BY <1>1
    <3>2. g = Top.key /\ stack'[L].next = Top.next + 1 /\ g \in Keys /\ Top.next \in Nat
      BY <1>1, <1>8, <2>2, <3>1
    <3>3. \A k \in Real(g) : k < Top.next => Leads(g, k) \in Elements(order)
      BY <1>1, <3>1, <3>2 DEF IInv, FramesInv, L
    <3>4. \A k \in Real(g) : k < Top.next + 1 => k < Top.next \/ k = Top.next
      BY <3>2 DEF Real
    <3>5. \A k \in Real(g) : k < Top.next + 1 => Leads(g, k) \in Elements(order) \/ Leads(g, k) = F
      BY <1>4, <3>2, <3>3, <3>4
    <3> QED
      BY <1>1, <1>4, <1>7, <2>2, <3>1, <3>2, <3>5
  <2>3. CASE p = L + 1
    <3>1. \A k \in Real(g) : ~(k < 1)
      BY DEF Real
    <3>2. ~(p < L + 1)
      BY <1>1, <2>3
    <3> QED
      BY <1>1, <2>3, <3>1, <3>2
  <2> QED
    BY <1>1, <2>1, <2>2, <2>3
<1>13. ImportsComeFirst'
  <2>1. ASSUME NEW i \in 1 .. Len(order), NEW g, g = order[i]
        PROVE  Deps(g)' \subseteq {order[j] : j \in 1 .. i - 1}
    <3>1. g \in Elements(order)
      BY <2>1 DEF Elements
    <3>2. Deps(g) \subseteq {order[j] : j \in 1 .. i - 1}
      BY <2>1 DEF IInv, ImportsComeFirst
    <3> QED
      BY <1>7, <3>1, <3>2
  <2>2. order' = order
    BY <1>2
  <2>3. ASSUME NEW i \in 1 .. Len(order'), NEW g, g = order'[i]
        PROVE  Deps(g)' \subseteq {order'[j] : j \in 1 .. i - 1}
    BY <2>1, <2>2, <2>3
  <2> QED
    BY <2>3 DEF ImportsComeFirst
<1>14. CycleIsReal'
  BY <1>2 DEF CycleIsReal
<1> QED
  BY <1>9, <1>10, <1>11, <1>12, <1>13, <1>14 DEF IInv

\* The module at the top is listed.
LEMMA FinishKeeps ==
    ASSUME IInv, TypeOK', WalkInv', FinishModule
    PROVE  IInv'
<1> DEFINE L == Len(stack)
           N == Len(order)
           T == Top.key
<1>1. /\ L \in Nat \ {0} /\ Top = stack[L] /\ T \in Files /\ Len(stack') = L - 1
      /\ \A k \in 1 .. L - 1 : stack'[k] = stack[k]
      /\ T \notin Elements(order) /\ T \in Keys /\ Keys' = Keys \ {T}
      /\ N \in Nat /\ Len(order') = N + 1
      /\ \A i \in 1 .. N : order'[i] = order[i]
      /\ order'[N + 1] = T
      /\ Elements(order)' = Elements(order) \cup {T}
  BY FinishFacts
<1>2. /\ tree' = tree /\ base' = base /\ inFlight' = inFlight \ {T}
      /\ phase = "walk" /\ phase' \in {"walk", "classes"} /\ Top.next > Len(Imports(T))
  BY DEF FinishModule, Statements
<1>3. /\ \A f : Real(f)' = Real(f) /\ Deps(f)' = Deps(f)
      /\ \A f, k : Leads(f, k)' = Leads(f, k)
  BY <1>2, SameLeads
<1>4. Top.next \in Nat \ {0} /\ Imports(T) \in Seq(Statement)
  BY TopType, TreeType DEF IInv, FinishModule
<1>5. \A p, q \in 1 .. L : stack[p].key = stack[q].key => p = q
  BY DEF IInv, PlacesInv
<1>6. L \in 1 .. L /\ \A k \in 1 .. L - 1 : k \in 1 .. L /\ k + 1 \in 1 .. L /\ k # L
  BY <1>1
<1>7. /\ \A k \in Real(T) : k < Top.next => Leads(T, k) \in Elements(order)
      /\ \A p \in 1 .. L - 1 :
            /\ \A k \in Real(stack[p].key) : k < stack[p].next =>
                   Leads(stack[p].key, k) \in Elements(order) \/ Leads(stack[p].key, k) = stack[p + 1].key
            /\ stack[p + 1].key \in Deps(stack[p].key)
  <2>1. ~(L < L) /\ \A p \in 1 .. L - 1 : p < L
    BY <1>1
  <2> QED
    BY <1>1, <1>6, <2>1 DEF IInv, FramesInv
<1>8. ListedOnce /\ ImportsComeFirst /\ BasesInv /\ inFlight = Keys
  BY DEF IInv, PlacesInv
<1> HIDE DEF L, N, T
<1>9. BasesInv'
  BY <1>1, <1>2, <1>8 DEF BasesInv
<1>10. PlacesInv'
  BY <1>1, <1>2, <1>5, <1>6, <1>8 DEF PlacesInv
<1>11. ListedOnce'
  <2>1. ASSUME NEW i \in 1 .. N + 1, NEW j \in 1 .. N + 1, order'[i] = order'[j] PROVE i = j
    <3>1. \A k \in 1 .. N : order'[k] \in Elements(order)
      BY <1>1 DEF Elements, N
    <3>2. CASE i \in 1 .. N /\ j \in 1 .. N
      BY <1>1, <1>8, <2>1, <3>2 DEF ListedOnce, N
    <3>3. CASE i = N + 1 \/ j = N + 1
      BY <1>1, <2>1, <3>1, <3>3
    <3> QED
      BY <1>1, <3>2, <3>3
  <2>2. ASSUME NEW k \in 1 .. L - 1 PROVE stack'[k].key \notin Elements(order) \cup {T}
    <3>1. stack'[k].key = stack[k].key /\ stack[k].key # T
      BY <1>1, <1>5, <1>6 DEF T
    <3>2. stack[k].key \notin Elements(order)
      BY <1>6, <1>8 DEF ListedOnce, L
    <3> QED
      BY <3>1, <3>2
  <2> QED
    BY <1>1, <2>1, <2>2 DEF ListedOnce
<1>12. FramesInv'
  <2> SUFFICES ASSUME NEW p \in 1 .. L - 1
               PROVE  /\ \A k \in Real(stack'[p].key) : k < stack'[p].next =>
                             \/ Leads(stack'[p].key, k) \in Elements(order) \cup {T}
                             \/ p < L - 1 /\ Leads(stack'[p].key, k) = stack'[p + 1].key
                      /\ p < L - 1 => stack'[p + 1].key \in Deps(stack'[p].key)
    BY <1>1, <1>3 DEF FramesInv
  <2>1. stack'[p] = stack[p]
    BY <1>1
  <2>2. CASE p < L - 1
    <3>1. p + 1 \in 1 .. L - 1
      BY <1>1, <2>2
    <3>2. stack'[p + 1] = stack[p + 1]
      BY <1>1, <3>1
    <3> QED
      BY <1>7, <2>1, <2>2, <3>2
  <2>3. CASE p = L - 1
    <3>1. stack[p + 1].key = T /\ ~(p < L - 1)
      BY <1>1, <2>3 DEF T
    <3> QED
      BY <1>7, <2>1, <3>1
  <2> QED
    BY <1>1, <2>2, <2>3
<1>13. ImportsComeFirst'
  <2> SUFFICES ASSUME NEW i \in 1 .. N + 1
               PROVE  Deps(order'[i]) \subseteq {order'[j] : j \in 1 .. i - 1}
    BY <1>1, <1>3 DEF ImportsComeFirst
  <2>1. CASE i \in 1 .. N
    <3>1. \A j \in 1 .. i - 1 : order'[j] = order[j]
      BY <1>1, <2>1
    <3>2. Deps(order[i]) \subseteq {order[j] : j \in 1 .. i - 1}
      BY <1>8, <2>1 DEF ImportsComeFirst, N
    <3>3. {order[j] : j \in 1 .. i - 1} = {order'[j] : j \in 1 .. i - 1}
      BY <3>1
    <3> QED
      BY <1>1, <2>1, <3>2, <3>3
  <2>2. CASE i = N + 1
    <3>1. Deps(T) \subseteq Elements(order)
      <4>1. Deps(T) = {Leads(T, k) : k \in Real(T)}
        BY DEF Deps, Leads, Real
      <4>2. \A k \in Real(T) : k < Top.next
        <5>1. Len(Imports(T)) \in Nat
          BY <1>4
        <5> QED
          BY <1>2, <1>4, <5>1 DEF Real
      <4> QED
        BY <1>7, <4>1, <4>2
    <3>2. i - 1 = N
      BY <1>1, <2>2
    <3>3. Elements(order) = {order'[j] : j \in 1 .. N}
      BY <1>1 DEF Elements, N
    <3> QED
      BY <1>1, <2>2, <3>1, <3>2, <3>3
  <2> QED
    BY <1>1, <2>1, <2>2
<1>14. CycleIsReal'
  BY <1>2 DEF CycleIsReal
<1> QED
  BY <1>9, <1>10, <1>11, <1>12, <1>13, <1>14 DEF IInv

\* The cycle found is one: each frame imports the next, and the top imports the first.
LEMMA CycleFound ==
    ASSUME IInv, ImportCycle
    PROVE  CycleIsReal'
<1> DEFINE L == Len(stack)
           F == Found.file
           from == First({k \in 1 .. L : stack[k].key = F})
           c == CyclePath(F)
<1>1. AtImport /\ Wanted \notin Skipped /\ F \in inFlight /\ stack # <<>> /\ TypeOK
  BY DEF ImportCycle, AtTarget, AtImport, IInv
<1>2. tree' = tree /\ base' = base /\ cycle' = c
  BY DEF ImportCycle
<1>3. /\ from \in 1 .. L /\ stack[from].key = F /\ Len(c) = L + 2 - from
      /\ \A k \in 1 .. L + 1 - from : c[k] = stack[from + k - 1].key
      /\ c[L + 2 - from] = F
  BY <1>1, CyclePathType
<1>4. L \in Nat \ {0} /\ Top = stack[L]
  BY <1>1, TopType
<1>5. F \in Deps(Top.key)
  BY <1>1, AtImportFacts
<1>6. \A p \in 1 .. L : p < L => stack[p + 1].key \in Deps(stack[p].key)
  BY DEF IInv, FramesInv
<1>7. \A f : Deps(f)' = Deps(f)
  BY <1>2, SameLeads
<1> HIDE DEF L, F, from, c
<1>8. Len(c) \in Nat /\ Len(c) > 1 /\ c[Len(c)] = F
  BY <1>3, <1>4
<1>9. c[1] = F
  <2>1. 1 \in 1 .. L + 1 - from /\ from + 1 - 1 = from
    BY <1>3, <1>4
  <2> QED
    BY <1>3, <2>1
<1>10. ASSUME NEW k \in 1 .. Len(c) - 1 PROVE c[k + 1] \in Deps(c[k])
  <2>1. k \in 1 .. L + 1 - from /\ from + k - 1 \in 1 .. L
    BY <1>3, <1>4
  <2>2. c[k] = stack[from + k - 1].key
    BY <1>3, <2>1
  <2>3. CASE from + k - 1 < L
    <3>1. k + 1 \in 1 .. L + 1 - from /\ from + (k + 1) - 1 = (from + k - 1) + 1
      BY <1>3, <1>4, <2>1, <2>3
    <3>2. c[k + 1] = stack[(from + k - 1) + 1].key
      BY <1>3, <3>1
    <3> QED
      BY <1>6, <2>1, <2>2, <2>3, <3>2
  <2>4. CASE from + k - 1 = L
    <3>1. k + 1 = L + 2 - from
      BY <1>3, <1>4, <2>1, <2>4
    <3>2. c[k] = Top.key
      BY <1>4, <2>2, <2>4
    <3> QED
      BY <1>3, <1>5, <3>1, <3>2
  <2> QED
    BY <1>4, <2>1, <2>3, <2>4
<1> QED
  BY <1>2, <1>7, <1>8, <1>9, <1>10 DEF CycleIsReal

-----------------------------------------------------------------------------
(* The invariant and what it gives                                           *)

\* The inductive invariant of the walk.
THEOREM IInvHolds == Spec => []IInv
<1>1. Init => IInv
  <2> SUFFICES ASSUME Init PROVE IInv
    OBVIOUS
  <2>1. Len(stack) = 0 /\ Len(order) = 0 /\ Keys = {} /\ Elements(order) = {}
    BY DEF Init, Keys, Elements
  <2>2. TypeOK
    BY DEF Init, TypeOK
  <2>3. WalkInv
    BY <2>1 DEF Init, WalkInv, Passes
  <2>4. BasesInv /\ PlacesInv /\ CycleIsReal
    BY <2>1 DEF Init, BasesInv, PlacesInv, CycleIsReal
  <2>5. ListedOnce /\ FramesInv /\ ImportsComeFirst
    BY <2>1 DEF ListedOnce, FramesInv, ImportsComeFirst
  <2> QED
    BY <2>2, <2>3, <2>4, <2>5 DEF IInv
<1>2. IInv /\ [Next]_vars => IInv'
  <2> SUFFICES ASSUME IInv, [Next]_vars PROVE IInv'
    OBVIOUS
  <2> USE DEF walking
  <2>0. TypeOK' /\ WalkInv'
    BY TypeKept, WalkKept
  <2>1. CASE Start
    BY <2>0, <2>1, StartKeeps
  <2>2. CASE SkipImport
    BY <2>0, <2>2, PassedKeeps DEF SkipImport
  <2>3. CASE ImportAgain
    BY <2>0, <2>3, PassedKeeps DEF ImportAgain, AtTarget, Processed
  <2>4. CASE ImportCycle
    <3>1. /\ phase # "unparsable" /\ phase' # "unparsable"
          /\ tree' = tree /\ stack' = stack /\ inFlight' = inFlight /\ order' = order /\ base' = base
      BY <2>4 DEF ImportCycle, AtTarget, AtImport
    <3> QED
      BY <2>0, <2>4, <3>1, CycleFound, Still
  <2>5. CASE ImportNew
    BY <2>0, <2>5, NewKeeps
  <2>6. CASE StartFails \/ ImportMissing \/ ReadFails \/ CheckClasses \/ Merge \/ BuildSurfaces \/ BindNames
    <3>1. /\ phase # "unparsable" /\ phase' \notin {"unparsable", "circular"}
          /\ tree' = tree /\ stack' = stack /\ inFlight' = inFlight /\ order' = order /\ base' = base
      BY <2>6 DEF StartFails, ImportMissing, ReadFails, CheckClasses, Merge, BuildSurfaces, BindNames, AtTarget, AtImport
    <3>2. CycleIsReal'
      BY <3>1 DEF CycleIsReal
    <3> QED
      BY <2>0, <3>1, <3>2, Still
  <2>7. CASE FinishModule
    BY <2>0, <2>7, FinishKeeps
  <2>8. CASE UNCHANGED vars
    BY <2>0, <2>8, Unmoved
  <2> QED
    BY <2>1, <2>2, <2>3, <2>4, <2>5, <2>6, <2>7, <2>8 DEF Next, Walk
<1> QED
  BY <1>1, <1>2, PTL DEF Spec

\* The variables of the walk keep their types on every tree.
THEOREM TypeCorrect == Spec => []TypeOK
<1>1. IInv => TypeOK
  BY DEF IInv
<1> QED
  BY <1>1, IInvHolds, PTL

\* Every listed module comes after the modules it imports, in any import graph: what
\* merging and code generation rely on (process_module).
THEOREM OrderIsTopological == Spec => []ImportsComeFirst
<1>1. IInv => ImportsComeFirst
  BY DEF IInv
<1> QED
  BY <1>1, IInvHolds, PTL

\* No module is listed twice, or while it is in flight.
THEOREM NoModuleListedTwice == Spec => []ListedOnce
<1>1. IInv => ListedOnce
  BY DEF IInv
<1> QED
  BY <1>1, IInvHolds, PTL

\* A CircularImport error is never a false alarm: the path it prints is a cycle of
\* imports.
THEOREM ReportedCycleIsReal == Spec => []CycleIsReal
<1>1. IInv => CycleIsReal
  BY DEF IInv
<1> QED
  BY <1>1, IInvHolds, PTL

\* The passes take the last of the list for the root, and so it is.
THEOREM RootComesLast == Spec => []RootIsLast
<1>1. IInv => RootIsLast
  BY DEF IInv, WalkInv, RootIsLast, Passes
<1> QED
  BY <1>1, IInvHolds, PTL

\* The three together: the list is what every pass after the walk takes it for.
THEOREM ListIsTopological == Spec => []TopologicalOrder
<1>1. ImportsComeFirst /\ ListedOnce /\ RootIsLast => TopologicalOrder
  BY DEF TopologicalOrder
<1> QED
  BY <1>1, OrderIsTopological, NoModuleListedTwice, RootComesLast, PTL

-----------------------------------------------------------------------------
(* A module keeps the id it was first reached by                             *)

\* Once a module is in flight or listed, no later import gives it another id or another
\* base directory: what its own imports mean does not depend on who imports it next
\* (process_module, visit).
THEOREM FirstReachIsKept == Spec => FirstReachStays
<1> DEFINE Kept == \A f \in Elements(order) \cup inFlight : id'[f] = id[f] /\ base'[f] = base[f]
<1>1. ASSUME IInv, [Next]_vars PROVE Kept
  <2> USE DEF walking
  <2>0. TypeOK
    BY <1>1 DEF IInv
  <2>1. CASE id' = id /\ base' = base
    BY <2>1
  <2>2. ASSUME NEW f \in Files, NEW frames, NEW m, NEW dir, Load(f, frames, m, dir),
               f \notin Elements(order) \cup inFlight
        PROVE  Kept
    <3>1. Elements(order) \cup inFlight \subseteq Files
      BY <2>0, ElementOfSeq DEF TypeOK, Elements
    <3>2. \A g \in Files : g # f => id'[g] = id[g] /\ base'[g] = base[g]
      BY <2>0, <2>2 DEF Load, TypeOK
    <3> QED
      BY <2>2, <3>1, <3>2
  <2>3. CASE Start
    <3>1. stack = <<>> /\ order = <<>> /\ inFlight = Keys
      BY <1>1, <2>3 DEF Start, IInv, WalkInv, PlacesInv
    <3>2. Elements(order) = {} /\ inFlight = {}
      BY <3>1 DEF Elements, Keys
    <3> QED
      BY <3>2
  <2>4. CASE ImportNew
    <3>1. stack # <<>> /\ Found.file \in Files
      BY <1>1, <2>4, AtImportFacts DEF ImportNew, AtTarget, AtImport
    <3> QED
      BY <2>2, <2>4, <3>1 DEF ImportNew, Processed
  <2> QED
    BY <1>1, <2>1, <2>3, <2>4 DEF Next, Walk, StartFails, SkipImport, ImportAgain, ImportCycle,
       ImportMissing, ReadFails, FinishModule, CheckClasses, Merge, BuildSurfaces, BindNames, vars
<1>2. IInv /\ [Next]_vars => [Kept]_vars
  BY <1>1
<1> QED
  BY <1>2, IInvHolds, PTL DEF Spec, FirstReachStays

-----------------------------------------------------------------------------
(* A re-export names its owner                                               *)

\* Every name on a package's surface is defined by the module it is said to come from.
SurfaceInv ==
    phase \in {"bind", "ok"} =>
        \A p \in Packages : \A c \in surface[p] : c.name \in Symbols(c.owner)

LEMMA LastIn ==
    ASSUME NEW n \in Nat, NEW S, S \subseteq 1 .. n, S # {}
    PROVE  \E i \in S : \A j \in S : j <= i
<1> DEFINE T == {n - i : i \in S}
<1>1. T \subseteq Nat /\ T # {}
  <2>1. \A i \in S : n - i \in Nat
    OBVIOUS
  <2>2. PICK i \in S : TRUE
    OBVIOUS
  <2>3. n - i \in T
    BY <2>2
  <2> QED
    BY <2>1, <2>3
<1> HIDE DEF T
<1>2. First(T) \in T /\ \A j \in T : First(T) <= j
  BY <1>1, FirstIn
<1>3. PICK i \in S : First(T) = n - i
  BY <1>2 DEF T
<1>4. ASSUME NEW j \in S PROVE j <= i
  <2>1. n - j \in T
    BY DEF T
  <2>2. n - i <= n - j /\ i \in Nat /\ j \in Nat
    BY <1>2, <1>3, <2>1
  <2> QED
    BY <2>2
<1> QED
  BY <1>4

\* An entry file is an imported module: the root has no id.
LEMMA EntriesAreImported ==
    ASSUME IInv, phase \in Passes
    PROVE  /\ Entries \subseteq Imported
           /\ \A p \in Packages : p \in Ids /\ LastEntry(p) \in Entries /\ id[LastEntry(p)] = p
<1>1. /\ TypeOK /\ order # <<>> /\ order[Len(order)] = tree.root
      /\ \A f \in Elements(order) : id[f] = None <=> f = tree.root
  BY DEF IInv, WalkInv, Passes
<1>2. Len(order) \in Nat \ {0}
  BY <1>1 DEF TypeOK
<1>3. ASSUME NEW f \in Entries PROVE f \in Imported /\ id[f] \in Ids
  <2>1. f \in Elements(order) /\ id[f] \in Ids /\ id[f] # None
    BY <1>1, NoneIsNothing DEF Entries, TypeOK
  <2>2. PICK i \in 1 .. Len(order) : f = order[i]
    BY <2>1 DEF Elements
  <2>3. i # Len(order)
    BY <1>1, <2>1, <2>2
  <2> QED
    BY <1>2, <2>1, <2>2, <2>3 DEF Imported
<1>4. ASSUME NEW p \in Packages PROVE p \in Ids /\ LastEntry(p) \in Entries /\ id[LastEntry(p)] = p
  <2> DEFINE at == {i \in 1 .. Len(order) : order[i] \in Entries /\ id[order[i]] = p}
  <2>1. PICK f \in Entries : p = id[f]
    BY DEF Packages
  <2>2. at # {} /\ at \subseteq 1 .. Len(order)
    BY <2>1 DEF Entries, Elements
  <2>3. \E i \in at : \A j \in at : j <= i
    BY <1>2, <2>2, LastIn
  <2>4. (CHOOSE i \in at : \A j \in at : j <= i) \in at
    BY <2>3
  <2> QED
    BY <1>3, <2>1, <2>4 DEF LastEntry
<1> QED
  BY <1>3, <1>4

LEMMA SurfacedIsDefined ==
    ASSUME IInv, NEW f \in Imported, NEW c \in Surfaced(f)
    PROVE  c.name \in Symbols(c.owner)
<1>1. CASE c \in {[name |-> n, owner |-> id[f], at |-> 0] : n \in Defs(f)}
  BY <1>1 DEF Symbols
<1>2. CASE c \in UNION {{[name |-> n, owner |-> Imports(f)[k].id, at |-> k] :
                            n \in Imports(f)[k].names \cap Symbols(Imports(f)[k].id)} :
                        k \in 1 .. Len(Imports(f))}
  BY <1>2
<1> QED
  BY <1>1, <1>2 DEF Surfaced

LEMMA SurfaceIsBuilt ==
    ASSUME IInv, BuildSurfaces
    PROVE  SurfaceInv'
<1>1. /\ tree' = tree /\ order' = order /\ id' = id /\ initIds' = initIds /\ phase \in Passes
      /\ phase' \notin {"bind", "ok"} \/ phase' = "bind"
  BY DEF BuildSurfaces, walking, Passes
<1>2. Packages' = Packages /\ \A m : Symbols(m)' = Symbols(m)
  BY <1>1 DEF Packages, Entries, Elements, Symbols, Imported, Defs
<1> SUFFICES ASSUME phase' = "bind", NEW p \in Packages, NEW c \in surface'[p]
             PROVE  c.name \in Symbols(c.owner)
  BY <1>1, <1>2 DEF SurfaceInv
<1>3. p \in Ids /\ LastEntry(p) \in Imported
  BY <1>1, EntriesAreImported
<1>4. surface'[p] = {[name |-> d.name, owner |-> d.owner] : d \in Surfaced(LastEntry(p))}
  BY <1>3 DEF BuildSurfaces
<1>5. PICK d \in Surfaced(LastEntry(p)) : c = [name |-> d.name, owner |-> d.owner]
  BY <1>4
<1> QED
  BY <1>3, <1>5, SurfacedIsDefined

LEMMA NamesAreBound ==
    ASSUME SurfaceInv, BindNames
    PROVE  RedirectsAreReal'
<1>1. tree' = tree /\ order' = order /\ id' = id /\ initIds' = initIds /\ phase = "bind"
  BY DEF BindNames, walking
<1>2. Packages' = Packages /\ \A m : Symbols(m)' = Symbols(m)
  BY <1>1 DEF Packages, Entries, Elements, Symbols, Imported, Defs
<1> SUFFICES ASSUME phase' = "ok", NEW d \in bound', d.id \in Packages
             PROVE  d.name \in Symbols(d.owner)
  BY <1>2 DEF RedirectsAreReal
<1>3. PICK b \in FromImports : /\ ~Refused(b)
                               /\ d = [importer |-> id[b.file], id |-> b.id, name |-> b.name, owner |-> Owner(b)]
  BY DEF BindNames
<1>4. \E c \in surface[b.id] : c.name = b.name
  BY <1>3 DEF Refused
<1>5. PICK c \in surface[b.id] : c.name = b.name /\ Owner(b) = c.owner
  BY <1>3, <1>4 DEF Owner
<1> QED
  BY <1>1, <1>3, <1>5 DEF SurfaceInv

\* What an import from a package binds is defined by the module it is bound to: no
\* re-export is left pointing at the package, and none at a module without the name
\* (the surfaces and the from-import loop of resolve_with_overlay).
THEOREM BindingsNameTheirOwner == Spec => []RedirectsAreReal
<1>1. Init => SurfaceInv /\ RedirectsAreReal
  BY DEF Init, SurfaceInv, RedirectsAreReal
<1>2. IInv /\ SurfaceInv /\ RedirectsAreReal /\ [Next]_vars => SurfaceInv' /\ RedirectsAreReal'
  <2> SUFFICES ASSUME IInv, SurfaceInv, RedirectsAreReal, [Next]_vars
               PROVE  SurfaceInv' /\ RedirectsAreReal'
    OBVIOUS
  <2> USE DEF walking
  <2>1. CASE BuildSurfaces
    <3>1. phase' # "ok"
      BY <2>1 DEF BuildSurfaces
    <3> QED
      BY <2>1, <3>1, SurfaceIsBuilt DEF RedirectsAreReal
  <2>2. CASE BindNames
    <3>1. tree' = tree /\ order' = order /\ id' = id /\ initIds' = initIds /\ surface' = surface
          /\ phase = "bind"
      BY <2>2 DEF BindNames
    <3>2. Packages' = Packages /\ \A m : Symbols(m)' = Symbols(m)
      BY <3>1 DEF Packages, Entries, Elements, Symbols, Imported, Defs
    <3>3. SurfaceInv'
      BY <3>1, <3>2 DEF SurfaceInv
    <3> QED
      BY <2>2, <3>3, NamesAreBound
  <2>3. CASE Walk \/ CheckClasses \/ Merge
    <3>1. phase' \notin {"bind", "ok"}
      BY <2>3 DEF Walk, CheckClasses, Merge, Start, StartFails, SkipImport, ImportAgain, ImportCycle,
         ImportNew, ImportMissing, ReadFails, FinishModule, Load, AtTarget, AtImport
    <3> QED
      BY <3>1 DEF SurfaceInv, RedirectsAreReal
  <2>4. CASE UNCHANGED vars
    <3>1. Packages' = Packages /\ \A m : Symbols(m)' = Symbols(m)
      BY <2>4 DEF vars, Packages, Entries, Elements, Symbols, Imported, Defs
    <3> QED
      BY <2>4, <3>1 DEF vars, SurfaceInv, RedirectsAreReal
  <2> QED
    BY <2>1, <2>2, <2>3, <2>4 DEF Next
<1> QED
  BY <1>1, <1>2, IInvHolds, PTL DEF Spec
=============================================================================
