----------------------------- MODULE ProgramProofs -----------------------------
(***************************************************************************)
(* Proofs about texts of any length and layout (Lexer), about calls of any   *)
(* number of parameters and arguments (PyCalls),                            *)
(* and about the rounds in which compute_mut_self finds the methods that    *)
(* change their object (Lending), for any number of methods.                *)
(***************************************************************************)
EXTENDS PyCalls, Lending, Lexer, Indices, FiniteSetTheorems, SequenceTheorems, TLAPS

-----------------------------------------------------------------------------
(* What a call is                                                          *)

ParamKinds ==
    {q \in [name : STRING, type : {"int", "float", "opt_int"}, default : BOOLEAN, byref : BOOLEAN, value : {7}] :
        q.byref => q.type = "int"}
KwargKinds == [name : Keywords, arg : ArgKinds]
IsCall(c) ==
    /\ c \in [site : Sites, params : Seq(ParamKinds), args : Seq(ArgKinds), kwargs : Seq(KwargKinds)]
    /\ Len(c.params) <= Len(ParamNames)
    /\ \A p \in DOMAIN c.params : c.params[p].name = ParamNames[p]
    /\ \A p, q \in DOMAIN c.params : p <= q /\ c.params[p].default => c.params[q].default
CallInv == IsCall(call)

\* The numbers of a call: how many parameters, positional and keyword arguments.
LEMMA Counts ==
    ASSUME NEW c, IsCall(c)
    PROVE  /\ Len(c.params) \in Nat /\ Len(c.args) \in Nat /\ Len(c.kwargs) \in Nat
           /\ DOMAIN c.params = 1 .. Len(c.params) /\ DOMAIN c.kwargs = 1 .. Len(c.kwargs)
           /\ DOMAIN c.args = 1 .. Len(c.args)
           /\ \A p \in DOMAIN c.params : c.params[p] \in ParamKinds
           /\ \A j \in DOMAIN c.kwargs : c.kwargs[j] \in KwargKinds
           /\ \A p \in DOMAIN c.args : c.args[p] \in ArgKinds
BY LenProperties DEF IsCall

\* A concatenation, element by element.
LEMMA Joined ==
    ASSUME NEW s \in Seq(ArgKinds), NEW t \in Seq(ArgKinds), NEW n \in Nat, NEW m \in Nat, Len(s) = n, Len(t) = m
    PROVE  /\ DOMAIN (s \o t) = 1 .. n + m
           /\ \A k \in 1 .. n + m : (s \o t)[k] = IF k <= n THEN s[k] ELSE t[k - n]
<1>1. /\ s \o t \in Seq(ArgKinds) /\ Len(s \o t) = Len(s) + Len(t)
      /\ \A k \in 1 .. Len(s) + Len(t) : (s \o t)[k] = IF k <= Len(s) THEN s[k] ELSE t[k - Len(s)]
  BY ConcatProperties
<1>2. /\ s \o t \in Seq(ArgKinds) /\ Len(s \o t) = n + m
      /\ \A k \in 1 .. n + m : (s \o t)[k] = IF k <= n THEN s[k] ELSE t[k - n]
  BY <1>1, Zenon
<1> QED
  BY <1>2, LenProperties

LEMMA JoinedLength ==
    ASSUME NEW s \in Seq(ArgKinds), NEW t \in Seq(ArgKinds), NEW n \in Nat, NEW m \in Nat, Len(s) = n, Len(t) = m
    PROVE  Len(s \o t) = n + m
<1>1. Len(s \o t) = Len(s) + Len(t)
  BY ConcatProperties
<1> QED
  BY <1>1, Zenon

\* The arguments in the order they are written.
LEMMA GivenIs ==
    ASSUME NEW c, IsCall(c)
    PROVE  /\ DOMAIN Given(c) = 1 .. Len(c.args) + Len(c.kwargs)
           /\ Len(Given(c)) = Len(c.args) + Len(c.kwargs)
           /\ \A k \in 1 .. Len(c.args) : Given(c)[k] = c.args[k]
           /\ \A j \in 1 .. Len(c.kwargs) : Given(c)[Len(c.args) + j] = c.kwargs[j].arg
<1> DEFINE later == [j \in DOMAIN c.kwargs |-> c.kwargs[j].arg]
           args == c.args
           n == Len(c.args)
           m == Len(c.kwargs)
<1>1. n \in Nat /\ m \in Nat /\ DOMAIN c.kwargs = 1 .. m /\ \A j \in DOMAIN c.kwargs : c.kwargs[j].arg \in ArgKinds
  BY Counts DEF KwargKinds
<1>2. later \in Seq(ArgKinds) /\ Len(later) = m
  BY <1>1
<1>3. args \in Seq(ArgKinds) /\ Len(args) = n
  BY DEF IsCall
<1>4. \A j \in 1 .. m : later[j] = c.kwargs[j].arg
  BY <1>1
<1>5. Given(c) = args \o later
  BY DEF Given
<1> HIDE DEF later, args, n, m
<1>6. /\ DOMAIN (args \o later) = 1 .. n + m
      /\ Len(args \o later) = n + m
      /\ \A k \in 1 .. n : (args \o later)[k] = args[k]
      /\ \A j \in 1 .. m : (args \o later)[n + j] = later[j]
  <2> DEFINE r == args \o later
  <2>1. DOMAIN r = 1 .. n + m
    BY <1>1, <1>2, <1>3, Joined
  <2>5. Len(r) = n + m
    BY <1>1, <1>2, <1>3, JoinedLength
  <2>2. \A k \in 1 .. n + m : r[k] = IF k <= n THEN args[k] ELSE later[k - n]
    BY <1>1, <1>2, <1>3, Joined
  <2> HIDE DEF r
  <2>3. \A k \in 1 .. n : r[k] = args[k]
    BY <1>1, <2>2
  <2>4. ASSUME NEW j \in 1 .. m PROVE r[n + j] = later[j]
    <3>1. ASSUME NEW k, k = n + j PROVE k \in 1 .. n + m /\ ~(k <= n) /\ k - n = j
      BY <1>1, <3>1
    <3>2. ASSUME NEW k, k = n + j PROVE r[k] = later[j]
      BY <2>2, <3>1, <3>2, Zenon
    <3> QED
      BY <3>2, Zenon
  <2> QED
    BY <2>1, <2>3, <2>4, <2>5 DEF r
<1>7. /\ DOMAIN Given(c) = 1 .. n + m
      /\ Len(Given(c)) = n + m
      /\ \A k \in 1 .. n : Given(c)[k] = args[k]
      /\ \A j \in 1 .. m : Given(c)[n + j] = c.kwargs[j].arg
  BY <1>4, <1>5, <1>6, Zenon
<1> QED
  BY <1>7 DEF args, n, m

LEMMA GivenNumbers ==
    ASSUME NEW c, IsCall(c), NEW k \in DOMAIN Given(c)
    PROVE  k \in Nat /\ k # 0
<1>1. Len(c.args) \in Nat /\ Len(c.kwargs) \in Nat
  BY Counts
<1>2. k \in 1 .. Len(c.args) + Len(c.kwargs)
  BY GivenIs
<1> QED
  BY <1>1, <1>2

LEMMA GivenKinds ==
    ASSUME NEW c, IsCall(c), NEW k \in DOMAIN Given(c)
    PROVE  Given(c)[k] \in ArgKinds
<1> DEFINE n == Len(c.args)
           m == Len(c.kwargs)
<1>1. /\ n \in Nat /\ m \in Nat /\ k \in 1 .. n + m
      /\ \A i \in 1 .. n : Given(c)[i] = c.args[i] /\ c.args[i] \in ArgKinds
      /\ \A j \in 1 .. m : Given(c)[n + j] = c.kwargs[j].arg /\ c.kwargs[j].arg \in ArgKinds
  BY Counts, GivenIs DEF KwargKinds
<1> HIDE DEF n, m
<1>2. CASE k <= n
  BY <1>1, <1>2
<1>3. CASE ~(k <= n)
  <2>1. k - n \in 1 .. m /\ n + (k - n) = k
    BY <1>1, <1>3
  <2> QED
    BY <1>1, <2>1, Zenon
<1> QED
  BY <1>2, <1>3

-----------------------------------------------------------------------------
(* Slots                                                                   *)

\* What an accepted call gives fits its parameters, whichever check it went through.
SlotsFit(c) ==
    /\ Len(c.args) <= Len(c.params)
    /\ \A j \in DOMAIN c.kwargs : \E p \in DOMAIN c.params : p > Len(c.args) /\ c.params[p].name = c.kwargs[j].name
    /\ \A i, j \in DOMAIN c.kwargs : c.kwargs[i].name = c.kwargs[j].name => i = j
    /\ \A p \in DOMAIN c.params : Slots(c)[p] = 0 => c.params[p].default

LEMMA NamesDiffer ==
    ASSUME NEW c, IsCall(c), NEW p \in DOMAIN c.params, NEW q \in DOMAIN c.params, c.params[p].name = c.params[q].name
    PROVE  p = q
<1>1. DOMAIN c.params = 1 .. Len(c.params) /\ Len(c.params) <= Len(ParamNames) /\ Len(c.params) \in Nat
  BY Counts DEF IsCall
<1>2. Len(ParamNames) \in Nat /\ DOMAIN ParamNames = 1 .. Len(ParamNames)
  BY PyCallsAssumption, LenProperties
<1>3. p \in DOMAIN ParamNames /\ q \in DOMAIN ParamNames
  BY <1>1, <1>2
<1>4. ParamNames[p] = ParamNames[q]
  BY DEF IsCall
<1> QED
  BY <1>3, <1>4, PyCallsAssumption

\* How many parameters are required is a number.
LEMMA RequiredType ==
    ASSUME NEW c, IsCall(c)
    PROVE  Required(c.params) \in Nat
<1>1. Len(c.params) \in Nat /\ DOMAIN c.params = 1 .. Len(c.params)
  BY Counts
<1>2. IsFiniteSet(DOMAIN c.params)
  BY <1>1, FS_Interval
<1>3. {p \in DOMAIN c.params : \A q \in 1 .. p : ~c.params[q].default} \in SUBSET DOMAIN c.params
  OBVIOUS
<1> QED
  BY <1>2, <1>3, FS_Subset, FS_CardinalityType DEF Required

\* A parameter without a default is one of the required ones.
LEMMA RequiredAre ==
    ASSUME NEW c, IsCall(c), NEW p \in DOMAIN c.params, ~c.params[p].default
    PROVE  p <= Required(c.params)
<1> DEFINE plain == {q \in DOMAIN c.params : \A r \in 1 .. q : ~c.params[r].default}
<1>1. Len(c.params) \in Nat /\ DOMAIN c.params = 1 .. Len(c.params)
  BY Counts
<1>2. 1 .. p \subseteq plain
  <2>1. ASSUME NEW q \in 1 .. p, NEW r \in 1 .. q PROVE ~c.params[r].default
    <3>1. r \in DOMAIN c.params /\ r <= p
      BY <1>1
    <3> QED
      BY <3>1 DEF IsCall
  <2>2. 1 .. p \subseteq DOMAIN c.params
    BY <1>1
  <2> QED
    BY <2>1, <2>2
<1>3. IsFiniteSet(plain)
  <2>1. plain \subseteq 1 .. Len(c.params) /\ IsFiniteSet(1 .. Len(c.params))
    BY <1>1, FS_Interval
  <2> QED
    BY <2>1, FS_Subset
<1>4. Cardinality(1 .. p) = p
  BY <1>1, FS_Interval
<1>5. Cardinality(1 .. p) <= Cardinality(plain)
  BY <1>2, <1>3, FS_Subset
<1> QED
  BY <1>4, <1>5 DEF Required

\* What Slots holds, for any call.
LEMMA SlotsAre ==
    ASSUME NEW c, IsCall(c)
    PROVE  /\ Slots(c) \in [DOMAIN c.params -> 0 .. Len(c.args) + Len(c.kwargs)]
           /\ \A p \in DOMAIN c.params : p <= Len(c.args) => Slots(c)[p] = p
           /\ \A p \in DOMAIN c.params : p > Len(c.args) =>
                 \/ Slots(c)[p] = 0 /\ \A j \in DOMAIN c.kwargs : c.kwargs[j].name # c.params[p].name
                 \/ \E j \in DOMAIN c.kwargs : Slots(c)[p] = Len(c.args) + j /\ c.kwargs[j].name = c.params[p].name
<1> DEFINE n == Len(c.args)
           named(p) == {j \in DOMAIN c.kwargs : c.kwargs[j].name = c.params[p].name}
           first(p) == CHOOSE j \in named(p) : TRUE
<1>1. /\ n \in Nat /\ Len(c.kwargs) \in Nat /\ DOMAIN c.kwargs = 1 .. Len(c.kwargs)
      /\ Len(c.params) \in Nat /\ DOMAIN c.params = 1 .. Len(c.params)
  BY Counts
<1>2. Slots(c) = [p \in DOMAIN c.params |-> IF p <= n THEN p ELSE IF named(p) # {} THEN n + first(p) ELSE 0]
  BY DEF Slots
<1>3. \A p : named(p) # {} => first(p) \in named(p)
  OBVIOUS
<1>4. \A p : named(p) # {} => first(p) \in 1 .. Len(c.kwargs) /\ c.kwargs[first(p)].name = c.params[p].name
  BY <1>1, <1>3
<1>5. \A p : named(p) = {} => \A j \in DOMAIN c.kwargs : c.kwargs[j].name # c.params[p].name
  OBVIOUS
<1> HIDE DEF n, named, first
<1>6. ASSUME NEW p \in DOMAIN c.params
      PROVE  /\ Slots(c)[p] \in 0 .. n + Len(c.kwargs)
             /\ p <= n => Slots(c)[p] = p
             /\ p > n => \/ Slots(c)[p] = 0 /\ \A j \in DOMAIN c.kwargs : c.kwargs[j].name # c.params[p].name
                         \/ \E j \in DOMAIN c.kwargs : Slots(c)[p] = n + j /\ c.kwargs[j].name = c.params[p].name
  <2>1. p \in Nat
    BY <1>1
  <2>2. CASE p <= n
    BY <1>1, <1>2, <2>1, <2>2
  <2>3. CASE ~(p <= n) /\ named(p) = {}
    BY <1>1, <1>2, <1>5, <2>1, <2>3
  <2>4. CASE ~(p <= n) /\ named(p) # {}
    <3>1. Slots(c)[p] = n + first(p)
      BY <1>2, <2>4
    <3>2. first(p) \in DOMAIN c.kwargs /\ n + first(p) \in 0 .. n + Len(c.kwargs)
      BY <1>1, <1>4, <2>4
    <3> QED
      BY <1>4, <2>1, <2>4, <3>1, <3>2
  <2> QED
    BY <2>2, <2>3, <2>4
<1>7. Slots(c) \in [DOMAIN c.params -> 0 .. n + Len(c.kwargs)]
  BY <1>2, <1>6
<1> QED
  BY <1>6, <1>7 DEF n

\* An accepted call fits its parameters.
LEMMA AcceptedFits ==
    ASSUME NEW c, IsCall(c), CallAccepted(c)
    PROVE  SlotsFit(c)
<1>1. /\ Len(c.args) \in Nat /\ Len(c.kwargs) \in Nat /\ DOMAIN c.kwargs = 1 .. Len(c.kwargs)
      /\ Len(c.params) \in Nat /\ DOMAIN c.params = 1 .. Len(c.params)
  BY Counts
<1>2. CASE MapsToSlots(c)
  <2>1. ASSUME NEW j \in DOMAIN c.kwargs
        PROVE  \E p \in DOMAIN c.params : p > Len(c.args) /\ c.params[p].name = c.kwargs[j].name
    BY <1>2 DEF MapsToSlots, PositionOf
  <2>2. ASSUME NEW i \in DOMAIN c.kwargs, NEW j \in DOMAIN c.kwargs, c.kwargs[i].name = c.kwargs[j].name
        PROVE  i = j
    <3>1. CASE i < j
      BY <1>1, <1>2, <2>2, <3>1 DEF MapsToSlots
    <3>2. CASE j < i
      BY <1>1, <1>2, <2>2, <3>2 DEF MapsToSlots
    <3> QED
      BY <1>1, <3>1, <3>2
  <2> QED
    BY <1>2, <2>1, <2>2 DEF MapsToSlots, SlotsFit
<1>3. CASE c.kwargs = <<>> /\ Len(c.args) <= Len(c.params) /\ \A p \in DOMAIN c.params : p > Len(c.args) => c.params[p].default
  <2>1. DOMAIN c.kwargs = {}
    BY <1>3
  <2>2. ASSUME NEW p \in DOMAIN c.params, Slots(c)[p] = 0 PROVE p > Len(c.args)
    <3>1. p <= Len(c.args) => Slots(c)[p] = p
      BY SlotsAre
    <3> QED
      BY <1>1, <2>2, <3>1
  <2> QED
    BY <1>3, <2>1, <2>2 DEF SlotsFit
<1>4. CASE c.site = "value"
  BY <1>1, <1>3, <1>4 DEF CallAccepted, ArityFits
<1>5. CASE c.site # "value" /\ ~MapsToSlots(c)
  <2>1. c.kwargs = <<>> /\ Len(c.args) \in Required(c.params) .. Len(c.params)
    BY <1>5 DEF CallAccepted, ArityFits
  <2>2. ASSUME NEW p \in DOMAIN c.params, p > Len(c.args) PROVE c.params[p].default
    <3>1. Required(c.params) \in Nat
      BY RequiredType
    <3>2. ~c.params[p].default => p <= Required(c.params)
      BY RequiredAre
    <3> QED
      BY <1>1, <2>1, <2>2, <3>1, <3>2
  <2> QED
    BY <1>1, <1>3, <2>1, <2>2
<1> QED
  BY <1>2, <1>4, <1>5

\* Every argument of a call that fits has a slot, and only one.
LEMMA SlotOf ==
    ASSUME NEW c, IsCall(c), SlotsFit(c), NEW k \in DOMAIN Given(c)
    PROVE  \E p \in DOMAIN c.params : Slots(c)[p] = k
<1> DEFINE n == Len(c.args)
           m == Len(c.kwargs)
<1>1. /\ n \in Nat /\ m \in Nat /\ DOMAIN c.kwargs = 1 .. m
      /\ Len(c.params) \in Nat /\ DOMAIN c.params = 1 .. Len(c.params)
  BY Counts
<1>2. k \in 1 .. n + m
  BY GivenIs
<1>3. n <= Len(c.params)
  BY DEF SlotsFit
<1>4. /\ \A p \in DOMAIN c.params : p <= n => Slots(c)[p] = p
      /\ \A p \in DOMAIN c.params : p > n =>
            \/ Slots(c)[p] = 0 /\ \A j \in DOMAIN c.kwargs : c.kwargs[j].name # c.params[p].name
            \/ \E j \in DOMAIN c.kwargs : Slots(c)[p] = n + j /\ c.kwargs[j].name = c.params[p].name
  BY SlotsAre
<1> HIDE DEF n, m
<1>5. CASE k <= n
  <2>1. k \in DOMAIN c.params
    BY <1>1, <1>2, <1>3, <1>5
  <2> QED
    BY <1>4, <1>5, <2>1
<1>6. CASE k > n
  <2>1. PICK j \in DOMAIN c.kwargs : n + j = k
    <3>1. k - n \in DOMAIN c.kwargs /\ n + (k - n) = k
      BY <1>1, <1>2, <1>6
    <3> QED
      BY <3>1
  <2>2. PICK p \in DOMAIN c.params : p > n /\ c.params[p].name = c.kwargs[j].name
    BY DEF SlotsFit, n
  <2>3. PICK i \in DOMAIN c.kwargs : Slots(c)[p] = n + i /\ c.kwargs[i].name = c.params[p].name
    BY <1>4, <2>2
  <2>4. i = j
    BY <2>2, <2>3 DEF SlotsFit
  <2> QED
    BY <2>1, <2>3, <2>4
<1> QED
  BY <1>1, <1>2, <1>5, <1>6

LEMMA SlotsDiffer ==
    ASSUME NEW c, IsCall(c), SlotsFit(c), NEW p \in DOMAIN c.params, NEW q \in DOMAIN c.params,
           Slots(c)[p] = Slots(c)[q], Slots(c)[p] # 0
    PROVE  p = q
<1> DEFINE n == Len(c.args)
<1>1. /\ n \in Nat /\ DOMAIN c.kwargs = 1 .. Len(c.kwargs) /\ Len(c.kwargs) \in Nat
      /\ Len(c.params) \in Nat /\ DOMAIN c.params = 1 .. Len(c.params)
  BY Counts
<1>2. ASSUME NEW r \in DOMAIN c.params, Slots(c)[r] # 0
      PROVE  /\ r <= n => Slots(c)[r] = r
             /\ r > n => \E j \in DOMAIN c.kwargs : Slots(c)[r] = n + j /\ c.kwargs[j].name = c.params[r].name
  BY <1>2, SlotsAre
<1> HIDE DEF n
<1>3. p \in Nat /\ q \in Nat
  BY <1>1
<1>4. CASE p <= n /\ q <= n
  BY <1>2, <1>4
<1>5. CASE p > n /\ q > n
  <2>1. PICK i \in DOMAIN c.kwargs : Slots(c)[p] = n + i /\ c.kwargs[i].name = c.params[p].name
    BY <1>2, <1>5
  <2>2. PICK j \in DOMAIN c.kwargs : Slots(c)[q] = n + j /\ c.kwargs[j].name = c.params[q].name
    BY <1>2, <1>5
  <2>3. i \in Nat /\ j \in Nat
    BY <1>1
  <2>4. n + i = n + j
    BY <2>1, <2>2, Zenon
  <2>5. i = j
    BY <1>1, <2>3, <2>4
  <2> QED
    BY <2>1, <2>2, <2>5, NamesDiffer
<1>6. ASSUME NEW r \in DOMAIN c.params, NEW t \in DOMAIN c.params, r <= n, t > n, Slots(c)[r] = Slots(c)[t], Slots(c)[r] # 0
      PROVE  FALSE
  <2>1. PICK j \in DOMAIN c.kwargs : Slots(c)[t] = n + j
    BY <1>2, <1>6
  <2>2. Slots(c)[r] = r
    BY <1>2, <1>6
  <2> QED
    BY <1>1, <1>6, <2>1, <2>2
<1> QED
  BY <1>1, <1>3, <1>4, <1>5, <1>6

\* Destination is the other way round.
LEMMA DestinationIs ==
    ASSUME NEW c, IsCall(c), SlotsFit(c), NEW k \in DOMAIN Given(c)
    PROVE  Destination(c, k) \in DOMAIN c.params /\ Slots(c)[Destination(c, k)] = k
<1>1. \E p \in DOMAIN c.params : Slots(c)[p] = k
  BY SlotOf
<1>2. CASE k <= Len(c.args)
  <2>1. k \in DOMAIN c.params
    <3>1. k \in Nat /\ k # 0
      BY GivenNumbers
    <3>2. Len(c.args) <= Len(c.params)
      BY DEF SlotsFit
    <3> QED
      BY <1>2, <3>1, <3>2, Counts
  <2>2. Slots(c)[k] = k
    BY <1>2, <2>1, SlotsAre
  <2> QED
    BY <1>2, <2>1, <2>2 DEF Destination
<1>3. CASE ~(k <= Len(c.args))
  BY <1>1, <1>3 DEF Destination
<1> QED
  BY <1>2, <1>3

LEMMA SlotsInvert ==
    ASSUME NEW c, IsCall(c), SlotsFit(c), NEW p \in DOMAIN c.params, Slots(c)[p] # 0
    PROVE  Slots(c)[p] \in DOMAIN Given(c) /\ Destination(c, Slots(c)[p]) = p
<1>1. Slots(c)[p] \in 0 .. Len(c.args) + Len(c.kwargs)
  BY SlotsAre
<1>2. Len(c.args) \in Nat /\ Len(c.kwargs) \in Nat
  BY Counts
<1>3. Slots(c)[p] \in DOMAIN Given(c)
  <2>1. \A n, m \in Nat : \A k \in 0 .. n + m : k # 0 => k \in 1 .. n + m
    OBVIOUS
  <2>2. Slots(c)[p] \in 1 .. Len(c.args) + Len(c.kwargs)
    BY <1>1, <1>2, <2>1, Zenon
  <2> QED
    BY <2>2, GivenIs
<1> DEFINE q == Destination(c, Slots(c)[p])
<1>4. q \in DOMAIN c.params /\ Slots(c)[q] = Slots(c)[p]
  BY <1>3, DestinationIs
<1> HIDE DEF q
<1>5. q = p
  BY <1>4, SlotsDiffer
<1> QED
  BY <1>3, <1>5 DEF q

\* The slots hold what Python binds.
LEMMA MeantIs ==
    ASSUME NEW c, IsCall(c), SlotsFit(c), NEW p \in DOMAIN c.params
    PROVE  Meant(c, p) = IF Slots(c)[p] = 0 THEN {} ELSE {Slots(c)[p]}
<1> DEFINE n == Len(c.args)
           m == Len(c.kwargs)
<1>1. /\ n \in Nat /\ m \in Nat /\ DOMAIN c.kwargs = 1 .. m
      /\ Len(c.params) \in Nat /\ DOMAIN c.params = 1 .. Len(c.params)
  BY Counts
<1>2. DOMAIN Given(c) = 1 .. n + m
  BY GivenIs
<1>3. n <= Len(c.params)
  BY DEF SlotsFit
<1>4. /\ p <= n => Slots(c)[p] = p
      /\ p > n => \/ Slots(c)[p] = 0 /\ \A j \in DOMAIN c.kwargs : c.kwargs[j].name # c.params[p].name
                  \/ \E j \in DOMAIN c.kwargs : Slots(c)[p] = n + j /\ c.kwargs[j].name = c.params[p].name
  BY SlotsAre
<1>5. \A k : k \in Meant(c, p) <=>
        k \in 1 .. n + m /\ IF k <= n THEN k = p ELSE c.kwargs[k - n].name = c.params[p].name
  BY <1>2 DEF Meant
<1>6. \A j \in DOMAIN c.kwargs : \E q \in DOMAIN c.params : q > n /\ c.params[q].name = c.kwargs[j].name
  BY DEF SlotsFit
<1>7. \A i, j \in DOMAIN c.kwargs : c.kwargs[i].name = c.kwargs[j].name => i = j
  BY DEF SlotsFit
<1> HIDE DEF n, m
<1>10. p \in Nat
  BY <1>1
<1>8. CASE p <= n
  <2>1. ASSUME NEW k \in Meant(c, p) PROVE k = p
    <3>1. k \in 1 .. n + m /\ IF k <= n THEN k = p ELSE c.kwargs[k - n].name = c.params[p].name
      BY <1>5
    <3>2. CASE ~(k <= n)
      <4>1. k - n \in DOMAIN c.kwargs
        BY <1>1, <3>1, <3>2
      <4>2. PICK q \in DOMAIN c.params : q > n /\ c.params[q].name = c.kwargs[k - n].name
        BY <1>6, <4>1
      <4>3. q = p
        BY <3>1, <3>2, <4>2, NamesDiffer
      <4> QED
        BY <1>1, <1>10, <1>8, <4>2, <4>3
    <3> QED
      BY <3>1, <3>2
  <2>2. p \in Meant(c, p) /\ Slots(c)[p] = p /\ p # 0
    BY <1>1, <1>10, <1>4, <1>5, <1>8
  <2> QED
    BY <2>1, <2>2
<1>9. CASE p > n
  <2>1. ASSUME NEW k \in Meant(c, p)
        PROVE  \E j \in DOMAIN c.kwargs : k = n + j /\ c.kwargs[j].name = c.params[p].name
    <3>1. k \in 1 .. n + m /\ IF k <= n THEN k = p ELSE c.kwargs[k - n].name = c.params[p].name
      BY <1>5
    <3>2. ~(k <= n)
      BY <1>1, <1>10, <1>9, <3>1
    <3>3. k - n \in DOMAIN c.kwargs /\ k = n + (k - n)
      BY <1>1, <3>1, <3>2
    <3> QED
      BY <3>1, <3>2, <3>3
  <2>2. CASE Slots(c)[p] = 0 /\ \A j \in DOMAIN c.kwargs : c.kwargs[j].name # c.params[p].name
    <3>1. Meant(c, p) = {}
      BY <2>1, <2>2
    <3> QED
      BY <2>2, <3>1
  <2>3. CASE \E j \in DOMAIN c.kwargs : Slots(c)[p] = n + j /\ c.kwargs[j].name = c.params[p].name
    <3>1. PICK j \in DOMAIN c.kwargs : Slots(c)[p] = n + j /\ c.kwargs[j].name = c.params[p].name
      BY <2>3
    <3>2. n + j \in 1 .. n + m /\ ~(n + j <= n) /\ n + j - n = j /\ n + j # 0
      BY <1>1
    <3>3. n + j \in Meant(c, p)
      <4>1. ASSUME NEW k, k = n + j PROVE k \in Meant(c, p)
        <5>1. k \in 1 .. n + m /\ ~(k <= n) /\ k - n = j
          BY <1>1, <4>1
        <5>2. c.kwargs[k - n].name = c.params[p].name
          BY <3>1, <5>1, Zenon
        <5> QED
          BY <1>5, <5>1, <5>2
      <4> QED
        BY <4>1, Zenon
    <3>4. \A k \in Meant(c, p) : k = n + j
      BY <1>7, <2>1, <3>1
    <3> QED
      BY <3>1, <3>2, <3>3, <3>4
  <2> QED
    BY <1>4, <1>9, <2>2, <2>3
<1> QED
  BY <1>1, <1>10, <1>8, <1>9

LEMMA PythonBinds ==
    ASSUME NEW c, IsCall(c), SlotsFit(c)
    PROVE  PyBinds(c)
<1>1. ASSUME NEW p \in DOMAIN c.params
      PROVE  (\E k \in Meant(c, p) : Meant(c, p) = {k}) \/ (Meant(c, p) = {} /\ c.params[p].default)
  <2>1. Meant(c, p) = IF Slots(c)[p] = 0 THEN {} ELSE {Slots(c)[p]}
    BY MeantIs
  <2> QED
    BY <2>1 DEF SlotsFit
<1>2. ASSUME NEW k \in DOMAIN Given(c) PROVE \E p \in DOMAIN c.params : k \in Meant(c, p)
  <2>1. PICK p \in DOMAIN c.params : Slots(c)[p] = k
    BY SlotOf
  <2>2. k # 0
    BY GivenNumbers
  <2>3. Meant(c, p) = IF Slots(c)[p] = 0 THEN {} ELSE {Slots(c)[p]}
    BY MeantIs
  <2> QED
    BY <2>1, <2>2, <2>3
<1> QED
  BY <1>1, <1>2 DEF PyBinds

-----------------------------------------------------------------------------
(* The order of the arguments                                              *)

Upwards(N) == [k \in 1 .. N |-> k]

\* Numbers that never fall from one to the next, and never repeat, rise.
LEMMA Rising ==
    ASSUME NEW N \in Nat, NEW P \in Nat, NEW d \in [1 .. N -> 1 .. P],
           \A k \in 1 .. N : k < N => d[k] <= d[k + 1],
           \A i, j \in 1 .. N : d[i] = d[j] => i = j
    PROVE  \A i, j \in 1 .. N : i < j => d[i] < d[j]
<1>1. ASSUME NEW i \in 1 .. N, NEW j \in 1 .. N, i < j PROVE d[i] < d[j]
  <2> DEFINE M == N - i
             S == {t \in 0 .. M : t = 0 \/ d[i] < d[i + t]}
  <2>1. M \in Nat /\ j - i \in 0 .. M /\ j - i # 0 /\ i + (j - i) = j
    BY <1>1
  <2>2. 0 \in S
    BY <2>1
  <2>3. ASSUME NEW t \in 0 .. M, t \in S, t < M PROVE t + 1 \in S
    <3>1. i + t \in 1 .. N /\ i + t < N /\ i + t + 1 \in 1 .. N /\ i + t # i + t + 1 /\ t + 1 \in 0 .. M /\ i + (t + 1) = i + t + 1
      BY <2>3
    <3>2. d[i + t] <= d[i + t + 1] /\ d[i + t] # d[i + t + 1]
      BY <3>1
    <3>3. d[i] \in Nat /\ d[i + t] \in Nat /\ d[i + t + 1] \in Nat
      BY <3>1
    <3>4. t = 0 => i + t = i
      OBVIOUS
    <3>5. d[i] <= d[i + t]
      <4>1. t = 0 \/ d[i] < d[i + t]
        BY <2>3
      <4>2. CASE t = 0
        <5>1. d[i + t] = d[i]
          BY <3>4, <4>2, Zenon
        <5> QED
          BY <3>3, <5>1
      <4>3. CASE d[i] < d[i + t]
        BY <3>3, <4>3
      <4> QED
        BY <4>1, <4>2, <4>3
    <3>6. d[i] < d[i + t + 1]
      BY <3>2, <3>3, <3>5
    <3> QED
      BY <3>1, <3>6
  <2> HIDE DEF S, M
  <2>4. \A t \in 0 .. M : t \in S
    BY <2>1, <2>2, <2>3, UpTo
  <2> QED
    BY <2>1, <2>4 DEF S
<1> QED
  BY <1>1

\* Where the slots are filled in the order the arguments are written in, taking
\* them slot by slot takes them as they are written.
LEMMA InOrder ==
    ASSUME NEW N \in Nat, NEW P \in Nat, NEW slots \in [1 .. P -> 0 .. N], NEW d \in [1 .. N -> 1 .. P],
           \A k \in 1 .. N : slots[d[k]] = k,
           \A p \in 1 .. P : slots[p] # 0 => d[slots[p]] = p,
           \A k \in 1 .. N : k < N => d[k] <= d[k + 1]
    PROVE  InSlots(slots) = Upwards(N)
<1> DEFINE filled == {p \in 1 .. P : slots[p] # 0}
           upto(i) == {q \in filled : q <= d[i]}
<1>1. \A i, j \in 1 .. N : d[i] = d[j] => i = j
  OBVIOUS
<1>2. \A i, j \in 1 .. N : i < j => d[i] < d[j]
  BY <1>1, Rising
<1>3. \A k \in 1 .. N : d[k] \in filled
  <2>1. ASSUME NEW k \in 1 .. N PROVE d[k] \in 1 .. P /\ slots[d[k]] # 0
    OBVIOUS
  <2> QED
    BY <2>1
<1>4. \A p \in filled : slots[p] \in 1 .. N /\ d[slots[p]] = p
  <2>1. ASSUME NEW p \in 1 .. P, slots[p] # 0 PROVE slots[p] \in 1 .. N /\ d[slots[p]] = p
    BY <2>1
  <2> QED
    BY <2>1
<1>5. \A k \in 1 .. N : d[k] \in Nat
  OBVIOUS
<1>6. ASSUME NEW i \in 1 .. N PROVE IsFiniteSet(upto(i)) /\ Cardinality(upto(i)) = i
  <2> DEFINE f == [j \in 1 .. i |-> d[j]]
  <2>1. ASSUME NEW j \in 1 .. i PROVE j \in 1 .. N /\ d[j] \in upto(i)
    <3>1. j \in 1 .. N /\ (j < i \/ j = i)
      BY <2>1
    <3>2. d[j] <= d[i]
      BY <1>2, <1>5, <3>1
    <3> QED
      BY <1>3, <3>1, <3>2
  <2>2. ASSUME NEW p \in upto(i) PROVE \E j \in 1 .. i : d[j] = p
    <3>1. slots[p] \in 1 .. N /\ d[slots[p]] = p /\ p <= d[i]
      BY <1>4
    <3>2. ~(i < slots[p])
      <4>1. i < slots[p] => d[i] < d[slots[p]]
        BY <1>2, <3>1
      <4> QED
        BY <1>5, <3>1, <4>1
    <3>3. slots[p] \in 1 .. i
      BY <3>1, <3>2
    <3> QED
      BY <3>1, <3>3
  <2> HIDE DEF upto
  <2>3. f \in Bijection(1 .. i, upto(i))
    <3>1. f \in [1 .. i -> upto(i)]
      BY <2>1
    <3>2. \A a, b \in 1 .. i : f[a] = f[b] => a = b
      BY <1>1, <2>1
    <3>3. \A p \in upto(i) : \E j \in 1 .. i : f[j] = p
      BY <2>2
    <3> HIDE DEF f
    <3> QED
      BY <3>1, <3>2, <3>3 DEF Bijection, Injection, Surjection, IsInjective
  <2>4. IsFiniteSet(1 .. i) /\ Cardinality(1 .. i) = i
    BY FS_Interval
  <2>5. ExistsBijection(1 .. i, upto(i))
    BY <2>3, Zenon DEF ExistsBijection
  <2> QED
    BY <2>4, <2>5, FS_Bijection, Zenon
<1>7. Cardinality(filled) = N
  <2>1. CASE N = 0
    <3>1. filled = {}
      BY <1>4, <2>1
    <3> QED
      BY <2>1, <3>1, FS_EmptySet
  <2>2. CASE N # 0
    <3>1. N \in 1 .. N
      BY <2>2
    <3>2. ASSUME NEW p \in filled PROVE p <= d[N]
      <4>1. slots[p] \in 1 .. N /\ d[slots[p]] = p
        BY <1>4
      <4>2. slots[p] < N \/ slots[p] = N
        BY <4>1
      <4>3. d[slots[p]] <= d[N]
        BY <1>2, <1>5, <3>1, <4>1, <4>2
      <4> QED
        BY <4>1, <4>3
    <3>3. filled = upto(N)
      BY <3>2
    <3> QED
      BY <1>6, <3>1, <3>3
  <2> QED
    BY <2>1, <2>2
<1>8. ASSUME NEW i \in 1 .. N PROVE slots[Nth(filled, i)] = i
  <2> DEFINE before(p) == {q \in filled : q <= p}
  <2>1. d[i] \in filled /\ Cardinality(before(d[i])) = i
    BY <1>3, <1>6
  <2>2. ASSUME NEW p \in filled, Cardinality(before(p)) = i PROVE p = d[i]
    <3>1. slots[p] \in 1 .. N /\ d[slots[p]] = p
      BY <1>4
    <3>2. before(p) = upto(slots[p])
      BY <3>1
    <3>3. slots[p] = i
      BY <1>6, <2>2, <3>1, <3>2
    <3> QED
      BY <3>1, <3>3
  <2>3. Nth(filled, i) = CHOOSE p \in filled : Cardinality(before(p)) = i
    BY DEF Nth
  <2> HIDE DEF before, filled
  <2>4. Nth(filled, i) \in filled /\ Cardinality(before(Nth(filled, i))) = i
    BY <2>1, <2>3
  <2>5. Nth(filled, i) = d[i]
    BY <2>2, <2>4
  <2> QED
    BY <2>5
<1>9. InSlots(slots) = [i \in 1 .. Cardinality(filled) |-> slots[Nth(filled, i)]]
  <2>1. DOMAIN slots = 1 .. P
    OBVIOUS
  <2> QED
    BY <2>1, Zenon DEF InSlots
<1> HIDE DEF filled
<1> QED
  BY <1>7, <1>8, <1>9 DEF Upwards

\* An accepted call computes its arguments in the order they are written,
\* whether it is hoisted or not.
LEMMA OrderKept ==
    ASSUME NEW c, IsCall(c), SlotsFit(c)
    PROVE  ArgumentOrder(c) = AsGiven(c)
<1> DEFINE N == Len(c.args) + Len(c.kwargs)
           P == Len(c.params)
           d == [k \in 1 .. N |-> Destination(c, k)]
<1>1. N \in Nat /\ P \in Nat /\ DOMAIN c.params = 1 .. P
  <2>1. Len(c.args) \in Nat /\ Len(c.kwargs) \in Nat /\ P \in Nat /\ DOMAIN c.params = 1 .. P
    BY Counts
  <2>2. \A a, b \in Nat : a + b \in Nat
    OBVIOUS
  <2> QED
    BY <2>1, <2>2, Zenon
<1>2. DOMAIN Given(c) = 1 .. N /\ Len(Given(c)) = N
  BY GivenIs
<1>3. Slots(c) \in [1 .. P -> 0 .. N]
  BY <1>1, SlotsAre
<1>4. \A k \in 1 .. N : Destination(c, k) \in 1 .. P /\ Slots(c)[Destination(c, k)] = k
  BY <1>1, <1>2, DestinationIs
<1>5. \A p \in 1 .. P : Slots(c)[p] # 0 => Slots(c)[p] \in 1 .. N /\ Destination(c, Slots(c)[p]) = p
  BY <1>1, <1>2, SlotsInvert
<1>6. AsGiven(c) = Upwards(N)
  BY <1>2 DEF AsGiven, Upwards
<1>7. CASE Slotted(c) /\ ~NeedsHoist(c)
  <2>1. \A k \in 1 .. N - 1 : ~(Destination(c, k) > Destination(c, k + 1))
    BY <1>2, <1>7, Zenon DEF NeedsHoist
  <2> HIDE DEF N, P
  <2>2. d \in [1 .. N -> 1 .. P]
    BY <1>4
  <2>3. ASSUME NEW k \in 1 .. N, k < N PROVE d[k] <= d[k + 1]
    <3>1. k \in 1 .. N - 1 /\ k + 1 \in 1 .. N
      BY <1>1, <2>3
    <3>2. Destination(c, k) \in Nat /\ Destination(c, k + 1) \in Nat
      BY <1>1, <1>4, <3>1
    <3>3. Destination(c, k) <= Destination(c, k + 1)
      BY <2>1, <3>1, <3>2
    <3> QED
      BY <3>1, <3>3
  <2>4. /\ \A k \in 1 .. N : Slots(c)[d[k]] = k
        /\ \A p \in 1 .. P : Slots(c)[p] # 0 => d[Slots(c)[p]] = p
    BY <1>4, <1>5
  <2> DEFINE slots == Slots(c)
  <2>5. /\ slots \in [1 .. P -> 0 .. N]
        /\ \A k \in 1 .. N : slots[d[k]] = k
        /\ \A p \in 1 .. P : slots[p] # 0 => d[slots[p]] = p
    BY <1>3, <2>4
  <2> HIDE DEF d, slots
  <2>6. InSlots(slots) = Upwards(N)
    BY <1>1, <2>2, <2>3, <2>5, InOrder
  <2> QED
    BY <1>6, <1>7, <2>6 DEF ArgumentOrder, slots
<1>8. CASE ~(Slotted(c) /\ ~NeedsHoist(c))
  BY <1>8 DEF ArgumentOrder
<1> QED
  BY <1>7, <1>8

-----------------------------------------------------------------------------
(* The types of the arguments                                              *)

\* An accepted call whose unchecked arguments fit compiles.
LEMMA Compiles ==
    ASSUME NEW c, IsCall(c), CallAccepted(c), Converts(c)
    PROVE  CallCompiles(c)
<1> SUFFICES ASSUME NEW p \in DOMAIN c.params, Arrives(c, p).from # 0
             PROVE  RustTakes(Given(c)[Arrives(c, p).from].type, Arrives(c, p).as, c.params[p].type)
  BY Zenon DEF CallCompiles
<1> DEFINE k == Slots(c)[p]
           given == Given(c)[k].type
           param == c.params[p]
<1>1. SlotsFit(c)
  BY AcceptedFits
<1>2. k # 0
  BY DEF Arrives
<1>3. k \in DOMAIN Given(c) /\ Destination(c, k) = p
  BY <1>1, <1>2, SlotsInvert
<1>4. param \in ParamKinds
  BY Counts
<1>5. Given(c)[k] \in ArgKinds
  BY <1>3, GivenKinds
<1>6. Arrives(c, p) = IF param.byref THEN [from |-> k, as |-> "borrowed"]
                      ELSE [from |-> k, as |-> IF Coerced(c) THEN IntoSlot(given, param.type) ELSE "plain"]
  BY <1>2, Zenon DEF Arrives
<1>7. Checked(given, param.type)
  <2>1. c.site \in {"function", "value"} => Checked(given, param.type)
    BY <1>3 DEF CallAccepted, TypesChecked
  <2>2. c.site \notin {"function", "value"} => Checked(given, param.type)
    BY <1>3 DEF Converts
  <2> QED
    BY <2>1, <2>2
<1>8. ~Coerced(c) => given = param.type \/ given = "none"
  BY <1>3 DEF Converts
<1> HIDE DEF k, given, param
<1>9. CASE param.byref
  <2>1. Arrives(c, p).from = k /\ Arrives(c, p).as = "borrowed"
    BY <1>6, <1>9
  <2>2. param.type = "int"
    BY <1>4, <1>9 DEF ParamKinds
  <2>3. given = "int"
    BY <1>7, <2>2 DEF Checked, Compatible
  <2> QED
    BY <2>1, <2>2, <2>3 DEF RustTakes, given, param
<1>10. CASE ~param.byref
  <2>1. Arrives(c, p).from = k /\ Arrives(c, p).as = IF Coerced(c) THEN IntoSlot(given, param.type) ELSE "plain"
    BY <1>6, <1>10
  <2>2. CASE Coerced(c)
    <3>1. RustTakes(given, IntoSlot(given, param.type), param.type)
      BY <1>7 DEF Checked, Compatible, IntoSlot, RustTakes
    <3> QED
      BY <2>1, <2>2, <3>1 DEF given, param
  <2>3. CASE ~Coerced(c)
    <3>1. RustTakes(given, "plain", param.type)
      BY <1>4, <1>7, <1>8, <2>3 DEF Checked, Compatible, RustTakes, ParamKinds
    <3> QED
      BY <2>1, <2>3, <3>1 DEF given, param
  <2> QED
    BY <2>2, <2>3
<1> QED
  BY <1>9, <1>10

-----------------------------------------------------------------------------
(* Every call                                                              *)

\* What a parameter may be.
LEMMA KindsAre ==
    ASSUME NEW site, NEW kind \in Kinds(site)
    PROVE  /\ kind.type \in {"int", "float", "opt_int"} /\ kind.default \in BOOLEAN /\ kind.byref \in BOOLEAN
           /\ kind.byref => kind.type = "int"
<1> DEFINE S == {k \in [type : {"int", "float", "opt_int"}, default : BOOLEAN, byref : BOOLEAN] :
                    k.byref => k.type = "int"}
<1>1. Kind("int", FALSE, FALSE) \in S /\ Kind("float", FALSE, FALSE) \in S /\ Kind("opt_int", FALSE, FALSE) \in S
  BY DEF Kind
<1>2. Kind("int", TRUE, FALSE) \in S /\ Kind("opt_int", TRUE, FALSE) \in S /\ Kind("int", FALSE, TRUE) \in S
  BY DEF Kind
<1> HIDE DEF S
<1>3. kind \in S
  BY <1>1, <1>2, Zenon DEF Kinds
<1> QED
  BY <1>3 DEF S

\* What a call may be, whatever parameters and arguments are added.
LEMMA CallsGrow == CallSpec => []CallInv
<1>1. CallInit => CallInv
  <2>1. ASSUME NEW site \in Sites PROVE IsCall(Uncalled(site))
    <3>1. Len(ParamNames) \in Nat
      BY PyCallsAssumption
    <3> QED
      BY <3>1 DEF IsCall, Uncalled
  <2> QED
    BY <2>1, Zenon DEF CallInit, CallInv
<1>2. CallInv /\ [CallNext]_call => CallInv'
  <2> SUFFICES ASSUME CallInv, [CallNext]_call PROVE CallInv'
    OBVIOUS
  <2>1. CASE AddParam
    <3>1. PICK kind \in Kinds(call.site) :
            /\ Len(call.params) < Len(ParamNames)
            /\ \A p \in DOMAIN call.params : call.params[p].default => kind.default
            /\ call' = [call EXCEPT !.params = Append(@, Param(ParamNames[Len(@) + 1], kind.type, kind.default, kind.byref))]
      BY <2>1 DEF AddParam
    <3> DEFINE n == Len(call.params)
               new == Param(ParamNames[n + 1], kind.type, kind.default, kind.byref)
    <3>2. /\ call \in [site : Sites, params : Seq(ParamKinds), args : Seq(ArgKinds), kwargs : Seq(KwargKinds)]
          /\ \A p \in DOMAIN call.params : call.params[p].name = ParamNames[p]
          /\ \A p, q \in DOMAIN call.params : p <= q /\ call.params[p].default => call.params[q].default
      BY DEF CallInv, IsCall
    <3>3. n \in Nat /\ DOMAIN call.params = 1 .. n /\ Len(ParamNames) \in Nat /\ DOMAIN ParamNames = 1 .. Len(ParamNames)
      BY <3>2, PyCallsAssumption, LenProperties
    <3>4. n + 1 \in DOMAIN ParamNames /\ ParamNames[n + 1] \in STRING
      <4>1. n + 1 \in DOMAIN ParamNames
        BY <3>1, <3>3
      <4> QED
        BY <4>1, PyCallsAssumption
    <3>5. kind.type \in {"int", "float", "opt_int"} /\ kind.default \in BOOLEAN /\ kind.byref \in BOOLEAN
          /\ (kind.byref => kind.type = "int")
      BY KindsAre
    <3>6. new \in ParamKinds /\ new.name = ParamNames[n + 1] /\ new.default = kind.default
      BY <3>4, <3>5 DEF ParamKinds, Param
    <3>7. call' = [call EXCEPT !.params = Append(call.params, new)]
      BY <3>1
    <3> HIDE DEF new, n
    <3>8. /\ Append(call.params, new) \in Seq(ParamKinds) /\ Len(Append(call.params, new)) = n + 1
          /\ DOMAIN Append(call.params, new) = 1 .. n + 1
          /\ \A p \in 1 .. n : Append(call.params, new)[p] = call.params[p]
          /\ Append(call.params, new)[n + 1] = new
      BY <3>2, <3>6, AppendProperties DEF n
    <3>9. ASSUME NEW s, s = Append(call.params, new)
          PROVE  /\ s \in Seq(ParamKinds) /\ Len(s) <= Len(ParamNames)
                 /\ \A p \in DOMAIN s : s[p].name = ParamNames[p]
                 /\ \A p, q \in DOMAIN s : p <= q /\ s[p].default => s[q].default
      <4>1. /\ s \in Seq(ParamKinds) /\ Len(s) = n + 1 /\ DOMAIN s = 1 .. n + 1
            /\ (\A p \in 1 .. n : s[p] = call.params[p]) /\ s[n + 1] = new
        BY <3>8, <3>9, Zenon
      <4>2. Len(s) <= Len(ParamNames)
        BY <3>1, <3>3, <4>1 DEF n
      <4>3. ASSUME NEW p \in DOMAIN s PROVE s[p].name = ParamNames[p]
        <5>1. p \in 1 .. n \/ p = n + 1
          BY <3>3, <4>1
        <5> QED
          BY <3>2, <3>3, <3>6, <4>1, <5>1
      <4>4. ASSUME NEW p \in DOMAIN s, NEW q \in DOMAIN s, p <= q, s[p].default PROVE s[q].default
        <5>1. (p \in 1 .. n \/ p = n + 1) /\ (q \in 1 .. n \/ q = n + 1) /\ (p = n + 1 => q = n + 1)
          BY <3>3, <4>1, <4>4
        <5>2. CASE q = n + 1 /\ p = n + 1
          BY <4>4, <5>2
        <5>3. CASE q = n + 1 /\ p \in 1 .. n
          BY <3>1, <3>3, <3>6, <4>1, <4>4, <5>3
        <5>4. CASE q \in 1 .. n /\ p \in 1 .. n
          BY <3>2, <3>3, <4>1, <4>4, <5>4
        <5> QED
          BY <5>1, <5>2, <5>3, <5>4
      <4> QED
        BY <4>1, <4>2, <4>3, <4>4
    <3>10. /\ call' \in [site : Sites, params : Seq(ParamKinds), args : Seq(ArgKinds), kwargs : Seq(KwargKinds)]
           /\ call'.params = Append(call.params, new)
      BY <3>2, <3>7, <3>8
    <3> QED
      BY <3>9, <3>10, Zenon DEF CallInv, IsCall
  <2>2. CASE AddArg
    <3>1. PICK a \in ArgKinds : call' = [call EXCEPT !.args = Append(@, a)]
      BY <2>2 DEF AddArg
    <3>2. call \in [site : Sites, params : Seq(ParamKinds), args : Seq(ArgKinds), kwargs : Seq(KwargKinds)]
      BY DEF CallInv, IsCall
    <3>3. Append(call.args, a) \in Seq(ArgKinds)
      BY <3>2, AppendProperties
    <3>4. /\ call' \in [site : Sites, params : Seq(ParamKinds), args : Seq(ArgKinds), kwargs : Seq(KwargKinds)]
          /\ call'.params = call.params
      BY <3>1, <3>2, <3>3
    <3> QED
      BY <3>4, Zenon DEF CallInv, IsCall
  <2>3. CASE AddKwarg
    <3>1. PICK a \in ArgKinds, name \in Keywords : call' = [call EXCEPT !.kwargs = Append(@, [name |-> name, arg |-> a])]
      BY <2>3 DEF AddKwarg, ArgKinds
    <3>2. call \in [site : Sites, params : Seq(ParamKinds), args : Seq(ArgKinds), kwargs : Seq(KwargKinds)]
      BY DEF CallInv, IsCall
    <3>3. [name |-> name, arg |-> a] \in KwargKinds
      BY DEF KwargKinds
    <3>4. Append(call.kwargs, [name |-> name, arg |-> a]) \in Seq(KwargKinds)
      BY <3>2, <3>3, AppendProperties
    <3>5. /\ call' \in [site : Sites, params : Seq(ParamKinds), args : Seq(ArgKinds), kwargs : Seq(KwargKinds)]
          /\ call'.params = call.params
      BY <3>1, <3>2, <3>4
    <3> QED
      BY <3>5, Zenon DEF CallInv, IsCall
  <2>4. CASE UNCHANGED call
    BY <2>4 DEF CallInv
  <2> QED
    BY <2>1, <2>2, <2>3, <2>4 DEF CallNext
<1> QED
  BY <1>1, <1>2, PTL DEF CallSpec

\* Whatever the parameters and the arguments of a call, and however many: where
\* the checker accepts it, Python makes it; map_kwargs_to_slots gives every
\* parameter what Python gives it; the emitted code computes the arguments in the
\* order they are written; and where their types are checked, or happen to be
\* right, it compiles.
THEOREM CallsAlwaysBind == CallSpec => []CallsBind
<1>1. CallInv => CallsBind
  <2> SUFFICES ASSUME IsCall(call), CallAccepted(call)
               PROVE  /\ PyBinds(call)
                      /\ \A p \in DOMAIN call.params :
                            Meant(call, p) = IF Slots(call)[p] = 0 THEN {} ELSE {Slots(call)[p]}
                      /\ ArgumentOrder(call) = AsGiven(call)
                      /\ ~NeedsHoist(call) => EmittedOrder(call) = PyOrder(call)
                      /\ Converts(call) => CallCompiles(call)
    BY Zenon DEF CallInv, CallsBind
  <2>1. SlotsFit(call)
    BY AcceptedFits
  <2>2. PyBinds(call)
    BY <2>1, PythonBinds
  <2>3. \A p \in DOMAIN call.params : Meant(call, p) = IF Slots(call)[p] = 0 THEN {} ELSE {Slots(call)[p]}
    BY <2>1, MeantIs
  <2>4. ArgumentOrder(call) = AsGiven(call)
    BY <2>1, OrderKept
  <2>5. ~NeedsHoist(call) => EmittedOrder(call) = PyOrder(call)
    BY <2>4, Zenon DEF EmittedOrder, PyOrder
  <2>6. Converts(call) => CallCompiles(call)
    BY Compiles
  <2> QED
    BY <2>2, <2>3, <2>4, <2>5, <2>6
<1> QED
  BY <1>1, CallsGrow, PTL

-----------------------------------------------------------------------------
(* The rounds of compute_mut_self                                          *)

\* What one round does, whatever its order: it finds at least the callers of
\* what is known, and nothing that is not among what any closed set holds.
Advances(calls, known, found) ==
    /\ Further(calls, known) \subseteq found
    /\ \A S : Closed(calls, S) /\ known \subseteq S => found \subseteq S

LEMMA RoundAdvances ==
    ASSUME NEW keys, NEW calls \in SUBSET (keys \X keys), NEW known, NEW found, IsRound(keys, calls, known, found)
    PROVE  Advances(calls, known, found)
<1>1. PICK n \in Nat : \E order \in [1 .. n -> keys], seen \in [0 .. n -> SUBSET keys] :
        /\ \A key \in keys : \E i \in 1 .. n : order[i] = key
        /\ seen[0] = known
        /\ \A i \in 1 .. n : seen[i] = VisitKey(calls, seen[i - 1], order[i])
        /\ seen[n] = found
  BY DEF IsRound
<1>2. PICK order \in [1 .. n -> keys], seen \in [0 .. n -> SUBSET keys] :
        /\ \A key \in keys : \E i \in 1 .. n : order[i] = key
        /\ seen[0] = known
        /\ \A i \in 1 .. n : seen[i] = VisitKey(calls, seen[i - 1], order[i])
        /\ seen[n] = found
  BY <1>1
<1>3. \A k \in 0 .. n : k < n => k + 1 \in 1 .. n /\ k + 1 - 1 = k
  OBVIOUS
<1>4. \A k \in 0 .. n : k < n => seen[k + 1] = VisitKey(calls, seen[k], order[k + 1])
  BY <1>2, <1>3
<1>5. \A k \in 0 .. n : known \subseteq seen[k]
  <2> DEFINE B == {k \in 0 .. n : known \subseteq seen[k]}
  <2>1. 0 \in B
    BY <1>2
  <2>2. ASSUME NEW k \in 0 .. n, k \in B, k < n PROVE k + 1 \in B
    <3>1. known \subseteq seen[k] /\ seen[k] \subseteq seen[k + 1]
      BY <1>4, <2>2 DEF VisitKey
    <3>2. k + 1 \in 0 .. n
      BY <2>2
    <3> QED
      BY <3>1, <3>2
  <2> HIDE DEF B
  <2>3. \A k \in 0 .. n : k \in B
    BY <2>1, <2>2, UpTo
  <2> QED
    BY <2>3 DEF B
<1>6. ASSUME NEW key, NEW m \in 1 .. n, key \in seen[m] PROVE key \in found
  <2> DEFINE B == {t \in 0 .. n - m : key \in seen[m + t]}
  <2>1. n - m \in Nat /\ n - m \in 0 .. n - m /\ m + (n - m) = n /\ 0 \in 0 .. n - m /\ m + 0 = m
    OBVIOUS
  <2>2. 0 \in B
    BY <1>6, <2>1
  <2>3. ASSUME NEW t \in 0 .. n - m, t \in B, t < n - m PROVE t + 1 \in B
    <3>1. m + t \in 0 .. n /\ m + t < n /\ t + 1 \in 0 .. n - m /\ m + (t + 1) = m + t + 1
      BY <2>3
    <3>2. key \in seen[m + t]
      BY <2>3
    <3>3. seen[m + t] \subseteq seen[m + t + 1]
      BY <1>4, <3>1 DEF VisitKey
    <3> QED
      BY <3>1, <3>2, <3>3
  <2> HIDE DEF B
  <2>4. \A t \in 0 .. n - m : t \in B
    BY <2>1, <2>2, <2>3, UpTo
  <2>5. n - m \in B
    BY <2>1, <2>4
  <2>6. key \in seen[m + (n - m)]
    BY <2>5 DEF B
  <2> QED
    BY <1>2, <2>1, <2>6, Zenon
<1>7. Further(calls, known) \subseteq found
  <2>1. known \subseteq found
    BY <1>2, <1>5
  <2>2. ASSUME NEW e \in calls, e[2] \in known PROVE e[1] \in found
    <3>1. e[1] \in keys
      OBVIOUS
    <3>2. PICK i \in 1 .. n : order[i] = e[1]
      BY <1>2, <3>1
    <3>3. i - 1 \in 0 .. n
      OBVIOUS
    <3>4. e[2] \in seen[i - 1]
      BY <1>5, <2>2, <3>3
    <3>5. seen[i] = VisitKey(calls, seen[i - 1], order[i])
      BY <1>2
    <3>6. e[1] \in seen[i]
      BY <3>2, <3>4, <3>5 DEF VisitKey
    <3> QED
      BY <1>6, <3>6
  <2> QED
    BY <2>1, <2>2 DEF Further, Callers
<1>8. ASSUME NEW S, Closed(calls, S), known \subseteq S PROVE found \subseteq S
  <2> DEFINE B == {k \in 0 .. n : seen[k] \subseteq S}
  <2>1. 0 \in B
    BY <1>2, <1>8
  <2>2. ASSUME NEW k \in 0 .. n, k \in B, k < n PROVE k + 1 \in B
    <3>1. seen[k + 1] = VisitKey(calls, seen[k], order[k + 1]) /\ seen[k] \subseteq S /\ k + 1 \in 0 .. n
      BY <1>4, <2>2
    <3>2. \A e \in calls : e[2] \in S => e[1] \in S
      BY <1>8 DEF Closed, Callers
    <3>3. seen[k + 1] \subseteq S
      BY <3>1, <3>2 DEF VisitKey
    <3> QED
      BY <3>1, <3>3
  <2> HIDE DEF B
  <2>3. \A k \in 0 .. n : k \in B
    BY <2>1, <2>2, UpTo
  <2> QED
    BY <1>2, <2>3 DEF B
<1> QED
  BY <1>7, <1>8 DEF Advances

LEMMA FurtherAdvances ==
    ASSUME NEW calls, NEW known
    PROVE  Advances(calls, known, Further(calls, known))
BY DEF Advances, Further, Closed, Callers

\* However its rounds advance, the loop ends with the least set: when a round
\* finds nothing more, and at the latest one round after as many as there are
\* methods.
LEMMA LoopEnds ==
    ASSUME NEW keys, IsFiniteSet(keys), NEW calls \in SUBSET (keys \X keys), NEW own \in SUBSET keys,
           NEW n \in Nat, NEW known \in [0 .. n -> SUBSET keys], known[0] = own,
           \A i \in 0 .. n : i < n => Advances(calls, known[i], known[i + 1]),
           n > Cardinality(keys) \/ (n > 0 /\ known[n] = known[n - 1])
    PROVE  known[n] = Least(keys, calls, own)
<1>1. ASSUME NEW i \in 0 .. n, i < n
      PROVE  /\ i + 1 \in 0 .. n /\ known[i] \subseteq known[i + 1] /\ Callers(calls, known[i]) \subseteq known[i + 1]
             /\ \A S : Closed(calls, S) /\ known[i] \subseteq S => known[i + 1] \subseteq S
  BY <1>1 DEF Advances, Further
<1>2. own \subseteq known[n]
  <2> DEFINE B == {k \in 0 .. n : own \subseteq known[k]}
  <2>1. 0 \in B
    OBVIOUS
  <2>2. ASSUME NEW k \in 0 .. n, k \in B, k < n PROVE k + 1 \in B
    BY <1>1, <2>2
  <2> HIDE DEF B
  <2>3. \A k \in 0 .. n : k \in B
    BY <2>1, <2>2, UpTo
  <2> QED
    BY <2>3 DEF B
<1>3. ASSUME NEW S, Closed(calls, S), own \subseteq S PROVE known[n] \subseteq S
  <2> DEFINE B == {k \in 0 .. n : known[k] \subseteq S}
  <2>1. 0 \in B
    BY <1>3
  <2>2. ASSUME NEW k \in 0 .. n, k \in B, k < n PROVE k + 1 \in B
    BY <1>1, <1>3, <2>2
  <2> HIDE DEF B
  <2>3. \A k \in 0 .. n : k \in B
    BY <2>1, <2>2, UpTo
  <2> QED
    BY <2>3 DEF B
<1>4. Closed(calls, known[n])
  <2>1. CASE n > 0 /\ known[n] = known[n - 1]
    <3>1. n - 1 \in 0 .. n /\ n - 1 < n /\ n - 1 + 1 = n
      BY <2>1
    <3>2. Callers(calls, known[n - 1]) \subseteq known[n]
      BY <1>1, <3>1
    <3> QED
      BY <2>1, <3>2 DEF Closed, Callers
  <2>2. CASE n > Cardinality(keys)
    <3> DEFINE B == {k \in 0 .. n : Closed(calls, known[k]) \/ Cardinality(known[k]) >= k}
    <3>1. \A k \in 0 .. n : IsFiniteSet(known[k]) /\ Cardinality(known[k]) \in Nat /\ Cardinality(known[k]) <= Cardinality(keys)
      BY FS_Subset, FS_CardinalityType
    <3>2. 0 \in B
      BY <3>1
    <3>3. ASSUME NEW k \in 0 .. n, k \in B, k < n PROVE k + 1 \in B
      <4>1. k + 1 \in 0 .. n
        BY <3>3
      <4>2. CASE Closed(calls, known[k])
        <5>1. known[k + 1] = known[k]
          BY <1>1, <3>3, <4>2
        <5> QED
          BY <4>1, <4>2, <5>1
      <4>3. CASE ~Closed(calls, known[k])
        <5>1. Cardinality(known[k]) >= k
          BY <3>3, <4>3
        <5>2. known[k] \subseteq known[k + 1] /\ known[k] # known[k + 1]
          BY <1>1, <3>3, <4>3 DEF Closed, Callers
        <5>3. Cardinality(known[k]) <= Cardinality(known[k + 1]) /\ Cardinality(known[k]) # Cardinality(known[k + 1])
          BY <3>1, <4>1, <5>2, FS_Subset
        <5>4. Cardinality(known[k + 1]) >= k + 1
          BY <3>1, <4>1, <5>1, <5>3
        <5> QED
          BY <4>1, <5>4
      <4> QED
        BY <4>2, <4>3
    <3> HIDE DEF B
    <3>4. \A k \in 0 .. n : k \in B
      BY <3>2, <3>3, UpTo
    <3>5. Closed(calls, known[n]) \/ Cardinality(known[n]) >= n
      BY <3>4 DEF B
    <3>6. Cardinality(keys) \in Nat
      BY FS_CardinalityType
    <3> QED
      BY <2>2, <3>1, <3>5, <3>6
  <2> QED
    BY <2>1, <2>2
<1>5. known[n] \in SUBSET keys
  OBVIOUS
<1>6. Least(keys, calls, own) \subseteq known[n]
  BY <1>2, <1>4, <1>5 DEF Least
<1>7. known[n] \subseteq Least(keys, calls, own)
  BY <1>3, <1>5 DEF Least
<1> QED
  BY <1>6, <1>7

\* compute_mut_self finds exactly the methods that change the object, by
\* themselves or by what they call: whatever the classes, whatever order the
\* hash map gives the methods in, round by round, and for every chain or cycle
\* of calls among them.  The loop ends when a round finds nothing more, or
\* after its cap of one round more than there are methods.
THEOREM AnyOrderSuffices ==
    ASSUME NEW keys, IsFiniteSet(keys), NEW calls \in SUBSET (keys \X keys), NEW own \in SUBSET keys,
           NEW n \in Nat, NEW known \in [0 .. n -> SUBSET keys], known[0] = own,
           \A i \in 0 .. n : i < n => IsRound(keys, calls, known[i], known[i + 1]),
           n = Cardinality(keys) + 1 \/ (n > 0 /\ known[n] = known[n - 1])
    PROVE  known[n] = Least(keys, calls, own)
<1>1. \A i \in 0 .. n : i < n => Advances(calls, known[i], known[i + 1])
  BY RoundAdvances
<1>2. n > Cardinality(keys) \/ (n > 0 /\ known[n] = known[n - 1])
  BY FS_CardinalityType
<1> QED
  BY <1>1, <1>2, LoopEnds

\* The rounds of the model, which take the worst order, find the same methods.
Steps(g, n, calls, own) == g = [i \in 0 .. n |-> IF i = 0 THEN own ELSE Further(calls, g[i - 1])]

LEMMA StepsExist ==
    ASSUME NEW calls, NEW own, NEW n \in Nat
    PROVE  \E g : Steps(g, n, calls, own)
<1> DEFINE S == {m \in 0 .. n : \E g : Steps(g, m, calls, own)}
<1>1. 0 \in S
  <2>1. Steps([k \in 0 .. 0 |-> own], 0, calls, own)
    BY DEF Steps
  <2> QED
    BY <2>1
<1>2. ASSUME NEW m \in 0 .. n, m \in S, m < n PROVE m + 1 \in S
  <2>1. PICK g : Steps(g, m, calls, own)
    BY <1>2
  <2> DEFINE h == [k \in 0 .. m + 1 |-> IF k = 0 THEN own ELSE Further(calls, g[k - 1])]
  <2>2. \A k \in 0 .. m : h[k] = g[k]
    <3> TAKE k \in 0 .. m
    <3>1. k \in 0 .. m + 1
      OBVIOUS
    <3>2. g[k] = IF k = 0 THEN own ELSE Further(calls, g[k - 1])
      BY <2>1 DEF Steps
    <3> QED
      BY <3>1, <3>2
  <2>3. \A k \in 0 .. m + 1 : k # 0 => k - 1 \in 0 .. m
    OBVIOUS
  <2>4. Steps(h, m + 1, calls, own)
    BY <2>2, <2>3 DEF Steps
  <2>5. m + 1 \in 0 .. n
    BY <1>2
  <2> HIDE DEF h
  <2> QED
    BY <2>4, <2>5
<1> HIDE DEF S
<1>3. n \in S
  BY <1>1, <1>2, UpTo
<1> QED
  BY <1>3 DEF S

THEOREM WorstOrderAgrees ==
    ASSUME NEW keys, IsFiniteSet(keys), NEW calls \in SUBSET (keys \X keys), NEW own \in SUBSET keys
    PROVE  Rounds(calls, own, Cardinality(keys) + 1) = Least(keys, calls, own)
<1> DEFINE n == Cardinality(keys) + 1
<1>1. n \in Nat /\ n > Cardinality(keys)
  BY FS_CardinalityType
<1> HIDE DEF n
<1>2. PICK g : g = CHOOSE f : Steps(f, n, calls, own)
  OBVIOUS
<1>3. Steps(g, n, calls, own)
  BY <1>1, <1>2, StepsExist
<1>4. Rounds(calls, own, n) = g[n]
  BY <1>2, Zenon DEF Rounds, Steps
<1>5. g[0] = own /\ \A i \in 0 .. n : i < n => i + 1 \in 0 .. n /\ g[i + 1] = Further(calls, g[i])
  BY <1>1, <1>3 DEF Steps
<1>6. \A i \in 0 .. n : g[i] \in SUBSET keys
  <2> DEFINE B == {k \in 0 .. n : g[k] \in SUBSET keys}
  <2>1. 0 \in B
    BY <1>1, <1>5
  <2>2. ASSUME NEW k \in 0 .. n, k \in B, k < n PROVE k + 1 \in B
    <3>1. Further(calls, g[k]) \in SUBSET keys
      BY <2>2 DEF Further, Callers
    <3> QED
      BY <1>5, <2>2, <3>1
  <2> HIDE DEF B
  <2>3. \A k \in 0 .. n : k \in B
    BY <1>1, <2>1, <2>2, UpTo
  <2> QED
    BY <2>3 DEF B
<1>7. DOMAIN g = 0 .. n /\ g = [i \in 0 .. n |-> g[i]]
  BY <1>3 DEF Steps
<1>8. g \in [0 .. n -> SUBSET keys]
  BY <1>6, <1>7
<1>9. \A i \in 0 .. n : i < n => Advances(calls, g[i], g[i + 1])
  BY <1>5, FurtherAdvances
<1>10. g[n] = Least(keys, calls, own)
  BY <1>1, <1>5, <1>8, <1>9, LoopEnds
<1> QED
  BY <1>4, <1>10 DEF n

-----------------------------------------------------------------------------
\* Pieces of a text, and the tokens made of them.
Pieces == Layout \cup [k : STRING, v : STRING]
Tokens == {Indent, Dedent, Newline, Eof} \cup {Scanned(t) : t \in Pieces}
LexStates == [toks : Seq(Tokens), indents : Seq(Nat), depth : Nat, bol : BOOLEAN, col : Nat, ok : BOOLEAN]

-----------------------------------------------------------------------------
(* The loop *)

LexSteps(g, n, st, text) == g = [i \in 0 .. n |-> IF i = 0 THEN st ELSE LexPiece(g[i - 1], text[i])]

LEMMA LexStepsExist ==
    ASSUME NEW st, NEW text, NEW n \in Nat
    PROVE  \E g : LexSteps(g, n, st, text)
<1> DEFINE S == {m \in 0 .. n : \E g : LexSteps(g, m, st, text)}
<1>1. 0 \in S
  <2>1. LexSteps([k \in 0 .. 0 |-> st], 0, st, text)
    BY DEF LexSteps
  <2> QED
    BY <2>1
<1>2. ASSUME NEW m \in 0 .. n, m \in S, m < n PROVE m + 1 \in S
  <2>1. PICK g : LexSteps(g, m, st, text)
    BY <1>2
  <2> DEFINE h == [k \in 0 .. m + 1 |-> IF k = 0 THEN st ELSE LexPiece(g[k - 1], text[k])]
  <2>2. \A k \in 0 .. m : h[k] = g[k]
    <3> TAKE k \in 0 .. m
    <3>1. k \in 0 .. m + 1
      OBVIOUS
    <3>2. g[k] = IF k = 0 THEN st ELSE LexPiece(g[k - 1], text[k])
      BY <2>1 DEF LexSteps
    <3> QED
      BY <3>1, <3>2
  <2>3. \A k \in 0 .. m + 1 : k # 0 => k - 1 \in 0 .. m
    OBVIOUS
  <2>4. LexSteps(h, m + 1, st, text)
    BY <2>2, <2>3 DEF LexSteps
  <2>5. m + 1 \in 0 .. n
    BY <1>2
  <2> HIDE DEF h
  <2> QED
    BY <2>4, <2>5
<1> HIDE DEF S
<1>3. n \in S
  BY <1>1, <1>2, UpTo
<1> QED
  BY <1>3 DEF S

\* The states the loop goes through.
LexRun(g, n, st, text) ==
    /\ n = Len(text) /\ g[0] = st
    /\ \A i \in 0 .. n : i < n => g[i + 1] = LexPiece(g[i], text[i + 1])

LEMMA LexFromRuns ==
    ASSUME NEW st, NEW text, NEW n \in Nat, n = Len(text)
    PROVE  \E g : LexRun(g, n, st, text) /\ LexFrom(st, text) = g[n]
<1>1. PICK g : g = CHOOSE f : LexSteps(f, n, st, text)
  OBVIOUS
<1>2. LexSteps(g, n, st, text)
  BY <1>1, LexStepsExist
<1>3. LexFrom(st, text) = g[n]
  BY <1>1, Zenon DEF LexFrom, LexSteps
<1>4. LexRun(g, n, st, text)
  <2>1. g[0] = st
    BY <1>2 DEF LexSteps
  <2>2. ASSUME NEW i \in 0 .. n, i < n PROVE g[i + 1] = LexPiece(g[i], text[i + 1])
    <3>1. i + 1 \in 0 .. n /\ i + 1 # 0 /\ i + 1 - 1 = i
      BY <2>2
    <3> QED
      BY <1>2, <3>1 DEF LexSteps
  <2> QED
    BY <2>1, <2>2 DEF LexRun
<1> QED
  BY <1>3, <1>4

LEMMA LexFromOf ==
    ASSUME NEW st, NEW text, NEW n \in Nat, NEW h, LexRun(h, n, st, text)
    PROVE  LexFrom(st, text) = h[n]
<1>0. n = Len(text)
  BY DEF LexRun
<1>1. PICK g : LexRun(g, n, st, text) /\ LexFrom(st, text) = g[n]
  BY <1>0, LexFromRuns
<1> DEFINE S == {i \in 0 .. n : g[i] = h[i]}
<1>2. 0 \in S
  BY <1>1 DEF LexRun
<1>3. ASSUME NEW i \in 0 .. n, i \in S, i < n PROVE i + 1 \in S
  BY <1>1, <1>3 DEF LexRun
<1> HIDE DEF S
<1>4. n \in S
  <2>1. \A i \in 0 .. n : i \in S
    BY <1>2, <1>3, UpTo
  <2> QED
    BY <2>1
<1> QED
  BY <1>1, <1>4 DEF S

LEMMA LexFromIs ==
    ASSUME NEW st, NEW text, NEW n \in Nat, n = Len(text)
    PROVE  \E g : LexRun(g, n, st, text)
  BY LexFromRuns

LEMMA LexFromEmpty ==
    ASSUME NEW st PROVE LexFrom(st, <<>>) = st
<1>1. Len(<<>>) = 0
  OBVIOUS
<1>2. PICK g : LexRun(g, 0, st, <<>>)
  BY <1>1, LexFromIs
<1> QED
  BY <1>2, LexFromOf DEF LexRun

LEMMA LexFromOne ==
    ASSUME NEW st, NEW t PROVE LexFrom(st, <<t>>) = LexPiece(st, t)
<1> DEFINE text == <<t>>
           h == [i \in 0 .. 1 |-> IF i = 0 THEN st ELSE LexPiece(st, t)]
<1>1. PICK n \in Nat : n = 1
  OBVIOUS
<1>2. n = Len(text) /\ text[1] = t
  BY <1>1
<1>3. h[0] = st /\ h[n] = LexPiece(st, t)
  BY <1>1
<1>4. \A i \in 0 .. n : i < n => h[i + 1] = LexPiece(h[i], text[i + 1])
  BY <1>1, <1>2, <1>3
<1> HIDE DEF text, h
<1>5. LexFrom(st, text) = h[n]
  <2>1. LexRun(h, n, st, text)
    BY <1>2, <1>3, <1>4 DEF LexRun
  <2> QED
    BY <2>1, LexFromOf
<1> QED
  BY <1>3, <1>5 DEF text

\* A text in two parts: the second is read from where the first ended.
LEMMA LexFromConcat ==
    ASSUME NEW st, NEW s \in Seq(Pieces), NEW u \in Seq(Pieces)
    PROVE  LexFrom(st, s \o u) = LexFrom(LexFrom(st, s), u)
<1>0. PICK n \in Nat, m \in Nat : n = Len(s) /\ m = Len(u)
  OBVIOUS
<1>1r. PICK g : LexRun(g, n, st, s)
  BY <1>0, LexFromIs
<1>1. /\ LexFrom(st, s) = g[n]
      /\ g[0] = st
      /\ \A i \in 0 .. n : i < n => g[i + 1] = LexPiece(g[i], s[i + 1])
  BY <1>1r, LexFromOf DEF LexRun
<1>2r. PICK f : LexRun(f, m, g[n], u)
  BY <1>0, LexFromIs
<1>2. /\ LexFrom(g[n], u) = f[m]
      /\ f[0] = g[n]
      /\ \A i \in 0 .. m : i < m => f[i + 1] = LexPiece(f[i], u[i + 1])
  BY <1>2r, LexFromOf DEF LexRun
<1>3. /\ Len(s \o u) = n + m
      /\ \A i \in 1 .. n + m : (s \o u)[i] = IF i <= n THEN s[i] ELSE u[i - n]
  BY <1>0, ConcatProperties, Zenon
<1> DEFINE h == [i \in 0 .. n + m |-> IF i <= n THEN g[i] ELSE f[i - n]]
<1>4. h[0] = st /\ h[n + m] = f[m]
  BY <1>1, <1>2
<1>5. ASSUME NEW i \in 0 .. n + m, i < n + m PROVE h[i + 1] = LexPiece(h[i], (s \o u)[i + 1])
  <2>1. CASE i < n
    <3>1. h[i + 1] = g[i + 1] /\ h[i] = g[i] /\ (s \o u)[i + 1] = s[i + 1] /\ i \in 0 .. n
      BY <1>3, <1>5, <2>1
    <3> QED
      BY <1>1, <2>1, <3>1
  <2>2. CASE i >= n
    <3>1. PICK j \in 0 .. m : j = i - n /\ j < m
      BY <1>5, <2>2
    <3>2. h[i + 1] = f[j + 1] /\ h[i] = f[j]
      <4>1. i + 1 \in 0 .. n + m /\ ~(i + 1 <= n) /\ i + 1 - n = j + 1
        BY <1>5, <2>2, <3>1
      <4>2. i = n => j = 0
        BY <3>1
      <4> QED
        BY <1>2, <2>2, <3>1, <4>1, <4>2
    <3>3. (s \o u)[i + 1] = u[j + 1]
      <4>1. i + 1 \in 1 .. n + m /\ ~(i + 1 <= n) /\ i + 1 - n = j + 1
        BY <1>5, <2>2, <3>1
      <4> QED
        BY <1>3, <4>1
    <3> QED
      BY <1>2, <3>1, <3>2, <3>3
  <2> HIDE DEF h
  <2>3. i < n \/ i >= n
    OBVIOUS
  <2> QED
    BY <2>1, <2>2, <2>3
<1> HIDE DEF h
<1>6. LexFrom(st, s \o u) = h[n + m]
  <2> DEFINE text == s \o u
  <2>1. PICK k \in Nat : k = n + m
    OBVIOUS
  <2>2. k = Len(text) /\ h[0] = st /\ \A i \in 0 .. k : i < k => h[i + 1] = LexPiece(h[i], text[i + 1])
    BY <1>3, <1>4, <1>5, <2>1
  <2> HIDE DEF text
  <2>3. LexFrom(st, text) = h[k]
    <3>1. LexRun(h, k, st, text)
      BY <2>2 DEF LexRun
    <3> QED
      BY <3>1, LexFromOf
  <2> QED
    BY <2>1, <2>3 DEF text
<1> QED
  BY <1>1, <1>2, <1>4, <1>6

\* What no piece changes, a text of such pieces does not change.
LEMMA LexFromIdle ==
    ASSUME NEW st, NEW s \in Seq(Pieces), \A i \in 1 .. Len(s) : LexPiece(st, s[i]) = st
    PROVE  LexFrom(st, s) = st
<1>0. PICK n \in Nat : n = Len(s)
  OBVIOUS
<1> DEFINE h == [i \in 0 .. n |-> st]
<1>1. \A i \in 0 .. n : i < n => h[i + 1] = LexPiece(h[i], s[i + 1])
  BY <1>0
<1>2. h[0] = st /\ h[n] = st
  OBVIOUS
<1> HIDE DEF h
<1>3. LexRun(h, n, st, s)
  BY <1>0, <1>1, <1>2 DEF LexRun
<1> QED
  BY <1>2, <1>3, LexFromOf

-----------------------------------------------------------------------------
(* The states                                                                *)

Deeper(S) == \A i, j \in DOMAIN S : i < j => S[i] < S[j]
Steady(st) ==
    /\ st \in LexStates
    /\ st.indents # <<>> /\ st.indents[1] = 0 /\ Deeper(st.indents)
    /\ st.depth > 0 => ~st.bol
Holds(n, S, col) == n \in DOMAIN S /\ S[n] <= col /\ \A i \in DOMAIN S : i > n => S[i] > col

LEMMA StackIs ==
    ASSUME NEW st, Steady(st)
    PROVE  /\ st.indents \in Seq(Nat) /\ st.col \in Nat /\ Len(st.indents) \in Nat /\ Len(st.indents) >= 1
           /\ DOMAIN st.indents = 1 .. Len(st.indents)
           /\ st.indents[1] = 0 /\ Deeper(st.indents)
           /\ \A i \in 1 .. Len(st.indents) : st.indents[i] \in Nat
           /\ Last(st.indents) = st.indents[Len(st.indents)]
<1>1. st.indents \in Seq(Nat) /\ st.col \in Nat /\ st.indents # <<>>
  BY DEF Steady, LexStates
<1>2. Len(st.indents) \in Nat /\ Len(st.indents) >= 1 /\ DOMAIN st.indents = 1 .. Len(st.indents)
  BY <1>1, LenProperties, EmptySeq
<1>3. \A i \in 1 .. Len(st.indents) : st.indents[i] \in Nat
  BY <1>1, ElementOfSeq
<1>4. st.indents[1] = 0 /\ Deeper(st.indents)
  BY DEF Steady
<1> QED
  BY <1>1, <1>2, <1>3, <1>4 DEF Last

LEMMA KeptExists ==
    ASSUME NEW st, Steady(st)
    PROVE  \E n : Holds(n, st.indents, st.col)
<1> DEFINE S == st.indents
           c == st.col
           B == {i \in DOMAIN S : S[i] > c}
<1>0. PICK n \in Nat : n = Len(S)
  BY StackIs
<1>1. /\ n >= 1 /\ DOMAIN S = 1 .. n /\ c \in Nat
      /\ S[1] = 0 /\ \A i \in 1 .. n : S[i] \in Nat
      /\ \A i, j \in 1 .. n : i < j => S[i] < S[j]
  BY <1>0, StackIs DEF Deeper
<1> HIDE DEF S, c
<1>2. CASE B = {}
  <2>1. Holds(n, S, c)
    BY <1>1, <1>2 DEF Holds
  <2> QED
    BY <2>1 DEF S, c
<1>3. CASE B # {}
  <2>1. B \subseteq Nat
    BY <1>1
  <2>2. PICK m \in B : \A j \in B : m <= j
    <3> HIDE DEF B
    <3> QED
      BY <1>3, <2>1, LeastOf
  <2>3. m \in 1 .. n /\ S[m] > c /\ m # 1
    BY <1>1
  <2>4. m - 1 \in 1 .. n /\ m - 1 \notin B
    BY <2>2, <2>3
  <2>5. S[m - 1] <= c
    BY <1>1, <2>4
  <2>6. ASSUME NEW i \in 1 .. n, i > m - 1 PROVE S[i] > c
    <3>1. i = m \/ m < i
      BY <2>3, <2>6
    <3> QED
      BY <1>1, <2>3, <3>1
  <2>7. Holds(m - 1, S, c)
    BY <1>1, <2>4, <2>5, <2>6 DEF Holds
  <2> QED
    BY <2>7 DEF S, c
<1> QED
  BY <1>2, <1>3

LEMMA KeptIs ==
    ASSUME NEW st, Steady(st)
    PROVE  /\ Holds(Kept(st), st.indents, st.col)
           /\ \A n : Holds(n, st.indents, st.col) => Kept(st) = n
<1>1. Holds(Kept(st), st.indents, st.col)
  BY KeptExists DEF Kept, Holds
<1>2. \A n, m : Holds(n, st.indents, st.col) /\ Holds(m, st.indents, st.col) => n = m
  <2> TAKE n, m
  <2> HAVE Holds(n, st.indents, st.col) /\ Holds(m, st.indents, st.col)
  <2>1. n \in 1 .. Len(st.indents) /\ m \in 1 .. Len(st.indents)
    BY StackIs DEF Holds
  <2>2. ~(n < m) /\ ~(m < n)
    BY <2>1, StackIs DEF Holds
  <2> QED
    BY <2>1, <2>2
<1> QED
  BY <1>1, <1>2

(* Indentations m times as wide.                                             *)
Times(m, S) == [i \in DOMAIN S |-> m * S[i]]
Scaled(m, st) == [st EXCEPT !.indents = Times(m, @), !.col = m * @]
Factors == {1, 8}

LEMMA TimesIs ==
    ASSUME NEW m \in Factors, NEW S \in Seq(Nat)
    PROVE  /\ Times(m, S) \in Seq(Nat) /\ Len(Times(m, S)) = Len(S) /\ DOMAIN Times(m, S) = 1 .. Len(S)
           /\ \A i \in 1 .. Len(S) : Times(m, S)[i] = m * S[i] /\ S[i] \in Nat
<1>1. DOMAIN S = 1 .. Len(S) /\ Len(S) \in Nat /\ \A i \in 1 .. Len(S) : S[i] \in Nat
  BY LenProperties, ElementOfSeq
<1>2. \A n \in Nat : m * n \in Nat
  BY DEF Factors
<1>3. Times(m, S) \in [1 .. Len(S) -> Nat]
  BY <1>1, <1>2 DEF Times
<1>4. Times(m, S) \in Seq(Nat) /\ Len(Times(m, S)) = Len(S) /\ DOMAIN Times(m, S) = 1 .. Len(S)
  BY <1>1, <1>3
<1>5. \A i \in 1 .. Len(S) : Times(m, S)[i] = m * S[i]
  BY <1>1 DEF Times
<1> QED
  BY <1>1, <1>4, <1>5

LEMMA TimesAppend ==
    ASSUME NEW m \in Factors, NEW S \in Seq(Nat), NEW c \in Nat
    PROVE  Times(m, Append(S, c)) = Append(Times(m, S), m * c)
<1>0. m * c \in Nat
  BY DEF Factors
<1>1. /\ Append(S, c) \in Seq(Nat) /\ Len(Append(S, c)) = Len(S) + 1 /\ Append(S, c)[Len(S) + 1] = c
      /\ \A i \in 1 .. Len(S) : Append(S, c)[i] = S[i]
  BY AppendProperties
<1>2. /\ Times(m, S) \in Seq(Nat) /\ Len(Times(m, S)) = Len(S)
      /\ \A i \in 1 .. Len(S) : Times(m, S)[i] = m * S[i]
  BY TimesIs
<1>3. /\ Append(Times(m, S), m * c) \in Seq(Nat) /\ Len(Append(Times(m, S), m * c)) = Len(S) + 1
      /\ Append(Times(m, S), m * c)[Len(S) + 1] = m * c
      /\ \A i \in 1 .. Len(S) : Append(Times(m, S), m * c)[i] = m * S[i]
  BY <1>0, <1>2, AppendProperties
<1>4. /\ Times(m, Append(S, c)) \in Seq(Nat) /\ Len(Times(m, Append(S, c))) = Len(S) + 1
      /\ \A i \in 1 .. Len(S) + 1 : Times(m, Append(S, c))[i] = m * Append(S, c)[i]
  BY <1>1, TimesIs
<1>5. ASSUME NEW i \in 1 .. Len(S) + 1 PROVE Times(m, Append(S, c))[i] = Append(Times(m, S), m * c)[i]
  <2>1. Len(S) \in Nat
    OBVIOUS
  <2>2. i \in 1 .. Len(S) \/ i = Len(S) + 1
    BY <2>1
  <2> QED
    BY <1>1, <1>3, <1>4, <2>2
<1> HIDE DEF Times
<1> QED
  BY <1>3, <1>4, <1>5, SeqEqual

LEMMA PrefixIs ==
    ASSUME NEW S \in Seq(Nat), NEW n \in 1 .. Len(S)
    PROVE  /\ SubSeq(S, 1, n) \in Seq(Nat) /\ Len(SubSeq(S, 1, n)) = n /\ DOMAIN SubSeq(S, 1, n) = 1 .. n
           /\ \A i \in 1 .. n : SubSeq(S, 1, n)[i] = S[i]
<1>0. n \in Nat /\ n >= 1 /\ Len(S) \in Nat /\ n <= Len(S) /\ \A i \in 1 .. n : i \in 1 .. Len(S) /\ 1 + i - 1 = i
  OBVIOUS
<1>1. \A i \in 1 .. n : S[i] \in Nat
  BY <1>0, ElementOfSeq
<1>2. SubSeq(S, 1, n) \in Seq(Nat) /\ Len(SubSeq(S, 1, n)) = n /\ \A i \in 1 .. n : SubSeq(S, 1, n)[i] = S[i]
  BY <1>0, <1>1, SubSeqProperties
<1> QED
  BY <1>2, LenProperties

LEMMA TimesSub ==
    ASSUME NEW m \in Factors, NEW S \in Seq(Nat), NEW n \in 1 .. Len(S)
    PROVE  Times(m, SubSeq(S, 1, n)) = SubSeq(Times(m, S), 1, n)
<1>1. SubSeq(S, 1, n) \in Seq(Nat) /\ Len(SubSeq(S, 1, n)) = n /\ \A i \in 1 .. n : SubSeq(S, 1, n)[i] = S[i]
  BY PrefixIs
<1>2. Times(m, S) \in Seq(Nat) /\ Len(Times(m, S)) = Len(S) /\ \A i \in 1 .. Len(S) : Times(m, S)[i] = m * S[i]
  BY TimesIs
<1>3. /\ SubSeq(Times(m, S), 1, n) \in Seq(Nat) /\ Len(SubSeq(Times(m, S), 1, n)) = n
      /\ \A i \in 1 .. n : SubSeq(Times(m, S), 1, n)[i] = m * S[i]
  <2>1. n \in 1 .. Len(Times(m, S)) /\ \A i \in 1 .. n : i \in 1 .. Len(S)
    BY <1>2
  <2> QED
    BY <1>2, <2>1, PrefixIs
<1>4. /\ Times(m, SubSeq(S, 1, n)) \in Seq(Nat) /\ Len(Times(m, SubSeq(S, 1, n))) = n
      /\ \A i \in 1 .. n : Times(m, SubSeq(S, 1, n))[i] = m * SubSeq(S, 1, n)[i]
  BY <1>1, TimesIs
<1>5. \A i \in 1 .. n : Times(m, SubSeq(S, 1, n))[i] = SubSeq(Times(m, S), 1, n)[i]
  BY <1>1, <1>3, <1>4
<1> QED
  BY <1>3, <1>4, <1>5, SeqEqual

LEMMA ScaledIs ==
    ASSUME NEW m \in Factors, NEW st, Steady(st)
    PROVE  /\ Scaled(m, st) \in LexStates /\ Steady(Scaled(m, st))
           /\ Scaled(m, st).indents = Times(m, st.indents) /\ Scaled(m, st).col = m * st.col
           /\ Scaled(m, st).toks = st.toks /\ Scaled(m, st).depth = st.depth
           /\ Scaled(m, st).bol = st.bol /\ Scaled(m, st).ok = st.ok
<1> DEFINE T == Times(m, st.indents)
           su == Scaled(m, st)
<1>1. st \in LexStates /\ st.indents \in Seq(Nat)
  BY DEF Steady, LexStates
<1>2. /\ T \in Seq(Nat) /\ Len(T) = Len(st.indents) /\ DOMAIN T = 1 .. Len(st.indents)
      /\ \A i \in 1 .. Len(st.indents) : T[i] = m * st.indents[i] /\ st.indents[i] \in Nat
  BY <1>1, TimesIs
<1>3. m * st.col \in Nat
  BY StackIs DEF Factors
<1> HIDE DEF T
<1>4. /\ su \in LexStates /\ su.indents = T /\ su.col = m * st.col
      /\ su.toks = st.toks /\ su.depth = st.depth /\ su.bol = st.bol /\ su.ok = st.ok
  BY <1>1, <1>2, <1>3 DEF Scaled, LexStates, T
<1>5. T # <<>> /\ T[1] = 0 /\ Deeper(T)
  <2>1. Len(T) >= 1 /\ DOMAIN T = 1 .. Len(T) /\ T # <<>>
    BY <1>2, StackIs, EmptySeq
  <2>2. T[1] = 0
    BY <1>2, <2>1, StackIs DEF Factors
  <2>3. Deeper(T)
    <3>1. \A i, j \in 1 .. Len(st.indents) : i < j => st.indents[i] < st.indents[j]
      BY StackIs DEF Deeper
    <3>2. ASSUME NEW i \in 1 .. Len(st.indents), NEW j \in 1 .. Len(st.indents), i < j PROVE T[i] < T[j]
      BY <1>2, <3>1, <3>2 DEF Factors
    <3> QED
      BY <1>2, <3>2 DEF Deeper
  <2> QED
    BY <2>1, <2>2, <2>3
<1> HIDE DEF su
<1>6. Steady(su)
  BY <1>4, <1>5 DEF Steady
<1> QED
  BY <1>4, <1>6 DEF su, T

LEMMA KeptScaled ==
    ASSUME NEW m \in Factors, NEW st, Steady(st)
    PROVE  Kept(Scaled(m, st)) = Kept(st)
<1>1. Holds(Kept(st), st.indents, st.col)
  BY KeptIs
<1>2. st.indents \in Seq(Nat) /\ st.col \in Nat /\ DOMAIN st.indents = 1 .. Len(st.indents)
  BY StackIs
<1>3. /\ DOMAIN Times(m, st.indents) = 1 .. Len(st.indents)
      /\ \A i \in 1 .. Len(st.indents) : Times(m, st.indents)[i] = m * st.indents[i] /\ st.indents[i] \in Nat
  BY <1>2, TimesIs
<1>4. \A i \in 1 .. Len(st.indents) : (Times(m, st.indents)[i] <= m * st.col <=> st.indents[i] <= st.col)
                                   /\ (Times(m, st.indents)[i] > m * st.col <=> st.indents[i] > st.col)
  BY <1>2, <1>3 DEF Factors
<1>5. Holds(Kept(st), Times(m, st.indents), m * st.col)
  BY <1>1, <1>2, <1>3, <1>4 DEF Holds
<1> QED
  BY <1>5, ScaledIs, KeptIs

\* What the first word of a line comes to.
LEMMA IndentationIs ==
    ASSUME NEW st, Steady(st)
    PROVE  /\ st.col > Last(st.indents) =>
                Indentation(st) = [st EXCEPT !.toks = @ \o <<Indent>>, !.indents = Append(@, st.col)]
           /\ ~(st.col > Last(st.indents)) =>
                /\ Indentation(st) = [st EXCEPT !.toks = @ \o [i \in 1 .. (Len(st.indents) - Kept(st)) |-> Dedent],
                                               !.indents = SubSeq(@, 1, Kept(st)),
                                               !.ok = st.col = st.indents[Kept(st)]]
                /\ Kept(st) \in 1 .. Len(st.indents)
<1>1. st \in LexStates
  BY DEF Steady
<1>2. CASE st.col > Last(st.indents)
  BY <1>1, <1>2 DEF Indentation, Emit, LexStates
<1>3. CASE ~(st.col > Last(st.indents))
  <2>1. Kept(st) \in 1 .. Len(st.indents)
    BY KeptIs, StackIs DEF Holds
  <2>2. Last(SubSeq(st.indents, 1, Kept(st))) = st.indents[Kept(st)]
    <3>1. PICK n \in Nat : n = Kept(st) /\ n >= 1 /\ n <= Len(st.indents)
      BY <2>1, StackIs
    <3>2. /\ Len(SubSeq(st.indents, 1, n)) = n /\ SubSeq(st.indents, 1, n)[n] = st.indents[n]
      <4>1. n \in 1 .. Len(st.indents) /\ n \in 1 .. n /\ st.indents \in Seq(Nat)
        BY <3>1, StackIs
      <4> QED
        BY <4>1, PrefixIs
    <3> QED
      BY <3>1, <3>2 DEF Last
  <2>3. Indentation(st) = [st EXCEPT !.toks = @ \o [i \in 1 .. (Len(st.indents) - Kept(st)) |-> Dedent],
                                   !.indents = SubSeq(@, 1, Kept(st)),
                                   !.ok = st.col = st.indents[Kept(st)]]
    BY <1>1, <1>3, <2>2 DEF Indentation, Emit, LexStates
  <2> QED
    BY <1>3, <2>1, <2>3
<1> QED
  BY <1>2, <1>3

LEMMA MarksAre ==
    /\ Indent \in Tokens /\ Dedent \in Tokens /\ Newline \in Tokens /\ Eof \in Tokens
    /\ <<Indent>> \in Seq(Tokens) /\ <<Newline>> \in Seq(Tokens) /\ <<Eof>> \in Seq(Tokens)
    /\ \A n \in Int : [i \in 1 .. n |-> Dedent] \in Seq(Tokens)
<1>1. Indent \in Tokens /\ Dedent \in Tokens /\ Newline \in Tokens /\ Eof \in Tokens
  BY DEF Tokens
<1>2. ASSUME NEW n \in Int PROVE [i \in 1 .. n |-> Dedent] \in Seq(Tokens)
  <2>1. CASE n \in Nat
    BY <1>1, <2>1
  <2>2. CASE n \notin Nat
    <3>1. 1 .. n = {}
      BY <2>2
    <3>2. [i \in 1 .. n |-> Dedent] = <<>>
      BY <3>1
    <3> QED
      BY <3>2, EmptySeq
  <2> QED
    BY <2>1, <2>2
<1> QED
  BY <1>1, <1>2

LEMMA IndentationSteady ==
    ASSUME NEW st, Steady(st)
    PROVE  /\ Steady(Indentation(st))
           /\ Indentation(st).col = st.col /\ Indentation(st).depth = st.depth /\ Indentation(st).bol = st.bol
<1> DEFINE su == Indentation(st)
           S == st.indents
<1>1. st \in LexStates /\ st.toks \in Seq(Tokens) /\ (st.depth > 0 => ~st.bol)
  BY DEF Steady, LexStates
<1>2. /\ S \in Seq(Nat) /\ st.col \in Nat /\ Len(S) \in Nat /\ Len(S) >= 1 /\ DOMAIN S = 1 .. Len(S)
      /\ S[1] = 0 /\ (\A i, j \in DOMAIN S : i < j => S[i] < S[j]) /\ (\A i \in 1 .. Len(S) : S[i] \in Nat)
      /\ Last(S) = S[Len(S)]
  BY StackIs DEF Deeper
<1>3. CASE st.col > Last(S)
  <2> DEFINE U == Append(S, st.col)
  <2>1. st.toks \o <<Indent>> \in Seq(Tokens)
    BY <1>1, MarksAre, ConcatProperties
  <2>2. /\ U \in Seq(Nat) /\ U # <<>> /\ Len(U) = Len(S) + 1 /\ U[Len(S) + 1] = st.col
        /\ DOMAIN U = 1 .. Len(S) + 1 /\ \A i \in 1 .. Len(S) : U[i] = S[i]
    BY <1>2, AppendProperties, LenProperties
  <2>3. Deeper(U)
    <3>1. ASSUME NEW i \in 1 .. Len(S) + 1, NEW j \in 1 .. Len(S) + 1, i < j PROVE U[i] < U[j]
      <4>1. i \in 1 .. Len(S) /\ U[i] = S[i] /\ S[i] <= S[Len(S)]
        <5>1. i \in 1 .. Len(S) /\ Len(S) \in 1 .. Len(S)
          BY <1>2, <3>1
        <5>2. i = Len(S) \/ i < Len(S)
          BY <1>2, <5>1
        <5>3. S[i] \in Nat /\ S[Len(S)] \in Nat /\ (i < Len(S) => S[i] < S[Len(S)])
          BY <1>2, <5>1
        <5>4. S[i] <= S[Len(S)]
          BY <5>2, <5>3
        <5> QED
          BY <2>2, <5>1, <5>4
      <4>2. CASE j = Len(S) + 1
        BY <1>2, <1>3, <2>2, <4>1, <4>2
      <4>3. CASE j \in 1 .. Len(S)
        BY <1>2, <2>2, <3>1, <4>1, <4>3
      <4> QED
        BY <1>2, <4>2, <4>3
    <3> QED
      BY <2>2, <3>1 DEF Deeper
  <2>4. U[1] = 0
    BY <1>2, <2>2
  <2> HIDE DEF U
  <2>5. su = [st EXCEPT !.toks = @ \o <<Indent>>, !.indents = U]
    BY <1>3, IndentationIs DEF U
  <2> HIDE DEF su, S
  <2>6. /\ su \in LexStates /\ su.indents = U /\ su.col = st.col /\ su.depth = st.depth /\ su.bol = st.bol
    BY <1>1, <2>1, <2>2, <2>5 DEF LexStates
  <2>7. Steady(su)
    BY <1>1, <2>2, <2>3, <2>4, <2>6 DEF Steady
  <2> QED
    BY <2>6, <2>7 DEF su
<1>4. CASE ~(st.col > Last(S))
  <2>k. Kept(st) \in 1 .. Len(S)
    BY <1>4, IndentationIs
  <2>0. PICK n \in Nat : n = Kept(st) /\ n >= 1 /\ n <= Len(S)
    BY <1>2, <2>k
  <2> DEFINE U == SubSeq(S, 1, n)
             D == [i \in 1 .. (Len(S) - n) |-> Dedent]
  <2>1. st.toks \o D \in Seq(Tokens)
    <3>1. D \in Seq(Tokens)
      <4>1. Len(S) - n \in Int
        BY <1>2, <2>0
      <4> QED
        BY <4>1, MarksAre
    <3> QED
      BY <1>1, <3>1, ConcatProperties
  <2>2. /\ U \in Seq(Nat) /\ Len(U) = n /\ DOMAIN U = 1 .. n /\ \A i \in 1 .. n : U[i] = S[i]
    <3>1. n \in 1 .. Len(S) /\ S \in Seq(Nat)
      BY <1>2, <2>0
    <3> QED
      BY <3>1, PrefixIs
  <2>3. U # <<>> /\ U[1] = 0 /\ Deeper(U)
    <3>1. Len(U) # 0 /\ 1 \in 1 .. n
      BY <2>0, <2>2
    <3>2. U[1] = 0
      BY <1>2, <2>2, <3>1
    <3>3. ASSUME NEW i \in 1 .. n, NEW j \in 1 .. n, i < j PROVE U[i] < U[j]
      <4>1. i \in 1 .. Len(S) /\ j \in 1 .. Len(S)
        BY <1>2, <2>0
      <4> QED
        BY <1>2, <2>2, <3>3, <4>1
    <3> HIDE DEF U
    <3>4. Deeper(U)
      BY <2>2, <3>3 DEF Deeper
    <3> QED
      BY <3>1, <3>2, <3>4, EmptySeq
  <2> HIDE DEF U, D
  <2>4. su = [st EXCEPT !.toks = @ \o D, !.indents = U, !.ok = st.col = S[n]]
    BY <1>4, <2>0, IndentationIs, Zenon DEF U, D
  <2> HIDE DEF su, S
  <2>5. /\ su \in LexStates /\ su.indents = U /\ su.col = st.col /\ su.depth = st.depth /\ su.bol = st.bol
    BY <1>1, <2>1, <2>2, <2>4 DEF LexStates
  <2>6. Steady(su)
    BY <1>1, <2>2, <2>3, <2>5 DEF Steady
  <2> QED
    BY <2>5, <2>6 DEF su
<1> QED
  BY <1>3, <1>4

-----------------------------------------------------------------------------
(* A piece                                                                   *)

LEMMA LayoutApart ==
    /\ Space # Tab /\ Space # Comment /\ Space # Continuation /\ Space # Line
    /\ Tab # Comment /\ Tab # Continuation /\ Tab # Line
    /\ Comment # Continuation /\ Comment # Line /\ Continuation # Line
  BY DEF Space, Tab, Comment, Continuation, Line, Sym, Tok

\* What each piece does to a text that is still in order.
LEMMA PieceIs ==
    ASSUME NEW st, NEW t
    PROVE  /\ ~st.ok => LexPiece(st, t) = st
           /\ st.ok =>
                /\ t = Space => LexPiece(st, t) = IF st.bol THEN [st EXCEPT !.col = @ + 1] ELSE st
                /\ t = Tab => LexPiece(st, t) = IF st.bol THEN [st EXCEPT !.col = @ + 8] ELSE st
                /\ t = Comment => LexPiece(st, t) = [st EXCEPT !.bol = FALSE]
                /\ t = Continuation =>
                     LexPiece(st, t) = IF st.bol THEN [Indentation(st) EXCEPT !.bol = FALSE] ELSE st
                /\ t = Line =>
                     LexPiece(st, t) = IF st.depth > 0 THEN st ELSE [EndLine(st) EXCEPT !.bol = TRUE, !.col = 0]
                /\ t \notin Layout => LexPiece(st, t) = Word(st, t)
<1>1. ~st.ok => LexPiece(st, t) = st
  BY Zenon DEF LexPiece
<1>2. st.ok /\ t = Space => LexPiece(st, t) = IF st.bol THEN [st EXCEPT !.col = @ + 1] ELSE st
  BY LayoutApart DEF LexPiece
<1>3. st.ok /\ t = Tab => LexPiece(st, t) = IF st.bol THEN [st EXCEPT !.col = @ + 8] ELSE st
  BY LayoutApart DEF LexPiece
<1>4. st.ok /\ t = Comment => LexPiece(st, t) = [st EXCEPT !.bol = FALSE]
  BY LayoutApart DEF LexPiece
<1>5. st.ok /\ t = Continuation =>
        LexPiece(st, t) = IF st.bol THEN [Indentation(st) EXCEPT !.bol = FALSE] ELSE st
  BY LayoutApart DEF LexPiece
<1>6. st.ok /\ t = Line =>
        LexPiece(st, t) = IF st.depth > 0 THEN st ELSE [EndLine(st) EXCEPT !.bol = TRUE, !.col = 0]
  BY LayoutApart DEF LexPiece
<1>7. st.ok /\ t \notin Layout => LexPiece(st, t) = Word(st, t)
  BY DEF LexPiece, Layout
<1> QED
  BY <1>1, <1>2, <1>3, <1>4, <1>5, <1>6, <1>7

LEMMA EndLineIs ==
    ASSUME NEW st, st \in LexStates
    PROVE  \E ts \in Seq(Tokens) : EndLine(st) = [st EXCEPT !.toks = ts]
<1>0. st.toks \in Seq(Tokens) /\ st = [st EXCEPT !.toks = st.toks]
  BY DEF LexStates
<1>1. CASE st.toks = <<>> \/ Last(st.toks) = Newline
  BY <1>0, <1>1, Zenon DEF EndLine
<1>2. CASE ~(st.toks = <<>> \/ Last(st.toks) = Newline)
  <2>1. EndLine(st) = [st EXCEPT !.toks = st.toks \o <<Newline>>]
    BY <1>2 DEF EndLine, Emit
  <2>2. st.toks \o <<Newline>> \in Seq(Tokens)
    BY <1>0, MarksAre, ConcatProperties
  <2> QED
    BY <2>1, <2>2
<1> QED
  BY <1>1, <1>2

LEMMA EndLineSteady ==
    ASSUME NEW st, Steady(st)
    PROVE  /\ Steady(EndLine(st))
           /\ EndLine(st).indents = st.indents /\ EndLine(st).depth = st.depth
           /\ EndLine(st).col = st.col /\ EndLine(st).bol = st.bol /\ EndLine(st).ok = st.ok
<1>1. st \in LexStates /\ st.toks \in Seq(Tokens)
  BY DEF Steady, LexStates
<1>2. PICK ts \in Seq(Tokens) : EndLine(st) = [st EXCEPT !.toks = ts]
  BY <1>1, EndLineIs
<1> DEFINE su == EndLine(st)
<1> HIDE DEF su
<1>3. /\ su \in LexStates
      /\ su.indents = st.indents /\ su.depth = st.depth /\ su.col = st.col /\ su.bol = st.bol /\ su.ok = st.ok
  BY <1>1, <1>2 DEF LexStates, su
<1>4. Steady(su)
  BY <1>3 DEF Steady
<1> QED
  BY <1>3, <1>4 DEF su

\* The state a word is read in, and what the word does to it.
Ready(st) == IF st.bol THEN [Indentation(st) EXCEPT !.bol = FALSE] ELSE st
Closer(t, d) ==
    IF t.k \in {"(", "[", "{"} THEN d + 1
    ELSE IF t.k \in {")", "]", "}"} /\ d > 0 THEN d - 1
    ELSE d

LEMMA WordIs ==
    ASSUME NEW st, NEW t, Ready(st) \in LexStates
    PROVE  Word(st, t) = [Ready(st) EXCEPT !.toks = @ \o <<Scanned(t)>>, !.depth = Closer(t, @), !.ok = @ /\ Scans(t)]
<1> DEFINE r == Ready(st)
<1>1. Word(st, t) = [Emit(r, <<Scanned(t)>>) EXCEPT !.depth = Closer(t, @), !.ok = @ /\ Scans(t)]
  BY Zenon DEF Word, Ready, Closer
<1> HIDE DEF r
<1>2. r \in LexStates
  BY DEF r
<1> QED
  BY <1>1, <1>2 DEF Emit, LexStates, r

LEMMA ReadySteady ==
    ASSUME NEW st, Steady(st)
    PROVE  Steady(Ready(st)) /\ ~Ready(st).bol /\ Ready(st).depth = st.depth /\ Ready(st).col = st.col
<1>1. CASE st.bol
  <2> DEFINE a == Indentation(st)
             b == Ready(st)
  <2>1. Steady(a) /\ a.col = st.col /\ a.depth = st.depth
    BY IndentationSteady
  <2>2. b = [a EXCEPT !.bol = FALSE]
    BY <1>1 DEF Ready
  <2> HIDE DEF a, b
  <2>3. a \in LexStates
    BY <2>1 DEF Steady
  <2>4. b \in LexStates /\ b.indents = a.indents /\ b.depth = a.depth /\ b.col = a.col /\ b.bol = FALSE
    BY <2>2, <2>3 DEF LexStates
  <2>5. Steady(b)
    BY <2>1, <2>4 DEF Steady
  <2> QED
    BY <2>1, <2>4, <2>5 DEF b
<1>2. CASE ~st.bol
  BY <1>2 DEF Ready
<1> QED
  BY <1>1, <1>2

LEMMA WordSteady ==
    ASSUME NEW st, Steady(st), NEW t \in Pieces
    PROVE  Steady(Word(st, t)) /\ ~Word(st, t).bol
<1> DEFINE r == Ready(st)
           w == Word(st, t)
<1>1. Steady(r) /\ ~r.bol
  BY ReadySteady
<1>2. r \in LexStates
  BY <1>1 DEF Steady
<1>3. w = [r EXCEPT !.toks = @ \o <<Scanned(t)>>, !.depth = Closer(t, @), !.ok = @ /\ Scans(t)]
  BY <1>2, WordIs
<1> HIDE DEF r, w
<1>4. r.toks \o <<Scanned(t)>> \in Seq(Tokens)
  <2>1. Scanned(t) \in Tokens
    BY DEF Tokens
  <2>2. <<Scanned(t)>> \in Seq(Tokens)
    BY <2>1
  <2> QED
    BY <1>2, <2>2, ConcatProperties DEF LexStates
<1>5. Closer(t, r.depth) \in Nat
  <2>1. r.depth \in Nat
    BY <1>2 DEF LexStates
  <2>2. r.depth + 1 \in Nat /\ (r.depth > 0 => r.depth - 1 \in Nat)
    BY <2>1
  <2> QED
    BY <2>1, <2>2, Zenon DEF Closer
<1>6. (r.ok /\ Scans(t)) \in BOOLEAN
  OBVIOUS
<1>7. w \in LexStates /\ w.indents = r.indents /\ w.bol = r.bol
  BY <1>2, <1>3, <1>4, <1>5, <1>6 DEF LexStates
<1>8. Steady(w)
  BY <1>1, <1>7 DEF Steady
<1> QED
  BY <1>1, <1>7, <1>8 DEF w

\* The indentations stay open from the narrowest to the widest, from none.
LEMMA PieceSteady ==
    ASSUME NEW st, Steady(st), NEW t \in Pieces
    PROVE  Steady(LexPiece(st, t))
<1> DEFINE su == LexPiece(st, t)
<1>0. st \in LexStates
  BY DEF Steady
<1>a. ASSUME NEW c \in Nat, NEW b \in BOOLEAN, st.depth > 0 => ~b
      PROVE  Steady([st EXCEPT !.col = c, !.bol = b])
  <2> DEFINE sv == [st EXCEPT !.col = c, !.bol = b]
  <2>1. sv \in LexStates /\ sv.indents = st.indents /\ sv.depth = st.depth /\ sv.bol = b
    BY <1>0 DEF LexStates
  <2> HIDE DEF sv
  <2>2. Steady(sv)
    BY <1>a, <2>1 DEF Steady
  <2> QED
    BY <2>2 DEF sv
<1>1. CASE ~st.ok
  BY <1>1, PieceIs
<1>2. CASE st.ok
  <2>1. CASE t \in {Space, Tab}
    <3>1. PICK m \in Nat : su = IF st.bol THEN [st EXCEPT !.col = @ + m] ELSE st
      <4>1. t = Space => su = IF st.bol THEN [st EXCEPT !.col = @ + 1] ELSE st
        BY <1>2, PieceIs
      <4>2. t = Tab => su = IF st.bol THEN [st EXCEPT !.col = @ + 8] ELSE st
        BY <1>2, PieceIs
      <4> HIDE DEF su
      <4> QED
        BY <2>1, <4>1, <4>2
    <3>2. st.col + m \in Nat /\ st.bol \in BOOLEAN
      BY <1>0 DEF LexStates
    <3>3. su = [st EXCEPT !.col = st.col + m, !.bol = st.bol] \/ su = st
      BY <1>0, <3>1 DEF LexStates
    <3>4. st.depth > 0 => ~st.bol
      BY DEF Steady
    <3> QED
      BY <1>a, <3>2, <3>3, <3>4
  <2>2. CASE t = Comment
    <3>1. su = [st EXCEPT !.bol = FALSE]
      BY <1>2, <2>2, PieceIs
    <3>2. su = [st EXCEPT !.col = st.col, !.bol = FALSE] /\ st.col \in Nat
      BY <1>0, <3>1 DEF LexStates
    <3> QED
      BY <1>a, <3>2
  <2>3. CASE t = Continuation
    <3>1. su = Ready(st)
      BY <1>2, <2>3, PieceIs DEF Ready
    <3> QED
      BY <3>1, ReadySteady
  <2>4. CASE t = Line
    <3>1. CASE st.depth > 0
      BY <1>2, <2>4, <3>1, PieceIs
    <3>2. CASE ~(st.depth > 0)
      <4> DEFINE e == EndLine(st)
      <4>1. su = [e EXCEPT !.bol = TRUE, !.col = 0]
        BY <1>2, <2>4, <3>2, PieceIs
      <4>2. Steady(e) /\ e.depth = st.depth
        BY EndLineSteady
      <4>3. e \in LexStates
        BY <4>2 DEF Steady
      <4> HIDE DEF e, su
      <4>4. su \in LexStates /\ su.indents = e.indents /\ su.depth = e.depth
        BY <4>1, <4>3 DEF LexStates
      <4>5. Steady(su)
        BY <3>2, <4>2, <4>4 DEF Steady
      <4> QED
        BY <4>5 DEF su
    <3> QED
      BY <3>1, <3>2
  <2>5. CASE t \notin Layout
    <3>1. su = Word(st, t)
      BY <1>2, <2>5, PieceIs
    <3> QED
      BY <3>1, WordSteady
  <2> QED
    BY <2>1, <2>2, <2>3, <2>4, <2>5 DEF Layout
<1> QED
  BY <1>1, <1>2

LEMMA StartSteady == Steady(LexStart)
<1> DEFINE S == <<0>>
<1>1. S \in Seq(Nat) /\ S # <<>> /\ S[1] = 0 /\ DOMAIN S = 1 .. 1
  OBVIOUS
<1>2. Deeper(S)
  BY <1>1 DEF Deeper
<1>3. <<>> \in Seq(Tokens)
  OBVIOUS
<1> HIDE DEF S
<1>4. LexStart = [toks |-> <<>>, indents |-> S, depth |-> 0, bol |-> TRUE, col |-> 0, ok |-> TRUE]
  BY DEF LexStart, S
<1>5. LexStart \in LexStates /\ LexStart.indents = S /\ LexStart.depth = 0
  BY <1>1, <1>3, <1>4 DEF LexStates
<1> QED
  BY <1>1, <1>2, <1>5 DEF Steady

LEMMA RunSteady ==
    ASSUME NEW st, Steady(st), NEW s \in Seq(Pieces), NEW n \in Nat, NEW g, LexRun(g, n, st, s), NEW i \in 0 .. n
    PROVE  Steady(g[i])
<1>1. n = Len(s) /\ g[0] = st /\ \A k \in 0 .. n : k < n => g[k + 1] = LexPiece(g[k], s[k + 1])
  BY DEF LexRun
<1> DEFINE S == {k \in 0 .. n : Steady(g[k])}
<1>2. 0 \in S
  BY <1>1
<1>3. ASSUME NEW k \in 0 .. n, k \in S, k < n PROVE k + 1 \in S
  <2>1. s[k + 1] \in Pieces
    BY <1>1, <1>3, ElementOfSeq
  <2> QED
    BY <1>1, <1>3, <2>1, PieceSteady
<1> HIDE DEF S
<1>4. \A k \in 0 .. n : k \in S
  BY <1>2, <1>3, UpTo
<1>5. i \in S
  BY <1>4
<1> QED
  BY <1>5 DEF S

-----------------------------------------------------------------------------
(* Wider indentations                                                        *)

LEMMA IndentationScaled ==
    ASSUME NEW m \in Factors, NEW st, Steady(st)
    PROVE  Indentation(Scaled(m, st)) = Scaled(m, Indentation(st))
<1> DEFINE su == Scaled(m, st)
           S == st.indents
           T == Times(m, S)
<1>1. st \in LexStates /\ S \in Seq(Nat) /\ st.col \in Nat /\ Len(S) \in Nat /\ Len(S) >= 1 /\ Last(S) = S[Len(S)]
  BY StackIs DEF Steady
<1>2. /\ su \in LexStates /\ Steady(su) /\ su.indents = T /\ su.col = m * st.col
      /\ su = [st EXCEPT !.indents = T, !.col = m * st.col]
  BY <1>1, ScaledIs DEF Scaled, LexStates
<1>3. T \in Seq(Nat) /\ Len(T) = Len(S) /\ \A i \in 1 .. Len(S) : T[i] = m * S[i] /\ S[i] \in Nat
  BY <1>1, TimesIs
<1>4. Last(T) = m * S[Len(S)] /\ S[Len(S)] \in Nat
  BY <1>1, <1>3 DEF Last
<1>5. CASE st.col > Last(S)
  <2>1. su.col > Last(su.indents)
    BY <1>1, <1>2, <1>4, <1>5 DEF Factors
  <2>2. Indentation(su) = [su EXCEPT !.toks = @ \o <<Indent>>, !.indents = Append(@, su.col)]
    BY <1>2, <2>1, IndentationIs
  <2>3. Indentation(st) = [st EXCEPT !.toks = @ \o <<Indent>>, !.indents = Append(@, st.col)]
    BY <1>5, IndentationIs
  <2>4. Times(m, Append(S, st.col)) = Append(T, m * st.col)
    BY <1>1, TimesAppend
  <2> HIDE DEF su, T
  <2>5. Indentation(su) = [st EXCEPT !.toks = @ \o <<Indent>>, !.indents = Append(T, m * st.col), !.col = m * st.col]
    BY <1>1, <1>2, <2>2 DEF LexStates
  <2>6. Scaled(m, Indentation(st)) = [st EXCEPT !.toks = @ \o <<Indent>>, !.indents = Append(T, m * st.col), !.col = m * st.col]
    BY <1>1, <2>3, <2>4 DEF LexStates, Scaled
  <2> QED
    BY <2>5, <2>6 DEF su
<1>6. CASE ~(st.col > Last(S))
  <2>0. Kept(st) \in 1 .. Len(S)
    BY <1>6, IndentationIs
  <2>1. ~(su.col > Last(su.indents))
    BY <1>1, <1>2, <1>4, <1>6 DEF Factors
  <2> DEFINE k == Kept(st)
             D == [i \in 1 .. (Len(S) - k) |-> Dedent]
  <2>2. Indentation(su) = [su EXCEPT !.toks = @ \o D, !.indents = SubSeq(T, 1, k), !.ok = m * st.col = T[k]]
    <3>1. Indentation(su) = [su EXCEPT !.toks = @ \o [i \in 1 .. (Len(su.indents) - Kept(su)) |-> Dedent],
                                       !.indents = SubSeq(@, 1, Kept(su)),
                                       !.ok = su.col = su.indents[Kept(su)]]
      BY <1>2, <2>1, IndentationIs
    <3>2. Kept(su) = k /\ Len(su.indents) = Len(S)
      BY <1>2, <1>3, KeptScaled
    <3> QED
      BY <1>2, <3>1, <3>2, Zenon
  <2>3. Indentation(st) = [st EXCEPT !.toks = @ \o D, !.indents = SubSeq(S, 1, k), !.ok = st.col = S[k]]
    BY <1>6, IndentationIs, Zenon
  <2>4. Times(m, SubSeq(S, 1, k)) = SubSeq(T, 1, k)
    BY <1>1, <2>0, TimesSub
  <2>5. (m * st.col = T[k]) = (st.col = S[k])
    <3>1. T[k] = m * S[k] /\ S[k] \in Nat
      BY <1>3, <2>0
    <3>2. T[k] = m * S[k] /\ m * st.col = m * S[k] <=> T[k] = m * S[k] /\ st.col = S[k]
      BY <1>1, <3>1 DEF Factors
    <3>3. m * st.col = T[k] <=> st.col = S[k]
      BY <3>1, <3>2
    <3> QED
      BY <3>3, Zenon
  <2> DEFINE K == SubSeq(T, 1, k)
             J == SubSeq(S, 1, k)
             o == st.col = S[k]
  <2>6. Indentation(su) = [su EXCEPT !.toks = @ \o D, !.indents = K, !.ok = o]
    BY <2>2, <2>5, Zenon
  <2> HIDE DEF su, T, D, K, J, o, k
  <2>7. Indentation(su) = [st EXCEPT !.toks = @ \o D, !.indents = K, !.col = m * st.col, !.ok = o]
    BY <1>1, <1>2, <2>6 DEF LexStates
  <2>8. Indentation(st) = [st EXCEPT !.toks = @ \o D, !.indents = J, !.ok = o] /\ Times(m, J) = K
    BY <2>3, <2>4 DEF J, K, o
  <2>9. Scaled(m, Indentation(st)) = [st EXCEPT !.toks = @ \o D, !.indents = K, !.col = m * st.col, !.ok = o]
    BY <1>1, <2>8 DEF LexStates, Scaled
  <2> QED
    BY <2>7, <2>9 DEF su
<1> QED
  BY <1>5, <1>6

LEMMA EndLineScaled ==
    ASSUME NEW m \in Factors, NEW st, Steady(st)
    PROVE  EndLine(Scaled(m, st)) = Scaled(m, EndLine(st))
<1>1. st \in LexStates /\ st = [st EXCEPT !.toks = st.toks]
  BY DEF Steady, LexStates
<1>2. Scaled(m, st).toks = st.toks
  BY ScaledIs
<1>3. CASE st.toks = <<>> \/ Last(st.toks) = Newline
  BY <1>2, <1>3 DEF EndLine
<1>4. CASE ~(st.toks = <<>> \/ Last(st.toks) = Newline)
  <2>1. EndLine(st) = [st EXCEPT !.toks = st.toks \o <<Newline>>]
    BY <1>4 DEF EndLine, Emit
  <2>2. EndLine(Scaled(m, st)) = [Scaled(m, st) EXCEPT !.toks = st.toks \o <<Newline>>]
    BY <1>2, <1>4 DEF EndLine, Emit
  <2> DEFINE ts == st.toks \o <<Newline>>
  <2> HIDE DEF ts
  <2>3. [Scaled(m, st) EXCEPT !.toks = ts] = Scaled(m, [st EXCEPT !.toks = ts])
    BY <1>1 DEF Scaled, LexStates
  <2> QED
    BY <2>1, <2>2, <2>3 DEF ts
<1> QED
  BY <1>3, <1>4

LEMMA ReadyScaled ==
    ASSUME NEW m \in Factors, NEW st, Steady(st)
    PROVE  Ready(Scaled(m, st)) = Scaled(m, Ready(st))
<1>1. Scaled(m, st).bol = st.bol
  BY ScaledIs
<1>2. CASE st.bol
  <2> DEFINE a == Indentation(st)
  <2>1. Ready(st) = [a EXCEPT !.bol = FALSE] /\ Ready(Scaled(m, st)) = [Scaled(m, a) EXCEPT !.bol = FALSE]
    BY <1>1, <1>2, IndentationScaled DEF Ready
  <2>2. a \in LexStates
    BY IndentationSteady DEF Steady
  <2> HIDE DEF a
  <2>3. [Scaled(m, a) EXCEPT !.bol = FALSE] = Scaled(m, [a EXCEPT !.bol = FALSE])
    BY <2>2 DEF LexStates, Scaled
  <2> QED
    BY <2>1, <2>3
<1>3. CASE ~st.bol
  BY <1>1, <1>3 DEF Ready
<1> QED
  BY <1>2, <1>3

\* A piece that is no indentation does the same whatever the unit is.
LEMMA PieceScaled ==
    ASSUME NEW m \in Factors, NEW st, Steady(st), NEW t, t # Space, t # Tab
    PROVE  LexPiece(Scaled(m, st), t) = Scaled(m, LexPiece(st, t))
<1> DEFINE su == Scaled(m, st)
<1>1. su.ok = st.ok /\ su.bol = st.bol /\ su.depth = st.depth /\ st \in LexStates
  BY ScaledIs DEF Steady
<1>2. CASE ~st.ok
  BY <1>1, <1>2, PieceIs
<1>3. CASE st.ok
  <2>1. CASE t = Comment
    <3>1. LexPiece(st, t) = [st EXCEPT !.bol = FALSE] /\ LexPiece(su, t) = [su EXCEPT !.bol = FALSE]
      BY <1>1, <1>3, <2>1, PieceIs
    <3>2. [Scaled(m, st) EXCEPT !.bol = FALSE] = Scaled(m, [st EXCEPT !.bol = FALSE])
      BY <1>1 DEF LexStates, Scaled
    <3> QED
      BY <3>1, <3>2
  <2>2. CASE t = Continuation
    <3>1. LexPiece(st, t) = Ready(st) /\ LexPiece(su, t) = Ready(su)
      BY <1>1, <1>3, <2>2, PieceIs DEF Ready
    <3> QED
      BY <3>1, ReadyScaled
  <2>3. CASE t = Line
    <3>1. CASE st.depth > 0
      BY <1>1, <1>3, <2>3, <3>1, PieceIs
    <3>2. CASE ~(st.depth > 0)
      <4> DEFINE e == EndLine(st)
      <4>1. LexPiece(st, t) = [e EXCEPT !.bol = TRUE, !.col = 0]
        BY <1>3, <2>3, <3>2, PieceIs
      <4>2. LexPiece(su, t) = [Scaled(m, e) EXCEPT !.bol = TRUE, !.col = 0]
        BY <1>1, <1>3, <2>3, <3>2, PieceIs, EndLineScaled
      <4>3. e \in LexStates
        BY EndLineSteady DEF Steady
      <4> HIDE DEF e, su
      <4>4. m * 0 = 0
        BY DEF Factors
      <4>5. [Scaled(m, e) EXCEPT !.bol = TRUE, !.col = 0] = Scaled(m, [e EXCEPT !.bol = TRUE, !.col = 0])
        BY <4>3, <4>4 DEF LexStates, Scaled
      <4> QED
        BY <4>1, <4>2, <4>5 DEF su
    <3> QED
      BY <3>1, <3>2
  <2>4. CASE t \notin Layout
    <3> DEFINE r == Ready(st)
               ts == r.toks \o <<Scanned(t)>>
               d == Closer(t, r.depth)
               o == r.ok /\ Scans(t)
    <3>0. Steady(r) /\ r \in LexStates
      BY ReadySteady DEF Steady
    <3>1. LexPiece(st, t) = [r EXCEPT !.toks = ts, !.depth = d, !.ok = o]
      <4>1. LexPiece(st, t) = Word(st, t)
        BY <1>3, <2>4, PieceIs
      <4>2. Word(st, t) = [r EXCEPT !.toks = ts, !.depth = d, !.ok = o]
        BY <3>0, WordIs
      <4> QED
        BY <4>1, <4>2
    <3>2. /\ Ready(su) = Scaled(m, r) /\ Ready(su) \in LexStates
          /\ Scaled(m, r).toks = r.toks /\ Scaled(m, r).depth = r.depth /\ Scaled(m, r).ok = r.ok
      BY <3>0, ReadyScaled, ScaledIs
    <3>3. LexPiece(su, t) = Word(su, t)
      BY <1>1, <1>3, <2>4, PieceIs
    <3>4. Word(su, t) = [Ready(su) EXCEPT !.toks = Ready(su).toks \o <<Scanned(t)>>,
                            !.depth = Closer(t, Ready(su).depth), !.ok = Ready(su).ok /\ Scans(t)]
      BY <3>2, WordIs
    <3>5. Word(su, t) = [Scaled(m, r) EXCEPT !.toks = ts, !.depth = d, !.ok = o]
      BY <3>2, <3>4
    <3> HIDE DEF r, ts, d, o, su
    <3>6. [Scaled(m, r) EXCEPT !.toks = ts, !.depth = d, !.ok = o] = Scaled(m, [r EXCEPT !.toks = ts, !.depth = d, !.ok = o])
      BY <3>0 DEF LexStates, Scaled
    <3> QED
      BY <3>1, <3>3, <3>5, <3>6 DEF su
  <2> QED
    BY <2>1, <2>2, <2>3, <2>4 DEF Layout
<1> QED
  BY <1>2, <1>3

\* The widths of the two indentations.
Width(unit) == IF unit = Tab THEN 8 ELSE 1

LEMMA UnitScaled ==
    ASSUME NEW st, Steady(st), NEW unit \in {Space, Tab}
    PROVE  /\ Width(unit) \in Factors
           /\ LexPiece(Scaled(Width(unit), st), unit) = Scaled(Width(unit), LexPiece(st, Space))
<1> DEFINE m == Width(unit)
           su == Scaled(m, st)
<1>1. m \in Factors /\ (unit = Space => m = 1) /\ (unit = Tab => m = 8)
  BY LayoutApart DEF Width, Factors
<1> HIDE DEF m
<1>2. /\ su.ok = st.ok /\ su.bol = st.bol /\ su.col = m * st.col
      /\ su.toks = st.toks /\ su.depth = st.depth /\ su.indents = Times(m, st.indents)
      /\ st \in LexStates /\ st.col \in Nat
  BY <1>1, ScaledIs, StackIs DEF Steady
<1>3. CASE ~st.ok \/ ~st.bol
  <2>1. LexPiece(st, Space) = st
    BY <1>3, PieceIs
  <2>2. LexPiece(su, unit) = su
    BY <1>2, <1>3, PieceIs
  <2> QED
    BY <1>1, <2>1, <2>2 DEF m
<1>4. CASE st.ok /\ st.bol
  <2>1. LexPiece(st, Space) = [st EXCEPT !.col = st.col + 1]
    BY <1>4, PieceIs
  <2>2. LexPiece(su, unit) = [su EXCEPT !.col = m * st.col + m]
    <3>1. unit = Space => LexPiece(su, unit) = [su EXCEPT !.col = su.col + 1]
      BY <1>2, <1>4, PieceIs
    <3>2. unit = Tab => LexPiece(su, unit) = [su EXCEPT !.col = su.col + 8]
      BY <1>2, <1>4, PieceIs
    <3> HIDE DEF su
    <3> QED
      BY <1>1, <1>2, <3>1, <3>2
  <2>3. m * st.col + m = m * (st.col + 1)
    BY <1>1, <1>2 DEF Factors
  <2>4. [su EXCEPT !.col = m * (st.col + 1)] = Scaled(m, [st EXCEPT !.col = st.col + 1])
    BY <1>2 DEF LexStates, Scaled
  <2>5. LexPiece(su, unit) = Scaled(m, LexPiece(st, Space))
    BY <2>1, <2>2, <2>3, <2>4
  <2> QED
    BY <1>1, <2>5 DEF m
<1> QED
  BY <1>3, <1>4

\* One space is the unit a column is counted in.
LEMMA ScaledOnce ==
    ASSUME NEW st, Steady(st) PROVE Scaled(1, st) = st
<1>1. st \in LexStates /\ st.indents \in Seq(Nat) /\ st.col \in Nat
  BY StackIs DEF Steady
<1>2. Times(1, st.indents) = st.indents
  <2>1. /\ Times(1, st.indents) \in Seq(Nat) /\ Len(Times(1, st.indents)) = Len(st.indents)
        /\ \A i \in 1 .. Len(st.indents) : Times(1, st.indents)[i] = st.indents[i]
    BY <1>1, TimesIs DEF Factors
  <2> QED
    BY <1>1, <2>1, SeqEqual
<1>3. 1 * st.col = st.col
  BY <1>1
<1>4. Scaled(1, st) = [st EXCEPT !.indents = st.indents, !.col = st.col]
  BY <1>2, <1>3, Zenon DEF Scaled
<1> QED
  BY <1>1, <1>4 DEF LexStates

-----------------------------------------------------------------------------
(* Texts put together                                                        *)

Flattens(f, n, ls) == f = [i \in 1 .. n |-> IF i = 1 THEN ls[i] ELSE f[i - 1] \o ls[i]]

LEMMA FlattensExist ==
    ASSUME NEW ls, NEW n \in Nat, n >= 1
    PROVE  \E f : Flattens(f, n, ls)
<1> DEFINE S == {m \in 0 .. n : \E f : Flattens(f, m, ls)}
<1>1. 0 \in S
  <2>1. Flattens([k \in 1 .. 0 |-> ls[k]], 0, ls)
    BY DEF Flattens
  <2> QED
    BY <2>1
<1>2. ASSUME NEW m \in 0 .. n, m \in S, m < n PROVE m + 1 \in S
  <2>1. PICK f : Flattens(f, m, ls)
    BY <1>2
  <2> DEFINE h == [k \in 1 .. m + 1 |-> IF k = 1 THEN ls[k] ELSE f[k - 1] \o ls[k]]
  <2>2. \A k \in 1 .. m : h[k] = f[k]
    <3> TAKE k \in 1 .. m
    <3>1. k \in 1 .. m + 1
      OBVIOUS
    <3>2. f[k] = IF k = 1 THEN ls[k] ELSE f[k - 1] \o ls[k]
      BY <2>1 DEF Flattens
    <3> QED
      BY <3>1, <3>2
  <2>3. \A k \in 1 .. m + 1 : k # 1 => k - 1 \in 1 .. m
    OBVIOUS
  <2>4. Flattens(h, m + 1, ls)
    BY <2>2, <2>3 DEF Flattens
  <2>5. m + 1 \in 0 .. n
    BY <1>2
  <2> HIDE DEF h
  <2> QED
    BY <2>4, <2>5
<1> HIDE DEF S
<1>3. \A k \in 0 .. n : k \in S
  BY <1>1, <1>2, UpTo
<1>4. n \in S
  BY <1>3
<1> QED
  BY <1>4 DEF S

\* The texts put together up to each of them, and all of them.
LEMMA FlattenSeqIs ==
    ASSUME NEW n \in Nat, NEW ls \in Seq(Seq(Pieces)), n = Len(ls)
    PROVE  \E f : /\ f[0] = <<>> /\ FlattenSeq(ls) = f[n]
                  /\ \A i \in 0 .. n : f[i] \in Seq(Pieces) /\ (i < n => f[i + 1] = f[i] \o ls[i + 1])
<1>1. CASE n = 0
  <2> DEFINE f == [i \in 0 .. 0 |-> <<>>]
  <2>1. FlattenSeq(ls) = <<>>
    <3>1. ls = <<>>
      BY <1>1, EmptySeq
    <3> QED
      BY <1>1, <3>1, Zenon DEF FlattenSeq
  <2>2. f[0] = <<>> /\ f[n] = <<>> /\ <<>> \in Seq(Pieces)
    BY <1>1
  <2>3. \A i \in 0 .. n : f[i] \in Seq(Pieces) /\ (i < n => f[i + 1] = f[i] \o ls[i + 1])
    BY <1>1, <2>2
  <2> HIDE DEF f
  <2> QED
    BY <2>1, <2>2, <2>3
<1>2. CASE n # 0
  <2>1. PICK g : g = CHOOSE h : Flattens(h, n, ls)
    OBVIOUS
  <2>2. Flattens(g, n, ls)
    <3>1. n >= 1
      BY <1>2
    <3>2. \E h : Flattens(h, n, ls)
      BY <3>1, FlattensExist
    <3> QED
      BY <2>1, <3>2
  <2>3. FlattenSeq(ls) = g[n]
    <3>1. Len(ls) # 0
      BY <1>2
    <3>2. FlattenSeq(ls) = (CHOOSE h : Flattens(h, Len(ls), ls))[Len(ls)]
      BY <3>1, Zenon DEF FlattenSeq, Flattens
    <3> QED
      BY <2>1, <3>2
  <2>4. \A i \in 1 .. n : ls[i] \in Seq(Pieces)
    BY ElementOfSeq
  <2> DEFINE f == [i \in 0 .. n |-> IF i = 0 THEN <<>> ELSE g[i]]
  <2>5. \A i \in 1 .. n : g[i] = IF i = 1 THEN ls[i] ELSE g[i - 1] \o ls[i]
    BY <2>2 DEF Flattens
  <2>6. ASSUME NEW i \in 0 .. n, i < n PROVE f[i + 1] = f[i] \o ls[i + 1]
    <3>1. i + 1 \in 1 .. n /\ i + 1 - 1 = i /\ (i + 1 = 1 <=> i = 0)
      BY <2>6
    <3>2. f[i + 1] = IF i = 0 THEN ls[i + 1] ELSE g[i] \o ls[i + 1]
      BY <2>5, <3>1
    <3>3. <<>> \o ls[i + 1] = ls[i + 1]
      BY <2>4, <3>1, ConcatEmptySeq
    <3> QED
      BY <3>2, <3>3
  <2>7. f[0] = <<>> /\ f[n] = g[n]
    BY <1>2
  <2> HIDE DEF f
  <2> DEFINE S == {i \in 0 .. n : f[i] \in Seq(Pieces)}
  <2>8. 0 \in S
    <3>1. 0 \in 0 .. n /\ <<>> \in Seq(Pieces)
      OBVIOUS
    <3> QED
      BY <2>7, <3>1
  <2>9. ASSUME NEW i \in 0 .. n, i \in S, i < n PROVE i + 1 \in S
    <3>1. i + 1 \in 1 .. n /\ i + 1 \in 0 .. n
      BY <2>9
    <3>2. f[i] \o ls[i + 1] \in Seq(Pieces)
      BY <2>4, <2>9, <3>1, ConcatProperties
    <3> QED
      BY <2>6, <2>9, <3>1, <3>2
  <2> HIDE DEF S
  <2>10. \A i \in 0 .. n : i \in S
    BY <2>8, <2>9, UpTo
  <2>11. \A i \in 0 .. n : f[i] \in Seq(Pieces)
    BY <2>10 DEF S
  <2> QED
    BY <2>3, <2>6, <2>7, <2>11
<1> QED
  BY <1>1, <1>2

-----------------------------------------------------------------------------
(* Layout that means nothing                                                 *)

Around(st) == {Space, Tab, Comment, Continuation} \cup (IF st.ok /\ st.depth = 0 THEN {} ELSE {Line})
Blank == {Space, Tab, Comment, Line}

LEMMA GapsArePieces ==
    /\ Blank \subseteq Pieces /\ \A st : Around(st) \subseteq Pieces
  BY DEF Blank, Around, Pieces, Layout

\* After a word, before the next.
LEMMA AroundIdle ==
    ASSUME NEW st, Steady(st), ~st.bol, NEW p \in Seq(Around(st))
    PROVE  LexFrom(st, p) = st
<1>0. st \in LexStates /\ st = [st EXCEPT !.bol = FALSE]
  BY DEF Steady, LexStates
<1>1. ASSUME NEW t \in Around(st) PROVE LexPiece(st, t) = st
  <2>1. CASE ~st.ok
    BY <2>1, PieceIs
  <2>2. CASE st.ok
    <3>1. t \in {Space, Tab, Comment, Continuation} \/ (t = Line /\ st.depth > 0)
      BY <1>0, <1>1, <2>2 DEF Around, LexStates
    <3>2. t \in {Space, Tab} => LexPiece(st, t) = st
      BY <2>2, PieceIs
    <3>3. t = Comment => LexPiece(st, t) = st
      BY <1>0, <2>2, PieceIs
    <3>4. t = Continuation => LexPiece(st, t) = st
      BY <2>2, PieceIs
    <3>5. t = Line /\ st.depth > 0 => LexPiece(st, t) = st
      BY <2>2, PieceIs
    <3> QED
      BY <3>1, <3>2, <3>3, <3>4, <3>5
  <2> QED
    BY <2>1, <2>2
<1>2. p \in Seq(Pieces) /\ \A i \in 1 .. Len(p) : p[i] \in Around(st)
  BY GapsArePieces, ElementOfSeq
<1> QED
  BY <1>1, <1>2, LexFromIdle

LEMMA EndLineTwice ==
    ASSUME NEW st, Steady(st)
    PROVE  EndLine(EndLine(st)) = EndLine(st)
<1>0. st \in LexStates /\ st.toks \in Seq(Tokens)
  BY DEF Steady, LexStates
<1>1. CASE st.toks = <<>> \/ Last(st.toks) = Newline
  BY <1>1 DEF EndLine
<1>2. CASE ~(st.toks = <<>> \/ Last(st.toks) = Newline)
  <2> DEFINE ts == st.toks \o <<Newline>>
  <2>1. EndLine(st) = [st EXCEPT !.toks = ts]
    BY <1>2 DEF EndLine, Emit
  <2>2. Last(ts) = Newline
    <3>1. <<Newline>> \in Seq(Tokens) /\ Len(<<Newline>>) = 1 /\ <<Newline>>[1] = Newline
      BY MarksAre
    <3>2. PICK n \in Nat, m \in Nat : n = Len(st.toks) /\ m = n + 1
      BY <1>0
    <3>3. Len(ts) = m /\ ts[m] = Newline
      <4>1. /\ Len(ts) = Len(st.toks) + 1
            /\ \A i \in 1 .. Len(st.toks) + 1 : ts[i] = IF i <= Len(st.toks) THEN st.toks[i] ELSE <<Newline>>[i - Len(st.toks)]
        BY <1>0, <3>1, ConcatProperties
      <4>2. m \in 1 .. n + 1 /\ ~(m <= n) /\ m - n = 1
        BY <3>2
      <4> QED
        BY <3>1, <3>2, <4>1, <4>2
    <3> QED
      BY <3>3 DEF Last
  <2> HIDE DEF ts
  <2>3. EndLine(st).toks = ts
    BY <1>0, <2>1 DEF LexStates
  <2> QED
    BY <2>2, <2>3 DEF EndLine
<1> QED
  BY <1>1, <1>2

\* Empty lines, and what stands before the end of a line.
LEMMA BlankIsNoLine ==
    ASSUME NEW st, Steady(st), NEW p \in Seq(Blank)
    PROVE  LexPiece(LexFrom(st, p), Line) = LexPiece(st, Line)
<1>0. PICK n \in Nat : n = Len(p)
  OBVIOUS
<1>1r. PICK g : LexRun(g, n, st, p)
  BY <1>0, LexFromIs
<1>1. /\ LexFrom(st, p) = g[n]
      /\ g[0] = st
      /\ \A i \in 0 .. n : i < n => g[i + 1] = LexPiece(g[i], p[i + 1])
  BY <1>1r, LexFromOf DEF LexRun
<1>2. ASSUME NEW su, Steady(su), NEW t \in Blank
      PROVE  Steady(LexPiece(su, t)) /\ LexPiece(LexPiece(su, t), Line) = LexPiece(su, Line)
  <2> DEFINE sv == LexPiece(su, t)
  <2>0. su \in LexStates /\ Steady(sv) /\ sv \in LexStates
    BY <1>2, GapsArePieces, PieceSteady DEF Steady
  <2>1. CASE ~su.ok
    BY <2>0, <2>1, PieceIs
  <2>2. CASE su.ok /\ su.depth > 0
    <3>1. ~su.bol /\ su = [su EXCEPT !.bol = FALSE]
      BY <1>2, <2>0, <2>2 DEF Steady, LexStates
    <3>2. t \in {Space, Tab} => sv = su
      BY <2>2, <3>1, PieceIs
    <3>3. t = Comment => sv = su
      BY <2>2, <3>1, PieceIs
    <3>4. t = Line => sv = su
      BY <2>2, PieceIs
    <3> HIDE DEF sv
    <3>5. sv = su
      BY <3>2, <3>3, <3>4 DEF Blank
    <3> QED
      BY <2>0, <3>5 DEF sv
  <2>3. CASE su.ok /\ ~(su.depth > 0)
    <3>1. ASSUME NEW c \in Nat, NEW b \in BOOLEAN, sv = [su EXCEPT !.col = c, !.bol = b]
          PROVE  LexPiece(sv, Line) = LexPiece(su, Line)
      <4>1. sv.ok = su.ok /\ sv.depth = su.depth /\ sv.toks = su.toks
        BY <2>0, <3>1 DEF LexStates
      <4>2. LexPiece(sv, Line) = [EndLine(sv) EXCEPT !.bol = TRUE, !.col = 0]
        BY <2>3, <4>1, PieceIs
      <4>3. LexPiece(su, Line) = [EndLine(su) EXCEPT !.bol = TRUE, !.col = 0]
        BY <2>3, PieceIs
      <4>4. [EndLine(sv) EXCEPT !.bol = TRUE, !.col = 0] = [EndLine(su) EXCEPT !.bol = TRUE, !.col = 0]
        <5>1. CASE su.toks = <<>> \/ Last(su.toks) = Newline
          <6>1. EndLine(sv) = sv /\ EndLine(su) = su
            BY <4>1, <5>1 DEF EndLine
          <6> HIDE DEF sv
          <6> QED
            BY <2>0, <3>1, <6>1 DEF LexStates
        <5>2. CASE ~(su.toks = <<>> \/ Last(su.toks) = Newline)
          <6> DEFINE ts == su.toks \o <<Newline>>
          <6>1. EndLine(sv) = [sv EXCEPT !.toks = ts] /\ EndLine(su) = [su EXCEPT !.toks = ts]
            BY <4>1, <5>2 DEF EndLine, Emit
          <6> HIDE DEF sv, ts
          <6> QED
            BY <2>0, <3>1, <6>1 DEF LexStates
        <5> QED
          BY <5>1, <5>2
      <4> QED
        BY <4>2, <4>3, <4>4
    <3>2. CASE t \in {Space, Tab, Comment}
      <4>1. su.col + 1 \in Nat /\ su.col + 8 \in Nat /\ su.col \in Nat /\ su.bol \in BOOLEAN
        BY <2>0 DEF LexStates
      <4>2. t = Space => sv = [su EXCEPT !.col = su.col + 1, !.bol = su.bol] \/ sv = [su EXCEPT !.col = su.col, !.bol = su.bol]
        <5>1. t = Space => sv = [su EXCEPT !.col = su.col + 1] \/ sv = su
          BY <2>3, PieceIs
        <5> HIDE DEF sv
        <5> QED
          BY <2>0, <5>1 DEF LexStates
      <4>3. t = Tab => sv = [su EXCEPT !.col = su.col + 8, !.bol = su.bol] \/ sv = [su EXCEPT !.col = su.col, !.bol = su.bol]
        <5>1. t = Tab => sv = [su EXCEPT !.col = su.col + 8] \/ sv = su
          BY <2>3, PieceIs
        <5> HIDE DEF sv
        <5> QED
          BY <2>0, <5>1 DEF LexStates
      <4>4. t = Comment => sv = [su EXCEPT !.col = su.col, !.bol = FALSE]
        <5>1. t = Comment => sv = [su EXCEPT !.bol = FALSE]
          BY <2>3, PieceIs
        <5> HIDE DEF sv
        <5> QED
          BY <2>0, <5>1 DEF LexStates
      <4> HIDE DEF sv
      <4>5. \E c \in Nat, b \in BOOLEAN : sv = [su EXCEPT !.col = c, !.bol = b]
        <5>1. CASE t = Space
          BY <4>1, <4>2, <5>1
        <5>2. CASE t = Tab
          BY <4>1, <4>3, <5>2
        <5>3. CASE t = Comment
          BY <4>1, <4>4, <5>3
        <5> QED
          BY <3>2, <5>1, <5>2, <5>3
      <4> QED
        BY <2>0, <3>1, <4>5 DEF sv
    <3>3. CASE t = Line
      <4> DEFINE e == EndLine(su)
      <4>1. sv = [e EXCEPT !.bol = TRUE, !.col = 0]
        BY <2>3, <3>3, PieceIs
      <4>2. e \in LexStates /\ e.ok = su.ok /\ e.depth = su.depth
        BY <1>2, EndLineSteady DEF Steady
      <4>3. EndLine(e) = e
        BY <1>2, EndLineTwice
      <4> HIDE DEF e, sv
      <4>4. sv.ok = e.ok /\ sv.depth = e.depth /\ sv.toks = e.toks
        BY <4>1, <4>2 DEF LexStates
      <4>5. LexPiece(sv, Line) = [EndLine(sv) EXCEPT !.bol = TRUE, !.col = 0]
        BY <2>3, <4>2, <4>4, PieceIs
      <4>6. EndLine(sv) = sv
        <5>1. CASE e.toks = <<>> \/ Last(e.toks) = Newline
          BY <4>4, <5>1 DEF EndLine
        <5>2. CASE ~(e.toks = <<>> \/ Last(e.toks) = Newline)
          <6>1. e = [e EXCEPT !.toks = e.toks \o <<Newline>>]
            BY <4>3, <5>2 DEF EndLine, Emit
          <6>2. e.toks = e.toks \o <<Newline>>
            BY <4>2, <6>1 DEF LexStates
          <6>3. e.toks \in Seq(Tokens) /\ <<Newline>> \in Seq(Tokens) /\ Len(<<Newline>>) = 1
            BY <4>2, MarksAre DEF LexStates
          <6>4. Len(e.toks \o <<Newline>>) = Len(e.toks) + 1 /\ Len(e.toks) \in Nat
            BY <6>3, ConcatProperties
          <6>5. Len(e.toks) = Len(e.toks) + 1
            BY <6>2, <6>4, Zenon
          <6> QED
            BY <6>4, <6>5
        <5> QED
          BY <5>1, <5>2
      <4>7. [sv EXCEPT !.bol = TRUE, !.col = 0] = sv
        BY <4>1, <4>2 DEF LexStates
      <4> QED
        BY <2>0, <3>3, <4>5, <4>6, <4>7 DEF sv
    <3> QED
      BY <2>0, <3>2, <3>3 DEF Blank
  <2> QED
    BY <2>0, <2>1, <2>2, <2>3
<1> DEFINE S == {i \in 0 .. n : Steady(g[i]) /\ LexPiece(g[i], Line) = LexPiece(st, Line)}
<1>3. 0 \in S
  BY <1>1
<1>4. ASSUME NEW i \in 0 .. n, i \in S, i < n PROVE i + 1 \in S
  <2>1. p[i + 1] \in Blank
    BY <1>0, <1>4, ElementOfSeq
  <2> QED
    BY <1>1, <1>2, <1>4, <2>1
<1> HIDE DEF S
<1>5. \A i \in 0 .. n : i \in S
  BY <1>3, <1>4, UpTo
<1> QED
  BY <1>1, <1>5 DEF S

\* How a piece may be laid out: `unit` for a space, empty lines, comments and
\* spaces before the end of a line, spaces, comments and continuations after a
\* word, and lines where a bracket is open in the state st it is read to.
Laid(unit, st, t, l) ==
    \/ t = Space /\ l = <<unit>>
    \/ t \in {Comment, Continuation} /\ l = <<t>>
    \/ t = Line /\ \E p \in Seq(Blank) : l = p \o <<Line>>
    \/ t \notin Layout /\ \E p \in Seq(Around(st)) : l = <<t>> \o p

LEMMA PieceLaid ==
    ASSUME NEW unit \in {Space, Tab}, NEW st, Steady(st), NEW t \in Pieces, NEW l \in Seq(Pieces),
           Laid(unit, LexPiece(st, t), t, l)
    PROVE  LexFrom(Scaled(Width(unit), st), l) = Scaled(Width(unit), LexPiece(st, t))
<1> DEFINE m == Width(unit)
           su == Scaled(m, st)
           sv == LexPiece(st, t)
<1>1. m \in Factors /\ Steady(su) /\ Steady(sv) /\ Steady(Scaled(m, sv))
  BY UnitScaled, ScaledIs, PieceSteady
<1>2. CASE t = Space /\ l = <<unit>>
  BY <1>2, UnitScaled, LexFromOne
<1>3. CASE t \in {Comment, Continuation} /\ l = <<t>>
  <2>1. t # Space /\ t # Tab
    BY <1>3, LayoutApart
  <2>2. LexFrom(su, l) = LexPiece(su, t)
    BY <1>3, LexFromOne
  <2> QED
    BY <1>1, <2>1, <2>2, PieceScaled
<1>4. CASE t = Line /\ \E p \in Seq(Blank) : l = p \o <<Line>>
  <2>1. PICK p \in Seq(Blank) : l = p \o <<Line>>
    BY <1>4
  <2>2. p \in Seq(Pieces) /\ <<Line>> \in Seq(Pieces)
    BY GapsArePieces DEF Pieces, Layout
  <2>3. LexFrom(su, l) = LexFrom(LexFrom(su, p), <<Line>>)
    BY <2>1, <2>2, LexFromConcat
  <2>4. LexFrom(LexFrom(su, p), <<Line>>) = LexPiece(LexFrom(su, p), Line)
    BY LexFromOne
  <2>5. LexPiece(LexFrom(su, p), Line) = LexPiece(su, Line)
    BY <1>1, BlankIsNoLine
  <2>6. LexPiece(su, Line) = Scaled(m, LexPiece(st, Line))
    BY <1>1, LayoutApart, PieceScaled
  <2> QED
    BY <1>4, <2>3, <2>4, <2>5, <2>6
<1>5. CASE t \notin Layout /\ \E p \in Seq(Around(sv)) : l = <<t>> \o p
  <2>1. PICK p \in Seq(Around(sv)) : l = <<t>> \o p
    BY <1>5
  <2>2. p \in Seq(Pieces) /\ <<t>> \in Seq(Pieces)
    BY GapsArePieces
  <2>3. LexFrom(su, l) = LexFrom(LexFrom(su, <<t>>), p)
    BY <2>1, <2>2, LexFromConcat
  <2>4. LexFrom(su, <<t>>) = Scaled(m, sv)
    <3>1. t # Space /\ t # Tab
      BY <1>5 DEF Layout
    <3>2. LexPiece(su, t) = Scaled(m, sv)
      BY <1>1, <3>1, PieceScaled
    <3> QED
      BY <3>2, LexFromOne
  <2>5. LexFrom(Scaled(m, sv), p) = Scaled(m, sv)
    <3> DEFINE sw == Scaled(m, sv)
    <3>1. sw.ok = sv.ok /\ sw.depth = sv.depth /\ sw.bol = sv.bol /\ Around(sw) = Around(sv)
      BY <1>1, ScaledIs DEF Around
    <3>2. CASE ~st.ok
      <4>1. ~sv.ok
        BY <3>2, PieceIs
      <4>2. \A i \in 1 .. Len(p) : LexPiece(sw, p[i]) = sw
        BY <3>1, <4>1, PieceIs
      <4> QED
        BY <2>2, <4>2, LexFromIdle
    <3>3. CASE st.ok
      <4>1. ~sv.bol
        <5>1. sv = Word(st, t)
          BY <1>5, <3>3, PieceIs
        <5> QED
          BY <5>1, WordSteady
      <4> HIDE DEF sw, sv
      <4>2. p \in Seq(Around(sw)) /\ Steady(sw) /\ ~sw.bol
        BY <1>1, <3>1, <4>1 DEF sw
      <4>3. LexFrom(sw, p) = sw
        BY <4>2, AroundIdle
      <4> QED
        BY <4>3 DEF sw
    <3> QED
      BY <3>2, <3>3
  <2> QED
    BY <2>3, <2>4, <2>5
<1> QED
  BY <1>2, <1>3, <1>4, <1>5 DEF Laid

\* What the states at the end of a text come to, whatever the unit is.
LEMMA EndScaled ==
    ASSUME NEW m \in Factors, NEW st, Steady(st)
    PROVE  LET e == EndLine(st)
               f == EndLine(Scaled(m, st))
           IN  f.ok = e.ok /\ f.toks = e.toks /\ Len(f.indents) = Len(e.indents)
<1> DEFINE e == EndLine(st)
<1>1. Steady(e) /\ EndLine(Scaled(m, st)) = Scaled(m, e)
  BY EndLineSteady, EndLineScaled
<1>2. e.indents \in Seq(Nat)
  BY <1>1, StackIs
<1> HIDE DEF e
<1>3. Scaled(m, e).ok = e.ok /\ Scaled(m, e).toks = e.toks /\ Scaled(m, e).indents = Times(m, e.indents)
  BY <1>1, ScaledIs
<1>4. Len(Times(m, e.indents)) = Len(e.indents)
  BY <1>2, TimesIs
<1> QED
  BY <1>1, <1>3, <1>4 DEF e

\* The state after the first i pieces of a text.
StateAt(ts, i) == LexFrom(LexStart, SubSeq(ts, 1, i))

LEMMA StateAtIs ==
    ASSUME NEW ts \in Seq(Pieces), NEW n \in Nat, NEW g, LexRun(g, n, LexStart, ts), NEW j \in 1 .. n
    PROVE  StateAt(ts, j) = g[j]
<1> DEFINE text == SubSeq(ts, 1, j)
<1>0. j \in Nat /\ j >= 1 /\ j <= n /\ n = Len(ts)
  BY DEF LexRun
<1>1. \A h \in 1 .. j : ts[h] \in Pieces
  BY <1>0, ElementOfSeq
<1>2. Len(text) = j /\ \A h \in 1 .. j : text[h] = ts[h]
  BY <1>0, <1>1, SubSeqProperties
<1>3. \A h \in 0 .. j : h < j => h + 1 \in 1 .. j /\ h \in 0 .. n /\ h < n
  BY <1>0
<1> HIDE DEF text
<1>4. LexRun(g, j, LexStart, text)
  BY <1>2, <1>3 DEF LexRun
<1>5. LexFrom(LexStart, text) = g[j]
  BY <1>0, <1>4, LexFromOf
<1> QED
  BY <1>5 DEF StateAt, text

(* A text without tabs has the same tokens however it is laid out: indented  *)
(* by tabs or by spaces, with empty lines, comments at any column, spaces    *)
(* and continuations between its words, its lines broken inside brackets     *)
(* (the measuring of an indentation, the stack of indentations and the       *)
(* depth of brackets in lex).                                                *)
THEOREM LayoutMeansNothing ==
    ASSUME NEW ts \in Seq(Pieces),
           NEW unit \in {Space, Tab},
           NEW ls \in Seq(Seq(Pieces)), Len(ls) = Len(ts),
           \A i \in 1 .. Len(ts) : Laid(unit, StateAt(ts, i), ts[i], ls[i])
    PROVE  Lex(FlattenSeq(ls)) = Lex(ts)
<1> DEFINE m == Width(unit)
<1>0. PICK n \in Nat : n = Len(ts) /\ n = Len(ls)
  OBVIOUS
<1>m. m \in Factors
  BY StartSteady, UnitScaled
<1> HIDE DEF m
<1>1r. PICK g : LexRun(g, n, LexStart, ts)
  BY <1>0, LexFromIs
<1>1. /\ LexFrom(LexStart, ts) = g[n]
      /\ g[0] = LexStart
      /\ \A i \in 0 .. n : i < n => g[i + 1] = LexPiece(g[i], ts[i + 1])
  <2>1. LexFrom(LexStart, ts) = g[n]
    BY <1>1r, LexFromOf
  <2>2. g[0] = LexStart /\ \A i \in 0 .. n : i < n => g[i + 1] = LexPiece(g[i], ts[i + 1])
    BY <1>1r DEF LexRun
  <2> QED
    BY <2>1, <2>2
<1>2. PICK f : /\ f[0] = <<>> /\ FlattenSeq(ls) = f[n]
               /\ \A i \in 0 .. n : f[i] \in Seq(Pieces) /\ (i < n => f[i + 1] = f[i] \o ls[i + 1])
  BY <1>0, FlattenSeqIs
<1>3. \A i \in 1 .. n : StateAt(ts, i) = g[i]
  BY <1>0, <1>1r, StateAtIs
<1> DEFINE S == {i \in 0 .. n : Steady(g[i]) /\ LexFrom(LexStart, f[i]) = Scaled(m, g[i])}
<1>4. 0 \in S
  <2>1. Scaled(m, LexStart) = LexStart
    <3>1. <<0>> \in Seq(Nat) /\ Len(<<0>>) = 1 /\ <<0>>[1] = 0
      OBVIOUS
    <3>2. /\ Times(m, <<0>>) \in Seq(Nat) /\ Len(Times(m, <<0>>)) = 1
          /\ \A i \in 1 .. 1 : Times(m, <<0>>)[i] = m * <<0>>[i]
      BY <1>m, <3>1, TimesIs
    <3>3. m * 0 = 0
      BY <1>m DEF Factors
    <3>4. Times(m, <<0>>) = <<0>>
      <4>1. \A i \in 1 .. 1 : Times(m, <<0>>)[i] = <<0>>[i]
        BY <3>1, <3>2, <3>3
      <4> QED
        BY <3>1, <3>2, <4>1, SeqEqual
    <3> DEFINE z == <<0>>
    <3> HIDE DEF z
    <3>5. LexStart = [toks |-> <<>>, indents |-> z, depth |-> 0, bol |-> TRUE, col |-> 0, ok |-> TRUE]
      BY DEF LexStart, z
    <3>6. Times(m, z) = z
      BY <3>4 DEF z
    <3>7. Scaled(m, LexStart) = [LexStart EXCEPT !.indents = z, !.col = 0]
      BY <3>3, <3>5, <3>6 DEF Scaled
    <3> QED
      BY <3>5, <3>7
  <2> QED
    BY <1>1, <1>2, <2>1, StartSteady, LexFromEmpty
<1>5. ASSUME NEW i \in 0 .. n, i \in S, i < n PROVE i + 1 \in S
  <2>1. i + 1 \in 1 .. n /\ i + 1 \in 0 .. n /\ ts[i + 1] \in Pieces /\ ls[i + 1] \in Seq(Pieces)
    BY <1>0, <1>5, ElementOfSeq
  <2>2. g[i + 1] = LexPiece(g[i], ts[i + 1]) /\ Steady(g[i])
    BY <1>1, <1>5
  <2>3. Steady(g[i + 1])
    BY <2>1, <2>2, PieceSteady
  <2>4. LexFrom(LexStart, f[i + 1]) = LexFrom(Scaled(m, g[i]), ls[i + 1])
    <3>1. f[i + 1] = f[i] \o ls[i + 1] /\ f[i] \in Seq(Pieces) /\ LexFrom(LexStart, f[i]) = Scaled(m, g[i])
      BY <1>2, <1>5
    <3> QED
      BY <2>1, <3>1, LexFromConcat
  <2>5. Laid(unit, g[i + 1], ts[i + 1], ls[i + 1])
    BY <1>0, <1>3, <2>1
  <2>6. LexFrom(Scaled(m, g[i]), ls[i + 1]) = Scaled(m, g[i + 1])
    BY <2>1, <2>2, <2>5, PieceLaid DEF m
  <2> QED
    BY <2>1, <2>3, <2>4, <2>6
<1> HIDE DEF S
<1>6. Steady(g[n]) /\ LexFrom(LexStart, FlattenSeq(ls)) = Scaled(m, g[n])
  <2>1. \A i \in 0 .. n : i \in S
    BY <1>4, <1>5, UpTo
  <2>2. n \in S
    BY <2>1
  <2> QED
    BY <1>2, <2>2 DEF S
<1> DEFINE e == EndLine(g[n])
           d == EndLine(Scaled(m, g[n]))
<1>7. d.ok = e.ok /\ d.toks = e.toks /\ Len(d.indents) = Len(e.indents)
  BY <1>m, <1>6, EndScaled
<1>8. Lex(FlattenSeq(ls)) = [ok |-> d.ok, toks |-> d.toks \o [i \in 1 .. (Len(d.indents) - 1) |-> Dedent] \o <<Eof>>]
  BY <1>6, Zenon DEF Lex
<1>9. Lex(ts) = [ok |-> e.ok, toks |-> e.toks \o [i \in 1 .. (Len(e.indents) - 1) |-> Dedent] \o <<Eof>>]
  BY <1>1, Zenon DEF Lex
<1> HIDE DEF d, e
<1> QED
  BY <1>7, <1>8, <1>9, Zenon

LEMMA LayoutKinds ==
    ASSUME NEW t \in Layout
    PROVE  t.k \notin {"(", "[", "{"} /\ t.k \notin {",", "=", "in"}
<1>1. /\ Space.k = "space" /\ Tab.k = "tab" /\ Line.k = "newline"
      /\ Comment.k = "comment" /\ Continuation.k = "continuation"
  BY DEF Space, Tab, Line, Comment, Continuation, Sym, Tok
<1>2. t.k \in {"space", "tab", "newline", "comment", "continuation"}
  BY <1>1 DEF Layout
<1> HIDE DEF Layout
<1> QED
  BY <1>2

\* The pieces of the other layout, by the piece they stand for.
LEMMA OtherIs ==
    ASSUME NEW t
    PROVE  /\ t = Space => Other(t) = <<Tab>>
           /\ t = Line => Other(t) = <<Space, Comment, Line, Space, Line, Space, Space, Comment>> \o <<Line>>
           /\ t \in {Comment, Continuation} => Other(t) = <<t>>
           /\ t \notin Layout /\ t.k \in {"(", "[", "{"} => Other(t) = <<t>> \o <<Comment, Line, Space, Line>>
           /\ t \notin Layout /\ t.k \notin {"(", "[", "{"} =>
                Other(t) = <<t>> \o <<Space, Continuation, Tab>> \/ Other(t) = <<t>> \o <<>>
<1>0. /\ t \in Layout => t.k \notin {"(", "[", "{"} /\ t.k \notin {",", "=", "in"}
      /\ t \notin Layout => t # Space /\ t # Line
      /\ t.k \in {"(", "[", "{"} => t.k \notin {",", "=", "in"}
  <2>1. t \in Layout => t.k \notin {"(", "[", "{"} /\ t.k \notin {",", "=", "in"}
    BY LayoutKinds
  <2>2. t \notin Layout => t # Space /\ t # Line
    BY DEF Layout
  <2>3. t.k \in {"(", "[", "{"} => t.k \notin {",", "=", "in"}
    OBVIOUS
  <2> QED
    BY <2>1, <2>2, <2>3
<1>1. t = Space => Other(t) = <<Tab>>
  <2>1. Space \in Layout
    BY DEF Layout
  <2> QED
    BY <1>0, <2>1, LayoutApart, Zenon DEF Other
<1>2. t = Line => Other(t) = <<Space, Comment, Line, Space, Line, Space, Space, Comment>> \o <<Line>>
  <2>1. Line \in Layout
    BY DEF Layout
  <2>2. t = Line => Other(t) = <<Space, Comment, Line, Space, Line, Space, Space, Comment, Line>>
    BY <1>0, <2>1, LayoutApart, Zenon DEF Other
  <2>3. <<Space, Comment, Line, Space, Line, Space, Space, Comment, Line>>
          = <<Space, Comment, Line, Space, Line, Space, Space, Comment>> \o <<Line>>
    OBVIOUS
  <2> QED
    BY <2>2, <2>3, Zenon
<1>3. t \in {Comment, Continuation} => Other(t) = <<t>>
  <2>1. t \in {Comment, Continuation} => t \in Layout /\ t # Space /\ t # Line
    BY LayoutApart DEF Layout
  <2> QED
    BY <1>0, <2>1, Zenon DEF Other
<1>4. t \notin Layout /\ t.k \in {"(", "[", "{"} => Other(t) = <<t>> \o <<Comment, Line, Space, Line>>
  <2>1. t \notin Layout /\ t.k \in {"(", "[", "{"} => Other(t) = <<t, Comment, Line, Space, Line>>
    BY <1>0, Zenon DEF Other
  <2>2. <<t, Comment, Line, Space, Line>> = <<t>> \o <<Comment, Line, Space, Line>>
    OBVIOUS
  <2> QED
    BY <2>1, <2>2, Zenon
<1>5. t \notin Layout /\ t.k \notin {"(", "[", "{"} =>
        Other(t) = <<t>> \o <<Space, Continuation, Tab>> \/ Other(t) = <<t>> \o <<>>
  <2>1. t \notin Layout /\ t.k \notin {"(", "[", "{"} =>
          Other(t) = <<t, Space, Continuation, Tab>> \/ Other(t) = <<t>>
    BY <1>0, Zenon DEF Other
  <2>2. <<t, Space, Continuation, Tab>> = <<t>> \o <<Space, Continuation, Tab>> /\ <<t>> = <<t>> \o <<>>
    OBVIOUS
  <2> QED
    BY <2>1, <2>2, Zenon
<1> QED
  BY <1>1, <1>2, <1>3, <1>4, <1>5

LEMMA NoneAbove == \A d \in Nat : d + 1 # 0
  OBVIOUS

LEMMA OpenedBrackets ==
    ASSUME NEW st, Steady(st), NEW t \in Pieces, t \notin Layout, t.k \in {"(", "[", "{"}
    PROVE  Line \in Around(LexPiece(st, t))
<1> DEFINE sv == LexPiece(st, t)
           r == Ready(st)
<1>1. CASE ~st.ok
  <2>1. ~sv.ok
    BY <1>1, PieceIs
  <2> QED
    BY <2>1 DEF Around
<1>2. CASE st.ok
  <2>1. sv = Word(st, t)
    BY <1>2, PieceIs
  <2>2. Steady(r) /\ r \in LexStates
    BY ReadySteady DEF Steady
  <2>3. sv = [r EXCEPT !.toks = @ \o <<Scanned(t)>>, !.depth = Closer(t, @), !.ok = @ /\ Scans(t)]
    BY <2>1, <2>2, WordIs
  <2>4. r.depth \in Nat /\ Closer(t, r.depth) = r.depth + 1
    BY <2>2 DEF LexStates, Closer
  <2> HIDE DEF sv, r
  <2>5. sv.depth = r.depth + 1
    BY <2>2, <2>3, <2>4 DEF LexStates
  <2>6. PICK d \in Nat : d = r.depth
    BY <2>4
  <2>7. d + 1 # 0
    BY NoneAbove
  <2>8. sv.depth # 0
    BY <2>5, <2>6, <2>7, Zenon
  <2> QED
    BY <2>8 DEF Around, sv
<1> QED
  BY <1>1, <1>2

(* The same text as another editor leaves it has the same tokens, whatever   *)
(* the text: what Source_trees checks of the texts it writes.                *)
THEOREM RelaidIsRead ==
    ASSUME NEW ts \in Seq(Pieces), \A i \in 1 .. Len(ts) : ts[i] # Tab
    PROVE  Lex(Relaid(ts)) = Lex(ts)
<1> DEFINE ls == [i \in DOMAIN ts |-> Other(ts[i])]
<1>0. PICK n \in Nat : n = Len(ts)
  OBVIOUS
<1>1. PICK g : LexRun(g, n, LexStart, ts)
  BY <1>0, LexFromIs
<1>2. ASSUME NEW i \in 1 .. n
      PROVE  Other(ts[i]) \in Seq(Pieces) /\ Laid(Tab, StateAt(ts, i), ts[i], Other(ts[i]))
  <2> DEFINE t == ts[i]
             st == StateAt(ts, i)
  <2>0. t \in Pieces /\ t # Tab
    BY <1>0, ElementOfSeq
  <2> HIDE DEF t
  <2>1. /\ <<Tab>> \in Seq(Pieces) /\ <<Line>> \in Seq(Pieces) /\ <<t>> \in Seq(Pieces)
        /\ <<Space, Comment, Line, Space, Line, Space, Space, Comment>> \in Seq(Pieces)
    BY <2>0 DEF Pieces, Layout
  <2>2. CASE t = Space
    <3>1. Other(t) = <<Tab>>
      BY <2>2, OtherIs
    <3> QED
      BY <2>1, <2>2, <3>1 DEF Laid, t
  <2>3. CASE t = Line
    <3> DEFINE p == <<Space, Comment, Line, Space, Line, Space, Space, Comment>>
    <3>1. Other(t) = p \o <<Line>>
      BY <2>3, OtherIs
    <3>2. p \in Seq(Blank)
      BY DEF Blank
    <3>3. Other(t) \in Seq(Pieces)
      <4> HIDE DEF p
      <4>1. p \in Seq(Pieces)
        BY <3>2, GapsArePieces
      <4> QED
        BY <2>1, <3>1, <4>1, ConcatProperties
    <3> HIDE DEF p
    <3> QED
      BY <2>3, <3>1, <3>2, <3>3 DEF Laid, t
  <2>4. CASE t \in {Comment, Continuation}
    <3>1. Other(t) = <<t>>
      BY <2>4, OtherIs
    <3> QED
      BY <2>1, <2>4, <3>1 DEF Laid, t
  <2>5. ASSUME t \notin Layout, NEW p \in Seq(Around(st)), Other(t) = <<t>> \o p
        PROVE  Other(t) \in Seq(Pieces) /\ Laid(Tab, st, t, Other(t))
    <3>1. p \in Seq(Pieces)
      BY GapsArePieces
    <3>2. Other(t) \in Seq(Pieces)
      BY <2>1, <2>5, <3>1, ConcatProperties
    <3>3. Laid(Tab, st, t, Other(t))
      BY <2>5 DEF Laid
    <3> QED
      BY <3>2, <3>3
  <2>6. CASE t \notin Layout /\ t.k \in {"(", "[", "{"}
    <3> DEFINE p == <<Comment, Line, Space, Line>>
    <3>1. Line \in Around(st)
      <4>1. PICK j \in 0 .. n : j = i - 1 /\ j < n /\ j + 1 = i
        OBVIOUS
      <4>2. st = LexPiece(g[j], t)
        <5>1. st = g[j + 1]
          BY <1>0, <1>1, <4>1, StateAtIs
        <5>2. g[j + 1] = LexPiece(g[j], ts[j + 1])
          BY <1>1, <4>1 DEF LexRun
        <5> QED
          BY <4>1, <5>1, <5>2 DEF t
      <4>3. Steady(g[j])
        BY <1>0, <1>1, StartSteady, RunSteady
      <4> QED
        BY <2>0, <2>6, <4>2, <4>3, OpenedBrackets
    <3>2. p \in Seq(Around(st))
      <4>1. Comment \in Around(st) /\ Space \in Around(st)
        BY DEF Around
      <4> QED
        BY <3>1, <4>1
    <3>3. Other(t) = <<t>> \o p
      BY <2>6, OtherIs
    <3> HIDE DEF p, st
    <3>4. Other(t) \in Seq(Pieces) /\ Laid(Tab, st, t, Other(t))
      BY <2>5, <2>6, <3>2, <3>3
    <3> QED
      BY <3>4 DEF t, st
  <2>7. CASE t \notin Layout /\ t.k \notin {"(", "[", "{"}
    <3> DEFINE p == <<Space, Continuation, Tab>>
    <3>1. p \in Seq(Around(st)) /\ <<>> \in Seq(Around(st))
      <4>1. Continuation \in Around(st) /\ Space \in Around(st) /\ Tab \in Around(st)
        BY DEF Around
      <4> QED
        BY <4>1
    <3>2. Other(t) = <<t>> \o p \/ Other(t) = <<t>> \o <<>>
      BY <2>7, OtherIs
    <3> HIDE DEF p, st
    <3>3. Other(t) \in Seq(Pieces) /\ Laid(Tab, st, t, Other(t))
      <4>1. CASE Other(t) = <<t>> \o p
        BY <2>5, <2>7, <3>1, <4>1
      <4>2. CASE Other(t) = <<t>> \o <<>>
        BY <2>5, <2>7, <3>1, <4>2
      <4> QED
        BY <3>2, <4>1, <4>2
    <3> QED
      BY <3>3 DEF t, st
  <2> QED
    BY <2>0, <2>2, <2>3, <2>4, <2>6, <2>7 DEF Layout
<1>3. DOMAIN ts = 1 .. n
  BY <1>0, LenProperties
<1>4. ls \in Seq(Seq(Pieces)) /\ Len(ls) = n /\ \A i \in 1 .. n : ls[i] = Other(ts[i])
  BY <1>2, <1>3
<1> HIDE DEF ls
<1>5. \A i \in 1 .. Len(ts) : Laid(Tab, StateAt(ts, i), ts[i], ls[i])
  BY <1>0, <1>2, <1>4
<1>6. Lex(FlattenSeq(ls)) = Lex(ts)
  BY <1>0, <1>4, <1>5, LayoutMeansNothing
<1> QED
  BY <1>6 DEF Relaid, ls

-----------------------------------------------------------------------------
(* The shape of the tokens                                                   *)

At(l, d) == [last |-> l, level |-> d]
Follows(x, t) ==
    /\ t = Newline => x.last # Newline
    /\ t = Indent => x.last = Newline
    /\ t = Dedent => x.last \in {Newline, Dedent} /\ x.level > 0
Next1(x, t) == At(t, IF t = Indent THEN x.level + 1 ELSE IF t = Dedent THEN x.level - 1 ELSE x.level)

\* Where each token of s leaves a reader that stands at x before the first.
Shapes(h, n, s, x, y) ==
    /\ n = Len(s) /\ h[0] = x /\ h[n] = y
    /\ \A i \in 0 .. n : i < n => Follows(h[i], s[i + 1]) /\ h[i + 1] = Next1(h[i], s[i + 1])
Shaped(s, x, y) == \E n \in Nat : \E h : Shapes(h, n, s, x, y)

LEMMA MarksApart ==
    /\ Newline # Indent /\ Newline # Dedent /\ Indent # Dedent
    /\ Newline # Eof /\ Indent # Eof /\ Dedent # Eof
  BY DEF Newline, Indent, Dedent, Eof, Sym, Tok

LEMMA ShapedNone ==
    ASSUME NEW x
    PROVE  Shaped(<<>>, x, x)
<1> DEFINE h == [i \in 0 .. 0 |-> x]
<1>1. Shapes(h, 0, <<>>, x, x)
  BY DEF Shapes
<1> QED
  BY <1>1 DEF Shaped

LEMMA ShapedOne ==
    ASSUME NEW x, NEW t, Follows(x, t)
    PROVE  Shaped(<<t>>, x, Next1(x, t))
<1> DEFINE y == Next1(x, t)
           h == [i \in 0 .. 1 |-> IF i = 0 THEN x ELSE y]
           s == <<t>>
<1>1. h[0] = x /\ h[1] = y /\ Len(s) = 1 /\ s[1] = t
  OBVIOUS
<1>2. \A i \in 0 .. 1 : i < 1 => i = 0 /\ i + 1 = 1
  OBVIOUS
<1> HIDE DEF h, s
<1>3. \A i \in 0 .. 1 : i < 1 => Follows(h[i], s[i + 1]) /\ h[i + 1] = Next1(h[i], s[i + 1])
  BY <1>1, <1>2
<1>4. Shapes(h, 1, s, x, y)
  BY <1>1, <1>3 DEF Shapes
<1> QED
  BY <1>4 DEF Shaped, s

LEMMA ShapedDedents ==
    ASSUME NEW l \in {Newline, Dedent}, NEW a \in Nat, NEW n \in 0 .. a
    PROVE  Shaped([i \in 1 .. n |-> Dedent], At(l, a), At(IF n = 0 THEN l ELSE Dedent, a - n))
<1> DEFINE s == [i \in 1 .. n |-> Dedent]
           h == [i \in 0 .. n |-> At(IF i = 0 THEN l ELSE Dedent, a - i)]
<1>1. Len(s) = n /\ \A i \in 0 .. n : i < n => s[i + 1] = Dedent
  <2>1. s \in [1 .. n -> {Dedent}]
    OBVIOUS
  <2>2. n \in Nat
    OBVIOUS
  <2>3. s \in Seq({Dedent}) /\ Len(s) = n
    BY <2>1, <2>2
  <2> QED
    BY <2>3
<1>2. ASSUME NEW i \in 0 .. n, i < n
      PROVE  Follows(h[i], Dedent) /\ h[i + 1] = Next1(h[i], Dedent)
  <2>1. h[i] = At(IF i = 0 THEN l ELSE Dedent, a - i) /\ h[i + 1] = At(Dedent, a - (i + 1))
    BY <1>2
  <2>2. a - i > 0 /\ a - (i + 1) = a - i - 1
    BY <1>2
  <2>3. h[i].last \in {Newline, Dedent} /\ h[i].level = a - i
    BY <2>1 DEF At
  <2> HIDE DEF h
  <2>4. Follows(h[i], Dedent)
    BY <2>2, <2>3, MarksApart DEF Follows
  <2>5. Next1(h[i], Dedent) = At(Dedent, a - i - 1)
    BY <2>3, MarksApart, Zenon DEF Next1
  <2> QED
    BY <2>1, <2>2, <2>4, <2>5
<1>3. h[0] = At(l, a) /\ h[n] = At(IF n = 0 THEN l ELSE Dedent, a - n)
  OBVIOUS
<1> HIDE DEF h, s
<1>4. Shapes(h, n, s, At(l, a), At(IF n = 0 THEN l ELSE Dedent, a - n))
  BY <1>1, <1>2, <1>3 DEF Shapes
<1> QED
  BY <1>4 DEF Shaped, s

LEMMA ShapedConcat ==
    ASSUME NEW s \in Seq(Tokens), NEW u \in Seq(Tokens), NEW x, NEW y, NEW z, Shaped(s, x, y), Shaped(u, y, z)
    PROVE  Shaped(s \o u, x, z)
<1>1. PICK n \in Nat : \E g : Shapes(g, n, s, x, y)
  BY DEF Shaped
<1>2. PICK g : Shapes(g, n, s, x, y)
  BY <1>1
<1>3. PICK m \in Nat : \E f : Shapes(f, m, u, y, z)
  BY DEF Shaped
<1>4. PICK f : Shapes(f, m, u, y, z)
  BY <1>3
<1>5. /\ n = Len(s) /\ g[0] = x /\ g[n] = y /\ m = Len(u) /\ f[0] = y /\ f[m] = z
      /\ \A i \in 0 .. n : i < n => Follows(g[i], s[i + 1]) /\ g[i + 1] = Next1(g[i], s[i + 1])
      /\ \A i \in 0 .. m : i < m => Follows(f[i], u[i + 1]) /\ f[i + 1] = Next1(f[i], u[i + 1])
  BY <1>2, <1>4 DEF Shapes
<1> DEFINE w == s \o u
           h == [i \in 0 .. n + m |-> IF i <= n THEN g[i] ELSE f[i - n]]
<1>6. Len(w) = n + m /\ \A i \in 1 .. n + m : w[i] = IF i <= n THEN s[i] ELSE u[i - n]
  BY <1>5, ConcatProperties, Zenon
<1>7. h[0] = x /\ h[n + m] = z
  BY <1>5
<1>8. \A i \in 0 .. n : h[i] = g[i]
  OBVIOUS
<1>9. \A j \in 0 .. m : h[n + j] = f[j]
  BY <1>5
<1> HIDE DEF h, w
<1>10. ASSUME NEW i \in 0 .. n + m, i < n + m
       PROVE  Follows(h[i], w[i + 1]) /\ h[i + 1] = Next1(h[i], w[i + 1])
  <2>1. CASE i < n
    <3>1. i \in 0 .. n /\ i + 1 \in 0 .. n /\ w[i + 1] = s[i + 1]
      BY <1>6, <1>10, <2>1
    <3> QED
      BY <1>5, <1>8, <2>1, <3>1
  <2>2. CASE i >= n
    <3>1. PICK j \in 0 .. m : j = i - n /\ j < m /\ j + 1 \in 0 .. m /\ i = n + j /\ i + 1 = n + (j + 1)
      BY <1>10, <2>2
    <3>2. h[i] = f[j] /\ h[i + 1] = f[j + 1]
      BY <1>9, <3>1
    <3>3. w[i + 1] = u[j + 1]
      <4>1. i + 1 \in 1 .. n + m /\ ~(i + 1 <= n) /\ i + 1 - n = j + 1
        BY <1>10, <2>2, <3>1
      <4> QED
        BY <1>6, <4>1
    <3> QED
      BY <1>5, <3>1, <3>2, <3>3
  <2> QED
    BY <2>1, <2>2
<1>11. n + m \in Nat
  OBVIOUS
<1>12. Shapes(h, n + m, w, x, z)
  BY <1>6, <1>7, <1>10 DEF Shapes
<1> QED
  BY <1>11, <1>12 DEF Shaped, w

\* A reader stands after the last token it has read.
LEMMA ShapedLast ==
    ASSUME NEW s \in Seq(Tokens), NEW x, NEW y, Shaped(s, x, y)
    PROVE  y.last = IF s = <<>> THEN x.last ELSE Last(s)
<1>1. PICK n \in Nat : \E h : Shapes(h, n, s, x, y)
  BY DEF Shaped
<1>2. PICK h : Shapes(h, n, s, x, y)
  BY <1>1
<1>3. CASE n = 0
  <2>1. s = <<>> /\ x = y
    BY <1>2, <1>3, EmptySeq DEF Shapes
  <2> QED
    BY <2>1
<1>4. CASE n # 0
  <2>1. s # <<>> /\ n = Len(s)
    BY <1>2, <1>4, EmptySeq DEF Shapes
  <2>2. PICK k \in 0 .. n : k = n - 1 /\ k + 1 = n /\ k < n
    BY <1>4
  <2>3. h[k + 1] = Next1(h[k], s[k + 1])
    BY <1>2, <2>2 DEF Shapes
  <2>4. y = Next1(h[k], s[n])
    BY <1>2, <2>2, <2>3 DEF Shapes
  <2>5. y.last = s[n]
    BY <2>4 DEF Next1, At
  <2> QED
    BY <2>1, <2>5 DEF Last
<1> QED
  BY <1>3, <1>4

\* A reader of the tokens so far stands as deep as the indentations are open,
\* and after a line where a new one begins.
Start == At(Newline, 0)
Stands(st, l) ==
    /\ Steady(st)
    /\ Shaped(st.toks, Start, At(l, Len(st.indents) - 1))
    /\ st.bol => l = Newline
Unmarked == {t \in Pieces : t.k \notin {"Newline", "Indent", "Dedent"}}

LEMMA WordsAreNoMarks ==
    ASSUME NEW t \in Unmarked
    PROVE  Scanned(t) \notin {Newline, Indent, Dedent}
<1>1. Scanned(t).k = t.k
  <2>1. CASE Scanned(t) = t
    BY <2>1
  <2>2. CASE Scanned(t) # t
    <3>1. t.k = "str" /\ Scanned(t) = Tok("str", Unescaped[t.v])
      BY <2>2, Zenon DEF Scanned
    <3> QED
      BY <3>1 DEF Tok
  <2> QED
    BY <2>1, <2>2
<1>2. Newline.k = "Newline" /\ Indent.k = "Indent" /\ Dedent.k = "Dedent"
  BY DEF Newline, Indent, Dedent, Sym, Tok
<1>3. Scanned(t).k \notin {"Newline", "Indent", "Dedent"}
  BY <1>1 DEF Unmarked
<1> QED
  BY <1>2, <1>3

LEMMA IndentationStands ==
    ASSUME NEW st, Stands(st, Newline)
    PROVE  \E l : Shaped(Indentation(st).toks, Start, At(l, Len(Indentation(st).indents) - 1))
<1>1. Steady(st) /\ st \in LexStates /\ st.toks \in Seq(Tokens) /\ st.indents \in Seq(Nat) /\ st.col \in Nat
  BY StackIs DEF Stands, Steady, LexStates
<1>2. PICK n \in Nat : n = Len(st.indents) /\ n >= 1
  BY <1>1, StackIs
<1>3. Shaped(st.toks, Start, At(Newline, n - 1))
  BY <1>2 DEF Stands
<1>4. CASE st.col > Last(st.indents)
  <2>1. Indentation(st) = [st EXCEPT !.toks = @ \o <<Indent>>, !.indents = Append(@, st.col)]
    BY <1>1, <1>4, IndentationIs
  <2>2. Indentation(st).toks = st.toks \o <<Indent>> /\ Indentation(st).indents = Append(st.indents, st.col)
    BY <1>1, <2>1 DEF LexStates
  <2>3. Len(Append(st.indents, st.col)) = n + 1
    BY <1>1, <1>2, AppendProperties
  <2>4. Shaped(<<Indent>>, At(Newline, n - 1), At(Indent, n))
    <3>1. Follows(At(Newline, n - 1), Indent)
      BY MarksApart DEF Follows, At
    <3>2. Next1(At(Newline, n - 1), Indent) = At(Indent, n)
      <4>1. n - 1 + 1 = n
        OBVIOUS
      <4> QED
        BY <4>1 DEF Next1, At
    <3> QED
      BY <3>1, <3>2, ShapedOne
  <2>5. Shaped(st.toks \o <<Indent>>, Start, At(Indent, n))
    BY <1>1, <1>3, <2>4, MarksAre, ShapedConcat
  <2>6. n + 1 - 1 = n
    OBVIOUS
  <2> QED
    BY <2>2, <2>3, <2>5, <2>6
<1>5. CASE ~(st.col > Last(st.indents))
  <2>0. PICK k \in Nat : k = Kept(st) /\ k >= 1 /\ k <= n
    <3>1. Kept(st) \in 1 .. n
      BY <1>1, <1>2, <1>5, IndentationIs
    <3> QED
      BY <1>2, <3>1
  <2> DEFINE D == [i \in 1 .. (n - k) |-> Dedent]
             l == IF n - k = 0 THEN Newline ELSE Dedent
  <2>1. Indentation(st) = [st EXCEPT !.toks = @ \o D, !.indents = SubSeq(@, 1, k), !.ok = st.col = st.indents[k]]
    BY <1>1, <1>2, <1>5, <2>0, IndentationIs, Zenon
  <2>2. D \in Seq(Tokens)
    <3>1. n - k \in Int
      OBVIOUS
    <3> QED
      BY <3>1, MarksAre
  <2>3. Shaped(D, At(Newline, n - 1), At(l, k - 1))
    <3>1. n - 1 \in Nat /\ n - k \in 0 .. n - 1 /\ n - 1 - (n - k) = k - 1
      BY <1>2, <2>0
    <3>2. Shaped(D, At(Newline, n - 1), At(l, n - 1 - (n - k)))
      BY <3>1, ShapedDedents
    <3> QED
      BY <3>1, <3>2
  <2> HIDE DEF D, l
  <2>4. Indentation(st).toks = st.toks \o D /\ Indentation(st).indents = SubSeq(st.indents, 1, k)
    BY <1>1, <2>1 DEF LexStates
  <2>5. Len(SubSeq(st.indents, 1, k)) = k
    <3>1. k \in 1 .. Len(st.indents)
      BY <1>2, <2>0
    <3> QED
      BY <1>1, <3>1, PrefixIs
  <2>6. Shaped(st.toks \o D, Start, At(l, k - 1))
    BY <1>1, <1>3, <2>2, <2>3, ShapedConcat
  <2> QED
    BY <2>4, <2>5, <2>6
<1> QED
  BY <1>4, <1>5

LEMMA ReadyStands ==
    ASSUME NEW st, NEW l, Stands(st, l)
    PROVE  \E k : Stands(Ready(st), k)
<1>1. Steady(st) /\ Steady(Ready(st)) /\ ~Ready(st).bol
  BY ReadySteady DEF Stands
<1>2. CASE st.bol
  <2> DEFINE a == Indentation(st)
  <2>1. Stands(st, Newline)
    BY <1>2 DEF Stands
  <2>2. PICK k : Shaped(a.toks, Start, At(k, Len(a.indents) - 1))
    BY <2>1, IndentationStands
  <2>3. Ready(st) = [a EXCEPT !.bol = FALSE] /\ a \in LexStates
    BY <1>1, <1>2, IndentationSteady DEF Ready, Steady
  <2> HIDE DEF a
  <2>4. Ready(st).toks = a.toks /\ Ready(st).indents = a.indents
    BY <2>3 DEF LexStates
  <2>5. Stands(Ready(st), k)
    BY <1>1, <2>2, <2>4 DEF Stands
  <2> QED
    BY <2>5
<1>3. CASE ~st.bol
  BY <1>3 DEF Ready
<1> QED
  BY <1>2, <1>3

LEMMA EndLineStands ==
    ASSUME NEW st, NEW l, Stands(st, l)
    PROVE  Steady(EndLine(st)) /\ Shaped(EndLine(st).toks, Start, At(Newline, Len(EndLine(st).indents) - 1))
<1> DEFINE d == Len(st.indents) - 1
<1>1. /\ Steady(st) /\ Steady(EndLine(st)) /\ EndLine(st).indents = st.indents
      /\ st.toks \in Seq(Tokens) /\ st \in LexStates /\ Shaped(st.toks, Start, At(l, d))
  BY EndLineSteady DEF Stands, Steady, LexStates
<1> HIDE DEF d
<1>2. l = IF st.toks = <<>> THEN Newline ELSE Last(st.toks)
  <2>1. At(l, d).last = IF st.toks = <<>> THEN Start.last ELSE Last(st.toks)
    BY <1>1, ShapedLast
  <2> QED
    BY <2>1 DEF At, Start
<1>3. CASE st.toks = <<>> \/ Last(st.toks) = Newline
  <2>1. EndLine(st) = st
    BY <1>3 DEF EndLine
  <2>2. l = Newline
    BY <1>2, <1>3
  <2> QED
    BY <1>1, <2>1, <2>2 DEF d
<1>4. CASE ~(st.toks = <<>> \/ Last(st.toks) = Newline)
  <2>1. EndLine(st).toks = st.toks \o <<Newline>>
    <3>1. EndLine(st) = [st EXCEPT !.toks = st.toks \o <<Newline>>]
      BY <1>4 DEF EndLine, Emit
    <3> QED
      BY <1>1, <3>1 DEF LexStates
  <2>2. l # Newline
    BY <1>2, <1>4
  <2>3. Follows(At(l, d), Newline) /\ Next1(At(l, d), Newline) = At(Newline, d)
    BY <2>2, MarksApart DEF Follows, Next1, At
  <2>4. Shaped(<<Newline>>, At(l, d), At(Newline, d))
    BY <2>3, ShapedOne
  <2>5. Shaped(st.toks \o <<Newline>>, Start, At(Newline, d))
    BY <1>1, <2>4, MarksAre, ShapedConcat
  <2> QED
    BY <1>1, <2>1, <2>5 DEF d
<1> QED
  BY <1>3, <1>4

LEMMA WordStands ==
    ASSUME NEW st, NEW l, Stands(st, l), NEW t \in Unmarked
    PROVE  Stands(Word(st, t), Scanned(t))
<1> DEFINE r == Ready(st)
           w == Word(st, t)
           d == Len(r.indents) - 1
<1>1. Steady(st) /\ t \in Pieces
  BY DEF Stands, Unmarked
<1>2. Steady(w) /\ ~w.bol /\ r \in LexStates /\ r.toks \in Seq(Tokens)
  BY <1>1, WordSteady, ReadySteady DEF Steady, LexStates
<1>3. PICK k : Stands(r, k)
  BY ReadyStands
<1>4. Shaped(r.toks, Start, At(k, d))
  BY <1>3 DEF Stands
<1>5. w = [r EXCEPT !.toks = @ \o <<Scanned(t)>>, !.depth = Closer(t, @), !.ok = @ /\ Scans(t)]
  BY <1>2, WordIs
<1> HIDE DEF r, w, d
<1>6. w.toks = r.toks \o <<Scanned(t)>> /\ w.indents = r.indents
  BY <1>2, <1>5 DEF LexStates
<1>7. Shaped(<<Scanned(t)>>, At(k, d), At(Scanned(t), d))
  <2>1. Scanned(t) # Newline /\ Scanned(t) # Indent /\ Scanned(t) # Dedent
    BY WordsAreNoMarks
  <2>2. Follows(At(k, d), Scanned(t))
    BY <2>1, Zenon DEF Follows
  <2>3. Next1(At(k, d), Scanned(t)) = At(Scanned(t), d)
    <3>1. At(k, d).level = d
      BY DEF At
    <3> QED
      BY <2>1, <3>1, Zenon DEF Next1
  <2> QED
    BY <2>2, <2>3, ShapedOne
<1>8. Shaped(w.toks, Start, At(Scanned(t), Len(w.indents) - 1))
  <2>1. <<Scanned(t)>> \in Seq(Tokens)
    <3>1. Scanned(t) \in Tokens
      BY <1>1 DEF Tokens
    <3> QED
      BY <3>1
  <2>2. Shaped(r.toks \o <<Scanned(t)>>, Start, At(Scanned(t), d))
    BY <1>2, <1>4, <1>7, <2>1, ShapedConcat
  <2> QED
    BY <1>6, <2>2 DEF d
<1>9. Stands(w, Scanned(t))
  BY <1>2, <1>8 DEF Stands
<1> QED
  BY <1>9 DEF w

LEMMA PieceStands ==
    ASSUME NEW st, NEW l, Stands(st, l), NEW t \in Unmarked
    PROVE  \E k : Stands(LexPiece(st, t), k)
<1> DEFINE su == LexPiece(st, t)
<1>0. Steady(st) /\ st \in LexStates /\ t \in Pieces /\ Steady(su) /\ su \in LexStates
  BY PieceSteady DEF Stands, Steady, Unmarked
<1>a. ASSUME su.toks = st.toks, su.indents = st.indents, su.bol => st.bol PROVE Stands(su, l)
  BY <1>0, <1>a DEF Stands
<1>1. CASE ~st.ok
  <2>1. su = st
    BY <1>1, PieceIs
  <2> QED
    BY <2>1
<1>2. CASE st.ok
  <2>1. CASE t \in {Space, Tab, Comment}
    <3>1. t = Space => su = [st EXCEPT !.col = @ + 1] \/ su = st
      BY <1>2, PieceIs
    <3>2. t = Tab => su = [st EXCEPT !.col = @ + 8] \/ su = st
      BY <1>2, PieceIs
    <3>3. t = Comment => su = [st EXCEPT !.bol = FALSE]
      BY <1>2, PieceIs
    <3> HIDE DEF su
    <3>4. su.toks = st.toks /\ su.indents = st.indents /\ (su.bol => st.bol)
      BY <1>0, <2>1, <3>1, <3>2, <3>3 DEF LexStates
    <3> QED
      BY <1>a, <3>4 DEF su
  <2>2. CASE t = Continuation
    <3>1. su = Ready(st)
      BY <1>2, <2>2, PieceIs DEF Ready
    <3> QED
      BY <3>1, ReadyStands
  <2>3. CASE t = Line /\ st.depth > 0
    <3>1. su = st
      BY <1>2, <2>3, PieceIs
    <3> QED
      BY <3>1
  <2>4. CASE t = Line /\ ~(st.depth > 0)
    <3> DEFINE e == EndLine(st)
    <3>1. su = [e EXCEPT !.bol = TRUE, !.col = 0]
      BY <1>2, <2>4, PieceIs
    <3>2. Steady(e) /\ Shaped(e.toks, Start, At(Newline, Len(e.indents) - 1))
      BY EndLineStands
    <3>3. e \in LexStates
      BY <3>2 DEF Steady
    <3> HIDE DEF e, su
    <3>4. su.toks = e.toks /\ su.indents = e.indents
      BY <3>1, <3>3 DEF LexStates
    <3>5. Stands(su, Newline)
      BY <1>0, <3>2, <3>4 DEF Stands
    <3> QED
      BY <3>5 DEF su
  <2>5. CASE t \notin Layout
    <3>1. su = Word(st, t)
      BY <1>2, <2>5, PieceIs
    <3> QED
      BY <3>1, WordStands
  <2> QED
    BY <2>1, <2>2, <2>3, <2>4, <2>5 DEF Layout
<1> QED
  BY <1>1, <1>2

(* Whatever the text, its tokens are lines in nested blocks: no line is      *)
(* empty, an Indent opens a block at the beginning of a line, a Dedent       *)
(* stands at the beginning of a line and closes a block that is open, and    *)
(* every block is closed before the Eof (the stack of indentations in lex,   *)
(* what parse_block relies on).                                              *)
THEOREM BlocksAreNested ==
    ASSUME NEW ts \in Seq(Unmarked)
    PROVE  Shaped(Lex(ts).toks, At(Newline, 0), At(Eof, 0))
<1>0. PICK n \in Nat : n = Len(ts)
  OBVIOUS
<1>1. PICK g : LexRun(g, n, LexStart, ts)
  BY <1>0, LexFromIs
<1>2. g[0] = LexStart /\ \A i \in 0 .. n : i < n => g[i + 1] = LexPiece(g[i], ts[i + 1])
  BY <1>1 DEF LexRun
<1> DEFINE S == {i \in 0 .. n : \E l : Stands(g[i], l)}
<1>3. 0 \in S
  <2> DEFINE z == LexStart
  <2>1. Steady(z) /\ z.toks = <<>> /\ Len(z.indents) = 1
    BY StartSteady DEF LexStart
  <2> HIDE DEF z
  <2>2. Len(z.indents) - 1 = 0
    BY <2>1
  <2>3. Shaped(z.toks, Start, At(Newline, Len(z.indents) - 1))
    BY <2>1, <2>2, ShapedNone DEF Start
  <2>4. Stands(z, Newline)
    BY <2>1, <2>3 DEF Stands
  <2> QED
    BY <1>2, <2>4 DEF z
<1>4. ASSUME NEW i \in 0 .. n, i \in S, i < n PROVE i + 1 \in S
  <2>1. ts[i + 1] \in Unmarked
    BY <1>0, <1>4, ElementOfSeq
  <2>2. PICK l : Stands(g[i], l)
    BY <1>4
  <2>3. \E k : Stands(LexPiece(g[i], ts[i + 1]), k)
    BY <2>1, <2>2, PieceStands
  <2> QED
    BY <1>2, <1>4, <2>3
<1> HIDE DEF S
<1>5. \E l : Stands(g[n], l)
  <2>1. \A i \in 0 .. n : i \in S
    BY <1>3, <1>4, UpTo
  <2>2. n \in S
    BY <2>1
  <2> QED
    BY <2>2 DEF S
<1> DEFINE e == EndLine(g[n])
           k == Len(e.indents)
           D == [i \in 1 .. (k - 1) |-> Dedent]
<1>6. Steady(e) /\ Shaped(e.toks, Start, At(Newline, k - 1))
  BY <1>5, EndLineStands
<1>7. e.toks \in Seq(Tokens) /\ k \in Nat /\ k >= 1
  BY <1>6, StackIs DEF Steady, LexStates
<1>8. Lex(ts).toks = e.toks \o D \o <<Eof>>
  <2>1. LexFrom(LexStart, ts) = g[n]
    BY <1>1, LexFromOf
  <2>2. Lex(ts) = [ok |-> e.ok, toks |-> e.toks \o D \o <<Eof>>]
    BY <2>1, Zenon DEF Lex
  <2> HIDE DEF e, D
  <2> QED
    BY <2>2
<1> HIDE DEF e, k
<1>9. k - 1 \in Nat /\ k - 1 \in Int /\ k - 1 \in 0 .. k - 1 /\ k - 1 - (k - 1) = 0
  BY <1>7
<1>10. D \in Seq(Tokens)
  BY <1>9, MarksAre
<1> DEFINE l == IF k - 1 = 0 THEN Newline ELSE Dedent
<1>11. Shaped(D, At(Newline, k - 1), At(l, 0))
  <2>1. Shaped(D, At(Newline, k - 1), At(l, k - 1 - (k - 1)))
    BY <1>9, ShapedDedents
  <2> QED
    BY <1>9, <2>1
<1> HIDE DEF D, l
<1>12. Shaped(e.toks \o D, Start, At(l, 0)) /\ e.toks \o D \in Seq(Tokens)
  BY <1>6, <1>7, <1>10, <1>11, ShapedConcat, ConcatProperties
<1>13. Shaped(<<Eof>>, At(l, 0), At(Eof, 0))
  <2>1. Follows(At(l, 0), Eof) /\ Next1(At(l, 0), Eof) = At(Eof, 0)
    BY MarksApart DEF Follows, Next1, At
  <2> QED
    BY <2>1, ShapedOne
<1>14. Shaped(e.toks \o D \o <<Eof>>, Start, At(Eof, 0))
  BY <1>12, <1>13, MarksAre, ShapedConcat
<1> QED
  BY <1>8, <1>14 DEF Start
================================================================================
