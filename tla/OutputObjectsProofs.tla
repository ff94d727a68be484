------------------------ MODULE OutputObjectsProofs ------------------------
(***************************************************************************)
(* Every object a method answers, for any methods, arrays and number of    *)
(* calls.  The lists that the registry, the codec, the thunk and the test  *)
(* generator each build from the parameters are InOrder of the same sets   *)
(* of positions, so they agree (ListsInOrder, RefsInStep).  The invariant  *)
(* says whose object each id names while a call goes from the thunk's mint *)
(* through the host's records to the wrapper: an id is minted for one slot *)
(* of one call (TableInv), the reply has the id of each slot's object      *)
(* (RefsInv), and what the thread holds is recorded or about to be         *)
(* (WrapperInv, HeldInv).                                                  *)
(***************************************************************************)
EXTENDS OutputObjects, Inductions

-----------------------------------------------------------------------------
(* Positions in order *)

LEMMA PositionsFinite ==
  ASSUME NEW n \in Nat, NEW S \in SUBSET (1 .. n)
  PROVE  IsFiniteSet(S) /\ Cardinality(S) \in Nat
<1>1. IsFiniteSet(1 .. n)
  BY FS_Interval
<1>2. IsFiniteSet(S)
  BY <1>1, FS_Subset
<1> QED
  BY <1>2, FS_CardinalityType

LEMMA RankStrict ==
  ASSUME NEW n \in Nat, NEW S \in SUBSET (1 .. n), NEW i \in S, NEW j \in S, i < j
  PROVE  Rank(S, i) < Rank(S, j)
<1> DEFINE A == {k \in S : k <= i}
           B == {k \in S : k <= j}
<1>1. IsFiniteSet(B)
  BY PositionsFinite, FS_Subset
<1>2. A \subseteq B /\ j \in B /\ j \notin A
  <2>1. \A k \in S : k \in Int
    OBVIOUS
  <2>2. \A k \in S : k <= i => k <= j
    BY <2>1
  <2>3. ~(j <= i) /\ j <= j
    BY <2>1
  <2> QED
    BY <2>2, <2>3, Zenon
<1>3. IsFiniteSet(A) /\ Cardinality(A) <= Cardinality(B) /\ Cardinality(A) # Cardinality(B)
  <2> HIDE DEF A, B
  <2> QED
    BY <1>1, <1>2, FS_Subset
<1>4. Cardinality(A) \in Nat /\ Cardinality(B) \in Nat
  <2> HIDE DEF A, B
  <2> QED
    BY <1>1, <1>3, FS_CardinalityType
<1> HIDE DEF A, B
<1>5. Rank(S, i) = Cardinality(A) /\ Rank(S, j) = Cardinality(B)
  BY DEF A, B, Rank
<1> QED
  BY <1>3, <1>4, <1>5

LEMMA RankType ==
  ASSUME NEW n \in Nat, NEW S \in SUBSET (1 .. n), NEW i \in S
  PROVE  Cardinality(S) \in Nat /\ Rank(S, i) \in 1 .. Cardinality(S)
<1> DEFINE A == {k \in S : k <= i}
<1>1. IsFiniteSet(S)
  BY PositionsFinite
<1>2. A \subseteq S /\ i \in A
  OBVIOUS
<1> HIDE DEF A
<1>3. IsFiniteSet(A) /\ Cardinality(A) <= Cardinality(S)
  BY <1>1, <1>2, FS_Subset
<1>4. Cardinality(A) \in Nat /\ Cardinality(S) \in Nat /\ Cardinality(A) # 0
  BY <1>1, <1>2, <1>3, FS_CardinalityType, FS_EmptySet
<1>5. Rank(S, i) = Cardinality(A)
  BY DEF A, Rank
<1> QED
  BY <1>3, <1>4, <1>5

(* InOrder lists a set and Rank is the place in the list.                  *)
Ordered(S, s) ==
  /\ Cardinality(S) \in Nat /\ DOMAIN s = 1 .. Cardinality(S)
  /\ \A k \in 1 .. Cardinality(S) : s[k] \in S /\ Rank(S, s[k]) = k
  /\ \A i \in S : Rank(S, i) \in 1 .. Cardinality(S) /\ s[Rank(S, i)] = i

LEMMA InOrderOrdered ==
  ASSUME NEW n \in Nat, NEW S \in SUBSET (1 .. n)
  PROVE  Ordered(S, InOrder(S))
<1> DEFINE c == Cardinality(S)
           f == [i \in S |-> Rank(S, i)]
<1>1. IsFiniteSet(S) /\ c \in Nat
  BY PositionsFinite
<1>2. \A i \in S : Rank(S, i) \in 1 .. c
  BY RankType
<1>3. \A i, j \in S : Rank(S, i) = Rank(S, j) => i = j
  <2> SUFFICES ASSUME NEW i \in S, NEW j \in S, Rank(S, i) = Rank(S, j), i # j
               PROVE FALSE
    OBVIOUS
  <2>1. i < j \/ j < i
    OBVIOUS
  <2>2. Rank(S, i) < Rank(S, j) \/ Rank(S, j) < Rank(S, i)
    BY <2>1, RankStrict
  <2>3. Rank(S, i) \in Nat /\ Rank(S, j) \in Nat
    BY <1>1, <1>2
  <2> QED
    BY <2>2, <2>3
<1>4. f \in Injection(S, 1 .. c)
  BY <1>2, <1>3 DEF Injection, IsInjective
<1>5. f \in Surjection(S, 1 .. c)
  <2>1. IsFiniteSet(1 .. c) /\ Cardinality(1 .. c) = c
    BY <1>1, FS_Interval
  <2> HIDE DEF f
  <2> QED
    BY <1>4, <2>1, FS_Injection
<1>6. \A k \in 1 .. c : \E i \in S : Rank(S, i) = k
  BY <1>5 DEF Surjection
<1> HIDE DEF c
<1>7. \A k \in 1 .. c : InOrder(S)[k] = CHOOSE i \in S : Rank(S, i) = k
  BY DEF InOrder, c
<1>8. \A k \in 1 .. c : InOrder(S)[k] \in S /\ Rank(S, InOrder(S)[k]) = k
  BY <1>6, <1>7
<1>9. \A i \in S : InOrder(S)[Rank(S, i)] = i
  BY <1>2, <1>3, <1>8
<1>10. DOMAIN InOrder(S) = 1 .. c
  BY DEF InOrder, c
<1> QED
  BY <1>1, <1>2, <1>8, <1>9, <1>10 DEF Ordered, c

-----------------------------------------------------------------------------
(* The lists of a method *)

IidsOf(m) == {i \in DOMAIN m.params : m.params[i].type = "IID"}
OutSet(m) == {i \in DOMAIN m.params : IsOutputComHandle(m.params[i])}
VoidSet(m) == {i \in DOMAIN m.params : IsVoidOutput(m.params[i])}

LEMMA ParamsTyped ==
  ASSUME NEW m \in Methods
  PROVE  /\ Len(m.params) \in Nat /\ DOMAIN m.params = 1 .. Len(m.params)
         /\ \A i \in DOMAIN m.params : m.params[i] \in Param
<1>1. m.params \in Seq(Param)
  <2>1. m \in Method
    BY MethodsType
  <2> QED
    BY <2>1 DEF Method
<1> QED
  BY <1>1, LenProperties

(* What ParamsAreUsual says, as membership of the sets of positions.       *)
LEMMA SetsOfPositions ==
  ASSUME NEW m \in Methods
  PROVE  /\ IidsOf(m) = {i \in DOMAIN m.params :
                           m.params[i].input /\ m.params[i].type = "IID"}
         /\ IidsOf(m) = {i \in DOMAIN m.params : /\ m.params[i].input
                                                 /\ m.params[i].type = "IID"
                                                 /\ m.params[i].ind <= 1}
         /\ IidsOf(m) = {i \in DOMAIN m.params : /\ m.params[i].input
                                                 /\ ~m.params[i].output
                                                 /\ m.params[i].type = "IID"}
         /\ OutSet(m) = {i \in DOMAIN m.params : /\ m.params[i].output
                                                 /\ m.params[i].com
                                                 /\ m.params[i].ind >= 1}
         /\ VoidSet(m) = {i \in OutSet(m) : m.params[i].type = "void"}
         /\ \A i \in VoidSet(m) : i - 1 \in IidsOf(m)
<1>1. \A i \in DOMAIN m.params :
        /\ m.params[i].com /\ m.params[i].output
             => m.params[i].ind = 2 /\ ~m.params[i].input
        /\ m.params[i].type = "IID"
             => m.params[i].input /\ ~m.params[i].output /\ m.params[i].ind <= 1
        /\ IsVoidOutput(m.params[i])
             => i - 1 \in DOMAIN m.params /\ m.params[i - 1].type = "IID"
  BY ParamsAreUsual, Zenon
<1>2. \A i \in DOMAIN m.params :
        IsVoidOutput(m.params[i])
          <=> IsOutputComHandle(m.params[i]) /\ m.params[i].type = "void"
  BY Zenon DEF IsVoidOutput
<1>3. \A i \in DOMAIN m.params :
        IsOutputComHandle(m.params[i])
          <=> m.params[i].output /\ m.params[i].com /\ m.params[i].ind >= 1
  <2> TAKE i \in DOMAIN m.params
  <2>1. m.params[i].com /\ m.params[i].output
          => m.params[i].ind = 2 /\ ~m.params[i].input
    BY <1>1, Zenon
  <2>2. m.params[i].ind = 2 => m.params[i].ind >= 1
    OBVIOUS
  <2> QED
    BY <2>1, <2>2, Zenon DEF IsOutputComHandle
<1>4. \A i \in DOMAIN m.params :
        m.params[i].type = "IID"
          => m.params[i].input /\ ~m.params[i].output /\ m.params[i].ind <= 1
  BY <1>1, Zenon
<1>5. /\ IidsOf(m) = {i \in DOMAIN m.params :
                        m.params[i].input /\ m.params[i].type = "IID"}
      /\ IidsOf(m) = {i \in DOMAIN m.params : /\ m.params[i].input
                                              /\ m.params[i].type = "IID"
                                              /\ m.params[i].ind <= 1}
      /\ IidsOf(m) = {i \in DOMAIN m.params : /\ m.params[i].input
                                              /\ ~m.params[i].output
                                              /\ m.params[i].type = "IID"}
  BY <1>4, Zenon DEF IidsOf
<1>6. OutSet(m) = {i \in DOMAIN m.params : /\ m.params[i].output
                                          /\ m.params[i].com
                                          /\ m.params[i].ind >= 1}
  BY <1>3, Zenon DEF OutSet
<1>7. VoidSet(m) = {i \in OutSet(m) : m.params[i].type = "void"}
  BY <1>2, Zenon DEF OutSet, VoidSet
<1>8. \A i \in VoidSet(m) : i - 1 \in IidsOf(m)
  BY <1>1, Zenon DEF IidsOf, VoidSet
<1> QED
  BY <1>5, <1>6, <1>7, <1>8, Zenon

LEMMA ListsInOrder ==
  ASSUME NEW m \in Methods
  PROVE  /\ Outs(m) = InOrder(OutSet(m)) /\ Ordered(OutSet(m), Outs(m))
         /\ ClientRiids(m) = InOrder(IidsOf(m)) /\ Ordered(IidsOf(m), ClientRiids(m))
         /\ Positions(m, LAMBDA p : p.input /\ p.type = "IID" /\ p.ind <= 1)
              = ClientRiids(m)
         /\ Positions(m, LAMBDA p : p.input /\ p.type = "IID") = ClientRiids(m)
         /\ Ordered(VoidSet(m), Positions(m, IsVoidOutput))
         /\ Len(ClientRiids(m)) = Cardinality(IidsOf(m))
         /\ Len(Outs(m)) = Cardinality(OutSet(m))
<1> DEFINE n == Len(m.params)
<1>1. /\ n \in Nat /\ OutSet(m) \in SUBSET (1 .. n) /\ IidsOf(m) \in SUBSET (1 .. n)
      /\ VoidSet(m) \in SUBSET (1 .. n)
  BY ParamsTyped DEF OutSet, IidsOf, VoidSet
<1>2. Outs(m) = InOrder(OutSet(m))
  BY DEF Outs, Positions, OutSet
<1>3. ClientRiids(m) = InOrder(IidsOf(m))
  BY SetsOfPositions DEF ClientRiids, Positions
<1>4. Positions(m, LAMBDA p : p.input /\ p.type = "IID" /\ p.ind <= 1)
        = InOrder(IidsOf(m))
  BY SetsOfPositions DEF Positions
<1>5. Positions(m, LAMBDA p : p.input /\ p.type = "IID") = InOrder(IidsOf(m))
  BY SetsOfPositions DEF Positions
<1>6. Positions(m, IsVoidOutput) = InOrder(VoidSet(m))
  BY DEF Positions, VoidSet
<1>7. \A S \in SUBSET (1 .. n) : Ordered(S, InOrder(S))
  BY <1>1, InOrderOrdered
<1>8. \A S \in SUBSET (1 .. n) : Len(InOrder(S)) = Cardinality(S)
  <2> TAKE S \in SUBSET (1 .. n)
  <2>1. Cardinality(S) \in Nat
    BY <1>1, PositionsFinite
  <2>2. DOMAIN InOrder(S) = 1 .. Cardinality(S)
    BY DEF InOrder
  <2> QED
    BY <2>1, <2>2
<1> HIDE DEF n
<1> QED
  BY <1>1, <1>2, <1>3, <1>4, <1>5, <1>6, <1>7, <1>8, Zenon

-----------------------------------------------------------------------------
(* Which IID names which output *)

(* There is an IID for every `void **`, as each is preceded by one; where  *)
(* nothing else is preceded by an IID, it is the one with its number.      *)
LEMMA VoidsHaveIids ==
  ASSUME NEW m \in Methods, NEW i \in VoidSet(m)
  PROVE  /\ Rank(VoidSet(m), i) \in DOMAIN ClientRiids(m)
         /\ IidsPrecedeVoids(m) => ClientRiids(m)[Rank(VoidSet(m), i)] = i - 1
<1> DEFINE n == Len(m.params)
           V == VoidSet(m)
           T == IidsOf(m)
           A == {v \in V : v <= i}
           B == {t \in T : t <= i - 1}
           f == [v \in A |-> v - 1]
<1>1. n \in Nat /\ V \in SUBSET (1 .. n) /\ T \in SUBSET (1 .. n)
  BY ParamsTyped DEF IidsOf, VoidSet
<1>2. \A v \in V : v - 1 \in T
  BY SetsOfPositions
<1>3. i \in V
  OBVIOUS
<1>4. IidsPrecedeVoids(m) => \A t \in T : t + 1 \in V
  BY DEF IidsPrecedeVoids, IidsOf, VoidSet
<1>5. Ordered(V, Positions(m, IsVoidOutput)) /\ Ordered(T, ClientRiids(m))
  BY ListsInOrder
<1> HIDE DEF n, V, T
<1>6. \A v \in A : v \in Int /\ v - 1 \in B
  BY <1>1, <1>2, <1>3
<1>7. f \in Injection(A, B)
  <2>1. f \in [A -> B]
    BY <1>6
  <2>2. \A x, y \in A : f[x] = f[y] => x = y
    BY <1>6
  <2> HIDE DEF f, A, B
  <2> QED
    BY <2>1, <2>2 DEF Injection, IsInjective
<1>8. IsFiniteSet(A) /\ IsFiniteSet(B) /\ IsFiniteSet(T)
      /\ Cardinality(A) \in Nat /\ Cardinality(B) \in Nat /\ Cardinality(T) \in Nat
      /\ Cardinality(B) <= Cardinality(T)
  <2>1. A \in SUBSET (1 .. n) /\ B \in SUBSET (1 .. n) /\ B \in SUBSET T
    BY <1>1
  <2> HIDE DEF A, B
  <2> QED
    BY <1>1, <2>1, PositionsFinite, FS_Subset
<1>9. Cardinality(A) <= Cardinality(B)
      /\ (f \in Surjection(A, B) => Cardinality(A) = Cardinality(B))
  <2> HIDE DEF A, B, f
  <2> QED
    BY <1>7, <1>8, FS_Injection
<1>10. Rank(V, i) = Cardinality(A) /\ Rank(T, i - 1) = Cardinality(B)
  BY DEF Rank
<1>11. Cardinality(A) # 0
  <2>1. i \in A
    BY <1>1, <1>3
  <2> HIDE DEF A
  <2> QED
    BY <1>8, <2>1, FS_EmptySet
<1>12. Rank(V, i) \in DOMAIN ClientRiids(m)
  <2>1. DOMAIN ClientRiids(m) = 1 .. Cardinality(T)
    BY <1>5 DEF Ordered
  <2> HIDE DEF A, B
  <2> QED
    BY <1>8, <1>9, <1>10, <1>11, <2>1
<1>13. ASSUME IidsPrecedeVoids(m) PROVE ClientRiids(m)[Rank(V, i)] = i - 1
  <2>1. \A t \in B : t + 1 \in A /\ f[t + 1] = t
    BY <1>1, <1>3, <1>4, <1>13
  <2>2. f \in Surjection(A, B)
    <3>1. f \in [A -> B]
      BY <1>7 DEF Injection
    <3> HIDE DEF f, A, B
    <3> QED
      BY <2>1, <3>1 DEF Surjection
  <2>3. Rank(V, i) = Rank(T, i - 1)
    BY <1>9, <1>10, <2>2, Zenon
  <2>4. i - 1 \in T
    BY <1>2, <1>3
  <2> QED
    BY <1>5, <2>3, <2>4, Zenon DEF Ordered
<1> QED
  BY <1>12, <1>13 DEF V

(* The register pass pairs them as the thunk does.                         *)
LEMMA RiidExprsPairs ==
  ASSUME NEW m \in Methods, NEW i \in VoidSet(m)
  PROVE  /\ i \in DOMAIN RiidExprs(m)
         /\ RiidExprs(m)[i] = ClientRiids(m)[Rank(VoidSet(m), i)]
<1> DEFINE riids == Positions(m, LAMBDA p : p.input /\ p.type = "IID" /\ p.ind <= 1)
           outs == Positions(m, IsVoidOutput)
           paired == {k \in DOMAIN outs : k \in DOMAIN riids}
           r == Rank(VoidSet(m), i)
<1>1. RiidExprs(m) = [o \in {outs[k] : k \in paired} |->
                        riids[CHOOSE k \in paired : outs[k] = o]]
  BY DEF RiidExprs
<1>2. riids = ClientRiids(m) /\ Ordered(VoidSet(m), outs)
  BY ListsInOrder
<1>3. r \in DOMAIN ClientRiids(m)
  BY VoidsHaveIids
<1> HIDE DEF riids, outs, r
<1>4. r \in DOMAIN outs /\ outs[r] = i
  BY <1>2 DEF Ordered, r
<1>5. \A k \in DOMAIN outs : outs[k] = i => k = r
  BY <1>2 DEF Ordered, r
<1>6. r \in paired
  BY <1>2, <1>3, <1>4
<1>7. (CHOOSE k \in paired : outs[k] = i) = r
  BY <1>4, <1>5, <1>6
<1>8. i \in {outs[k] : k \in paired}
  BY <1>4, <1>6
<1> HIDE DEF paired
<1>9. i \in DOMAIN RiidExprs(m) /\ RiidExprs(m)[i] = riids[r]
  BY <1>1, <1>7, <1>8
<1> QED
  BY <1>2, <1>9 DEF r

(* The thunk's outputs are the codec's, in the codec's order.              *)
LEMMA ClientOutputsAreOuts ==
  ASSUME NEW m \in Methods
  PROVE  /\ DOMAIN ClientOutputs(m) = DOMAIN Outs(m)
         /\ \A k \in DOMAIN Outs(m) :
              ClientOutputs(m)[k]
                = [pos |-> Outs(m)[k],
                   nth |-> IF Outs(m)[k] \in VoidSet(m)
                           THEN Rank(VoidSet(m), Outs(m)[k]) ELSE 0]
<1> DEFINE outs == {i \in DOMAIN m.params :
                      LET p == m.params[i] IN p.output /\ p.com /\ p.ind >= 1}
           voids == {o \in outs : m.params[o].type = "void"}
           Nth(i) == IF i \in voids THEN Rank(voids, i) ELSE 0
           named == InOrder({i \in outs : Nth(i) <= Len(ClientRiids(m))})
<1>1. ClientOutputs(m) = [k \in DOMAIN named |-> [pos |-> named[k], nth |-> Nth(named[k])]]
  BY DEF ClientOutputs
<1>2. outs = OutSet(m)
  BY SetsOfPositions
<1>3. voids = VoidSet(m)
  <2> HIDE DEF outs
  <2> QED
    BY <1>2, SetsOfPositions
<1> HIDE DEF outs, voids
<1>4. ASSUME NEW i \in outs PROVE Nth(i) <= Len(ClientRiids(m))
  <2>1. Len(ClientRiids(m)) = Cardinality(IidsOf(m)) /\ Cardinality(IidsOf(m)) \in Nat
        /\ DOMAIN ClientRiids(m) = 1 .. Cardinality(IidsOf(m))
    BY ListsInOrder DEF Ordered
  <2>2. CASE i \in voids
    <3>1. Rank(voids, i) \in DOMAIN ClientRiids(m)
      BY <1>3, <2>2, VoidsHaveIids
    <3> QED
      BY <2>1, <2>2, <3>1
  <2> QED
    BY <2>1, <2>2
<1>5. {i \in outs : Nth(i) <= Len(ClientRiids(m))} = outs
  BY <1>4, Zenon
<1>6. named = Outs(m)
  BY <1>2, <1>5, ListsInOrder, Zenon
<1> QED
  BY <1>1, <1>3, <1>6

-----------------------------------------------------------------------------
(* Slots *)

SlotsOf(m, nulls) == UNION {Range(SlotsAt(m, i, nulls)) : i \in Range(Outs(m))}

LEMMA OutsRange ==
  ASSUME NEW m \in Methods
  PROVE  /\ Range(Outs(m)) = OutSet(m)
         /\ \A k \in DOMAIN Outs(m) : Outs(m)[k] \in OutSet(m)
         /\ Outs(m) = <<>> <=> OutSet(m) = {}
<1>1. Ordered(OutSet(m), Outs(m))
  BY ListsInOrder
<1>2. /\ \A k \in DOMAIN Outs(m) : Outs(m)[k] \in OutSet(m)
      /\ \A i \in OutSet(m) : \E k \in DOMAIN Outs(m) : Outs(m)[k] = i
  BY <1>1 DEF Ordered
<1>3. Range(Outs(m)) = OutSet(m)
  BY <1>2 DEF Range
<1>4. Outs(m) = <<>> <=> OutSet(m) = {}
  <2>1. Outs(m) = <<>> => DOMAIN Outs(m) = {}
    OBVIOUS
  <2>2. ASSUME OutSet(m) = {} PROVE Outs(m) = <<>>
    <3>1. Cardinality(OutSet(m)) = 0
      BY <2>2, FS_EmptySet, Zenon
    <3>2. Outs(m) = [k \in 1 .. 0 |-> CHOOSE i \in OutSet(m) : Rank(OutSet(m), i) = k]
      BY <3>1, ListsInOrder DEF InOrder
    <3> QED
      BY <3>2
  <2> QED
    BY <1>2, <2>1, <2>2
<1> QED
  BY <1>2, <1>3, <1>4

LEMMA OutSetType ==
  ASSUME NEW m \in Methods, NEW i \in OutSet(m)
  PROVE  /\ i \in Nat \ {0} /\ m.params[i] \in Param
         /\ m.params[i].type # "none" /\ m.params[i].type # "IID"
<1>1. i \in Nat \ {0} /\ m.params[i] \in Param
  BY ParamsTyped DEF OutSet
<1>2. m.params[i].type \in Interfaces \cup {"void", "IID", "UINT"}
  BY <1>1 DEF Param
<1>3. m.params[i].type # "none"
  BY <1>2, NamesType
<1>4. m.params[i].type # "IID"
  <2>1. i \in DOMAIN m.params /\ m.params[i].output
    BY DEF OutSet, IsOutputComHandle
  <2> QED
    BY <2>1, ParamsAreUsual, Zenon
<1> QED
  BY <1>1, <1>3, <1>4

LEMMA SlotsOfType ==
  ASSUME NEW m \in Methods, NEW nulls, NEW s \in SlotsOf(m, nulls)
  PROVE  /\ s[1] \in OutSet(m) /\ s[1] \notin nulls
         /\ s # <<0, 0>>
         /\ m.params[s[1]].count = 0 => s = <<s[1], 1>>
         /\ \E k \in DOMAIN SlotsAt(m, s[1], nulls) : SlotsAt(m, s[1], nulls)[k] = s
<1>1. PICK i \in OutSet(m) : s \in Range(SlotsAt(m, i, nulls))
  BY OutsRange DEF SlotsOf
<1>2. i \notin nulls
  <2>1. Range(<<>>) = {}
    BY DEF Range
  <2> QED
    BY <1>1, <2>1, Zenon DEF SlotsAt
<1>3. SlotsAt(m, i, nulls)
        = [k \in 1 .. (IF m.params[i].count # 0 THEN Cap ELSE 1) |-> <<i, k>>]
  BY <1>2, Zenon DEF SlotsAt
<1>4. PICK k \in DOMAIN SlotsAt(m, i, nulls) : s = SlotsAt(m, i, nulls)[k]
  BY <1>1, Zenon DEF Range
<1>5. s = <<i, k>>
  BY <1>3, <1>4
<1>6. s[1] = i
  BY <1>5
<1>7. i # 0
  BY OutSetType
<1>8. m.params[i].count = 0 => k = 1
  <2>1. k \in 1 .. (IF m.params[i].count # 0 THEN Cap ELSE 1)
    BY <1>3, <1>4
  <2> QED
    BY <2>1
<1>9. m.params[s[1]].count = 0 => s = <<s[1], 1>>
  BY <1>5, <1>6, <1>8, Zenon
<1>10. s # <<0, 0>>
  BY <1>5, <1>7
<1> QED
  BY <1>2, <1>4, <1>6, <1>9, <1>10, Zenon

LEMMA FirstSlot ==
  ASSUME NEW m \in Methods, NEW nulls, NEW i \in OutSet(m), i \notin nulls
  PROVE  <<i, 1>> \in SlotsOf(m, nulls)
<1>1. SlotsAt(m, i, nulls)
        = [k \in 1 .. (IF m.params[i].count # 0 THEN Cap ELSE 1) |-> <<i, k>>]
  BY Zenon DEF SlotsAt
<1>2. 1 \in 1 .. (IF m.params[i].count # 0 THEN Cap ELSE 1)
  BY BoundsType
<1>3. <<i, 1>> \in Range(SlotsAt(m, i, nulls))
  BY <1>1, <1>2 DEF Range
<1>4. i \in Range(Outs(m))
  BY OutsRange
<1> QED
  BY <1>3, <1>4 DEF SlotsOf

-----------------------------------------------------------------------------
(* References *)

LEMMA RefSlotsSeq ==
  ASSUME NEW m, NEW i \in Nat, NEW nulls
  PROVE  RefSlotsAt(m, i, nulls) \in Seq(Nat \X Nat)
<1> DEFINE S == Nat \X Nat
<1>1. << <<i, 1>> >> \in Seq(S) /\ <<>> \in Seq(S)
  OBVIOUS
<1>2. ASSUME NEW n \in Nat PROVE [k \in 1 .. n |-> <<i, k>>] \in Seq(S)
  OBVIOUS
<1>3. (IF m.params[i].count # 0 THEN Cap ELSE 1) \in Nat
  BY BoundsType
<1> HIDE DEF S
<1>4. SlotsAt(m, i, nulls) \in Seq(S)
  <2>1. [k \in 1 .. (IF m.params[i].count # 0 THEN Cap ELSE 1) |-> <<i, k>>] \in Seq(S)
    BY <1>2, <1>3, Zenon
  <2> QED
    BY <1>1, <2>1, Zenon DEF SlotsAt
<1>5. RefSlotsAt(m, i, nulls) \in Seq(S)
  BY <1>1, <1>4, Zenon DEF RefSlotsAt
<1> QED
  BY <1>5 DEF S

(* Every slot has its reference.                                           *)
LEMMA RefsComplete ==
  ASSUME NEW m \in Methods, NEW nulls, NEW s \in SlotsOf(m, nulls)
  PROVE  \E x \in DOMAIN HostRefSlots(m, nulls) : HostRefSlots(m, nulls)[x] = s
<1> DEFINE F == [i \in DOMAIN m.params |-> RefSlotsAt(m, i, nulls)]
           c == Cardinality(OutSet(m))
           e == [k \in DOMAIN Outs(m) |-> F[Outs(m)[k]]]
<1>1. Ordered(OutSet(m), Outs(m))
  BY ListsInOrder
<1>2. c \in Nat /\ DOMAIN Outs(m) = 1 .. c
  BY <1>1 DEF Ordered
<1>3. \A k \in 1 .. c : Outs(m)[k] \in DOMAIN m.params /\ Outs(m)[k] \in Nat
  BY <1>2, OutsRange, OutSetType DEF OutSet
<1>4. \A k \in 1 .. c : e[k] = RefSlotsAt(m, Outs(m)[k], nulls)
  BY <1>2, <1>3
<1>5. e \in [1 .. c -> Seq(Nat \X Nat)]
  <2>1. ASSUME NEW k \in 1 .. c PROVE e[k] \in Seq(Nat \X Nat)
    <3>1. RefSlotsAt(m, Outs(m)[k], nulls) \in Seq(Nat \X Nat)
      BY <1>3, RefSlotsSeq, Zenon
    <3> QED
      BY <1>4, <3>1, Zenon
  <2>2. e = [k \in 1 .. c |-> e[k]]
    BY <1>2
  <2> HIDE DEF e
  <2> QED
    BY <2>1, <2>2
<1>6. HostRefSlots(m, nulls) = FlattenSeq(e)
  BY DEF HostRefSlots, FlattenedOver
<1>7. PICK k \in 1 .. c : Outs(m)[k] = s[1]
  <2>1. s[1] \in OutSet(m)
    BY SlotsOfType
  <2> QED
    BY <1>1, <2>1 DEF Ordered
<1>8. \E j \in DOMAIN e[k] : e[k][j] = s
  <2>1. CASE m.params[s[1]].count = 0
    <3>1. RefSlotsAt(m, s[1], nulls) = << <<s[1], 1>> >>
      BY <2>1, Zenon DEF RefSlotsAt
    <3>2. s = <<s[1], 1>>
      BY <2>1, SlotsOfType, Zenon
    <3>3. e[k] = << s >>
      BY <1>4, <1>7, <3>1, <3>2, Zenon
    <3> HIDE DEF e
    <3> QED
      BY <3>3
  <2>2. CASE m.params[s[1]].count # 0
    <3>1. RefSlotsAt(m, s[1], nulls) = SlotsAt(m, s[1], nulls)
      BY <2>2, Zenon DEF RefSlotsAt
    <3>2. e[k] = SlotsAt(m, s[1], nulls)
      BY <1>4, <1>7, <3>1, Zenon
    <3>3. PICK j \in DOMAIN SlotsAt(m, s[1], nulls) : SlotsAt(m, s[1], nulls)[j] = s
      <4>1. \E k1 \in DOMAIN SlotsAt(m, s[1], nulls) : SlotsAt(m, s[1], nulls)[k1] = s
        BY SlotsOfType
      <4> QED
        BY <4>1, Zenon
    <3> HIDE DEF e
    <3> QED
      BY <3>2, <3>3
  <2> QED
    BY <2>1, <2>2
<1>9. PICK j \in DOMAIN e[k] : e[k][j] = s
  BY <1>8
<1> HIDE DEF e, c
<1>10. \E x \in DOMAIN FlattenSeq(e) : FlattenSeq(e)[x] = e[k][j]
  <2>1. KeepsAll(FlattenSeq(e), e)
    BY <1>2, <1>5, FlattenComplete, Zenon
  <2>2. k \in DOMAIN e
    BY <1>5
  <2> QED
    BY <2>1, <2>2, <1>9, Zenon DEF KeepsAll
<1> QED
  BY <1>6, <1>9, <1>10, Zenon

(* The thunk takes the references in the order of the reply.               *)
LEMMA RefsInStep ==
  ASSUME NEW m \in Methods, NEW nulls
  PROVE  ThunkRefSlots(m, nulls) = HostRefSlots(m, nulls)
<1>1. DOMAIN ClientOutputs(m) = DOMAIN Outs(m)
  BY ClientOutputsAreOuts, Zenon
<1>2. ASSUME NEW k \in DOMAIN Outs(m) PROVE ClientOutputs(m)[k].pos = Outs(m)[k]
  <2>1. ClientOutputs(m)[k]
          = [pos |-> Outs(m)[k],
             nth |-> IF Outs(m)[k] \in VoidSet(m)
                     THEN Rank(VoidSet(m), Outs(m)[k]) ELSE 0]
    BY ClientOutputsAreOuts, Zenon
  <2> QED
    BY <2>1
<1>3. [k \in DOMAIN ClientOutputs(m) |-> ClientOutputs(m)[k].pos]
        = [k \in DOMAIN Outs(m) |-> Outs(m)[k]]
  BY <1>1, <1>2
<1>4. Outs(m) = [k \in DOMAIN Outs(m) |-> Outs(m)[k]]
  BY DEF Outs, Positions, InOrder
<1> QED
  BY <1>3, <1>4, Zenon DEF ThunkRefSlots, HostRefSlots

-----------------------------------------------------------------------------
(* What the registry accepts *)

LEMMA CanonicalWaits ==
  ASSUME NEW m \in Methods, MethodIsCanonical(m)
  PROVE  MethodAlwaysSync(m) /\ OutSet(m) # {}
<1>1. Outs(m) # <<>>
  BY DEF MethodIsCanonical, MethodCanonical
<1> QED
  BY <1>1, OutsRange, Zenon DEF MethodAlwaysSync

LEMMA PlainIsFresh ==
  ASSUME NEW m \in Methods, Honest(m), ~MethodIsCanonical(m), OutSet(m) # {}
  PROVE  m.fresh
<1>1. Outs(m) # <<>>
  BY OutsRange, Zenon
<1>2. m.canonical \in {"none", "true", "false", "memo"}
  BY MethodsType DEF Method
<1>3. CASE m.function
  BY <1>3, Zenon DEF Honest
<1>4. CASE ~m.function /\ m.canonical = "none"
  <2>1. MethodCanonical(m) = CanonicalDefault(m)
    BY <1>1, <1>4 DEF MethodCanonical
  <2>2. m.create
    BY <2>1 DEF MethodIsCanonical, CanonicalDefault
  <2> QED
    BY <1>4, <2>2, Zenon DEF Honest
<1>5. CASE ~m.function /\ m.canonical # "none"
  <2>1. MethodCanonical(m) = m.canonical
    BY <1>1, <1>5 DEF MethodCanonical
  <2>2. m.canonical = "false"
    BY <1>2, <1>5, <2>1 DEF MethodIsCanonical
  <2> QED
    BY <2>2, Zenon DEF Honest
<1> QED
  BY <1>3, <1>4, <1>5

(* A memoised getter has one output, no input but its REFIID, and makes no *)
(* object.                                                                 *)
MemoShape(m) ==
  /\ DOMAIN Outs(m) = {1}
  /\ OutSet(m) = {Outs(m)[1]} /\ m.params[Outs(m)[1]].count = 0
  /\ ~\E i \in DOMAIN m.params : m.params[i].input /\ m.params[i].type = "UINT"
  /\ \A i \in DOMAIN m.params : m.params[i].output => IsOutputComHandle(m.params[i])
  /\ m.ret \in {"void", "HRESULT"}
  /\ IidsPrecedeVoids(m)
  /\ m.fresh = FALSE

LEMMA MemoHasShape ==
  ASSUME NEW m \in Methods, Accepted(m), Honest(m), MethodCanonical(m) = "memo"
  PROVE  MemoShape(m)
<1>1. ValidatesMemo(m)
  BY Zenon DEF Accepted, ValidateCanonical
<1>2. m.canonical = "memo"
  BY DEF MethodCanonical, CanonicalDefault
<1>3. IidsPrecedeVoids(m)
  BY <1>2, MemosArePaired
<1>4. m.fresh = FALSE
  <2>1. m.fresh \in BOOLEAN
    BY MethodsType DEF Method
  <2> QED
    BY <1>2, <2>1, Zenon DEF Honest
<1>5. Len(Outs(m)) = 1 /\ m.params[Outs(m)[1]].count = 0
  BY <1>1, Zenon DEF ValidatesMemo
<1>6. Ordered(OutSet(m), Outs(m)) /\ Cardinality(OutSet(m)) = 1
  BY <1>5, ListsInOrder
<1>7. DOMAIN Outs(m) = {1}
  BY <1>6 DEF Ordered
<1>8. OutSet(m) = {Outs(m)[1]}
  BY <1>6, <1>7 DEF Ordered
<1>9. /\ m.ret \in {"void", "HRESULT"}
      /\ \A i \in DOMAIN m.params :
           /\ m.params[i].output => IsOutputComHandle(m.params[i])
           /\ m.params[i].input => m.params[i].type = "IID"
  BY <1>1, Zenon DEF ValidatesMemo
<1>10. "IID" # "UINT"
  OBVIOUS
<1> QED
  BY <1>3, <1>4, <1>5, <1>7, <1>8, <1>9, <1>10, Zenon DEF MemoShape

-----------------------------------------------------------------------------
(* Interfaces *)

(* The interface of output i, by both sides' pairing.                      *)
TypeFor(i) ==
  IF i \in VoidSet(method)
  THEN call.iids[ClientRiids(method)[Rank(VoidSet(method), i)]]
  ELSE method.params[i].type

LEMMA VoidTypes ==
  ASSUME NEW m \in Methods, NEW i \in OutSet(m)
  PROVE  i \in VoidSet(m) <=> m.params[i].type = "void"
  BY SetsOfPositions, Zenon

LEMMA HostTypes ==
  ASSUME method \in Methods, NEW i \in OutSet(method)
  PROVE  HostType(i) = TypeFor(i)
<1>1. CASE i \in VoidSet(method)
  <2>1. i \in DOMAIN RiidExprs(method)
        /\ RiidExprs(method)[i] = ClientRiids(method)[Rank(VoidSet(method), i)]
    BY <1>1, RiidExprsPairs, Zenon
  <2>2. method.params[i].type = "void"
    BY <1>1, VoidTypes, Zenon
  <2> QED
    BY <1>1, <2>1, <2>2, Zenon DEF HostType, TypeFor
<1>2. CASE i \notin VoidSet(method)
  <2>1. method.params[i].type # "void"
    BY <1>2, VoidTypes, Zenon
  <2> QED
    BY <1>2, <2>1, Zenon DEF HostType, TypeFor
<1> QED
  BY <1>1, <1>2

(* The thunk's record of output i.                                         *)
ClientOutput(m, i) ==
  [pos |-> i, nth |-> IF i \in VoidSet(m) THEN Rank(VoidSet(m), i) ELSE 0]

LEMMA ClientOutputAt ==
  ASSUME NEW m \in Methods
  PROVE  /\ \A i \in OutSet(m) : ClientOutput(m, i) \in Range(ClientOutputs(m))
         /\ \A o \in Range(ClientOutputs(m)) :
              o.pos \in OutSet(m) /\ o = ClientOutput(m, o.pos)
<1>1. \A k \in DOMAIN Outs(m) : ClientOutputs(m)[k] = ClientOutput(m, Outs(m)[k])
  BY ClientOutputsAreOuts, Zenon DEF ClientOutput
<1>2. DOMAIN ClientOutputs(m) = DOMAIN Outs(m)
  BY ClientOutputsAreOuts, Zenon
<1>3. \A i : ClientOutput(m, i).pos = i
  BY DEF ClientOutput
<1>4. ASSUME NEW i \in OutSet(m) PROVE ClientOutput(m, i) \in Range(ClientOutputs(m))
  <2>0. i \in Range(Outs(m))
    BY OutsRange, Zenon
  <2>1. PICK k \in DOMAIN Outs(m) : Outs(m)[k] = i
    BY <2>0, Zenon DEF Range
  <2>2. ClientOutputs(m)[k] = ClientOutput(m, i)
    BY <1>1, <2>1, Zenon
  <2> QED
    BY <1>2, <2>2, Zenon DEF Range
<1>5. ASSUME NEW o \in Range(ClientOutputs(m))
      PROVE  o.pos \in OutSet(m) /\ o = ClientOutput(m, o.pos)
  <2>1. PICK k \in DOMAIN ClientOutputs(m) : ClientOutputs(m)[k] = o
    BY Zenon DEF Range
  <2>2. o = ClientOutput(m, Outs(m)[k]) /\ Outs(m)[k] \in OutSet(m)
    BY <1>1, <1>2, <2>1, OutsRange, Zenon
  <2> QED
    BY <1>3, <2>2, Zenon
<1> QED
  BY <1>4, <1>5

LEMMA ClientTypes ==
  ASSUME method \in Methods, NEW i \in OutSet(method)
  PROVE  ClientTypeAt(i) = TypeFor(i)
<1> DEFINE o == CHOOSE o \in Range(ClientOutputs(method)) : o.pos = i
<1>1. ClientOutput(method, i).pos = i
      /\ ClientOutput(method, i).nth = IF i \in VoidSet(method)
                                       THEN Rank(VoidSet(method), i) ELSE 0
  BY DEF ClientOutput
<1>2. o \in Range(ClientOutputs(method)) /\ o.pos = i
  BY <1>1, ClientOutputAt, Zenon
<1>3. o = ClientOutput(method, i)
  BY <1>2, ClientOutputAt, Zenon
<1>4. ClientTypeAt(i) = ClientType(ClientOutput(method, i))
  BY <1>3, Zenon DEF ClientTypeAt
<1>5. CASE i \in VoidSet(method)
  <2>1. Rank(VoidSet(method), i) # 0
    <3>1. Rank(VoidSet(method), i) \in DOMAIN ClientRiids(method)
      BY <1>5, VoidsHaveIids, Zenon
    <3>2. DOMAIN ClientRiids(method) = 1 .. Cardinality(IidsOf(method))
      BY ListsInOrder, Zenon DEF Ordered
    <3> QED
      BY <3>1, <3>2
  <2> QED
    BY <1>1, <1>4, <1>5, <2>1, Zenon DEF ClientType, TypeFor
<1>6. CASE i \notin VoidSet(method)
  BY <1>1, <1>4, <1>6, Zenon DEF ClientType, TypeFor
<1> QED
  BY <1>5, <1>6

LEMMA TypeForNamed ==
  ASSUME method \in Methods, NEW i \in OutSet(method),
         call.iids \in [IidsOf(method) -> Iids]
  PROVE  TypeFor(i) # "none"
<1>1. CASE i \in VoidSet(method)
  <2>1. Rank(VoidSet(method), i) \in DOMAIN ClientRiids(method)
    BY <1>1, VoidsHaveIids, Zenon
  <2>2. ClientRiids(method)[Rank(VoidSet(method), i)] \in IidsOf(method)
    BY <2>1, ListsInOrder DEF Ordered
  <2>3. TypeFor(i) \in Iids
    BY <1>1, <2>2 DEF TypeFor
  <2> QED
    BY <2>3, NamesType
<1>2. CASE i \notin VoidSet(method)
  BY <1>2, OutSetType DEF TypeFor
<1> QED
  BY <1>1, <1>2

(* With every IID in its place, it is the interface the caller asked for.  *)
LEMMA TypeForAsked ==
  ASSUME method \in Methods, IidsPrecedeVoids(method),
         NEW s, s[1] \in OutSet(method)
  PROVE  TypeFor(s[1]) = Asked(s)
<1>1. CASE s[1] \in VoidSet(method)
  <2>1. ClientRiids(method)[Rank(VoidSet(method), s[1])] = s[1] - 1
    BY <1>1, VoidsHaveIids, Zenon
  <2>2. method.params[s[1]].type = "void"
    BY <1>1, VoidTypes, Zenon
  <2> QED
    BY <1>1, <2>1, <2>2, Zenon DEF TypeFor, Asked
<1>2. CASE s[1] \notin VoidSet(method)
  <2>1. method.params[s[1]].type # "void"
    BY <1>2, VoidTypes, Zenon
  <2> QED
    BY <1>2, <2>1, Zenon DEF TypeFor, Asked
<1> QED
  BY <1>1, <1>2

-----------------------------------------------------------------------------
(* The inductive invariant *)

Canonical == MethodIsCanonical(method)

(* The command of the last call has not run.                               *)
Pending == ring # "none"

Typed(c) ==
  c \in [n : {c.n}, data : Data, iids : [IidsOf(method) -> Iids],
         nulls : SUBSET Range(Outs(method))]

MethodInv == method \in Methods /\ Accepted(method) /\ Honest(method)

CallInv ==
  /\ call.n \in Nat
  /\ call.n = 0 => /\ thread = "back" /\ ring = "none" /\ answer = <<>>
                   /\ held = <<>> /\ wrappers = <<>> /\ table = <<>> /\ memo = <<>>
  /\ call.n > 0 => Typed(call) /\ Fits(call)

PhaseInv ==
  /\ thread \in {"back", "waiting", "wrapping"}
  /\ ring \in {"none", "staged", "queued"}
  /\ learned \in BOOLEAN
  /\ ring = "staged" => Slots = {}
  /\ thread = "wrapping" => ~MethodAlwaysSync(method) /\ ~ValidateOnly(call)
  /\ thread # "back" => held = <<>>
  /\ Pending => answer = <<>>
  /\ ~Pending /\ thread # "back" => answer # <<>>
  /\ Pending /\ thread = "back" => ~Canonical

(* What the host put in the slots.                                         *)
AnswerInv ==
  answer # <<>> =>
    /\ answer.failed \in BOOLEAN
    /\ \A s \in Slots : answer.objs[s] \in {Null, ObjectOf(s)}
    /\ answer.failed => \A s \in Slots : answer.objs[s] = Null

(* An id was minted for the slot its object was answered in.               *)
TableInv ==
  /\ \A id \in DOMAIN table :
       /\ id = [n |-> id.n, slot |-> id.slot]
       /\ id.n \in 1 .. call.n
       /\ Pending => id.n # call.n
       /\ id.slot[1] \in OutSet(method)
       /\ table[id].obj # Failed =>
            /\ table[id].obj.slot = id.slot
            /\ method.fresh => table[id].obj.n = id.n
       /\ Canonical => table[id].obj # Failed
  /\ Canonical => \A i, j \in DOMAIN table : table[i].obj = table[j].obj => i = j

(* A plain method has registered what was answered, or a failure.          *)
PlainInv ==
  ~Canonical /\ ~Pending /\ answer # <<>> =>
    \A s \in Slots : Minted(s) \in DOMAIN table
                     /\ table[Minted(s)].obj \in {Failed, ObjectOf(s)}

(* A canonical reply has the id of the object of every slot, in order.     *)
RefOK(s, id) ==
  IF s \in Slots /\ answer.objs[s] # Null
  THEN id \in DOMAIN table /\ table[id].obj = answer.objs[s]
  ELSE id = NoId

RefsInv ==
  Canonical /\ thread = "waiting" /\ ~Pending =>
    /\ DOMAIN refs = DOMAIN HostRefSlots(method, call.nulls)
    /\ \A k \in DOMAIN refs : RefOK(HostRefSlots(method, call.nulls)[k], refs[k])

WrapperInv ==
  \A id \in DOMAIN wrappers :
    /\ thread # "back" => id.n # call.n
    /\ id \notin DOMAIN table => /\ ring = "queued" /\ thread = "back"
                                 /\ id \in {Minted(s) : s \in Slots}

HeldInv ==
  /\ DOMAIN held \subseteq Slots
  /\ \A s \in DOMAIN held :
       /\ held[s] \in DOMAIN wrappers
       /\ Registry(held[s]) => table[held[s]].obj = ObjectOf(s)
       /\ held[s] \notin DOMAIN table => held[s] = Minted(s)
  /\ Pending /\ thread = "back" =>
       \A s \in Slots : s \in DOMAIN held /\ held[s] = Minted(s)

(* The object of a memoised getter's only slot, under a key.               *)
KeyObject(key) ==
  LET first == Outs(method)[1] IN
  [slot |-> <<first, 1>>, data |-> CHOOSE d \in Data : TRUE, n |-> 0,
   iid |-> IF method.params[first].type = "void" THEN key
           ELSE method.params[first].type]

MemoInv ==
  \A key \in DOMAIN memo :
    /\ MethodCanonical(method) = "memo"
    /\ memo[key] \in DOMAIN wrappers /\ memo[key] \in DOMAIN table
    /\ table[memo[key]].obj = KeyObject(key)

(* What the caller's thread was told, when it is back.                     *)
ToldInv ==
  thread = "back" =>
    /\ answer # <<>> /\ ~answer.failed =>
         \A s \in Slots :
           /\ answer.objs[s] # Null => s \in DOMAIN held
           /\ Canonical /\ answer.objs[s] = Null => s \notin DOMAIN held
    /\ call.n > 0 /\ ~Pending /\ answer = <<>> =>
         \A s \in Slots : s \in DOMAIN held /\ held[s] \in DOMAIN table
                          /\ table[held[s]].obj = ObjectOf(s)
    /\ ~learned =>
         /\ ~MethodAlwaysSync(method)
         /\ method.ret = "HRESULT" /\ Outs(method) # <<>> => DOMAIN held # {}

IInv ==
  /\ MethodInv /\ CallInv /\ PhaseInv /\ AnswerInv /\ TableInv
  /\ PlainInv /\ RefsInv /\ WrapperInv /\ HeldInv /\ MemoInv /\ ToldInv

(* With every IID in its place: the interfaces of records and wrappers.    *)
RecordsNamed ==
  \A id \in DOMAIN table :
    table[id].obj # Failed => table[id].type = table[id].obj.iid
WrappersNamed ==
  \A id \in DOMAIN wrappers : Registry(id) => wrappers[id] = table[id].obj.iid
HeldNamed == \A s \in DOMAIN held : wrappers[held[s]] = Asked(s)
NamedInv == RecordsNamed /\ WrappersNamed /\ HeldNamed

-----------------------------------------------------------------------------
(* Slots and objects of the call *)

(* The method that is called stays; what depends on the call stays with it. *)
LEMMA SameMethod ==
  ASSUME method' = method
  PROVE  /\ Canonical' = Canonical
         /\ \A k : KeyObject(k)' = KeyObject(k)
         /\ \A c : Fits(c)' = Fits(c) /\ MemoKey(c)' = MemoKey(c)
                   /\ ValidateOnly(c)' = ValidateOnly(c)
  BY Zenon DEF Canonical, KeyObject, Fits, MemoKey, ValidateOnly

LEMMA SameCall ==
  ASSUME method' = method, call' = call
  PROVE  /\ Slots' = Slots
         /\ \A s : /\ ObjectOf(s)' = ObjectOf(s) /\ Minted(s)' = Minted(s)
                   /\ Asked(s)' = Asked(s)
  BY Zenon DEF Slots, ObjectOf, Minted, Asked

(* What holds of the object in a slot.                                     *)
Distinct(s) ==
  /\ ObjectOf(s) # Null /\ ObjectOf(s) # Failed
  /\ ObjectOf(s).slot = s /\ ObjectOf(s).iid = Asked(s)
  /\ method.fresh => ObjectOf(s).n = call.n

LEMMA SlotFacts ==
  ASSUME method \in Methods
  PROVE  /\ Slots = SlotsOf(method, call.nulls)
         /\ Wrapped = Slots
         /\ \A s \in Slots : s[1] \in OutSet(method) /\ Distinct(s)
         /\ Typed(call) => Registered = Slots
<1>1. Slots = SlotsOf(method, call.nulls)
  BY Zenon DEF Slots, SlotsOf
<1>2. \A s \in Slots : s[1] \in OutSet(method) /\ s # <<0, 0>>
  BY <1>1, SlotsOfType, Zenon
<1>3. ASSUME NEW s \in Slots PROVE Distinct(s)
  <2>1. /\ ObjectOf(s).slot = s /\ ObjectOf(s).iid = Asked(s)
        /\ method.fresh => ObjectOf(s).n = call.n
    BY DEF ObjectOf
  <2>2. Null.slot = <<0, 0>> /\ Failed.slot = <<0, 0>>
    BY DEF Null, Failed
  <2> QED
    BY <1>2, <2>1, <2>2, Zenon DEF Distinct
<1>4. Wrapped = Slots
  <2>1. ASSUME NEW s \in Slots
        PROVE  \E o \in Range(ClientOutputs(method)) : o.pos = s[1]
    <3>1. ClientOutput(method, s[1]) \in Range(ClientOutputs(method))
      BY <1>2, ClientOutputAt, Zenon
    <3>2. ClientOutput(method, s[1]).pos = s[1]
      BY DEF ClientOutput
    <3> QED
      BY <3>1, <3>2
  <2> QED
    BY <2>1, Zenon DEF Wrapped
<1>5. ASSUME Typed(call) PROVE Registered = Slots
  <2>1. call.iids \in [IidsOf(method) -> Iids]
    BY <1>5 DEF Typed
  <2>2. \A s \in Slots : HostType(s[1]) # "none"
    BY <1>2, <2>1, HostTypes, TypeForNamed, Zenon
  <2> QED
    BY <2>2, Zenon DEF Registered
<1> QED
  BY <1>1, <1>2, <1>3, <1>4, <1>5

LEMMA MintedFacts ==
  /\ \A s, t : Minted(s) = Minted(t) => s = t
  /\ \A s : /\ Minted(s).n = call.n /\ Minted(s).slot = s
            /\ Minted(s) = [n |-> Minted(s).n, slot |-> Minted(s).slot]
            /\ call.n # 0 => Minted(s) # NoId
<1>1. \A s : Minted(s).n = call.n /\ Minted(s).slot = s
  BY DEF Minted
<1>2. \A s : Minted(s) = [n |-> Minted(s).n, slot |-> Minted(s).slot]
  BY <1>1, Zenon DEF Minted
<1>3. NoId.n = 0
  BY DEF NoId
<1>4. \A s, t : Minted(s) = Minted(t) => s = t
  <2> TAKE s, t
  <2> HAVE Minted(s) = Minted(t)
  <2>1. Minted(s).slot = Minted(t).slot
    OBVIOUS
  <2> QED
    BY <1>1, <2>1
<1>5. \A s : call.n # 0 => Minted(s) # NoId
  BY <1>1, <1>3
<1> QED
  BY <1>1, <1>2, <1>4, <1>5, Zenon

(* One call of a memoised getter: its slot, and what is in it.             *)
LEMMA MemoCall ==
  ASSUME method \in Methods, MemoShape(method), NEW c, Fits(c)
  PROVE  /\ ClientOutputs(method)[1].pos = Outs(method)[1]
         /\ SlotsOf(method, c.nulls) \subseteq {<<Outs(method)[1], 1>>}
         /\ Outs(method)[1] \notin c.nulls =>
              SlotsOf(method, c.nulls) = {<<Outs(method)[1], 1>>}
         /\ call = c => ObjectOf(<<Outs(method)[1], 1>>) = KeyObject(MemoKey(c))
<1> DEFINE first == Outs(method)[1]
<1>1. first \in OutSet(method) /\ OutSet(method) = {first}
      /\ method.params[first].count = 0
  BY Zenon DEF MemoShape
<1>2. ClientOutputs(method)[1] = ClientOutput(method, first)
  <2>1. 1 \in DOMAIN Outs(method)
    BY DEF MemoShape
  <2> QED
    BY <2>1, ClientOutputsAreOuts, Zenon DEF ClientOutput
<1>3. ClientOutput(method, first).pos = first
      /\ ClientOutput(method, first).nth = IF first \in VoidSet(method)
                                           THEN Rank(VoidSet(method), first) ELSE 0
  BY DEF ClientOutput
<1>4. ASSUME NEW s \in SlotsOf(method, c.nulls) PROVE s = <<first, 1>>
  <2>1. s[1] \in OutSet(method)
        /\ (method.params[s[1]].count = 0 => s = <<s[1], 1>>)
    BY SlotsOfType, Zenon
  <2>2. s[1] = first
    BY <1>1, <2>1
  <2> QED
    BY <1>1, <2>1, <2>2, Zenon
<1>5. ASSUME first \notin c.nulls PROVE <<first, 1>> \in SlotsOf(method, c.nulls)
  BY <1>1, <1>5, FirstSlot, Zenon
<1>6. c.data = CHOOSE d \in Data : TRUE
  BY DEF Fits, MemoShape
<1>7. IF first \in VoidSet(method) THEN MemoKey(c) = c.iids[first - 1]
      ELSE MemoKey(c) = "static"
  <2>1. CASE first \in VoidSet(method)
    <3>1. Rank(VoidSet(method), first) \in DOMAIN ClientRiids(method)
          /\ ClientRiids(method)[Rank(VoidSet(method), first)] = first - 1
      BY <2>1, VoidsHaveIids, Zenon DEF MemoShape
    <3>2. DOMAIN ClientRiids(method) = 1 .. Cardinality(IidsOf(method))
      BY ListsInOrder, Zenon DEF Ordered
    <3>3. Rank(VoidSet(method), first) # 0
      BY <3>1, <3>2
    <3> QED
      BY <1>2, <1>3, <2>1, <3>1, <3>3, Zenon DEF MemoKey
  <2>2. CASE first \notin VoidSet(method)
    BY <1>2, <1>3, <2>2, Zenon DEF MemoKey
  <2> QED
    BY <2>1, <2>2, Zenon
<1>8. ASSUME call = c PROVE ObjectOf(<<first, 1>>) = KeyObject(MemoKey(c))
  <2>1. first \in VoidSet(method) <=> method.params[first].type = "void"
    BY <1>1, VoidTypes, Zenon
  <2>2. <<first, 1>>[1] = first
    OBVIOUS
  <2>3. Asked(<<first, 1>>) = IF method.params[first].type = "void" THEN MemoKey(c)
                              ELSE method.params[first].type
    BY <1>7, <1>8, <2>1, <2>2, Zenon DEF Asked
  <2>4. method.fresh = FALSE
    BY DEF MemoShape
  <2>5. ObjectOf(<<first, 1>>) = [slot |-> <<first, 1>>, iid |-> Asked(<<first, 1>>),
                                  data |-> CHOOSE d \in Data : TRUE, n |-> 0]
    BY <1>6, <1>8, <2>4 DEF ObjectOf
  <2> QED
    BY <2>3, <2>5 DEF KeyObject
<1> QED
  BY <1>2, <1>3, <1>4, <1>5, <1>8

LEMMA MemoAnswer ==
  method \in Methods /\ MemoShape(method) /\ Fits(call)
    => ObjectOf(<<Outs(method)[1], 1>>) = KeyObject(MemoKey(call))
  BY MemoCall, Zenon

LEMMA MemoAnswerNext ==
  (method \in Methods /\ MemoShape(method) /\ Fits(call)
     => ObjectOf(<<Outs(method)[1], 1>>) = KeyObject(MemoKey(call)))'
  BY MemoAnswer, PTL

-----------------------------------------------------------------------------
(* The steps *)

LEMMA InitInv == Init => IInv
<1> SUFFICES ASSUME Init PROVE IInv
  OBVIOUS
<1>1. MethodInv
  BY DEF Init, MethodInv
<1>2. call.n = 0 /\ thread = "back" /\ ring = "none" /\ answer = <<>>
      /\ held = <<>> /\ wrappers = <<>> /\ table = <<>> /\ memo = <<>>
      /\ learned = TRUE
  BY DEF Init
<1>3. DOMAIN table = {} /\ DOMAIN wrappers = {} /\ DOMAIN held = {} /\ DOMAIN memo = {}
  BY <1>2
<1>4. CallInv
  BY <1>2 DEF CallInv
<1>5. ~Pending
  BY <1>2 DEF Pending
<1>6. PhaseInv
  BY <1>2, <1>5, Zenon DEF PhaseInv
<1>7. AnswerInv /\ PlainInv /\ RefsInv /\ TableInv /\ WrapperInv /\ MemoInv
  BY <1>2, <1>3, <1>5, Zenon
     DEF AnswerInv, PlainInv, RefsInv, TableInv, WrapperInv, MemoInv
<1>8. HeldInv
  BY <1>3, <1>5, Zenon DEF HeldInv
<1>9. ~(call.n > 0)
  BY <1>2
<1>10. ToldInv
  BY <1>2, <1>9, Zenon DEF ToldInv
<1> QED
  BY <1>1, <1>4, <1>6, <1>7, <1>8, <1>10, Zenon DEF IInv

(* A call that is made, and not yet answered.                              *)
LEMMA CallMade ==
  ASSUME IInv, NEW c \in Calls, Fits(c), call' = c, method' = method
  PROVE  /\ MethodInv' /\ CallInv'
         /\ call.n \in Nat /\ call'.n = call.n + 1
         /\ Slots' = SlotsOf(method, c.nulls)
<1>1. c.n = call.n + 1 /\ Typed(c)
  BY DEF Calls, Typed, IidsOf
<1>2. call.n \in Nat
  BY Zenon DEF IInv, CallInv
<1>3. MethodInv'
  BY Zenon DEF IInv, MethodInv
<1>4. Typed(call)' /\ Fits(call)'
  BY <1>1, SameMethod, Zenon DEF Typed
<1>5. call'.n = call.n + 1 /\ call'.n \in Nat /\ call'.n # 0
  BY <1>1, <1>2
<1>6. CallInv'
  BY <1>4, <1>5, Zenon DEF CallInv
<1>7. Slots' = SlotsOf(method, c.nulls)
  BY Zenon DEF Slots, SlotsOf
<1> QED
  BY <1>2, <1>3, <1>5, <1>6, <1>7, Zenon

(* Nothing is pending when a call is made: ids are older, wrappers recorded. *)
LEMMA TableAtCall ==
  ASSUME IInv, ring = "none", call.n \in Nat, call'.n = call.n + 1,
         method' = method, table' = table, wrappers' = wrappers, memo' = memo
  PROVE  /\ TableInv' /\ WrapperInv' /\ MemoInv'
         /\ \A id \in DOMAIN wrappers : id \in DOMAIN table
<1>1. ~Pending
  BY DEF Pending
<1>2. \A id \in DOMAIN table :
        /\ id = [n |-> id.n, slot |-> id.slot]
        /\ id.n \in 1 .. call.n
        /\ id.slot[1] \in OutSet(method)
        /\ table[id].obj # Failed =>
             /\ table[id].obj.slot = id.slot
             /\ method.fresh => table[id].obj.n = id.n
        /\ Canonical => table[id].obj # Failed
  BY Zenon DEF IInv, TableInv
<1>3. \A id \in DOMAIN table : id.n \in 1 .. call'.n /\ id.n # call'.n
  BY <1>2
<1>4. Canonical => \A i, j \in DOMAIN table : table[i].obj = table[j].obj => i = j
  BY Zenon DEF IInv, TableInv
<1>5. TableInv'
  <2>1. Canonical' = Canonical
    BY SameMethod, Zenon
  <2>2. \A id \in DOMAIN table' :
          /\ id = [n |-> id.n, slot |-> id.slot]
          /\ id.n \in 1 .. call'.n
          /\ Pending' => id.n # call'.n
          /\ id.slot[1] \in OutSet(method')
          /\ table'[id].obj # Failed =>
               /\ table'[id].obj.slot = id.slot
               /\ method'.fresh => table'[id].obj.n = id.n
          /\ Canonical' => table'[id].obj # Failed
    BY <1>2, <1>3, <2>1, Zenon
  <2>3. Canonical' => \A i, j \in DOMAIN table' : table'[i].obj = table'[j].obj => i = j
    BY <1>4, <2>1, Zenon
  <2> QED
    BY <2>2, <2>3, Zenon DEF TableInv
<1>6. \A id \in DOMAIN wrappers : id \in DOMAIN table
  BY Zenon DEF IInv, WrapperInv
<1>7. WrapperInv'
  BY <1>3, <1>6, Zenon DEF WrapperInv
<1>8. MemoInv'
  <2>1. MemoInv
    BY Zenon DEF IInv
  <2>2. \A k : KeyObject(k)' = KeyObject(k)
    BY SameMethod, Zenon
  <2> QED
    BY <2>1, <2>2, Zenon DEF MemoInv
<1> QED
  BY <1>5, <1>6, <1>7, <1>8, Zenon

LEMMA CallStep ==
  ASSUME IInv, Call PROVE IInv'
<1>1. PICK c \in Calls :
        /\ Fits(c) /\ ~MemoHit(c) /\ call' = c
        /\ thread' = IF MethodAlwaysSync(method) \/ ValidateOnly(c)
                     THEN "waiting" ELSE "wrapping"
        /\ ring' = IF MethodIsStaged(method) THEN "staged" ELSE "queued"
  BY Zenon DEF Call
<1>2. /\ ring = "none" /\ thread = "back"
      /\ held' = <<>> /\ learned' = FALSE /\ answer' = <<>>
      /\ method' = method /\ table' = table /\ wrappers' = wrappers /\ memo' = memo
  BY Zenon DEF Call, Idle
<1>3. /\ MethodInv' /\ CallInv' /\ call.n \in Nat /\ call'.n = call.n + 1
      /\ Slots' = SlotsOf(method, c.nulls)
  BY <1>1, <1>2, CallMade, Zenon
<1>4. TableInv' /\ WrapperInv' /\ MemoInv'
  BY <1>2, <1>3, TableAtCall, Zenon
<1>5. ring' \in {"staged", "queued"} /\ Pending'
  BY <1>1 DEF Pending
<1>6. thread' \in {"waiting", "wrapping"}
  BY <1>1
<1>7. PhaseInv'
  <2>1. ring' = "staged" => Slots' = {}
    <3> SUFFICES ASSUME ring' = "staged" PROVE Slots' = {}
      OBVIOUS
    <3>1. Outs(method) = <<>>
      BY <1>1 DEF MethodIsStaged
    <3>2. Range(Outs(method)) = {}
      BY <3>1 DEF Range
    <3> QED
      BY <1>3, <3>2, Zenon DEF SlotsOf
  <2>2. thread' = "wrapping" => ~MethodAlwaysSync(method') /\ ~ValidateOnly(call)'
    <3>1. thread' = "wrapping" => ~MethodAlwaysSync(method) /\ ~ValidateOnly(c)
      BY <1>1
    <3> QED
      BY <1>1, <1>2, <3>1, SameMethod, Zenon
  <2>3. thread' # "back" /\ ring' \in {"none", "staged", "queued"} /\ learned' \in BOOLEAN
        /\ thread' \in {"back", "waiting", "wrapping"}
    BY <1>2, <1>5, <1>6
  <2> QED
    BY <1>2, <1>5, <2>1, <2>2, <2>3, Zenon DEF PhaseInv
<1>8. thread' # "back" /\ DOMAIN held' = {}
  BY <1>2, <1>6
<1>9. AnswerInv' /\ PlainInv' /\ RefsInv' /\ HeldInv' /\ ToldInv'
  BY <1>2, <1>5, <1>8, Zenon DEF AnswerInv, PlainInv, RefsInv, HeldInv, ToldInv
<1> QED
  BY <1>3, <1>4, <1>7, <1>9, Zenon DEF IInv

LEMMA AnswerFromMemoStep ==
  ASSUME IInv, AnswerFromMemo PROVE IInv'
<1>0. PICK s : s = <<Outs(method)[1], 1>>
  OBVIOUS
<1>1. PICK c \in Calls :
        /\ Fits(c) /\ MemoHit(c) /\ call' = c
        /\ held' = [x \in {<<ClientOutputs(method)[1].pos, 1>>} |-> memo[MemoKey(c)]]
  BY Zenon DEF AnswerFromMemo
<1>2. /\ ring = "none" /\ thread = "back" /\ ring' = "none" /\ thread' = "back"
      /\ learned' = TRUE /\ answer' = <<>>
      /\ method' = method /\ table' = table /\ wrappers' = wrappers /\ memo' = memo
  BY Zenon DEF AnswerFromMemo, Idle
<1>3. /\ MethodInv' /\ CallInv' /\ call.n \in Nat /\ call'.n = call.n + 1
      /\ Slots' = SlotsOf(method, c.nulls)
  BY <1>1, <1>2, CallMade, Zenon
<1>4. TableInv' /\ WrapperInv' /\ MemoInv'
  BY <1>2, <1>3, TableAtCall, Zenon
<1>5. method \in Methods /\ MemoShape(method) /\ MemoKey(c) \in DOMAIN memo
      /\ ClientOutputs(method)[1].pos \notin c.nulls
  BY <1>1, MemoHasShape, Zenon DEF IInv, MethodInv, MemoHit
<1>6. held' = [x \in {s} |-> memo[MemoKey(c)]] /\ Slots' = {s}
  BY <1>0, <1>1, <1>3, <1>5, MemoCall, Zenon
<1> DEFINE of(x) == [slot |-> x, data |-> c.data, n |-> IF method.fresh THEN c.n ELSE 0,
                    iid |-> IF method.params[x[1]].type = "void" THEN c.iids[x[1] - 1]
                            ELSE method.params[x[1]].type]
<1>6a. \A x : ObjectOf(x)' = of(x)
  BY <1>1, <1>2, Zenon DEF ObjectOf, Asked
<1> HIDE DEF of
<1>7. of(s) = KeyObject(MemoKey(c))
  <2>1. method' \in Methods /\ MemoShape(method') /\ Fits(call)'
    BY <1>1, <1>2, <1>5, SameMethod, Zenon
  <2>2. ObjectOf(<<Outs(method)[1], 1>>)' = KeyObject(MemoKey(call))'
    BY <2>1, MemoAnswerNext, Zenon
  <2>3. KeyObject(MemoKey(call))' = KeyObject(MemoKey(c))
    BY <1>1, <1>2, Zenon DEF KeyObject, MemoKey
  <2> QED
    BY <1>0, <1>2, <1>6a, <2>2, <2>3, Zenon DEF ObjectOf, Asked
<1>8. memo[MemoKey(c)] \in DOMAIN wrappers /\ memo[MemoKey(c)] \in DOMAIN table
      /\ table[memo[MemoKey(c)]].obj = KeyObject(MemoKey(c))
  BY <1>5, Zenon DEF IInv, MemoInv
<1>9. ~Pending'
  BY <1>2 DEF Pending
<1>10. DOMAIN held' = {s} /\ held'[s] = memo[MemoKey(c)]
  BY <1>6
<1>10a. \A x \in Slots' : x = s
  BY <1>6
<1>10b. table'[held'[s]].obj = of(s)
  BY <1>2, <1>7, <1>8, <1>10, <1>6a, Zenon
<1>10c. \A x \in Slots' : /\ x \in DOMAIN held' /\ held'[x] \in DOMAIN wrappers'
                        /\ held'[x] \in DOMAIN table' /\ table'[held'[x]].obj = of(x)
  BY <1>2, <1>8, <1>10, <1>10a, <1>10b, Zenon
<1>11. HeldInv'
  <2>1. DOMAIN held' \subseteq Slots'
    BY <1>6, <1>10
  <2> QED
    BY <1>9, <1>6a, <1>10c, <2>1, Zenon DEF HeldInv
<1>12. ToldInv'
  BY <1>2, <1>6a, <1>10c, Zenon DEF ToldInv
<1>13. PhaseInv'
  <2>1. ring' # "staged" /\ thread' # "wrapping" /\ learned' \in BOOLEAN
    BY <1>2
  <2> QED
    BY <1>2, <1>9, <2>1, Zenon DEF PhaseInv
<1>14. AnswerInv' /\ PlainInv' /\ RefsInv'
  <2>1. thread' # "waiting"
    BY <1>2
  <2> QED
    BY <1>2, <2>1, Zenon DEF AnswerInv, PlainInv, RefsInv
<1> QED
  BY <1>3, <1>4, <1>11, <1>12, <1>13, <1>14, Zenon DEF IInv

(* A step of a call that is under way.                                     *)
LEMMA CallGoesOn ==
  ASSUME IInv, thread # "back" \/ ring # "none", method' = method, call' = call
  PROVE  /\ MethodInv' /\ CallInv'
         /\ method \in Methods /\ Accepted(method) /\ Honest(method)
         /\ call.n \in Nat /\ call.n # 0 /\ Typed(call) /\ Fits(call)
<1>1. method \in Methods /\ Accepted(method) /\ Honest(method) /\ MethodInv'
  BY Zenon DEF IInv, MethodInv
<1>2. call.n \in Nat /\ call.n # 0
  BY Zenon DEF IInv, CallInv
<1>3. call.n > 0
  BY <1>2
<1>4. Typed(call) /\ Fits(call)
  BY <1>3, Zenon DEF IInv, CallInv
<1>5. Typed(call)' /\ Fits(call)'
  BY <1>4, SameMethod, Zenon DEF Typed
<1>6. CallInv'
  BY <1>2, <1>5, Zenon DEF CallInv
<1> QED
  BY <1>1, <1>2, <1>4, <1>6, Zenon

LEMMA SameMemo ==
  ASSUME MemoInv, method' = method, memo' = memo,
         \A id \in DOMAIN wrappers : id \in DOMAIN wrappers',
         \A id \in DOMAIN table : id \in DOMAIN table' /\ table'[id] = table[id]
  PROVE  MemoInv'
<1>1. \A k : KeyObject(k)' = KeyObject(k)
  BY SameMethod, Zenon
<1> QED
  BY <1>1, Zenon DEF MemoInv

LEMMA PublishStep ==
  ASSUME IInv, Publish PROVE IInv'
<1>1. /\ ring = "staged" /\ thread = "back" /\ ring' = "queued"
      /\ method' = method /\ call' = call /\ thread' = thread /\ answer' = answer
      /\ table' = table /\ refs' = refs /\ wrappers' = wrappers /\ held' = held
      /\ memo' = memo /\ learned' = learned
  BY Zenon DEF Publish
<1>2. ring # "none" /\ ring # "queued" /\ ring' # "none" /\ ring' # "staged"
  BY <1>1
<1>3. MethodInv' /\ CallInv'
  BY <1>1, <1>2, CallGoesOn, Zenon
<1>4. /\ Slots' = Slots /\ Canonical' = Canonical
      /\ \A s : ObjectOf(s)' = ObjectOf(s) /\ Minted(s)' = Minted(s)
      /\ \A c : ValidateOnly(c)' = ValidateOnly(c)
  BY <1>1, SameCall, SameMethod, Zenon
<1>5. Pending /\ Pending'
  BY <1>2 DEF Pending
<1>6. ring' \in {"none", "staged", "queued"} /\ thread # "waiting" /\ thread # "wrapping"
  BY <1>1
<1>7. PhaseInv /\ AnswerInv /\ TableInv /\ WrapperInv /\ HeldInv /\ ToldInv /\ MemoInv
  BY Zenon DEF IInv
<1>8. PhaseInv'
  BY <1>1, <1>2, <1>4, <1>5, <1>6, <1>7, Zenon DEF PhaseInv
<1>9. AnswerInv' /\ PlainInv' /\ RefsInv'
  BY <1>1, <1>4, <1>5, <1>7, Zenon DEF AnswerInv, PlainInv, RefsInv
<1>10. TableInv'
  BY <1>1, <1>4, <1>5, <1>7, Zenon DEF TableInv
<1>11. WrapperInv'
  BY <1>1, <1>2, <1>7, Zenon DEF WrapperInv
<1>12. HeldInv'
  BY <1>1, <1>4, <1>5, <1>7, Zenon DEF HeldInv, Registry
<1>13. ToldInv'
  BY <1>1, <1>4, <1>5, <1>7, Zenon DEF ToldInv
<1>14. MemoInv'
  BY <1>1, <1>7, SameMemo, Zenon
<1> QED
  BY <1>3, <1>8, <1>9, <1>10, <1>11, <1>12, <1>13, <1>14, Zenon DEF IInv

LEMMA WrapMintedStep ==
  ASSUME IInv, WrapMinted PROVE IInv'
<1>1. /\ held' = [s \in Wraps |-> Minted(s)]
      /\ wrappers' = Wrap({Minted(s) : s \in Wraps}, LAMBDA i : ClientTypeAt(i.slot[1]))
      /\ learned' = (thread = "waiting") /\ thread' = "back"
      /\ method' = method /\ call' = call /\ ring' = ring /\ answer' = answer
      /\ table' = table /\ refs' = refs /\ memo' = memo
  BY Zenon DEF WrapMinted
<1>2. \/ thread = "wrapping"
      \/ thread = "waiting" /\ ring = "none" /\ ~Canonical
  BY Zenon DEF WrapMinted, Canonical
<1>3. thread # "back" /\ (thread = "wrapping" => thread # "waiting")
  BY <1>2
<1>4. /\ MethodInv' /\ CallInv' /\ method \in Methods
      /\ call.n \in Nat /\ call.n # 0 /\ Typed(call)
  BY <1>1, <1>3, CallGoesOn, Zenon
<1>5. /\ Slots' = Slots /\ Canonical' = Canonical
      /\ \A s : ObjectOf(s)' = ObjectOf(s) /\ Minted(s)' = Minted(s)
  BY <1>1, SameCall, SameMethod, Zenon
<1>6. Pending' <=> Pending
  BY <1>1 DEF Pending
<1>7. PhaseInv /\ AnswerInv /\ TableInv /\ PlainInv /\ WrapperInv /\ MemoInv
  BY Zenon DEF IInv
<1>8. ~Canonical
  <2>1. thread = "wrapping" => ~MethodAlwaysSync(method)
    BY <1>7, Zenon DEF PhaseInv
  <2> QED
    BY <1>2, <1>4, <2>1, CanonicalWaits, Zenon DEF Canonical
<1>9. Wraps \subseteq Slots /\ (thread = "wrapping" => Wraps = Slots)
      /\ (~(method.ret = "HRESULT" /\ answer.failed) => Wraps = Slots)
  <2>1. Wrapped = Slots
    BY <1>4, SlotFacts, Zenon
  <2> QED
    BY <1>3, <2>1, Zenon DEF Wraps
<1>10. /\ \A i : i \in DOMAIN wrappers' <=>
                  i \in DOMAIN wrappers \/ i \in {Minted(s) : s \in Wraps}
  BY <1>1 DEF Wrap
<1>11. \A s \in Slots : /\ Pending => Minted(s) \notin DOMAIN table
                        /\ ~Pending => /\ Minted(s) \in DOMAIN table
                                       /\ table[Minted(s)].obj \in {Failed, ObjectOf(s)}
  <2>1. ASSUME Pending, NEW s \in Slots PROVE Minted(s) \notin DOMAIN table
    BY <1>7, <2>1, MintedFacts, Zenon DEF TableInv
  <2>2. ~Pending => answer # <<>>
    BY <1>3, <1>7, Zenon DEF PhaseInv
  <2> QED
    BY <1>7, <1>8, <2>1, <2>2, Zenon DEF PlainInv
<1>12. /\ DOMAIN held' = Wraps /\ \A s \in Wraps : held'[s] = Minted(s)
  BY <1>1
<1>13. PhaseInv'
  <2>1. thread' \in {"back", "waiting", "wrapping"} /\ thread' # "wrapping"
        /\ learned' \in BOOLEAN
    BY <1>1
  <2> QED
    BY <1>1, <1>5, <1>6, <1>7, <1>8, <2>1, Zenon DEF PhaseInv
<1>14. AnswerInv' /\ PlainInv' /\ RefsInv' /\ TableInv'
  BY <1>1, <1>5, <1>6, <1>7, <1>8, Zenon DEF AnswerInv, PlainInv, RefsInv, TableInv
<1>15. WrapperInv'
  <2>1. ASSUME NEW id \in DOMAIN wrappers, id \notin DOMAIN table PROVE FALSE
    BY <1>3, <1>7, <2>1, Zenon DEF WrapperInv
  <2>2. ASSUME NEW s \in Wraps, Minted(s) \notin DOMAIN table
        PROVE  ring = "queued" /\ s \in Slots
    <3>1. s \in Slots
      BY <1>9
    <3>2. ring # "none"
      BY <1>11, <2>2, <3>1, Zenon DEF Pending
    <3>3. ring # "staged"
      BY <1>7, <3>1, Zenon DEF PhaseInv
    <3>4. ring \in {"none", "staged", "queued"}
      BY <1>7, Zenon DEF PhaseInv
    <3> QED
      BY <3>1, <3>2, <3>3, <3>4
  <2> QED
    BY <1>1, <1>5, <1>10, <2>1, <2>2, Zenon DEF WrapperInv
<1>16. HeldInv'
  <2>1. ASSUME NEW s \in Wraps, Registry(Minted(s))
        PROVE  table[Minted(s)].obj = ObjectOf(s)
    BY <1>9, <1>11, <2>1, Zenon DEF Registry
  <2>2. Pending => Wraps = Slots
    BY <1>2, <1>9, Zenon DEF Pending
  <2> QED
    BY <1>1, <1>5, <1>6, <1>9, <1>10, <1>12, <2>1, <2>2, Zenon DEF HeldInv, Registry
<1>17. MemoInv'
  BY <1>1, <1>7, <1>10, SameMemo, Zenon
<1>18. ToldInv'
  <2>1. ~Pending => answer # <<>>
    BY <1>3, <1>7, Zenon DEF PhaseInv
  <2>2. ASSUME learned' = FALSE, method.ret = "HRESULT", Outs(method) # <<>>
        PROVE  ~MethodAlwaysSync(method) /\ Wraps # {}
    <3>1. thread = "wrapping"
      BY <1>1, <1>2, <2>2
    <3>2. ~MethodAlwaysSync(method) /\ ~ValidateOnly(call)
      BY <1>7, <3>1, Zenon DEF PhaseInv
    <3>3. ClientOutputs(method) # <<>>
      <4>1. DOMAIN ClientOutputs(method) = DOMAIN Outs(method)
        BY <1>4, ClientOutputsAreOuts, Zenon
      <4>2. OutSet(method) # {}
        BY <1>4, <2>2, OutsRange, Zenon
      <4>3. DOMAIN Outs(method) # {}
        BY <1>4, <4>2, OutsRange, Zenon DEF Range
      <4>4. DOMAIN <<>> = {}
        OBVIOUS
      <4> QED
        BY <4>1, <4>3, <4>4, Zenon
    <3>4. PICK o \in Range(ClientOutputs(method)) : o.pos \notin call.nulls
      BY <2>2, <3>2, <3>3, Zenon DEF ValidateOnly
    <3>5. o.pos \in OutSet(method)
      BY <1>4, ClientOutputAt, Zenon
    <3>6. <<o.pos, 1>> \in Slots
      BY <1>4, <3>4, <3>5, FirstSlot, SlotFacts, Zenon
    <3> QED
      BY <1>9, <3>1, <3>2, <3>6, Zenon
  <2>3. ~learned' => ~MethodAlwaysSync(method)
    BY <1>1, <1>2, <1>7, Zenon DEF PhaseInv
  <2> QED
    BY <1>1, <1>5, <1>6, <1>8, <1>9, <1>12, <2>1, <2>2, <2>3, Zenon DEF ToldInv
<1> QED
  BY <1>4, <1>13, <1>14, <1>15, <1>16, <1>17, <1>18, Zenon DEF IInv

(* A slot is left NULL or has the object made for it.                      *)
Answered(a) == \A s \in Slots : a[s] \in {Null, ObjectOf(s)}

(* The records of a canonical method: an object that has an id keeps it.   *)
CanonicalRecords(a, t) ==
  /\ \A id \in DOMAIN table : id \in DOMAIN t /\ t[id] = table[id]
  /\ \A id \in DOMAIN t : id \notin DOMAIN table =>
       \E s \in Slots : /\ id = Minted(s) /\ a[s] = ObjectOf(s)
                        /\ Known(a[s]) = {}
                        /\ t[id] = [obj |-> a[s], type |-> HostType(s[1])]
  /\ \A s \in Slots :
       IF a[s] # Null THEN /\ CanonicalId(a, s) \in DOMAIN t
                           /\ t[CanonicalId(a, s)].obj = a[s]
       ELSE CanonicalId(a, s) = NoId

LEMMA CanonicalTable ==
  ASSUME IInv, Pending, method \in Methods, call.n # 0, Typed(call),
         NEW a, Answered(a), NEW t, t = RegisterCanonical(a)
  PROVE  CanonicalRecords(a, t)
<1>0. \A s \in Slots : a[s] \in {Null, ObjectOf(s)}
  BY Zenon DEF Answered
<1> DEFINE new == {s \in Registered : CanonicalId(a, s) = Minted(s)}
<1>1. t = [i \in DOMAIN table \cup {Minted(s) : s \in new} |->
             IF i \in DOMAIN table THEN table[i]
             ELSE [obj |-> a[i.slot], type |-> HostType(i.slot[1])]]
  BY Zenon DEF RegisterCanonical
<1>2. Registered = Slots
  BY SlotFacts, Zenon
<1>3. \A s \in Slots : Minted(s) \notin DOMAIN table
  BY MintedFacts, Zenon DEF IInv, TableInv
<1>4. \A s \in Slots :
        /\ a[s] = Null => CanonicalId(a, s) = NoId
        /\ a[s] # Null /\ Known(a[s]) = {} => CanonicalId(a, s) = Minted(s)
        /\ a[s] # Null /\ Known(a[s]) # {} => CanonicalId(a, s) \in Known(a[s])
  <2> TAKE s \in Slots
  <2>1. a[s] = Null => CanonicalId(a, s) = NoId
    BY Zenon DEF CanonicalId
  <2>2. a[s] # Null /\ Known(a[s]) = {} => CanonicalId(a, s) = Minted(s)
    BY <1>2, Zenon DEF CanonicalId
  <2>3. ASSUME a[s] # Null, Known(a[s]) # {} PROVE CanonicalId(a, s) \in Known(a[s])
    <3>1. CanonicalId(a, s) = CHOOSE i \in Known(a[s]) : TRUE
      BY <1>2, <2>3, Zenon DEF CanonicalId
    <3> HIDE DEF new
    <3> QED
      BY <2>3, <3>1
  <2> QED
    BY <2>1, <2>2, <2>3, Zenon
<1>5. \A obj : \A i \in Known(obj) : i \in DOMAIN table /\ table[i].obj = obj
  BY Zenon DEF Known
<1>6. \A s \in Slots : s \in new <=> a[s] # Null /\ Known(a[s]) = {}
  <2>1. \A s : s \in new <=> s \in Slots /\ CanonicalId(a, s) = Minted(s)
    BY <1>2, Zenon
  <2>2. \A s \in Slots : Minted(s) # NoId
    BY MintedFacts, Zenon
  <2>3. ASSUME NEW s \in Slots, CanonicalId(a, s) = Minted(s), Known(a[s]) # {}, a[s] # Null
        PROVE  FALSE
    <3>1. Minted(s) \in Known(a[s])
      BY <1>4, <2>3, Zenon
    <3> QED
      BY <1>3, <1>5, <3>1, Zenon
  <2> HIDE DEF new
  <2> QED
    BY <1>4, <2>1, <2>2, <2>3, Zenon
<1>7. \A s \in new : s \in Slots
  BY <1>2, Zenon
<1> HIDE DEF new
<1>8. \A i : i \in DOMAIN t <=> i \in DOMAIN table \/ \E s \in new : i = Minted(s)
  BY <1>1
<1>9. \A id \in DOMAIN table : id \in DOMAIN t /\ t[id] = table[id]
  BY <1>1
<1>10. ASSUME NEW s \in new
       PROVE  /\ Minted(s) \in DOMAIN t /\ a[s] = ObjectOf(s)
              /\ t[Minted(s)] = [obj |-> a[s], type |-> HostType(s[1])]
  <2>1. Minted(s) \in DOMAIN t
    BY <1>8
  <2>2. Minted(s).slot = s
    BY MintedFacts, Zenon
  <2>3. t[Minted(s)] = IF Minted(s) \in DOMAIN table THEN table[Minted(s)]
                       ELSE [obj |-> a[Minted(s).slot], type |-> HostType(Minted(s).slot[1])]
    BY <1>1, <2>1
  <2>4. t[Minted(s)] = [obj |-> a[s], type |-> HostType(s[1])]
    BY <1>3, <1>7, <2>2, <2>3, Zenon
  <2>5. a[s] = ObjectOf(s)
    BY <1>0, <1>6, <1>7, Zenon
  <2> QED
    BY <2>1, <2>4, <2>5
<1>11. \A id \in DOMAIN t : id \notin DOMAIN table =>
         \E s \in Slots : /\ id = Minted(s) /\ a[s] = ObjectOf(s)
                          /\ Known(a[s]) = {}
                          /\ t[id] = [obj |-> a[s], type |-> HostType(s[1])]
  <2> TAKE id \in DOMAIN t
  <2> HAVE id \notin DOMAIN table
  <2>1. PICK s \in new : id = Minted(s)
    BY <1>8, Zenon
  <2>2. s \in Slots /\ Known(a[s]) = {}
    BY <1>6, <1>7, Zenon
  <2>3. a[s] = ObjectOf(s) /\ t[Minted(s)] = [obj |-> a[s], type |-> HostType(s[1])]
    BY <1>10, Zenon
  <2> QED
    BY <2>1, <2>2, <2>3, Zenon
<1>12. ASSUME NEW s \in Slots
       PROVE  IF a[s] # Null THEN /\ CanonicalId(a, s) \in DOMAIN t
                                  /\ t[CanonicalId(a, s)].obj = a[s]
              ELSE CanonicalId(a, s) = NoId
  <2>1. CASE a[s] # Null /\ Known(a[s]) = {}
    <3>1. CanonicalId(a, s) = Minted(s) /\ s \in new
      BY <1>4, <1>6, <2>1, Zenon
    <3>2. t[Minted(s)] = [obj |-> a[s], type |-> HostType(s[1])]
      BY <1>10, <3>1, Zenon
    <3>3. t[Minted(s)].obj = a[s]
      BY <3>2
    <3> QED
      BY <1>10, <2>1, <3>1, <3>3, Zenon
  <2>2. CASE a[s] # Null /\ Known(a[s]) # {}
    BY <1>4, <1>5, <1>9, <2>2, Zenon
  <2>3. CASE a[s] = Null
    BY <1>4, <2>3, Zenon
  <2> QED
    BY <2>1, <2>2, <2>3, Zenon
<1> QED
  BY <1>9, <1>11, <1>12, Zenon DEF CanonicalRecords

(* The records of a plain method: every slot under its minted id.          *)
PlainRecords(a, t) ==
  /\ \A id \in DOMAIN table : id \in DOMAIN t /\ t[id] = table[id]
  /\ \A id \in DOMAIN t : id \notin DOMAIN table => \E s \in Slots : id = Minted(s)
  /\ \A s \in Slots :
       /\ Minted(s) \in DOMAIN t
       /\ t[Minted(s)] = IF a[s] = Null THEN [obj |-> Failed, type |-> "none"]
                         ELSE [obj |-> ObjectOf(s), type |-> HostType(s[1])]

LEMMA PlainTable ==
  ASSUME IInv, Pending, method \in Methods, Typed(call),
         NEW a, Answered(a), NEW t, t = RegisterOutputs(a)
  PROVE  PlainRecords(a, t)
<1>1. t = [i \in DOMAIN table \cup {Minted(s) : s \in Registered} |->
             IF i \in DOMAIN table THEN table[i]
             ELSE IF a[i.slot] = Null THEN [obj |-> Failed, type |-> "none"]
             ELSE [obj |-> a[i.slot], type |-> HostType(i.slot[1])]]
  BY Zenon DEF RegisterOutputs
<1>2. Registered = Slots
  BY SlotFacts, Zenon
<1>3. \A s \in Slots : Minted(s) \notin DOMAIN table
  BY MintedFacts, Zenon DEF IInv, TableInv
<1>4. \A i : i \in DOMAIN t <=> i \in DOMAIN table \/ \E s \in Slots : i = Minted(s)
  BY <1>1, <1>2
<1>5. \A id \in DOMAIN table : id \in DOMAIN t /\ t[id] = table[id]
  BY <1>1
<1>6. ASSUME NEW s \in Slots
      PROVE  /\ Minted(s) \in DOMAIN t
             /\ t[Minted(s)] = IF a[s] = Null THEN [obj |-> Failed, type |-> "none"]
                               ELSE [obj |-> ObjectOf(s), type |-> HostType(s[1])]
  <2>1. Minted(s) \in DOMAIN t
    BY <1>4
  <2>2. Minted(s).slot = s
    BY MintedFacts, Zenon
  <2>3. t[Minted(s)] = IF Minted(s) \in DOMAIN table THEN table[Minted(s)]
             ELSE IF a[Minted(s).slot] = Null THEN [obj |-> Failed, type |-> "none"]
             ELSE [obj |-> a[Minted(s).slot], type |-> HostType(Minted(s).slot[1])]
    BY <1>1, <2>1
  <2>4. a[s] # Null => a[s] = ObjectOf(s)
    BY Zenon DEF Answered
  <2> QED
    BY <1>3, <2>1, <2>2, <2>3, <2>4, Zenon
<1> QED
  BY <1>4, <1>5, <1>6, Zenon DEF PlainRecords

(* The host runs the command: what it answers, records and replies.        *)
LEMMA RunFacts ==
  ASSUME Run
  PROVE  \E a, fails :
           /\ fails \in BOOLEAN /\ Answered(a)
           /\ fails => \A s \in Slots : a[s] = Null
           /\ answer' = [failed |-> fails, objs |-> a]
           /\ Canonical => table' = RegisterCanonical(a) /\ refs' = ReplyRefs(a)
           /\ ~Canonical => table' = RegisterOutputs(a)
<1>1. PICK empty \in SUBSET Slots, fails \in BOOLEAN :
        LET a == [s \in Slots |-> IF s \in empty \/ fails THEN Null ELSE ObjectOf(s)]
        IN /\ answer' = [failed |-> fails, objs |-> a]
           /\ IF MethodIsCanonical(method)
              THEN table' = RegisterCanonical(a) /\ refs' = ReplyRefs(a)
              ELSE table' = RegisterOutputs(a) /\ refs' = <<>>
  BY Zenon DEF Run
<1> DEFINE a == [s \in Slots |-> IF s \in empty \/ fails THEN Null ELSE ObjectOf(s)]
<1>2. \A s \in Slots : a[s] = IF s \in empty \/ fails THEN Null ELSE ObjectOf(s)
  OBVIOUS
<1>3. /\ answer' = [failed |-> fails, objs |-> a]
      /\ Canonical => table' = RegisterCanonical(a) /\ refs' = ReplyRefs(a)
      /\ ~Canonical => table' = RegisterOutputs(a)
  BY <1>1, Zenon DEF Canonical
<1> HIDE DEF a
<1>4. \A s \in Slots : a[s] \in {Null, ObjectOf(s)} /\ (fails => a[s] = Null)
  BY <1>2, Zenon
<1> QED
  BY <1>3, <1>4, Zenon DEF Answered

LEMMA RunStep ==
  ASSUME IInv, Run PROVE IInv'
<1>1. /\ ring = "queued" /\ ring' = "none"
      /\ method' = method /\ call' = call /\ thread' = thread
      /\ wrappers' = wrappers /\ held' = held /\ memo' = memo /\ learned' = learned
  BY Zenon DEF Run
<1>2. PICK a, fails :
        /\ fails \in BOOLEAN /\ Answered(a)
        /\ fails => \A s \in Slots : a[s] = Null
        /\ answer' = [failed |-> fails, objs |-> a]
        /\ Canonical => table' = RegisterCanonical(a) /\ refs' = ReplyRefs(a)
        /\ ~Canonical => table' = RegisterOutputs(a)
  BY RunFacts, Zenon
<1>3. ring # "none" /\ ring # "staged" /\ ring' # "staged" /\ ring' # "queued"
  BY <1>1
<1>4. /\ MethodInv' /\ CallInv' /\ method \in Methods
      /\ call.n \in Nat /\ call.n # 0 /\ Typed(call)
  BY <1>1, <1>3, CallGoesOn, Zenon
<1>5. /\ Slots' = Slots /\ Canonical' = Canonical
      /\ \A s : ObjectOf(s)' = ObjectOf(s) /\ Minted(s)' = Minted(s)
      /\ \A c : ValidateOnly(c)' = ValidateOnly(c)
  BY <1>1, SameCall, SameMethod, Zenon
<1>6. Pending /\ ~Pending'
  BY <1>1, <1>3 DEF Pending
<1>7. PhaseInv /\ AnswerInv /\ TableInv /\ WrapperInv /\ HeldInv /\ MemoInv /\ ToldInv
  BY Zenon DEF IInv
<1>8. answer' # <<>> /\ answer'.failed = fails /\ answer'.objs = a
  BY <1>2
<1>9. \A s \in Slots : s[1] \in OutSet(method) /\ Distinct(s)
  BY <1>4, SlotFacts, Zenon
<1>10. thread = "back" => \A s \in Slots : s \in DOMAIN held /\ held[s] = Minted(s)
  BY <1>6, <1>7, Zenon DEF HeldInv
<1>11. Canonical => thread # "back"
  BY <1>6, <1>7, Zenon DEF PhaseInv
<1>12. thread # "back" => DOMAIN held = {}
  <2>1. thread # "back" => held = <<>>
    BY <1>7, Zenon DEF PhaseInv
  <2>2. DOMAIN <<>> = {}
    OBVIOUS
  <2> QED
    BY <2>1, <2>2, Zenon
<1>12a. Canonical => CanonicalRecords(a, table')
  BY <1>2, <1>4, <1>6, CanonicalTable, Zenon
<1>12b. ~Canonical => PlainRecords(a, table')
  BY <1>2, <1>4, <1>6, PlainTable, Zenon
<1>13. \A id \in DOMAIN table : id \in DOMAIN table' /\ table'[id] = table[id]
  BY <1>12a, <1>12b, Zenon DEF CanonicalRecords, PlainRecords
<1>14. \A id \in DOMAIN table' : id \notin DOMAIN table => \E s \in Slots : id = Minted(s)
  BY <1>12a, <1>12b, Zenon DEF CanonicalRecords, PlainRecords
<1>15. PhaseInv'
  BY <1>1, <1>3, <1>5, <1>6, <1>7, <1>8, Zenon DEF PhaseInv
<1>16. AnswerInv'
  BY <1>2, <1>5, <1>8, Zenon DEF AnswerInv, Answered
<1>17. MemoInv'
  BY <1>1, <1>7, <1>13, SameMemo, Zenon
<1>18. CASE ~Canonical
  <2>1. \A s \in Slots :
          /\ Minted(s) \in DOMAIN table'
          /\ table'[Minted(s)] = IF a[s] = Null THEN [obj |-> Failed, type |-> "none"]
                                 ELSE [obj |-> ObjectOf(s), type |-> HostType(s[1])]
    BY <1>12b, <1>18, Zenon DEF PlainRecords
  <2>2. ASSUME NEW s \in Slots
        PROVE  table'[Minted(s)].obj = IF a[s] = Null THEN Failed ELSE ObjectOf(s)
    <3>1. CASE a[s] = Null
      <4>1. table'[Minted(s)] = [obj |-> Failed, type |-> "none"]
        BY <2>1, <3>1, Zenon
      <4> QED
        BY <3>1, <4>1
    <3>2. CASE a[s] # Null
      <4>1. table'[Minted(s)] = [obj |-> ObjectOf(s), type |-> HostType(s[1])]
        BY <2>1, <3>2, Zenon
      <4> QED
        BY <3>2, <4>1
    <3> QED
      BY <3>1, <3>2, Zenon
  <2>3. PlainInv'
    BY <1>5, <2>1, <2>2, Zenon DEF PlainInv
  <2>4. RefsInv'
    BY <1>5, <1>18, Zenon DEF RefsInv
  <2>5. TableInv'
    <3>1. \A id \in DOMAIN table :
            /\ id = [n |-> id.n, slot |-> id.slot]
            /\ id.n \in 1 .. call.n
            /\ id.slot[1] \in OutSet(method)
            /\ table[id].obj # Failed =>
                 /\ table[id].obj.slot = id.slot
                 /\ method.fresh => table[id].obj.n = id.n
      BY <1>7, Zenon DEF TableInv
    <3>2. ASSUME NEW s \in Slots, NEW id, id = Minted(s)
          PROVE  /\ id = [n |-> id.n, slot |-> id.slot]
                 /\ id.n \in 1 .. call.n
                 /\ id.slot[1] \in OutSet(method)
                 /\ table'[id].obj # Failed =>
                      /\ table'[id].obj.slot = id.slot
                      /\ method.fresh => table'[id].obj.n = id.n
      <4>1. id.n = call.n /\ id.slot = s /\ id = [n |-> id.n, slot |-> id.slot]
        BY <3>2, MintedFacts, Zenon
      <4>2. id.n \in 1 .. call.n
        BY <1>4, <4>1
      <4>3. id.slot[1] \in OutSet(method)
        BY <1>9, <4>1, Zenon
      <4>4. table'[id].obj # Failed => table'[id].obj = ObjectOf(s)
        BY <2>2, <3>2, Zenon
      <4> QED
        BY <1>9, <4>1, <4>2, <4>3, <4>4, Zenon DEF Distinct
    <3>3. \A id \in DOMAIN table' :
            /\ id = [n |-> id.n, slot |-> id.slot]
            /\ id.n \in 1 .. call'.n
            /\ id.slot[1] \in OutSet(method')
            /\ table'[id].obj # Failed =>
                 /\ table'[id].obj.slot = id.slot
                 /\ method'.fresh => table'[id].obj.n = id.n
      <4> TAKE id \in DOMAIN table'
      <4>1. CASE id \in DOMAIN table
        BY <1>1, <1>13, <3>1, <4>1, Zenon
      <4>2. CASE id \notin DOMAIN table
        <5>1. PICK s \in Slots : id = Minted(s)
          BY <1>14, <4>2, Zenon
        <5> QED
          BY <1>1, <3>2, <5>1, Zenon
      <4> QED
        BY <4>1, <4>2, Zenon
    <3> QED
      BY <1>5, <1>6, <1>18, <3>3, Zenon DEF TableInv
  <2>6. WrapperInv'
    <3>1. \A id \in DOMAIN wrappers : id \in DOMAIN table'
      BY <1>7, <1>13, <2>1, Zenon DEF WrapperInv
    <3> QED
      BY <1>1, <1>7, <3>1, Zenon DEF WrapperInv
  <2>7. ASSUME NEW s \in DOMAIN held
        PROVE  /\ s \in Slots /\ held[s] = Minted(s) /\ held[s] \in DOMAIN table'
               /\ held[s] \in DOMAIN wrappers
               /\ table'[held[s]].obj = IF a[s] = Null THEN Failed ELSE ObjectOf(s)
    <3>1. s \in Slots /\ held[s] \in DOMAIN wrappers
      BY <1>7, Zenon DEF HeldInv
    <3>2. held[s] = Minted(s)
      BY <1>10, <1>12, <3>1, Zenon
    <3> QED
      BY <2>1, <2>2, <3>1, <3>2, Zenon
  <2>8. HeldInv'
    <3>1. DOMAIN held' \subseteq Slots'
      BY <1>1, <1>5, <2>7
    <3>2. \A s \in DOMAIN held' :
            /\ held'[s] \in DOMAIN wrappers'
            /\ table'[held'[s]].obj # Failed => table'[held'[s]].obj = ObjectOf(s)
            /\ held'[s] \in DOMAIN table'
      BY <1>1, <2>7, Zenon
    <3> QED
      BY <1>5, <1>6, <3>1, <3>2, Zenon DEF HeldInv, Registry
  <2>9. ToldInv'
    <3>1. thread = "back" /\ ~learned =>
            /\ ~MethodAlwaysSync(method)
            /\ method.ret = "HRESULT" /\ Outs(method) # <<>> => DOMAIN held # {}
      BY <1>7, Zenon DEF ToldInv
    <3> QED
      BY <1>1, <1>5, <1>8, <1>10, <1>18, <3>1, Zenon DEF ToldInv
  <2> QED
    BY <1>4, <1>15, <1>16, <1>17, <2>3, <2>4, <2>5, <2>6, <2>8, <2>9, Zenon DEF IInv
<1>19. CASE Canonical
  <2>1. thread # "back"
    BY <1>11, <1>19
  <2>2. \A id \in DOMAIN table' : id \notin DOMAIN table =>
          \E s \in Slots : /\ id = Minted(s) /\ a[s] = ObjectOf(s)
                           /\ Known(a[s]) = {}
                           /\ table'[id] = [obj |-> a[s], type |-> HostType(s[1])]
    BY <1>12a, <1>19, Zenon DEF CanonicalRecords
  <2>3. \A s \in Slots :
          IF a[s] # Null THEN /\ CanonicalId(a, s) \in DOMAIN table'
                              /\ table'[CanonicalId(a, s)].obj = a[s]
          ELSE CanonicalId(a, s) = NoId
    BY <1>12a, <1>19, Zenon DEF CanonicalRecords
  <2>4. ASSUME NEW id \in DOMAIN table', id \notin DOMAIN table
        PROVE  \E s \in Slots : /\ id = Minted(s) /\ table'[id].obj = ObjectOf(s)
                                /\ Known(ObjectOf(s)) = {}
    <3>1. PICK s \in Slots : /\ id = Minted(s) /\ a[s] = ObjectOf(s)
                             /\ Known(a[s]) = {}
                             /\ table'[id] = [obj |-> a[s], type |-> HostType(s[1])]
      BY <2>2, <2>4, Zenon
    <3>2. table'[id].obj = a[s]
      BY <3>1
    <3> QED
      BY <3>1, <3>2, Zenon
  <2>5. /\ \A id \in DOMAIN table :
             /\ id = [n |-> id.n, slot |-> id.slot]
             /\ id.n \in 1 .. call.n
             /\ id.slot[1] \in OutSet(method)
             /\ table[id].obj.slot = id.slot
             /\ method.fresh => table[id].obj.n = id.n
             /\ table[id].obj # Failed
        /\ \A i, j \in DOMAIN table : table[i].obj = table[j].obj => i = j
    BY <1>7, <1>19, Zenon DEF TableInv
  <2>6. TableInv'
    <3>1. ASSUME NEW s \in Slots, NEW id, id = Minted(s), table'[id].obj = ObjectOf(s)
          PROVE  /\ id = [n |-> id.n, slot |-> id.slot]
                 /\ id.n \in 1 .. call.n
                 /\ id.slot[1] \in OutSet(method)
                 /\ table'[id].obj.slot = id.slot
                 /\ method.fresh => table'[id].obj.n = id.n
                 /\ table'[id].obj # Failed
      <4>1. id.n = call.n /\ id.slot = s /\ id = [n |-> id.n, slot |-> id.slot]
        BY <3>1, MintedFacts, Zenon
      <4>2. id.n \in 1 .. call.n
        BY <1>4, <4>1
      <4>3. id.slot[1] \in OutSet(method)
        BY <1>9, <4>1, Zenon
      <4> QED
        BY <1>9, <3>1, <4>1, <4>2, <4>3, Zenon DEF Distinct
    <3>2. \A id \in DOMAIN table' :
            /\ id = [n |-> id.n, slot |-> id.slot]
            /\ id.n \in 1 .. call'.n
            /\ id.slot[1] \in OutSet(method')
            /\ table'[id].obj.slot = id.slot
            /\ method'.fresh => table'[id].obj.n = id.n
            /\ table'[id].obj # Failed
      <4> TAKE id \in DOMAIN table'
      <4>1. CASE id \in DOMAIN table
        BY <1>1, <1>13, <2>5, <4>1, Zenon
      <4>2. CASE id \notin DOMAIN table
        <5>1. PICK s \in Slots : id = Minted(s) /\ table'[id].obj = ObjectOf(s)
          BY <2>4, <4>2, Zenon
        <5> QED
          BY <1>1, <3>1, <5>1, Zenon
      <4> QED
        BY <4>1, <4>2, Zenon
    <3>3. \A i, j \in DOMAIN table' : table'[i].obj = table'[j].obj => i = j
      <4> TAKE i, j \in DOMAIN table'
      <4> HAVE table'[i].obj = table'[j].obj
      <4>1. CASE i \in DOMAIN table /\ j \in DOMAIN table
        BY <1>13, <2>5, <4>1, Zenon
      <4>2. CASE i \notin DOMAIN table /\ j \notin DOMAIN table
        <5>1. PICK s \in Slots : i = Minted(s) /\ table'[i].obj = ObjectOf(s)
          BY <2>4, <4>2, Zenon
        <5>2. PICK t \in Slots : j = Minted(t) /\ table'[j].obj = ObjectOf(t)
          BY <2>4, <4>2, Zenon
        <5>3. s = t
          BY <1>9, <5>1, <5>2, Zenon DEF Distinct
        <5> QED
          BY <5>1, <5>2, <5>3, Zenon
      <4>3. ASSUME NEW x \in DOMAIN table', NEW y \in DOMAIN table',
                   x \in DOMAIN table, y \notin DOMAIN table,
                   table'[x].obj = table'[y].obj
            PROVE  FALSE
        <5>1. PICK t \in Slots : table'[y].obj = ObjectOf(t) /\ Known(ObjectOf(t)) = {}
          BY <2>4, <4>3, Zenon
        <5>2. x \in Known(ObjectOf(t))
          BY <1>13, <4>3, <5>1, Zenon DEF Known
        <5> QED
          BY <5>1, <5>2, Zenon
      <4> QED
        BY <4>1, <4>2, <4>3, Zenon
    <3> QED
      BY <1>5, <1>6, <3>2, <3>3, Zenon DEF TableInv
  <2>7. RefsInv'
    <3> DEFINE h == HostRefSlots(method, call.nulls)
    <3>1. refs' = [k \in DOMAIN h |-> LET s == h[k] IN IF s \in Slots THEN CanonicalId(a, s)
                                                     ELSE NoId]
      BY <1>2, <1>19, Zenon DEF ReplyRefs
    <3>2. HostRefSlots(method', call'.nulls) = h
      BY <1>1, Zenon
    <3> HIDE DEF h
    <3>3. DOMAIN refs' = DOMAIN h
          /\ \A k \in DOMAIN h : refs'[k] = IF h[k] \in Slots THEN CanonicalId(a, h[k])
                                            ELSE NoId
      BY <3>1
    <3>4. \A s, id : RefOK(s, id)' <=> IF s \in Slots /\ a[s] # Null
                                      THEN id \in DOMAIN table' /\ table'[id].obj = a[s]
                                      ELSE id = NoId
      BY <1>5, <1>8, Zenon DEF RefOK
    <3>5. \A k \in DOMAIN h :
            IF h[k] \in Slots /\ a[h[k]] # Null
            THEN refs'[k] \in DOMAIN table' /\ table'[refs'[k]].obj = a[h[k]]
            ELSE refs'[k] = NoId
      BY <2>3, <3>3, Zenon
    <3> QED
      BY <3>2, <3>3, <3>4, <3>5, Zenon DEF RefsInv, RefOK
  <2>8. WrapperInv' /\ HeldInv' /\ ToldInv' /\ PlainInv'
    <3>1. \A id \in DOMAIN wrappers : id \in DOMAIN table' /\ id.n # call.n
      BY <1>7, <1>13, <2>1, Zenon DEF WrapperInv
    <3>2. DOMAIN held' = {} /\ thread' # "back"
      BY <1>1, <1>12, <2>1, Zenon
    <3>3. WrapperInv' /\ ToldInv' /\ PlainInv'
      BY <1>1, <1>5, <1>19, <3>1, <3>2, Zenon DEF WrapperInv, ToldInv, PlainInv
    <3>4. HeldInv'
      BY <1>6, <3>2, Zenon DEF HeldInv
    <3> QED
      BY <3>3, <3>4
  <2> QED
    BY <1>4, <1>15, <1>16, <1>17, <2>6, <2>7, <2>8, Zenon DEF IInv
<1> QED
  BY <1>18, <1>19, Zenon

(* The references of a reply that the thunk makes wrappers for.            *)
RefGiven(k) == IF answer.failed \/ k \notin DOMAIN refs THEN NoId ELSE refs[k]
RefsGiven == {k \in DOMAIN HostRefSlots(method, call.nulls) :
                HostRefSlots(method, call.nulls)[k] \in Slots /\ RefGiven(k) # NoId}

(* Each is the id of the object in its slot, and no object lacks one.      *)
LEMMA RefsGivenFacts ==
  ASSUME IInv, Canonical, thread = "waiting", ~Pending
  PROVE  /\ answer # <<>>
         /\ \A k \in RefsGiven :
              LET s == HostRefSlots(method, call.nulls)[k] IN
              /\ s \in Slots /\ answer.objs[s] # Null
              /\ RefGiven(k) \in DOMAIN table /\ table[RefGiven(k)].obj = ObjectOf(s)
         /\ \A s \in Slots : answer.objs[s] # Null =>
              \E k \in RefsGiven : HostRefSlots(method, call.nulls)[k] = s
<1> DEFINE h == HostRefSlots(method, call.nulls)
<1>1. answer # <<>>
  <2>1. thread # "back"
    OBVIOUS
  <2> QED
    BY <2>1, Zenon DEF IInv, PhaseInv
<1>2. /\ \A s \in Slots : answer.objs[s] # Null => answer.objs[s] = ObjectOf(s)
      /\ \A s \in Slots : answer.objs[s] # Null => ~answer.failed
  BY <1>1, Zenon DEF IInv, AnswerInv
<1>3. DOMAIN refs = DOMAIN h /\ \A k \in DOMAIN refs : RefOK(h[k], refs[k])
  BY Zenon DEF IInv, RefsInv
<1>4. \A id \in DOMAIN table : id # NoId
  <2>1. \A id \in DOMAIN table : id.n \in 1 .. call.n
    BY Zenon DEF IInv, TableInv
  <2>2. NoId.n = 0 /\ call.n \in Nat
    BY Zenon DEF NoId, IInv, CallInv
  <2> QED
    BY <2>1, <2>2
<1>5. \A k \in RefsGiven : k \in DOMAIN h /\ h[k] \in Slots /\ RefGiven(k) # NoId
  BY Zenon DEF RefsGiven
<1>6. \A k \in DOMAIN h : h[k] \in Slots /\ RefGiven(k) # NoId => k \in RefsGiven
  BY Zenon DEF RefsGiven
<1>7. method \in Methods /\ Slots = SlotsOf(method, call.nulls)
  BY SlotFacts, Zenon DEF IInv, MethodInv
<1>8. \A s \in Slots : \E k \in DOMAIN h : h[k] = s
  <2>1. \A s \in SlotsOf(method, call.nulls) :
          \E k \in DOMAIN HostRefSlots(method, call.nulls) :
            HostRefSlots(method, call.nulls)[k] = s
    <3>1. \A m \in Methods : \A nulls : \A s \in SlotsOf(m, nulls) :
            \E k \in DOMAIN HostRefSlots(m, nulls) : HostRefSlots(m, nulls)[k] = s
      BY RefsComplete, Zenon
    <3> QED
      BY <1>7, <3>1
  <2> QED
    BY <1>7, <2>1, Zenon
<1> HIDE DEF h
<1>9. ASSUME NEW k \in RefsGiven
      PROVE  /\ h[k] \in Slots /\ answer.objs[h[k]] # Null
             /\ RefGiven(k) \in DOMAIN table /\ table[RefGiven(k)].obj = ObjectOf(h[k])
  <2>1. RefGiven(k) = refs[k] /\ refs[k] # NoId
    BY <1>5, Zenon DEF RefGiven
  <2>2. RefOK(h[k], refs[k])
    BY <1>3, <1>5, Zenon
  <2> QED
    BY <1>2, <1>5, <2>1, <2>2, Zenon DEF RefOK
<1>10. ASSUME NEW s \in Slots, answer.objs[s] # Null
       PROVE  \E k \in RefsGiven : h[k] = s
  <2>1. PICK k \in DOMAIN h : h[k] = s
    BY <1>8, Zenon
  <2>2. refs[k] \in DOMAIN table
    BY <1>3, <1>10, <2>1, Zenon DEF RefOK
  <2>3. RefGiven(k) = refs[k]
    BY <1>2, <1>3, <1>10, Zenon DEF RefGiven
  <2> QED
    BY <1>4, <1>6, <2>1, <2>2, <2>3, Zenon
<1> QED
  BY <1>1, <1>9, <1>10, Zenon DEF h

LEMMA WrapRefsStep ==
  ASSUME IInv, WrapRefs PROVE IInv'
<1> DEFINE h == HostRefSlots(method, call.nulls)
           type(i) == ClientTypeAt(h[CHOOSE k \in RefsGiven : RefGiven(k) = i][1])
<1>1. /\ thread = "waiting" /\ ring = "none" /\ Canonical
      /\ learned' = TRUE /\ thread' = "back"
      /\ method' = method /\ call' = call /\ ring' = ring /\ answer' = answer
      /\ table' = table /\ refs' = refs
  BY Zenon DEF WrapRefs, Canonical
<1>2. thread # "back" /\ ~Pending
  BY <1>1 DEF Pending
<1>3. /\ MethodInv' /\ CallInv' /\ method \in Methods /\ Accepted(method)
      /\ Honest(method) /\ Typed(call) /\ Fits(call)
  BY <1>1, <1>2, CallGoesOn, Zenon
<1>4. /\ held' = [s \in {h[k] : k \in RefsGiven} |->
                    RefGiven(CHOOSE k \in RefsGiven : h[k] = s)]
      /\ wrappers' = Wrap({RefGiven(k) : k \in RefsGiven}, type)
      /\ memo' = IF MethodCanonical(method) = "memo" /\ RefsGiven # {}
                 THEN [key \in DOMAIN memo \cup {MemoKey(call)} |->
                         IF key \in DOMAIN memo THEN memo[key]
                         ELSE RefGiven(CHOOSE k \in RefsGiven :
                                         h[k][1] = ClientOutputs(method)[1].pos)]
                 ELSE memo
  <2>1. ThunkRefSlots(method, call.nulls) = h
    BY <1>3, RefsInStep, Zenon
  <2> QED
    BY <2>1, SMTT(60) DEF WrapRefs, RefsGiven, RefGiven
<1>5. /\ Slots' = Slots /\ Canonical' = Canonical
      /\ \A s : ObjectOf(s)' = ObjectOf(s) /\ Minted(s)' = Minted(s)
      /\ \A k : KeyObject(k)' = KeyObject(k)
  BY <1>1, SameCall, SameMethod, Zenon
<1>6. ~Pending'
  BY <1>1 DEF Pending
<1>7. PhaseInv /\ AnswerInv /\ TableInv /\ WrapperInv /\ MemoInv
  BY Zenon DEF IInv
<1>8. /\ answer # <<>>
      /\ \A k \in RefsGiven :
           /\ h[k] \in Slots /\ answer.objs[h[k]] # Null
           /\ RefGiven(k) \in DOMAIN table /\ table[RefGiven(k)].obj = ObjectOf(h[k])
      /\ \A s \in Slots : answer.objs[s] # Null => \E k \in RefsGiven : h[k] = s
  BY <1>1, <1>2, RefsGivenFacts, Zenon
<1>9. /\ \A i : i \in DOMAIN wrappers' <=>
                  i \in DOMAIN wrappers \/ i \in {RefGiven(k) : k \in RefsGiven}
  BY <1>4 DEF Wrap
<1> HIDE DEF h, type
<1>10. \A s : s \in DOMAIN held' <=> \E k \in RefsGiven : h[k] = s
  BY <1>4
<1>11. ASSUME NEW s \in DOMAIN held'
       PROVE  /\ s \in Slots /\ answer.objs[s] # Null
              /\ held'[s] \in DOMAIN wrappers' /\ held'[s] \in DOMAIN table
              /\ table[held'[s]].obj = ObjectOf(s)
  <2> DEFINE k == CHOOSE k \in RefsGiven : h[k] = s
  <2>1. k \in RefsGiven /\ h[k] = s
    BY <1>10
  <2>2. held'[s] = RefGiven(k)
    BY <1>4
  <2> HIDE DEF k
  <2> QED
    BY <1>8, <1>9, <2>1, <2>2, Zenon
<1>12. PhaseInv' /\ PlainInv' /\ RefsInv' /\ TableInv' /\ AnswerInv'
  <2>1. thread' \in {"back", "waiting", "wrapping"} /\ thread' # "wrapping"
        /\ thread' # "waiting" /\ ring' # "staged" /\ learned' \in BOOLEAN
        /\ ring' \in {"none", "staged", "queued"}
    BY <1>1
  <2> QED
    BY <1>1, <1>2, <1>5, <1>6, <1>7, <2>1, Zenon
       DEF PhaseInv, PlainInv, RefsInv, TableInv, AnswerInv
<1>13. WrapperInv'
  <2>1. ASSUME NEW i \in DOMAIN wrappers PROVE i \in DOMAIN table
    BY <1>2, <1>7, Zenon DEF WrapperInv
  <2>2. ASSUME NEW i \in DOMAIN wrappers' PROVE i \in DOMAIN table
    <3>1. CASE i \in DOMAIN wrappers
      BY <2>1, <3>1
    <3>2. CASE i \in {RefGiven(k) : k \in RefsGiven}
      <4>1. PICK k \in RefsGiven : i = RefGiven(k)
        BY <3>2
      <4> QED
        BY <1>8, <4>1, Zenon
    <3> QED
      BY <1>9, <3>1, <3>2, Zenon
  <2> QED
    BY <1>1, <2>2, Zenon DEF WrapperInv
<1>14. HeldInv'
  <2>1. DOMAIN held' \subseteq Slots'
    BY <1>5, <1>11
  <2> QED
    BY <1>1, <1>5, <1>6, <1>11, <2>1, Zenon DEF HeldInv
<1>15. MemoInv'
  <2>1. \A i \in DOMAIN wrappers : i \in DOMAIN wrappers'
    BY <1>9, Zenon
  <2>2. CASE MethodCanonical(method) = "memo" /\ RefsGiven # {}
    <3> DEFINE k == CHOOSE k \in RefsGiven : h[k][1] = ClientOutputs(method)[1].pos
    <3>1. MemoShape(method)
      BY <1>3, <2>2, MemoHasShape, Zenon
    <3>2. /\ ClientOutputs(method)[1].pos = Outs(method)[1]
          /\ SlotsOf(method, call.nulls) \subseteq {<<Outs(method)[1], 1>>}
          /\ ObjectOf(<<Outs(method)[1], 1>>) = KeyObject(MemoKey(call))
      BY <1>3, <3>1, MemoCall, Zenon
    <3>3. Slots = SlotsOf(method, call.nulls)
      BY <1>3, SlotFacts, Zenon
    <3>4. \A s \in Slots : s = <<Outs(method)[1], 1>>
      BY <3>2, <3>3
    <3>5. PICK j \in RefsGiven : TRUE
      BY <2>2
    <3>6. h[j] = <<Outs(method)[1], 1>>
      BY <1>8, <3>4, Zenon
    <3>7. h[j][1] = ClientOutputs(method)[1].pos
      BY <3>2, <3>6
    <3>8. k \in RefsGiven
      BY <3>7
    <3>9. memo' = [key \in DOMAIN memo \cup {MemoKey(call)} |->
                     IF key \in DOMAIN memo THEN memo[key] ELSE RefGiven(k)]
      BY <1>4, <2>2
    <3> HIDE DEF k
    <3>10. /\ RefGiven(k) \in DOMAIN wrappers' /\ RefGiven(k) \in DOMAIN table
           /\ table[RefGiven(k)].obj = KeyObject(MemoKey(call))
      BY <1>8, <1>9, <3>2, <3>4, <3>8, Zenon
    <3>11. \A key \in DOMAIN memo' :
             \/ key \in DOMAIN memo /\ memo'[key] = memo[key]
             \/ key = MemoKey(call) /\ memo'[key] = RefGiven(k)
      BY <3>9
    <3> QED
      BY <1>1, <1>5, <1>7, <2>1, <2>2, <3>10, <3>11, Zenon DEF MemoInv
  <2>3. CASE ~(MethodCanonical(method) = "memo" /\ RefsGiven # {})
    <3>1. memo' = memo
      BY <1>4, <2>3, Zenon
    <3> QED
      BY <1>1, <1>7, <2>1, <3>1, SameMemo, Zenon
  <2> QED
    BY <2>2, <2>3, Zenon
<1>16. ToldInv'
  BY <1>1, <1>5, <1>8, <1>10, <1>11, Zenon DEF ToldInv
<1> QED
  BY <1>3, <1>12, <1>13, <1>14, <1>15, <1>16, Zenon DEF IInv

LEMMA IdleStep ==
  ASSUME IInv, UNCHANGED vars PROVE IInv'
<1>1. /\ method' = method /\ call' = call /\ thread' = thread /\ ring' = ring
      /\ answer' = answer /\ table' = table /\ refs' = refs
      /\ wrappers' = wrappers /\ held' = held /\ memo' = memo /\ learned' = learned
  BY DEF vars
<1>2. /\ Slots' = Slots /\ Canonical' = Canonical
      /\ \A s : ObjectOf(s)' = ObjectOf(s) /\ Minted(s)' = Minted(s)
      /\ \A c : ValidateOnly(c)' = ValidateOnly(c) /\ Fits(c)' = Fits(c)
  BY <1>1, SameCall, SameMethod, Zenon
<1>3. Pending' <=> Pending
  BY <1>1 DEF Pending
<1>4. /\ MethodInv /\ CallInv /\ PhaseInv /\ AnswerInv /\ TableInv
      /\ PlainInv /\ RefsInv /\ WrapperInv /\ HeldInv /\ MemoInv /\ ToldInv
  BY Zenon DEF IInv
<1>5. MethodInv' /\ CallInv' /\ PhaseInv' /\ AnswerInv' /\ TableInv'
  <2>1. Typed(call)' <=> Typed(call)
    BY <1>1, Zenon DEF Typed
  <2> QED
    BY <1>1, <1>2, <1>3, <1>4, <2>1, Zenon
       DEF MethodInv, CallInv, PhaseInv, AnswerInv, TableInv
<1>6. PlainInv' /\ RefsInv' /\ WrapperInv'
  BY <1>1, <1>2, <1>3, <1>4, Zenon DEF PlainInv, RefsInv, RefOK, WrapperInv
<1>7. HeldInv' /\ ToldInv'
  BY <1>1, <1>2, <1>3, <1>4, Zenon DEF HeldInv, Registry, ToldInv
<1>8. MemoInv'
  BY <1>1, <1>4, SameMemo, Zenon
<1> QED
  BY <1>5, <1>6, <1>7, <1>8, Zenon DEF IInv

(* Every reachable state satisfies the inductive invariant.                *)
THEOREM InvHolds == Spec => []IInv
<1>1. IInv /\ [Next]_vars => IInv'
  BY AnswerFromMemoStep, CallStep, PublishStep, RunStep, WrapMintedStep,
     WrapRefsStep, IdleStep, Zenon DEF Next
<1> QED
  BY InitInv, <1>1, PTL DEF Spec

-----------------------------------------------------------------------------
(* The theorems *)

(* The command that makes a wrapper's record on the host is never one that *)
(* is held back: _method_is_staged stages no method that answers objects.  *)
THEOREM EveryWrapperResolves == Spec => []WrappersResolve
<1>1. IInv => WrappersResolve
  <2> SUFFICES ASSUME IInv PROVE WrappersResolve
    OBVIOUS
  <2>1. ASSUME NEW id \in DOMAIN wrappers, id \notin DOMAIN table
        PROVE  ring = "queued" /\ id.n = call.n
    <3>1. ring = "queued" /\ id \in {Minted(s) : s \in Slots}
      BY <2>1, Zenon DEF IInv, WrapperInv
    <3>2. PICK s \in Slots : id = Minted(s)
      BY <3>1
    <3> QED
      BY <3>1, <3>2, MintedFacts, Zenon
  <2> QED
    BY <2>1, Zenon DEF WrappersResolve
<1> QED
  BY InvHolds, <1>1, PTL

(* No object has two wrappers: a canonical method looks an object up before *)
(* it records it, and method_canonical lets a method be plain only where it *)
(* makes a new object each time.                                            *)
THEOREM WrapperPerObject == Spec => []OneWrapper
<1>1. IInv => OneWrapper
  <2> SUFFICES ASSUME IInv, NEW i \in DOMAIN wrappers, NEW j \in DOMAIN wrappers,
                      Registry(i), Registry(j), table[i].obj = table[j].obj
               PROVE  i = j
    BY Zenon DEF OneWrapper
  <2>1. i \in DOMAIN table /\ j \in DOMAIN table
        /\ table[i].obj # Failed /\ table[j].obj # Failed
    BY Zenon DEF Registry
  <2>2. CASE Canonical
    BY <2>1, <2>2, Zenon DEF IInv, TableInv
  <2>3. CASE ~Canonical
    <3>1. method \in Methods /\ Honest(method)
      BY Zenon DEF IInv, MethodInv
    <3>2. \A id \in DOMAIN table :
            /\ id = [n |-> id.n, slot |-> id.slot] /\ id.slot[1] \in OutSet(method)
            /\ table[id].obj # Failed =>
                 /\ table[id].obj.slot = id.slot
                 /\ method.fresh => table[id].obj.n = id.n
      BY Zenon DEF IInv, TableInv
    <3>3. OutSet(method) # {}
      BY <2>1, <3>2
    <3>4. method.fresh
      BY <2>3, <3>1, <3>3, PlainIsFresh, Zenon DEF Canonical
    <3>5. i.n = j.n /\ i.slot = j.slot
      BY <2>1, <3>2, <3>4, Zenon
    <3> QED
      BY <2>1, <3>2, <3>5, Zenon
  <2> QED
    BY <2>2, <2>3
<1> QED
  BY InvHolds, <1>1, PTL

(* What a thunk answers without the host is what the host would answer.    *)
THEOREM MemosAnswerAsCalls == Spec => []MemoAnswersAsCall
<1>1. IInv => MemoAnswersAsCall
  <2> SUFFICES ASSUME IInv PROVE MemoAnswersAsCall
    OBVIOUS
  <2>1. ASSUME call.n > 0, thread = "back", ring = "none", answer = <<>>
        PROVE  \A s \in Slots : s \in DOMAIN held /\ table[held[s]].obj = ObjectOf(s)
    <3>1. ~Pending
      BY <2>1 DEF Pending
    <3> QED
      BY <2>1, <3>1, Zenon DEF IInv, ToldInv
  <2>2. ASSUME thread = "back", ~learned
        PROVE  /\ method.ret \in {"void", "HRESULT"}
               /\ \A i \in DOMAIN method.params :
                    method.params[i].output => IsOutputComHandle(method.params[i])
               /\ method.ret = "HRESULT" /\ Outs(method) # <<>> => DOMAIN held # {}
    BY <2>2, Zenon DEF IInv, ToldInv, MethodAlwaysSync
  <2> QED
    BY <2>1, <2>2, Zenon DEF MemoAnswersAsCall
<1> QED
  BY InvHolds, <1>1, PTL

(* An answered object reaches the caller's slot for it, whichever out      *)
(* pointers were NULL, and a slot the call left NULL stays NULL.           *)
THEOREM ObjectsArrive == Spec => []AnswersArrive
<1>1. IInv => TypeOK
  <2> SUFFICES ASSUME IInv PROVE TypeOK
    OBVIOUS
  <2>1. \A key \in DOMAIN memo : memo[key] \in DOMAIN wrappers
    BY Zenon DEF IInv, MemoInv
  <2>2. Range(memo) \subseteq DOMAIN wrappers
    BY <2>1 DEF Range
  <2>3. method \in Methods
    BY Zenon DEF IInv, MethodInv
  <2>4. /\ thread \in {"back", "waiting", "wrapping"}
        /\ ring \in {"none", "staged", "queued"} /\ learned \in BOOLEAN
    BY Zenon DEF IInv, PhaseInv
  <2>5. /\ DOMAIN held \subseteq Slots
        /\ \A s \in DOMAIN held : held[s] \in DOMAIN wrappers
    BY Zenon DEF IInv, HeldInv
  <2> QED
    BY <2>2, <2>3, <2>4, <2>5, Zenon DEF TypeOK
<1>2. IInv => AnswersArrive
  <2> SUFFICES ASSUME IInv PROVE AnswersArrive
    OBVIOUS
  <2>1. \A s \in DOMAIN held : Registry(held[s]) => table[held[s]].obj = ObjectOf(s)
    BY Zenon DEF IInv, HeldInv
  <2>2. thread = "back" /\ answer # <<>> /\ ~answer.failed =>
          \A s \in Slots :
            /\ answer.objs[s] # Null => s \in DOMAIN held
            /\ MethodIsCanonical(method) /\ answer.objs[s] = Null => s \notin DOMAIN held
    BY Zenon DEF IInv, ToldInv, Canonical
  <2> QED
    BY <1>1, <2>1, <2>2, Zenon DEF AnswersArrive
<1> QED
  BY InvHolds, <1>2, PTL

(* The test generator's copy of the canonical rule decides as the          *)
(* registry's, on every method the registry accepts.                       *)
LEMMA TestsDecideAlike ==
  ASSUME NEW m \in Methods, Accepted(m)
  PROVE  TestMethodIsCanonical(m) <=> MethodIsCanonical(m)
<1>1. m.canonical \in {"none", "true", "false", "memo"}
      /\ m.create \in BOOLEAN /\ m.function \in BOOLEAN
  BY MethodsType DEF Method
<1>2. (\E i \in DOMAIN m.params : IsOutputComHandle(m.params[i])) <=> Outs(m) # <<>>
  <2>1. Outs(m) = <<>> <=> OutSet(m) = {}
    BY OutsRange, Zenon
  <2> QED
    BY <2>1 DEF OutSet
<1>3. CASE Outs(m) = <<>>
  BY <1>2, <1>3 DEF TestMethodIsCanonical, MethodIsCanonical, MethodCanonical
<1>4. CASE Outs(m) # <<>> /\ m.function
  BY <1>4 DEF TestMethodIsCanonical, MethodIsCanonical, MethodCanonical
<1>5. CASE Outs(m) # <<>> /\ ~m.function
  <2>1. MethodCanonical(m) = IF m.canonical = "none" THEN CanonicalDefault(m)
                             ELSE m.canonical
    BY <1>5 DEF MethodCanonical
  <2>2. TestMethodIsCanonical(m) <=> IF m.canonical # "none"
                                     THEN m.canonical \in {"true", "memo"} ELSE ~m.create
    BY <1>2, <1>5, Zenon DEF TestMethodIsCanonical
  <2>3. CASE m.canonical = "none"
    BY <1>1, <2>1, <2>2, <2>3 DEF MethodIsCanonical, CanonicalDefault
  <2>4. CASE m.canonical # "none"
    BY <2>1, <2>2, <2>4 DEF MethodIsCanonical
  <2> QED
    BY <2>3, <2>4
<1> QED
  BY <1>3, <1>4, <1>5

(* The tests fill the references the codec encodes, in its order.          *)
THEOREM TestsAgree == Spec => []TestsFillTheRefs
<1>1. IInv => TestsFillTheRefs
  <2> SUFFICES ASSUME IInv PROVE TestsFillTheRefs
    OBVIOUS
  <2>1. method \in Methods /\ Accepted(method)
    BY Zenon DEF IInv, MethodInv
  <2>2. TestMethodIsCanonical(method) <=> MethodIsCanonical(method)
    BY <2>1, TestsDecideAlike, Zenon
  <2>3. TestRefSlots(method, call.nulls)
          = IF TestMethodIsCanonical(method) THEN HostRefSlots(method, call.nulls)
            ELSE <<>>
    BY Zenon DEF TestRefSlots, HostRefSlots, Outs
  <2> QED
    BY <2>2, <2>3, Zenon DEF TestsFillTheRefs
<1> QED
  BY InvHolds, <1>1, PTL

-----------------------------------------------------------------------------
(* The interfaces of records and wrappers *)

(* A thread that holds registered ids holds them under the asked names.    *)
LEMMA HeldByName ==
  IInv /\ WrappersNamed /\ (\A s \in DOMAIN held : Registry(held[s])) => HeldNamed
<1> SUFFICES ASSUME IInv, WrappersNamed, NEW s \in DOMAIN held, Registry(held[s])
             PROVE  wrappers[held[s]] = Asked(s)
  BY Zenon DEF HeldNamed
<1>1. /\ s \in Slots /\ held[s] \in DOMAIN wrappers
      /\ table[held[s]].obj = ObjectOf(s)
  BY Zenon DEF IInv, HeldInv
<1>2. ObjectOf(s).iid = Asked(s)
  BY DEF ObjectOf
<1> QED
  BY <1>1, <1>2, Zenon DEF WrappersNamed

LEMMA HeldByNameNext ==
  (IInv /\ WrappersNamed /\ (\A s \in DOMAIN held : Registry(held[s])) => HeldNamed)'
  BY HeldByName, PTL

(* The interface either side gives a slot is the one asked for.            *)
LEMMA SlotNamed ==
  ASSUME IInv, IidsPrecedeVoids(method), NEW s \in Slots
  PROVE  HostType(s[1]) = Asked(s) /\ ClientTypeAt(s[1]) = Asked(s)
         /\ ObjectOf(s).iid = Asked(s)
<1>1. method \in Methods /\ s[1] \in OutSet(method) /\ ObjectOf(s).iid = Asked(s)
  BY SlotFacts, Zenon DEF IInv, MethodInv, Distinct
<1>2. TypeFor(s[1]) = Asked(s)
  BY <1>1, TypeForAsked, Zenon
<1>3. HostType(s[1]) = TypeFor(s[1]) /\ ClientTypeAt(s[1]) = TypeFor(s[1])
  BY <1>1, HostTypes, ClientTypes, Zenon
<1> QED
  BY <1>1, <1>2, <1>3, Zenon

LEMMA NamedCall ==
  ASSUME IInv, NamedInv, Call PROVE NamedInv'
<1>1. held' = <<>> /\ table' = table /\ wrappers' = wrappers
  BY Zenon DEF Call
<1>2. DOMAIN held' = {}
  BY <1>1
<1>3. HeldNamed'
  BY <1>2, Zenon DEF HeldNamed
<1> QED
  BY <1>1, <1>3, Zenon DEF NamedInv, RecordsNamed, WrappersNamed, Registry

LEMMA NamedMemo ==
  ASSUME IInv, IInv', NamedInv, AnswerFromMemo PROVE NamedInv'
<1>1. PICK c \in Calls :
        /\ Fits(c) /\ MemoHit(c) /\ call' = c
        /\ held' = [x \in {<<ClientOutputs(method)[1].pos, 1>>} |-> memo[MemoKey(c)]]
  BY Zenon DEF AnswerFromMemo
<1>2. table' = table /\ wrappers' = wrappers
  BY Zenon DEF AnswerFromMemo
<1>3. memo[MemoKey(c)] \in DOMAIN table /\ MethodCanonical(method) = "memo"
  BY <1>1, Zenon DEF IInv, MemoInv, MemoHit
<1>4. Canonical
  BY <1>3 DEF Canonical, MethodIsCanonical
<1>5. table[memo[MemoKey(c)]].obj # Failed
  BY <1>3, <1>4, Zenon DEF IInv, TableInv
<1>6. \A s \in DOMAIN held' : held'[s] = memo[MemoKey(c)]
  BY <1>1
<1>7. \A s \in DOMAIN held' : Registry(held[s])'
  BY <1>2, <1>3, <1>5, <1>6, Zenon DEF Registry
<1>8. RecordsNamed' /\ WrappersNamed'
  BY <1>2, Zenon DEF NamedInv, RecordsNamed, WrappersNamed, Registry
<1>9. HeldNamed'
  BY <1>7, <1>8, HeldByNameNext, Zenon
<1> QED
  BY <1>8, <1>9, Zenon DEF NamedInv

LEMMA NamedRun ==
  ASSUME IInv, IidsPrecedeVoids(method), NamedInv, Run PROVE NamedInv'
<1>1. /\ ring = "queued" /\ method' = method /\ call' = call
      /\ wrappers' = wrappers /\ held' = held
  BY Zenon DEF Run
<1>2. PICK a, fails :
        /\ fails \in BOOLEAN /\ Answered(a)
        /\ fails => \A s \in Slots : a[s] = Null
        /\ answer' = [failed |-> fails, objs |-> a]
        /\ Canonical => table' = RegisterCanonical(a) /\ refs' = ReplyRefs(a)
        /\ ~Canonical => table' = RegisterOutputs(a)
  BY RunFacts, Zenon
<1>3. ring # "none" /\ Pending
  BY <1>1 DEF Pending
<1>4. method \in Methods /\ call.n # 0 /\ Typed(call)
  BY <1>1, <1>3, CallGoesOn, Zenon
<1>5. Canonical => CanonicalRecords(a, table')
  BY <1>2, <1>3, <1>4, CanonicalTable, Zenon
<1>6. ~Canonical => PlainRecords(a, table')
  BY <1>2, <1>3, <1>4, PlainTable, Zenon
<1>7. \A id \in DOMAIN table : id \in DOMAIN table' /\ table'[id] = table[id]
  BY <1>5, <1>6, Zenon DEF CanonicalRecords, PlainRecords
<1>8. ASSUME NEW id \in DOMAIN table', id \notin DOMAIN table
      PROVE  \E s \in Slots :
               /\ id = Minted(s)
               /\ table'[id].obj # Failed =>
                    table'[id].obj.iid = Asked(s) /\ table'[id].type = Asked(s)
  <2>1. CASE Canonical
    <3>1. PICK s \in Slots :
            /\ id = Minted(s) /\ a[s] = ObjectOf(s)
            /\ table'[id] = [obj |-> a[s], type |-> HostType(s[1])]
      BY <1>5, <1>8, <2>1, Zenon DEF CanonicalRecords
    <3>2. table'[id].obj = ObjectOf(s) /\ table'[id].type = HostType(s[1])
      BY <3>1
    <3> QED
      BY <3>1, <3>2, SlotNamed, Zenon
  <2>2. CASE ~Canonical
    <3>1. PICK s \in Slots : id = Minted(s)
      BY <1>6, <1>8, <2>2, Zenon DEF PlainRecords
    <3>2. table'[id] = IF a[s] = Null THEN [obj |-> Failed, type |-> "none"]
                       ELSE [obj |-> ObjectOf(s), type |-> HostType(s[1])]
      BY <1>6, <2>2, <3>1, Zenon DEF PlainRecords
    <3>3. table'[id].obj # Failed =>
            table'[id].obj = ObjectOf(s) /\ table'[id].type = HostType(s[1])
      BY <3>2
    <3> QED
      BY <3>1, <3>3, SlotNamed, Zenon
  <2> QED
    BY <2>1, <2>2
<1>9. RecordsNamed'
  <2> SUFFICES ASSUME NEW id \in DOMAIN table', table'[id].obj # Failed
               PROVE  table'[id].type = table'[id].obj.iid
    BY Zenon DEF RecordsNamed
  <2>1. CASE id \in DOMAIN table
    BY <1>7, <2>1, Zenon DEF NamedInv, RecordsNamed
  <2>2. CASE id \notin DOMAIN table
    BY <1>8, <2>2, Zenon
  <2> QED
    BY <2>1, <2>2
<1>10. WrappersNamed'
  <2> SUFFICES ASSUME NEW id \in DOMAIN wrappers, id \in DOMAIN table',
                      table'[id].obj # Failed
               PROVE  wrappers[id] = table'[id].obj.iid
    BY <1>1, Zenon DEF WrappersNamed, Registry
  <2>1. CASE id \in DOMAIN table
    BY <1>7, <2>1, Zenon DEF NamedInv, WrappersNamed, Registry
  <2>2. CASE id \notin DOMAIN table
    <3>1. PICK s \in Slots : id = Minted(s) /\ table'[id].obj.iid = Asked(s)
      BY <1>8, <2>2, Zenon
    <3>2. thread = "back"
      BY <2>2, Zenon DEF IInv, WrapperInv
    <3>3. s \in DOMAIN held /\ held[s] = Minted(s)
      BY <1>3, <3>2, Zenon DEF IInv, HeldInv
    <3> QED
      BY <3>1, <3>3, Zenon DEF NamedInv, HeldNamed
  <2> QED
    BY <2>1, <2>2
<1>11. HeldNamed'
  BY <1>1, SameCall, Zenon DEF NamedInv, HeldNamed
<1> QED
  BY <1>9, <1>10, <1>11, Zenon DEF NamedInv

LEMMA NamedWrapMinted ==
  ASSUME IInv, IInv', IidsPrecedeVoids(method), NamedInv, WrapMinted PROVE NamedInv'
<1> DEFINE type(i) == ClientTypeAt(i.slot[1])
<1>1. /\ held' = [s \in Wraps |-> Minted(s)]
      /\ wrappers' = Wrap({Minted(s) : s \in Wraps}, type)
      /\ thread' = "back" /\ method' = method /\ call' = call /\ table' = table
  BY Zenon DEF WrapMinted
<1>2. thread # "back"
  BY Zenon DEF WrapMinted
<1>3. Wraps \subseteq Slots
  <2>1. Wrapped \subseteq Slots
    BY Zenon DEF Wrapped
  <2> QED
    BY <2>1, Zenon DEF Wraps
<1>4. /\ \A i : i \in DOMAIN wrappers' <=>
                  i \in DOMAIN wrappers \/ i \in {Minted(s) : s \in Wraps}
      /\ \A i \in DOMAIN wrappers : wrappers'[i] = wrappers[i]
      /\ \A i \in {Minted(s) : s \in Wraps} :
           i \notin DOMAIN wrappers => wrappers'[i] = type(i)
  BY <1>1 DEF Wrap
<1>5. DOMAIN held' = Wraps /\ \A s \in Wraps : held'[s] = Minted(s)
  BY <1>1
<1>6. ASSUME NEW s \in Wraps
      PROVE  /\ Minted(s) \in DOMAIN wrappers' /\ wrappers'[Minted(s)] = Asked(s)
             /\ Registry(Minted(s)) => table[Minted(s)].obj.iid = Asked(s)
  <2>1. Minted(s).n = call.n /\ Minted(s).slot = s
    BY MintedFacts, Zenon
  <2>2. Minted(s) \notin DOMAIN wrappers
    BY <1>2, <2>1, Zenon DEF IInv, WrapperInv
  <2>3. Minted(s) \in {Minted(t) : t \in Wraps}
    OBVIOUS
  <2>4. wrappers'[Minted(s)] = ClientTypeAt(s[1])
    BY <1>4, <2>1, <2>2, <2>3, Zenon
  <2>5. s \in Slots
    BY <1>3
  <2>6. wrappers'[Minted(s)] = Asked(s) /\ ObjectOf(s).iid = Asked(s)
    BY <2>4, <2>5, SlotNamed, Zenon
  <2>7. Registry(Minted(s)) => table[Minted(s)].obj = ObjectOf(s)
    <3>1. s \in DOMAIN held'
      BY <1>5
    <3>2. Registry(held[s])' => table'[held'[s]].obj = ObjectOf(s)'
      BY <3>1, Zenon DEF IInv, HeldInv
    <3>3. ObjectOf(s)' = ObjectOf(s)
      BY <1>1, SameCall, Zenon
    <3> QED
      BY <1>1, <1>5, <3>2, <3>3, Zenon DEF Registry
  <2> QED
    BY <1>4, <2>3, <2>6, <2>7, Zenon
<1>7. RecordsNamed'
  BY <1>1, Zenon DEF NamedInv, RecordsNamed
<1>8. WrappersNamed'
  <2> SUFFICES ASSUME NEW id \in DOMAIN wrappers', Registry(id)
               PROVE  wrappers'[id] = table[id].obj.iid
    BY <1>1, Zenon DEF WrappersNamed, Registry
  <2>1. CASE id \in DOMAIN wrappers
    BY <1>4, <2>1, Zenon DEF NamedInv, WrappersNamed
  <2>2. CASE id \in {Minted(s) : s \in Wraps}
    <3>1. PICK s \in Wraps : id = Minted(s)
      BY <2>2
    <3> QED
      BY <1>6, <3>1, Zenon
  <2> QED
    BY <1>4, <2>1, <2>2
<1>9. HeldNamed'
  BY <1>1, <1>5, <1>6, SameCall, Zenon DEF HeldNamed
<1> QED
  BY <1>7, <1>8, <1>9, Zenon DEF NamedInv

LEMMA NamedWrapRefs ==
  ASSUME IInv, IInv', IidsPrecedeVoids(method), NamedInv, WrapRefs PROVE NamedInv'
<1> DEFINE h == HostRefSlots(method, call.nulls)
           k(i) == CHOOSE k \in RefsGiven : RefGiven(k) = i
           type(i) == ClientTypeAt(h[k(i)][1])
<1>1. /\ thread = "waiting" /\ ring = "none" /\ Canonical
      /\ method' = method /\ call' = call /\ table' = table
  BY Zenon DEF WrapRefs, Canonical
<1>2. method \in Methods /\ ~Pending
  BY <1>1, Zenon DEF IInv, MethodInv, Pending
<1>3. wrappers' = Wrap({RefGiven(j) : j \in RefsGiven}, type)
      /\ held' = [s \in {h[j] : j \in RefsGiven} |->
                    RefGiven(CHOOSE j \in RefsGiven : h[j] = s)]
  <2>1. ThunkRefSlots(method, call.nulls) = h
    BY <1>2, RefsInStep, Zenon
  <2> QED
    BY <2>1, SMTT(60) DEF WrapRefs, RefsGiven, RefGiven
<1>4. \A j \in RefsGiven : /\ h[j] \in Slots /\ RefGiven(j) \in DOMAIN table
                           /\ table[RefGiven(j)].obj = ObjectOf(h[j])
  BY <1>1, <1>2, RefsGivenFacts, Zenon
<1>5. /\ \A i : i \in DOMAIN wrappers' <=>
                  i \in DOMAIN wrappers \/ i \in {RefGiven(j) : j \in RefsGiven}
      /\ \A i \in DOMAIN wrappers : wrappers'[i] = wrappers[i]
      /\ \A i \in {RefGiven(j) : j \in RefsGiven} :
           i \notin DOMAIN wrappers => wrappers'[i] = type(i)
  BY <1>3 DEF Wrap
<1>6. RecordsNamed'
  BY <1>1, Zenon DEF NamedInv, RecordsNamed
<1>7. WrappersNamed'
  <2> SUFFICES ASSUME NEW id \in DOMAIN wrappers', Registry(id)
               PROVE  wrappers'[id] = table[id].obj.iid
    BY <1>1, Zenon DEF WrappersNamed, Registry
  <2>1. CASE id \in DOMAIN wrappers
    BY <1>5, <2>1, Zenon DEF NamedInv, WrappersNamed
  <2>2. CASE id \notin DOMAIN wrappers
    <3>1. PICK j \in RefsGiven : id = RefGiven(j)
      BY <1>5, <2>2
    <3>2. k(id) \in RefsGiven /\ RefGiven(k(id)) = id
      BY <3>1
    <3>3. wrappers'[id] = ClientTypeAt(h[k(id)][1])
      BY <1>5, <2>2, Zenon
    <3> HIDE DEF h, k
    <3>4. h[k(id)] \in Slots /\ table[id].obj = ObjectOf(h[k(id)])
      BY <1>4, <3>2, Zenon
    <3> QED
      BY <3>3, <3>4, SlotNamed, Zenon
  <2> QED
    BY <2>1, <2>2
<1>8. \A s \in DOMAIN held' : Registry(held[s])'
  <2> SUFFICES ASSUME NEW s \in DOMAIN held'
               PROVE  held'[s] \in DOMAIN table /\ table[held'[s]].obj # Failed
    BY <1>1, Zenon DEF Registry
  <2> DEFINE j == CHOOSE j \in RefsGiven : h[j] = s
  <2>1. \E x \in RefsGiven : h[x] = s
    BY <1>3
  <2>2. held'[s] = RefGiven(j)
    BY <1>3
  <2>3. j \in RefsGiven
    BY <2>1
  <2> HIDE DEF j
  <2>4. held'[s] \in DOMAIN table
    BY <1>4, <2>2, <2>3, Zenon
  <2> QED
    BY <1>1, <2>4, Zenon DEF IInv, TableInv
<1>9. HeldNamed'
  BY <1>7, <1>8, HeldByNameNext, Zenon
<1> QED
  BY <1>6, <1>7, <1>9, Zenon DEF NamedInv

LEMMA NamedNext ==
  ASSUME \A m \in Methods : IidsPrecedeVoids(m), IInv, NamedInv, [Next]_vars
  PROVE  NamedInv'
<1>1. IidsPrecedeVoids(method)
  BY Zenon DEF IInv, MethodInv
<1>2. IInv'
  BY AnswerFromMemoStep, CallStep, PublishStep, RunStep, WrapMintedStep,
     WrapRefsStep, IdleStep, Zenon DEF Next
<1>3. CASE Publish \/ UNCHANGED vars
  <2>1. /\ table' = table /\ wrappers' = wrappers /\ held' = held
        /\ method' = method /\ call' = call
    BY <1>3 DEF Publish, vars
  <2> QED
    BY <2>1, SameCall, Zenon
       DEF NamedInv, RecordsNamed, WrappersNamed, HeldNamed, Registry
<1> QED
  BY <1>1, <1>2, <1>3, NamedCall, NamedMemo, NamedRun, NamedWrapMinted, NamedWrapRefs,
     Zenon DEF Next

(* Where every IID comes right before a `void **`, which the loader does   *)
(* not check, the wrapper and the host's record have the interface that    *)
(* IID names: riid_exprs_for and riid_params, which pair by number, pair   *)
(* by place.                                                               *)
THEOREM NamedAsAsked ==
  ASSUME \A m \in Methods : IidsPrecedeVoids(m)
  PROVE  Spec => []NamedByItsIid
<1>1. Init => NamedInv
  <2> SUFFICES ASSUME Init PROVE NamedInv
    OBVIOUS
  <2>1. DOMAIN table = {} /\ DOMAIN wrappers = {} /\ DOMAIN held = {}
    BY DEF Init
  <2> QED
    BY <2>1, Zenon DEF NamedInv, RecordsNamed, WrappersNamed, HeldNamed
<1>2. IInv /\ NamedInv /\ [Next]_vars => NamedInv'
  BY NamedNext
<1>3. IInv /\ NamedInv => NamedByItsIid
  <2> SUFFICES ASSUME IInv, NamedInv, NEW s \in DOMAIN held
               PROVE  /\ wrappers[held[s]] = Asked(s)
                      /\ Registry(held[s]) => table[held[s]].type = Asked(s)
    BY Zenon DEF NamedByItsIid
  <2>1. wrappers[held[s]] = Asked(s)
    BY Zenon DEF NamedInv, HeldNamed
  <2>2. ASSUME Registry(held[s]) PROVE table[held[s]].type = Asked(s)
    <3>1. table[held[s]].obj = ObjectOf(s)
      BY <2>2, Zenon DEF IInv, HeldInv
    <3>2. ObjectOf(s).iid = Asked(s)
      BY DEF ObjectOf
    <3> QED
      BY <2>2, <3>1, <3>2, Zenon DEF NamedInv, RecordsNamed, Registry
  <2> QED
    BY <2>1, <2>2
<1> QED
  BY InvHolds, <1>1, <1>2, <1>3, PTL DEF Spec

=============================================================================
