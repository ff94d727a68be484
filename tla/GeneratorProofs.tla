-------------------------- MODULE GeneratorProofs --------------------------
(***************************************************************************)
(* What the generator makes of a registry, for any registry.                *)
(*                                                                         *)
(* The interfaces: slots, families and tables that are made from their      *)
(* parents agree, whatever order the registry has.  The loop's invariant    *)
(* relates each resolved interface to its parent, which is resolved too;    *)
(* the properties follow by going up the parents, whose chains end          *)
(* (Founded).                                                              *)
(*                                                                         *)
(* The headers: what a depth-first walk writes is in post-order            *)
(* (DepthFirstIs), each name after those it leads to unless they lead back *)
(* to it.  A header is in order when each part fits below the parts above  *)
(* it (PlacedConcat), and each section is one such part (DeclInv).         *)
(***************************************************************************)
EXTENDS InterfaceChain, DeclOrder, Inductions

---------------------------------------------------------------------------
(* Recursion along the parents.                                             *)

LEMMA FoundedBelow ==
  ASSUME NEW A, NEW p, Founded(A, p), NEW B \in SUBSET A, NEW q,
         \A i \in B : q[i] \in B => q[i] = p[i]
  PROVE  Founded(B, q)
<1> SUFFICES ASSUME NEW S \in SUBSET B, S # {} PROVE \E i \in S : q[i] \notin S
  BY DEF Founded
<1>1. PICK i \in S : p[i] \notin S
  BY DEF Founded
<1> QED
  BY <1>1

LEMMA RegFacts ==
  ASSUME reg \in Registries
  PROVE  /\ Founded(All, reg.parent)
         /\ \A i \in Names : i \in All /\ reg.parent[i] \in All
         /\ reg.parent["IUnknown"] = "none" /\ "none" \notin All /\ "IUnknown" \notin Names
         /\ reg.methods \in [All -> Nat] /\ reg.uuid \in [Names -> BOOLEAN]
<1>1. /\ \A i \in Names : i \in All /\ reg.parent[i] \in All
      /\ reg.parent["IUnknown"] = "none" /\ "none" \notin All /\ "IUnknown" \notin Names
      /\ reg.methods \in [All -> Nat] /\ reg.uuid \in [Names -> BOOLEAN]
  BY NamesType, RegistriesType DEF All
<1>2. Founded(All, reg.parent)
  <2> SUFFICES ASSUME NEW S \in SUBSET All, S # {} PROVE \E i \in S : reg.parent[i] \notin S
    BY DEF Founded
  <2>1. CASE "IUnknown" \in S
    BY <1>1, <2>1
  <2>2. CASE "IUnknown" \notin S
    <3>1. S \in SUBSET Names
      BY <2>2 DEF All
    <3> QED
      BY <3>1, ParentsEnd
  <2> QED
    BY <2>1, <2>2
<1> QED
  BY <1>1, <1>2

LEMMA UnresolvedIs ==
  ASSUME reg \in Registries
  PROVE  /\ Unresolved \in [All -> SUBSET All]
         /\ \A i \in All : Unresolved[i] =
              IF total[i] > 0 THEN {}
              ELSE {i} \cup (IF reg.parent[i] \in All THEN Unresolved[reg.parent[i]] ELSE {})
<1> DEFINE p == reg.parent
           Says(f) == f = [i \in All |-> IF total[i] > 0 THEN {}
                                         ELSE {i} \cup (IF p[i] \in All THEN f[p[i]] ELSE {})]
           step == [x \in All \X SUBSET All |-> IF total[x[1]] > 0 THEN {} ELSE {x[1]} \cup x[2]]
<1>1. Founded(All, p)
  BY RegFacts
<1>2. step \in [All \X SUBSET All -> SUBSET All]
  <2>1. \A x \in All \X SUBSET All :
          (IF total[x[1]] > 0 THEN {} ELSE {x[1]} \cup x[2]) \in SUBSET All
    OBVIOUS
  <2> QED
    BY <2>1
<1>3. PICK f \in [All -> SUBSET All] : ByParent(f, All, p, {}, step)
  <2>1. {} \in SUBSET All
    OBVIOUS
  <2> HIDE DEF p, step
  <2> QED
    BY <1>1, <1>2, <2>1, ParentRecursion
<1>4. Says(f)
  <2>1. \A i \in All : f[i] = IF total[i] > 0 THEN {}
                              ELSE {i} \cup (IF p[i] \in All THEN f[p[i]] ELSE {})
    <3> TAKE i \in All
    <3> DEFINE a == IF p[i] \in All THEN f[p[i]] ELSE {}
    <3>1. f[i] = step[<<i, a>>]
      BY <1>3 DEF ByParent
    <3>2. a \in SUBSET All
      BY <1>3
    <3> HIDE DEF a
    <3>3. step[<<i, a>>] = IF total[i] > 0 THEN {} ELSE {i} \cup a
      BY <3>2
    <3> QED
      BY <3>1, <3>3 DEF a
  <2> HIDE DEF p, step
  <2> QED
    BY <1>3, <2>1
<1>5. Unresolved = CHOOSE g : Says(g)
  BY DEF Unresolved
<1>6. Says(Unresolved)
  <2> HIDE DEF Says
  <2> QED
    BY <1>4, <1>5, Zenon
<1> HIDE DEF step
<1>7. \A i \in All : Unresolved[i] =
         IF total[i] > 0 THEN {} ELSE {i} \cup (IF p[i] \in All THEN Unresolved[p[i]] ELSE {})
  BY <1>6, Zenon
<1>8. Unresolved \in [All -> SUBSET All]
  <2> DEFINE D == {i \in All : Unresolved[i] \in SUBSET All}
  <2>1. \A i \in All : (p[i] \in All => p[i] \in D) => i \in D
    <3> TAKE i \in All
    <3> HAVE p[i] \in All => p[i] \in D
    <3>1. p[i] \in All => Unresolved[p[i]] \in SUBSET All
      OBVIOUS
    <3> HIDE DEF p, Says
    <3>2. Unresolved[i] \in SUBSET All
      BY <1>7, <3>1
    <3> QED
      BY <3>2
  <2>2. All \subseteq D
    <3> HIDE DEF p, D
    <3> QED
      BY <1>1, <2>1, ParentInduction
  <2>3. \A i \in All : Unresolved[i] \in SUBSET All
    BY <2>2
  <2>4. Unresolved = [i \in All |-> IF total[i] > 0 THEN {}
                         ELSE {i} \cup (IF p[i] \in All THEN Unresolved[p[i]] ELSE {})]
    BY <1>6
  <2> HIDE DEF Says, p, D
  <2> QED
    BY <2>3, <2>4
<1> QED
  BY <1>7, <1>8

LEMMA BaseIs ==
  ASSUME reg \in Registries, total \in [All -> Nat], base \in [All -> Nat]
  PROVE  \A i \in All : Base[i] \in Nat /\ Base[i] = IF total[i] > 0 THEN base[i]
                       ELSE IF reg.parent[i] \notin All THEN 0
                       ELSE IF total[reg.parent[i]] > 0 THEN total[reg.parent[i]]
                       ELSE Base[reg.parent[i]] + reg.methods[reg.parent[i]]
<1> DEFINE up == reg.parent
           V == Nat
           Rhs(f, i) == IF total[i] > 0 THEN base[i]
                       ELSE IF up[i] \notin All THEN 0
                       ELSE IF total[up[i]] > 0 THEN total[up[i]]
                       ELSE f[up[i]] + reg.methods[up[i]]
           Says(f) == f = [i \in All |-> Rhs(f, i)]
           Step(i, a) == IF total[i] > 0 THEN base[i]
                          ELSE IF up[i] \notin All THEN 0
                          ELSE IF total[up[i]] > 0 THEN total[up[i]]
                          ELSE a + reg.methods[up[i]]
           step == [x \in All \X V |-> Step(x[1], x[2])]
<1>1. Founded(All, up) /\ reg.methods \in [All -> Nat]
  BY RegFacts
<1>2. \A i \in All, a \in V : Step(i, a) \in V
  BY <1>1
<1>3. step \in [All \X V -> V]
  <2> HIDE DEF Step, V
  <2> QED
    BY <1>2
<1>4. 0 \in V
  OBVIOUS
<1>5. PICK f \in [All -> V] : ByParent(f, All, up, 0, step)
  <2> HIDE DEF up, step, V
  <2> QED
    BY <1>1, <1>3, <1>4, ParentRecursion
<1>6. \A i \in All : f[i] = Step(i, IF up[i] \in All THEN f[up[i]] ELSE 0)
  <2> TAKE i \in All
  <2> DEFINE a == IF up[i] \in All THEN f[up[i]] ELSE 0
  <2>1. f[i] = step[<<i, a>>]
    BY <1>5 DEF ByParent
  <2>2. a \in V
    BY <1>4, <1>5
  <2> HIDE DEF a, Step, V
  <2>3. step[<<i, a>>] = Step(i, a)
    BY <2>2
  <2> QED
    BY <2>1, <2>3 DEF a
<1> HIDE DEF step
<1>7. ASSUME NEW g, NEW i \in All
      PROVE  Step(i, IF up[i] \in All THEN g[up[i]] ELSE 0) = Rhs(g, i)
  <2> HIDE DEF up, V
  <2> QED
    OBVIOUS
<1> HIDE DEF Step
<1>8. Says(f)
  <2>1. \A i \in All : f[i] = Rhs(f, i)
    <3> HIDE DEF Rhs, up, V
    <3> QED
      BY <1>6, <1>7
  <2> HIDE DEF Rhs, up, V
  <2> QED
    BY <1>5, <2>1
<1>9. Base = CHOOSE g : Says(g)
  BY DEF Base
<1> HIDE DEF Rhs
<1>10. Says(Base)
  <2> HIDE DEF Says
  <2> QED
    BY <1>8, <1>9, Zenon
<1>11. \A i \in All : Base[i] = Rhs(Base, i)
  BY <1>10, Zenon
<1>12. \A i \in All : Base[i] \in V
  <2> DEFINE D == {i \in All : Base[i] \in V}
  <2>1. \A i \in All : (up[i] \in All => up[i] \in D) => i \in D
    <3> TAKE i \in All
    <3> HAVE up[i] \in All => up[i] \in D
    <3> HIDE DEF up, V, Says
    <3>1. (IF up[i] \in All THEN Base[up[i]] ELSE 0) \in V
      BY <1>4
    <3>2. Base[i] \in V
      BY <1>2, <1>7, <1>11, <3>1
    <3> QED
      BY <3>2
  <2>2. All \subseteq D
    <3> HIDE DEF up, D
    <3> QED
      BY <1>1, <2>1, ParentInduction
  <2> QED
    BY <2>2
<1>13. \A i \in All : Base[i] = IF total[i] > 0 THEN base[i]
                       ELSE IF reg.parent[i] \notin All THEN 0
                       ELSE IF total[reg.parent[i]] > 0 THEN total[reg.parent[i]]
                       ELSE Base[reg.parent[i]] + reg.methods[reg.parent[i]]
  BY <1>11 DEF Rhs
<1> QED
  BY <1>12, <1>13

LEMMA FamilyIs ==
  ASSUME reg \in Registries, NEW vp, \A i \in All : vp[i] \in All => vp[i] = reg.parent[i]
  PROVE  \A i \in All : Family(vp)[i] \in All /\ Family(vp)[i] = IF vp[i] \in Names /\ Stem[vp[i]] = Stem[i] THEN Family(vp)[vp[i]] ELSE i
<1> DEFINE up == vp
           V == All
           Rhs(f, i) == IF up[i] \in Names /\ Stem[up[i]] = Stem[i] THEN f[up[i]] ELSE i
           Says(f) == f = [i \in All |-> Rhs(f, i)]
           Step(i, a) == IF up[i] \in Names /\ Stem[up[i]] = Stem[i] THEN a ELSE i
           step == [x \in All \X V |-> Step(x[1], x[2])]
<1>1. Founded(All, up) /\ Names \subseteq All
  BY RegFacts, FoundedBelow DEF All
<1>2. \A i \in All, a \in V : Step(i, a) \in V
  BY <1>1
<1>3. step \in [All \X V -> V]
  <2> HIDE DEF Step, V
  <2> QED
    BY <1>2
<1>4. "IUnknown" \in V
  BY DEF All
<1>5. PICK f \in [All -> V] : ByParent(f, All, up, "IUnknown", step)
  <2> HIDE DEF up, step, V
  <2> QED
    BY <1>1, <1>3, <1>4, ParentRecursion
<1>6. \A i \in All : f[i] = Step(i, IF up[i] \in All THEN f[up[i]] ELSE "IUnknown")
  <2> TAKE i \in All
  <2> DEFINE a == IF up[i] \in All THEN f[up[i]] ELSE "IUnknown"
  <2>1. f[i] = step[<<i, a>>]
    BY <1>5 DEF ByParent
  <2>2. a \in V
    BY <1>4, <1>5
  <2> HIDE DEF a, Step, V
  <2>3. step[<<i, a>>] = Step(i, a)
    BY <2>2
  <2> QED
    BY <2>1, <2>3 DEF a
<1> HIDE DEF step
<1>7. ASSUME NEW g, NEW i \in All
      PROVE  Step(i, IF up[i] \in All THEN g[up[i]] ELSE "IUnknown") = Rhs(g, i)
  <2> HIDE DEF up, V
  <2> QED
    BY DEF All
<1> HIDE DEF Step
<1>8. Says(f)
  <2>1. \A i \in All : f[i] = Rhs(f, i)
    <3> HIDE DEF Rhs, up, V
    <3> QED
      BY <1>6, <1>7
  <2> HIDE DEF Rhs, up, V
  <2> QED
    BY <1>5, <2>1
<1>9. Family(vp) = CHOOSE g : Says(g)
  BY DEF Family
<1> HIDE DEF Rhs
<1>10. Says(Family(vp))
  <2> HIDE DEF Says
  <2> QED
    BY <1>8, <1>9, Zenon
<1>11. \A i \in All : Family(vp)[i] = Rhs(Family(vp), i)
  BY <1>10, Zenon
<1>12. \A i \in All : Family(vp)[i] \in V
  <2> DEFINE D == {i \in All : Family(vp)[i] \in V}
  <2>1. \A i \in All : (up[i] \in All => up[i] \in D) => i \in D
    <3> TAKE i \in All
    <3> HAVE up[i] \in All => up[i] \in D
    <3> HIDE DEF up, V, Says
    <3>1. (IF up[i] \in All THEN Family(vp)[up[i]] ELSE "IUnknown") \in V
      BY <1>4
    <3>2. Family(vp)[i] \in V
      BY <1>2, <1>7, <1>11, <3>1
    <3> QED
      BY <3>2
  <2>2. All \subseteq D
    <3> HIDE DEF up, D
    <3> QED
      BY <1>1, <2>1, ParentInduction
  <2> QED
    BY <2>2
<1>13. \A i \in All : Family(vp)[i] = IF vp[i] \in Names /\ Stem[vp[i]] = Stem[i] THEN Family(vp)[vp[i]] ELSE i
  BY <1>11 DEF Rhs
<1> QED
  BY <1>12, <1>13

LEMMA ParentChainIs ==
  ASSUME reg \in Registries, \A i \in All : parent[i] \in All => parent[i] = reg.parent[i]
  PROVE  \A i \in All : ParentChain[i] \in Seq(Names) /\ ParentChain[i] = IF parent[i] \in Names THEN Append(ParentChain[parent[i]], parent[i]) ELSE <<>>
<1> DEFINE up == parent
           V == Seq(Names)
           Rhs(f, i) == IF up[i] \in Names THEN Append(f[up[i]], up[i]) ELSE <<>>
           Says(f) == f = [i \in All |-> Rhs(f, i)]
           Step(i, a) == IF up[i] \in Names THEN Append(a, up[i]) ELSE <<>>
           step == [x \in All \X V |-> Step(x[1], x[2])]
<1>1. Founded(All, up) /\ Names \subseteq All
  BY RegFacts, FoundedBelow DEF All
<1>2. \A i \in All, a \in V : Step(i, a) \in V
  BY EmptySeq, AppendProperties
<1>3. step \in [All \X V -> V]
  <2> HIDE DEF Step, V
  <2> QED
    BY <1>2
<1>4. <<>> \in V
  BY EmptySeq
<1>5. PICK f \in [All -> V] : ByParent(f, All, up, <<>>, step)
  <2> HIDE DEF up, step, V
  <2> QED
    BY <1>1, <1>3, <1>4, ParentRecursion
<1>6. \A i \in All : f[i] = Step(i, IF up[i] \in All THEN f[up[i]] ELSE <<>>)
  <2> TAKE i \in All
  <2> DEFINE a == IF up[i] \in All THEN f[up[i]] ELSE <<>>
  <2>1. f[i] = step[<<i, a>>]
    BY <1>5 DEF ByParent
  <2>2. a \in V
    BY <1>4, <1>5
  <2> HIDE DEF a, Step, V
  <2>3. step[<<i, a>>] = Step(i, a)
    BY <2>2
  <2> QED
    BY <2>1, <2>3 DEF a
<1> HIDE DEF step
<1>7. ASSUME NEW g, NEW i \in All
      PROVE  Step(i, IF up[i] \in All THEN g[up[i]] ELSE <<>>) = Rhs(g, i)
  <2> HIDE DEF up, V
  <2> QED
    BY DEF All
<1> HIDE DEF Step
<1>8. Says(f)
  <2>1. \A i \in All : f[i] = Rhs(f, i)
    <3> HIDE DEF Rhs, up, V
    <3> QED
      BY <1>6, <1>7
  <2> HIDE DEF Rhs, up, V
  <2> QED
    BY <1>5, <2>1
<1>9. ParentChain = CHOOSE g : Says(g)
  BY DEF ParentChain
<1> HIDE DEF Rhs
<1>10. Says(ParentChain)
  <2> HIDE DEF Says
  <2> QED
    BY <1>8, <1>9, Zenon
<1>11. \A i \in All : ParentChain[i] = Rhs(ParentChain, i)
  BY <1>10, Zenon
<1>12. \A i \in All : ParentChain[i] \in V
  <2> DEFINE D == {i \in All : ParentChain[i] \in V}
  <2>1. \A i \in All : (up[i] \in All => up[i] \in D) => i \in D
    <3> TAKE i \in All
    <3> HAVE up[i] \in All => up[i] \in D
    <3> HIDE DEF up, V, Says
    <3>1. (IF up[i] \in All THEN ParentChain[up[i]] ELSE <<>>) \in V
      BY <1>4
    <3>2. ParentChain[i] \in V
      BY <1>2, <1>7, <1>11, <3>1
    <3> QED
      BY <3>2
  <2>2. All \subseteq D
    <3> HIDE DEF up, D
    <3> QED
      BY <1>1, <2>1, ParentInduction
  <2> QED
    BY <2>2
<1>13. \A i \in All : ParentChain[i] = IF parent[i] \in Names THEN Append(ParentChain[parent[i]], parent[i]) ELSE <<>>
  BY <1>11 DEF Rhs
<1> QED
  BY <1>12, <1>13

LEMMA UpcastsIs ==
  ASSUME reg \in Registries, \A i \in All : parent[i] \in All => parent[i] = reg.parent[i]
  PROVE  \A i \in Names : Upcasts[i] \in SUBSET Names /\ Upcasts[i] = {i} \cup (IF parent[i] \in Names THEN Upcasts[parent[i]] ELSE {})
<1> DEFINE up == parent
           V == SUBSET Names
           Rhs(f, i) == {i} \cup (IF ParentInterfaceName(i) = "none" THEN {} ELSE f[ParentInterfaceName(i)])
           Says(f) == f = [i \in Names |-> Rhs(f, i)]
           Step(i, a) == {i} \cup (IF ParentInterfaceName(i) = "none" THEN {} ELSE a)
           step == [x \in Names \X V |-> Step(x[1], x[2])]
<1>0. "none" \notin Names
  BY NamesType
<1>1. Founded(Names, up) /\ Names \subseteq All
  <2>1. Founded(All, reg.parent) /\ Names \subseteq All
    BY RegFacts DEF All
  <2> QED
    BY <2>1, FoundedBelow
<1>2. \A i \in Names, a \in V : Step(i, a) \in V
  OBVIOUS
<1>3. step \in [Names \X V -> V]
  <2> HIDE DEF Step, V
  <2> QED
    BY <1>2
<1>4. {} \in V
  OBVIOUS
<1>5. PICK f \in [Names -> V] : ByParent(f, Names, up, {}, step)
  <2> HIDE DEF up, step, V
  <2> QED
    BY <1>1, <1>3, <1>4, ParentRecursion
<1>6. \A i \in Names : f[i] = Step(i, IF up[i] \in Names THEN f[up[i]] ELSE {})
  <2> TAKE i \in Names
  <2> DEFINE a == IF up[i] \in Names THEN f[up[i]] ELSE {}
  <2>1. f[i] = step[<<i, a>>]
    BY <1>5 DEF ByParent
  <2>2. a \in V
    BY <1>4, <1>5
  <2> HIDE DEF a, Step, V
  <2>3. step[<<i, a>>] = Step(i, a)
    BY <2>2
  <2> QED
    BY <2>1, <2>3 DEF a
<1> HIDE DEF step
<1>7. ASSUME NEW g, NEW i \in Names
      PROVE  Step(i, IF up[i] \in Names THEN g[up[i]] ELSE {}) = Rhs(g, i)
  <2> HIDE DEF V
  <2>1. CASE parent[i] \in Names
    BY <1>0, <2>1 DEF ParentInterfaceName
  <2>2. CASE parent[i] \notin Names
    BY <1>0, <2>2 DEF ParentInterfaceName
  <2> QED
    BY <2>1, <2>2
<1> HIDE DEF Step
<1>8. Says(f)
  <2>1. \A i \in Names : f[i] = Rhs(f, i)
    <3> HIDE DEF Rhs, up, V
    <3> QED
      BY <1>6, <1>7
  <2> HIDE DEF Rhs, up, V
  <2> QED
    BY <1>5, <2>1
<1>9. Upcasts = CHOOSE g : Says(g)
  BY DEF Upcasts
<1> HIDE DEF Rhs
<1>10. Says(Upcasts)
  <2> HIDE DEF Says
  <2> QED
    BY <1>8, <1>9, Zenon
<1>11. \A i \in Names : Upcasts[i] = Rhs(Upcasts, i)
  BY <1>10, Zenon
<1>12. \A i \in Names : Upcasts[i] \in V
  <2> DEFINE D == {i \in Names : Upcasts[i] \in V}
  <2>1. \A i \in Names : (up[i] \in Names => up[i] \in D) => i \in D
    <3> TAKE i \in Names
    <3> HAVE up[i] \in Names => up[i] \in D
    <3> HIDE DEF up, V, Says
    <3>1. (IF up[i] \in Names THEN Upcasts[up[i]] ELSE {}) \in V
      BY <1>4
    <3>2. Upcasts[i] \in V
      BY <1>2, <1>7, <1>11, <3>1
    <3> QED
      BY <3>2
  <2>2. Names \subseteq D
    <3> HIDE DEF up, D
    <3> QED
      BY <1>1, <2>1, ParentInduction
  <2> QED
    BY <2>2
<1>13. \A i \in Names : Upcasts[i] = {i} \cup (IF parent[i] \in Names THEN Upcasts[parent[i]] ELSE {})
  BY <1>0, <1>11 DEF Rhs, ParentInterfaceName
<1> QED
  BY <1>12, <1>13

---------------------------------------------------------------------------
(* The inductive invariant.  An interface that is resolved has a resolved   *)
(* parent, so what it takes from the parent is final: nothing the loop does *)
(* later changes a parent, a width or a family that was set.                *)

FormInv ==
  /\ reg \in Registries /\ Lists(order, All) /\ done \in 0 .. Len(order)
  /\ parent \in [All -> All \cup {"none"}] /\ family \in [All -> All \cup {"none"}]
  /\ base \in [All -> Nat] /\ total \in [All -> Nat]

RootInv == total["IUnknown"] = 3 /\ parent["IUnknown"] = "none"

ParentInv ==
  \A i \in Names :
    IF total[i] > 0 THEN parent[i] = reg.parent[i] /\ total[reg.parent[i]] > 0
                    ELSE parent[i] = "none"

WidthInv ==
  \A i \in Names : total[i] > 0 =>
    base[i] = total[reg.parent[i]] /\ total[i] = base[i] + reg.methods[i] /\ total[i] >= 3

(* The first of the versions of i, where i is not the first itself.         *)
Follower(i) == reg.parent[i] \in Names /\ Stem[reg.parent[i]] = Stem[i]

FamilyInv ==
  \A i \in Names : total[i] > 0 =>
    family[i] \in Names /\ family[i] = IF Follower(i) THEN family[reg.parent[i]] ELSE i

DoneInv == \A k \in 1 .. done : total[order[k]] > 0

ChainInv == FormInv /\ RootInv /\ ParentInv /\ WidthInv /\ FamilyInv /\ DoneInv

LEMMA OrderListed ==
  ASSUME NEW s \in SetToSeqs(Names)
  PROVE  Lists(Append(s, "IUnknown"), All)
<1>1. Lists(s, Names)
  BY NamesType, SetToSeqsList
<1> DEFINE t == Append(s, "IUnknown")
           n == Len(s)
<1>2. s \in Seq(All) /\ "IUnknown" \in All /\ n \in Nat /\ \A k \in 1 .. n : s[k] \in Names
  BY <1>1, SeqMonotonic, ElementOfSeq DEF Lists, All
<1>3. t \in Seq(All) /\ Len(t) = n + 1 /\ (\A k \in 1 .. n : t[k] = s[k]) /\ t[n + 1] = "IUnknown"
  BY <1>2, AppendProperties
<1>4. DOMAIN t = 1 .. n + 1
  BY <1>3, LenProperties
<1> HIDE DEF t
<1>5. "IUnknown" \notin Names /\ DOMAIN s = 1 .. n
  BY <1>1, NamesType DEF Lists
<1> HIDE DEF n
<1>6. \A j, k \in 1 .. n : s[j] = s[k] => j = k
  BY <1>1, <1>5 DEF Lists
<1>7. \A x \in Names : \E k \in 1 .. n : s[k] = x
  BY <1>1, <1>5 DEF Lists
<1>8. \A j, k \in 1 .. n + 1 : t[j] = t[k] => j = k
  <2> TAKE j, k \in 1 .. n + 1
  <2>1. (j \in 1 .. n \/ j = n + 1) /\ (k \in 1 .. n \/ k = n + 1)
    BY <1>2
  <2> QED
    BY <1>2, <1>3, <1>5, <1>6, <2>1
<1>9. \A x \in All : \E k \in 1 .. n + 1 : t[k] = x
  <2> TAKE x \in All
  <2>1. CASE x = "IUnknown"
    <3>1. n + 1 \in 1 .. n + 1
      BY <1>2
    <3> QED
      BY <1>3, <2>1, <3>1
  <2>2. CASE x \in Names
    <3>1. PICK k \in 1 .. n : s[k] = x
      BY <1>7, <2>2
    <3>2. k \in 1 .. n + 1 /\ t[k] = x
      BY <1>2, <1>3, <3>1
    <3> QED
      BY <3>2
  <2> QED
    BY <2>1, <2>2 DEF All
<1>10. n + 1 \in Nat
  BY <1>2
<1> QED
  BY <1>3, <1>4, <1>8, <1>9, <1>10, Zenon DEF Lists, t

LEMMA ChainInvInit == Init => ChainInv
<1> SUFFICES ASSUME Init PROVE ChainInv
  OBVIOUS
<1>1. Lists(order, All)
  BY OrderListed DEF Init
<1>2. done = 0 /\ Len(order) \in Nat
  BY <1>1 DEF Init, Lists
<1>3. "IUnknown" \in All /\ "IUnknown" \notin Names /\ \A i \in Names : i \in All
  BY NamesType DEF All
<1>4. \A i \in All : total[i] = IF i = "IUnknown" THEN 3 ELSE 0
  BY DEF Init
<1>5. FormInv
  <2>1. reg \in Registries /\ done \in 0 .. Len(order)
    BY <1>2 DEF Init
  <2>2. parent \in [All -> All \cup {"none"}] /\ family \in [All -> All \cup {"none"}]
    BY DEF Init
  <2>3. base \in [All -> Nat] /\ total \in [All -> Nat]
    BY DEF Init
  <2> QED
    BY <1>1, <2>1, <2>2, <2>3 DEF FormInv
<1>6. RootInv
  BY <1>3, <1>4 DEF RootInv, Init
<1>7. \A i \in Names : total[i] = 0 /\ parent[i] = "none"
  BY <1>3, <1>4 DEF Init
<1>8. ParentInv
  BY <1>7 DEF ParentInv
<1>9. WidthInv /\ FamilyInv
  BY <1>7 DEF WidthInv, FamilyInv
<1>10. DoneInv
  BY <1>2 DEF DoneInv
<1> QED
  BY <1>5, <1>6, <1>8, <1>9, <1>10 DEF ChainInv

(* What one turn of the loop resolves: interfaces up to a resolved parent.  *)
LEMMA TurnIs ==
  ASSUME ChainInv, NEW i \in All
  PROVE  /\ Unresolved[i] \subseteq Names
         /\ \A j \in Unresolved[i] :
              /\ total[j] = 0
              /\ reg.parent[j] \in All
              /\ total[reg.parent[j]] > 0 \/ reg.parent[j] \in Unresolved[i]
         /\ total[i] > 0 \/ i \in Unresolved[i]
<1> DEFINE p == reg.parent
           U == Unresolved
           Ends(k) == \A j \in U[k] : /\ j \in Names /\ total[j] = 0 /\ p[j] \in All
                                      /\ total[p[j]] > 0 \/ p[j] \in U[k]
           D == {k \in All : Ends(k)}
<1>1. /\ reg \in Registries
      /\ \A k \in All : total[k] \in Nat
      /\ total["IUnknown"] = 3
  BY DEF ChainInv, FormInv, RootInv
<1>2. /\ Founded(All, p)
      /\ \A k \in Names : k \in All /\ p[k] \in All
      /\ \A k \in All : k = "IUnknown" \/ k \in Names
  BY <1>1, RegFacts DEF All
<1>3. \A k \in All : U[k] = IF total[k] > 0 THEN {} ELSE {k} \cup (IF p[k] \in All THEN U[p[k]] ELSE {})
  BY <1>1, UnresolvedIs
<1>4. \A k \in All : total[k] = 0 \/ total[k] > 0
  BY <1>1
<1> HIDE DEF p, U
<1>5. ASSUME NEW k \in All, p[k] \in All => p[k] \in D PROVE Ends(k)
  <2>1. CASE total[k] > 0
    BY <1>3, <2>1
  <2>2. CASE ~(total[k] > 0)
    <3>1. k \in Names /\ p[k] \in All /\ total[k] = 0
      BY <1>1, <1>2, <1>4, <2>2
    <3>2. U[k] = {k} \cup U[p[k]]
      BY <1>3, <2>2, <3>1
    <3>3. Ends(p[k])
      BY <1>5, <3>1
    <3>4. total[p[k]] > 0 \/ p[k] \in U[p[k]]
      BY <1>3, <3>1
    <3> QED
      BY <3>1, <3>2, <3>3, <3>4
  <2> QED
    BY <2>1, <2>2
<1>6. All \subseteq D
  <2>1. \A k \in All : (p[k] \in All => p[k] \in D) => k \in D
    BY <1>5
  <2> HIDE DEF D
  <2> QED
    BY <1>2, <2>1, ParentInduction
<1>7. Ends(i)
  BY <1>6
<1>8. total[i] > 0 \/ i \in U[i]
  BY <1>3
<1> QED
  BY <1>7, <1>8 DEF U, p

(* The base of an interface that is not resolved is the width its parent    *)
(* has, or will have after this turn.                                       *)
LEMMA BaseAbove ==
  ASSUME ChainInv
  PROVE  \A i \in Names : total[i] = 0 =>
           /\ Base[i] \in Nat /\ Base[i] >= 3
           /\ Base[i] = IF total[reg.parent[i]] > 0 THEN total[reg.parent[i]]
                        ELSE Base[reg.parent[i]] + reg.methods[reg.parent[i]]
<1> DEFINE p == reg.parent
           D == {i \in All : total[i] = 0 => Base[i] >= 3}
<1>1. /\ reg \in Registries
      /\ total \in [All -> Nat] /\ base \in [All -> Nat]
      /\ total["IUnknown"] = 3
  BY DEF ChainInv, FormInv, RootInv
<1>2. /\ Founded(All, p) /\ reg.methods \in [All -> Nat]
      /\ \A k \in Names : k \in All /\ p[k] \in All
      /\ \A k \in All : k = "IUnknown" \/ k \in Names
  BY <1>1, RegFacts DEF All
<1>3. \A i \in All : Base[i] \in Nat /\ Base[i] = IF total[i] > 0 THEN base[i]
                       ELSE IF p[i] \notin All THEN 0
                       ELSE IF total[p[i]] > 0 THEN total[p[i]]
                       ELSE Base[p[i]] + reg.methods[p[i]]
  BY <1>1, BaseIs
<1>4. \A i \in All : total[i] > 0 => total[i] >= 3
  BY <1>1, <1>2 DEF ChainInv, WidthInv
<1> HIDE DEF p
<1>5. ASSUME NEW i \in Names, total[i] = 0
      PROVE  /\ p[i] \in All
             /\ Base[i] = IF total[p[i]] > 0 THEN total[p[i]] ELSE Base[p[i]] + reg.methods[p[i]]
  BY <1>2, <1>3, <1>5
<1>6. ASSUME NEW i \in All, p[i] \in All => p[i] \in D PROVE i \in D
  <2> SUFFICES ASSUME total[i] = 0 PROVE Base[i] >= 3
    OBVIOUS
  <2>1. i \in Names
    BY <1>1, <1>2
  <2>2. p[i] \in All /\ Base[i] = IF total[p[i]] > 0 THEN total[p[i]] ELSE Base[p[i]] + reg.methods[p[i]]
    BY <1>5, <2>1
  <2>3. total[p[i]] = 0 => Base[p[i]] >= 3
    BY <1>6, <2>2
  <2>4. total[p[i]] \in Nat /\ reg.methods[p[i]] \in Nat /\ Base[p[i]] \in Nat
    BY <1>1, <1>2, <1>3, <2>2
  <2> QED
    BY <1>4, <2>2, <2>3, <2>4
<1>7. All \subseteq D
  <2> HIDE DEF D
  <2> QED
    BY <1>2, <1>6, ParentInduction
<1>8. \A i \in Names : total[i] = 0 => Base[i] >= 3 /\ Base[i] \in Nat
  BY <1>2, <1>3, <1>7
<1> QED
  BY <1>5, <1>8 DEF p

(* The families of this turn are those of the turns before, where there is  *)
(* one, and else follow the parents.                                       *)
Parents(new) ==
  [j \in All |-> IF j \in new /\ reg.parent[j] \in All THEN reg.parent[j] ELSE parent[j]]

LEMMA FamilyBelow ==
  ASSUME ChainInv, NEW new, new \subseteq Names, \A j \in new : total[j] = 0
  PROVE  /\ \A i \in Names : Family(Parents(new))[i] \in Names
         /\ \A i \in Names : total[i] > 0 => Family(Parents(new))[i] = family[i]
         /\ \A i \in new : Family(Parents(new))[i] =
              IF Follower(i) THEN Family(Parents(new))[reg.parent[i]] ELSE i
<1> DEFINE vp == Parents(new)
           F == Family(vp)
<1>1. /\ reg \in Registries
      /\ \A i \in All : total[i] \in Nat
      /\ parent["IUnknown"] = "none" /\ "IUnknown" \notin new
      /\ "none" \notin All
  BY NamesType DEF ChainInv, FormInv, RootInv, All
<1>2. /\ Founded(All, reg.parent)
      /\ \A i \in Names : i \in All /\ reg.parent[i] \in All
      /\ \A i \in All : i = "IUnknown" \/ i \in Names
  BY <1>1, RegFacts DEF All
<1>3. \A i \in All : vp[i] = IF i \in new /\ reg.parent[i] \in All THEN reg.parent[i] ELSE parent[i]
  BY DEF Parents
<1>4. \A i \in Names : parent[i] \in All => parent[i] = reg.parent[i]
  BY <1>1 DEF ChainInv, ParentInv
<1> HIDE DEF vp
<1>5. \A i \in All : vp[i] \in All => vp[i] = reg.parent[i]
  BY <1>1, <1>2, <1>3, <1>4
<1>6. \A i \in All : F[i] \in All /\ F[i] = IF vp[i] \in Names /\ Stem[vp[i]] = Stem[i] THEN F[vp[i]] ELSE i
  BY <1>1, <1>5, FamilyIs, Zenon
<1> HIDE DEF F
<1> DEFINE D == {i \in All : i \in Names => F[i] \in Names /\ (total[i] > 0 => F[i] = family[i])}
<1>7. ASSUME NEW i \in All, vp[i] \in All => vp[i] \in D PROVE i \in D
  <2> SUFFICES ASSUME i \in Names PROVE F[i] \in Names /\ (total[i] > 0 => F[i] = family[i])
    OBVIOUS
  <2>1. F[i] \in Names
    <3>1. vp[i] \in Names => F[vp[i]] \in Names
      BY <1>2, <1>7
    <3> QED
      BY <1>6, <3>1
  <2>2. ASSUME total[i] > 0 PROVE F[i] = family[i]
    <3>1. /\ parent[i] = reg.parent[i] /\ total[reg.parent[i]] > 0
          /\ family[i] = IF Follower(i) THEN family[reg.parent[i]] ELSE i
      BY <2>2 DEF ChainInv, ParentInv, FamilyInv
    <3>2. i \notin new
      BY <1>1, <2>2
    <3>3. vp[i] = reg.parent[i]
      BY <1>3, <3>1, <3>2
    <3>4. vp[i] \in Names => F[vp[i]] = family[vp[i]]
      BY <1>2, <1>7, <3>1, <3>3
    <3>5. F[i] = IF Follower(i) THEN F[vp[i]] ELSE i
      BY <1>6, <3>3 DEF Follower
    <3> QED
      BY <3>1, <3>3, <3>4, <3>5 DEF Follower
  <2> QED
    BY <2>1, <2>2
<1>8. Founded(All, vp)
  BY <1>2, <1>5, FoundedBelow
<1>9. All \subseteq D
  <2> HIDE DEF D
  <2> QED
    BY <1>7, <1>8, ParentInduction
<1>10. ASSUME NEW i \in new PROVE F[i] = IF Follower(i) THEN F[reg.parent[i]] ELSE i
  <2>1. i \in Names /\ vp[i] = reg.parent[i]
    BY <1>2, <1>3
  <2> QED
    BY <1>2, <1>6, <2>1 DEF Follower
<1>11. \A i \in Names : F[i] \in Names /\ (total[i] > 0 => F[i] = family[i])
  BY <1>2, <1>9
<1> QED
  BY <1>10, <1>11 DEF F, vp

LEMMA ResolveKeeps == ChainInv /\ Resolve => ChainInv'
<1> SUFFICES ASSUME ChainInv, Resolve PROVE ChainInv'
  OBVIOUS
<1> DEFINE n == done + 1
           i == order[n]
           new == Unresolved[i]
           F == Family(Parents(new))
<1>1. /\ reg \in Registries /\ Lists(order, All) /\ done \in Nat /\ Len(order) \in Nat
      /\ done < Len(order) /\ done' = n /\ reg' = reg /\ order' = order
  BY DEF ChainInv, FormInv, Lists, Resolve
<1>2. n \in 1 .. Len(order) /\ i \in All
  <2>1. n \in 1 .. Len(order)
    BY <1>1
  <2>2. order \in Seq(All)
    BY <1>1 DEF Lists
  <2> HIDE DEF n
  <2> QED
    BY <2>1, <2>2, ElementOfSeq
<1>3. /\ parent' = Parents(new)
      /\ base' = [j \in All |-> IF j \in new THEN Base[j] ELSE base[j]]
      /\ total' = [j \in All |-> IF j \in new THEN Base[j] + reg.methods[j] ELSE total[j]]
      /\ family' = [j \in All |-> IF j \in new THEN F[j] ELSE family[j]]
  BY Zenon DEF Resolve, ResolveInterfaceChain, Parents
<1> HIDE DEF i, new, F
<1>4. /\ new \subseteq Names
      /\ \A j \in new : /\ total[j] = 0
                        /\ reg.parent[j] \in All
                        /\ total[reg.parent[j]] > 0 \/ reg.parent[j] \in new
      /\ total[i] > 0 \/ i \in new
  BY <1>2, TurnIs DEF new
<1>5. /\ \A j \in Names : j \in All /\ reg.parent[j] \in All
      /\ \A j \in All : j = "IUnknown" \/ j \in Names
      /\ "none" \notin All /\ "IUnknown" \notin Names
      /\ reg.methods \in [All -> Nat]
  BY <1>1, RegFacts DEF All
<1>6. /\ parent \in [All -> All \cup {"none"}] /\ family \in [All -> All \cup {"none"}]
      /\ base \in [All -> Nat] /\ total \in [All -> Nat]
  BY DEF ChainInv, FormInv
<1>7. \A j \in new : /\ Base[j] \in Nat /\ Base[j] >= 3
                     /\ Base[j] = IF total[reg.parent[j]] > 0 THEN total[reg.parent[j]]
                                  ELSE Base[reg.parent[j]] + reg.methods[reg.parent[j]]
  BY <1>4, BaseAbove
<1>8. /\ \A j \in Names : F[j] \in Names
      /\ \A j \in Names : total[j] > 0 => F[j] = family[j]
      /\ \A j \in new : F[j] = IF Follower(j) THEN F[reg.parent[j]] ELSE j
  BY <1>4, FamilyBelow DEF F
<1>9. \A j \in new : reg.methods[j] \in Nat /\ total'[j] = Base[j] + reg.methods[j] /\ base'[j] = Base[j]
                     /\ family'[j] = F[j] /\ parent'[j] = reg.parent[j]
  BY <1>3, <1>4, <1>5 DEF Parents
<1>10. \A j \in All : j \notin new => total'[j] = total[j] /\ base'[j] = base[j]
                     /\ family'[j] = family[j] /\ parent'[j] = parent[j]
  BY <1>3 DEF Parents
<1>11. \A j \in new : total'[j] > 0 /\ total'[j] >= 3
  BY <1>7, <1>9
<1>12. \A j \in new : total'[reg.parent[j]] > 0 /\ base'[j] = total'[reg.parent[j]]
  <2> TAKE j \in new
  <2> DEFINE p == reg.parent[j]
  <2>1. p \in All /\ total[p] \in Nat
    BY <1>4, <1>6
  <2>2. CASE p \in new
    BY <1>4, <1>7, <1>9, <1>11, <2>2
  <2>3. CASE p \notin new
    BY <1>4, <1>7, <1>9, <1>10, <2>1, <2>3
  <2> QED
    BY <2>2, <2>3
<1>13. \A j \in Names : total'[j] > 0 /\ j \notin new => total[j] > 0
  BY <1>5, <1>10
<1>14. \A j \in Names : total[j] > 0 => total'[reg.parent[j]] = total[reg.parent[j]]
                                       /\ family'[reg.parent[j]] = family[reg.parent[j]]
                                       /\ total[reg.parent[j]] > 0
  <2> TAKE j \in Names
  <2> HAVE total[j] > 0
  <2>1. total[reg.parent[j]] > 0
    BY DEF ChainInv, ParentInv
  <2>2. reg.parent[j] \in All /\ reg.parent[j] \notin new
    BY <1>4, <1>5, <2>1
  <2> QED
    BY <1>10, <2>1, <2>2
<1>15. FormInv'
  <2>1. parent' \in [All -> All \cup {"none"}]
    BY <1>3, <1>6 DEF Parents
  <2>2. family' \in [All -> All \cup {"none"}]
    BY <1>3, <1>4, <1>5, <1>6, <1>8
  <2>3. base' \in [All -> Nat] /\ total' \in [All -> Nat]
    <3>1. \A j \in All : base'[j] \in Nat /\ total'[j] \in Nat
      BY <1>5, <1>6, <1>7, <1>9, <1>10
    <3> QED
      BY <1>3, <3>1
  <2>4. reg' \in Registries /\ done' \in 0 .. Len(order') /\ Lists(order', All)
    <3>1. done' \in 0 .. Len(order')
      BY <1>1
    <3> QED
      BY <1>1, <3>1, Zenon
  <2> QED
    BY <2>1, <2>2, <2>3, <2>4 DEF FormInv
<1>16. RootInv'
  <2>1. "IUnknown" \in All /\ "IUnknown" \notin new
    BY <1>4, <1>5 DEF All
  <2> QED
    BY <1>10, <2>1 DEF ChainInv, RootInv
<1>17. ParentInv'
  <2>1. ASSUME NEW j \in Names
        PROVE  IF total'[j] > 0 THEN parent'[j] = reg.parent[j] /\ total'[reg.parent[j]] > 0
                                ELSE parent'[j] = "none"
    <3>1. CASE j \in new
      BY <1>9, <1>11, <1>12, <3>1
    <3>2. CASE j \notin new
      <4>1. total'[j] = total[j] /\ parent'[j] = parent[j]
        BY <1>5, <1>10, <3>2
      <4>2. IF total[j] > 0 THEN parent[j] = reg.parent[j] /\ total[reg.parent[j]] > 0
                            ELSE parent[j] = "none"
        BY DEF ChainInv, ParentInv
      <4> QED
        BY <1>14, <4>1, <4>2
    <3> QED
      BY <3>1, <3>2
  <2> QED
    BY <1>1, <2>1 DEF ParentInv
<1>18. WidthInv'
  <2>1. ASSUME NEW j \in Names, total'[j] > 0
        PROVE  base'[j] = total'[reg.parent[j]] /\ total'[j] = base'[j] + reg.methods[j] /\ total'[j] >= 3
    <3>1. CASE j \in new
      BY <1>9, <1>11, <1>12, <3>1
    <3>2. CASE j \notin new
      <4>1. total'[j] = total[j] /\ base'[j] = base[j] /\ total[j] > 0
        BY <1>5, <1>10, <2>1, <3>2
      <4> QED
        BY <1>14, <4>1 DEF ChainInv, WidthInv
    <3> QED
      BY <3>1, <3>2
  <2> QED
    BY <1>1, <2>1 DEF WidthInv
<1>19. FamilyInv'
  <2>1. ASSUME NEW j \in Names, total'[j] > 0
        PROVE  family'[j] \in Names
               /\ family'[j] = IF Follower(j) THEN family'[reg.parent[j]] ELSE j
    <3>1. CASE j \in new
      <4>1. family'[j] = F[j] /\ F[j] \in Names /\ F[j] = IF Follower(j) THEN F[reg.parent[j]] ELSE j
        BY <1>4, <1>8, <1>9, <3>1
      <4>2. ASSUME Follower(j) PROVE F[reg.parent[j]] = family'[reg.parent[j]]
        <5>1. reg.parent[j] \in Names /\ reg.parent[j] \in All
          BY <1>4, <3>1, <4>2 DEF Follower
        <5>2. CASE reg.parent[j] \in new
          BY <1>9, <5>2
        <5>3. CASE reg.parent[j] \notin new
          <6>1. total[reg.parent[j]] > 0
            BY <1>4, <3>1, <5>3
          <6> QED
            BY <1>8, <1>10, <5>1, <5>3, <6>1
        <5> QED
          BY <5>2, <5>3
      <4> QED
        BY <4>1, <4>2
    <3>2. CASE j \notin new
      <4>1. total[j] > 0 /\ family'[j] = family[j]
        BY <1>5, <1>10, <2>1, <3>2
      <4>2. family[j] \in Names /\ family[j] = IF Follower(j) THEN family[reg.parent[j]] ELSE j
        BY <4>1 DEF ChainInv, FamilyInv
      <4> QED
        BY <1>14, <4>1, <4>2
    <3> QED
      BY <3>1, <3>2
  <2>2. \A j \in Names : Follower(j)' = Follower(j)
    BY <1>1 DEF Follower
  <2> QED
    BY <1>1, <2>1, <2>2 DEF FamilyInv
<1>20. DoneInv'
  <2>1. ASSUME NEW k \in 1 .. n PROVE total'[order[k]] > 0
    <3>1. k \in 1 .. done \/ k = n
      BY <1>1
    <3>2. CASE k = n
      BY <1>2, <1>4, <1>10, <1>11, <3>2 DEF i
    <3>3. CASE k \in 1 .. done
      <4>1. total[order[k]] > 0
        BY <3>3 DEF ChainInv, DoneInv
      <4>2. order[k] \in All
        <5>1. order \in Seq(All) /\ k \in 1 .. Len(order)
          BY <1>1, <3>3 DEF Lists
        <5> QED
          BY <5>1, ElementOfSeq
      <4> QED
        BY <1>4, <1>10, <4>1, <4>2
    <3> QED
      BY <3>1, <3>2, <3>3
  <2> QED
    BY <1>1, <2>1 DEF DoneInv
<1> QED
  BY <1>15, <1>16, <1>17, <1>18, <1>19, <1>20 DEF ChainInv

LEMMA ChainInvHolds == Spec => []ChainInv
<1>1. ChainInv /\ UNCHANGED vars => ChainInv'
  <2> SUFFICES ASSUME ChainInv, UNCHANGED vars PROVE ChainInv'
    OBVIOUS
  <2>1. /\ reg' = reg /\ order' = order /\ done' = done
        /\ parent' = parent /\ base' = base /\ total' = total /\ family' = family
    BY DEF vars
  <2> QED
    BY <2>1 DEF ChainInv, FormInv, RootInv, ParentInv, WidthInv, FamilyInv, Follower, DoneInv
<1> QED
  BY <1>1, ChainInvInit, ResolveKeeps, PTL DEF Spec, Next

---------------------------------------------------------------------------
(* A client vtable is the parent's with the interface's own methods after.  *)

Slots == Names \X Nat

LEMMA ParentsNamed ==
  ASSUME ChainInv
  PROVE  /\ reg \in Registries
         /\ \A i \in All : parent[i] \in All => parent[i] = reg.parent[i]
<1>1. reg \in Registries /\ parent["IUnknown"] = "none"
  BY DEF ChainInv, FormInv, RootInv
<1>2. "none" \notin All /\ \A i \in All : i = "IUnknown" \/ i \in Names
  BY NamesType DEF All
<1>3. \A i \in Names : parent[i] = reg.parent[i] \/ parent[i] = "none"
  BY DEF ChainInv, ParentInv
<1> QED
  BY <1>1, <1>2, <1>3

LEMMA OwnMethodsAre ==
  ASSUME ChainInv, NEW i \in Names
  PROVE  /\ OwnMethods(i) \in Seq(Slots) /\ Len(OwnMethods(i)) = reg.methods[i]
         /\ \A k \in 1 .. reg.methods[i] : OwnMethods(i)[k] = <<i, k>>
<1>1. reg.methods[i] \in Nat
  BY ParentsNamed, RegFacts
<1> DEFINE n == reg.methods[i]
<1>2. \A k \in 1 .. n : <<i, k>> \in Slots
  BY <1>1 DEF Slots
<1>3. OwnMethods(i) \in [1 .. n -> Slots] /\ \A k \in 1 .. n : OwnMethods(i)[k] = <<i, k>>
  <2> HIDE DEF Slots
  <2> QED
    BY <1>2 DEF OwnMethods
<1> HIDE DEF Slots
<1> QED
  BY <1>1, <1>3, FunctionIsSeq

ChainMethods(i) == [k \in DOMAIN ParentChain[i] |-> OwnMethods(ParentChain[i][k])]

LEMMA ChainMethodsAre ==
  ASSUME ChainInv, NEW i \in Names
  PROVE  /\ ParentChain[i] \in Seq(Names)
         /\ ChainMethods(i) \in Seq(Seq(Slots))
         /\ ChainMethods(i) = IF parent[i] \in Names
                              THEN Append(ChainMethods(parent[i]), OwnMethods(parent[i]))
                              ELSE <<>>
<1>1. /\ \A j \in Names : j \in All
      /\ \A j \in All : ParentChain[j] \in Seq(Names)
                        /\ ParentChain[j] = IF parent[j] \in Names
                             THEN Append(ParentChain[parent[j]], parent[j]) ELSE <<>>
  <2>1. \A j \in Names : j \in All
    BY DEF All
  <2> QED
    BY <2>1, ParentsNamed, ParentChainIs
<1>2. \A j \in Names : OwnMethods(j) \in Seq(Slots)
  BY OwnMethodsAre
<1>3. ASSUME NEW j \in Names
      PROVE  /\ ChainMethods(j) \in Seq(Seq(Slots))
             /\ Len(ChainMethods(j)) = Len(ParentChain[j]) /\ Len(ParentChain[j]) \in Nat
             /\ \A k \in 1 .. Len(ParentChain[j]) :
                  ParentChain[j][k] \in Names /\ ChainMethods(j)[k] = OwnMethods(ParentChain[j][k])
  <2> DEFINE c == ParentChain[j]
             n == Len(c)
  <2>1. n \in Nat /\ DOMAIN c = 1 .. n /\ \A k \in 1 .. n : c[k] \in Names
    BY <1>1, LenProperties, ElementOfSeq
  <2>2. \A k \in 1 .. n : OwnMethods(c[k]) \in Seq(Slots)
    BY <1>2, <2>1
  <2>3. ChainMethods(j) = [k \in 1 .. n |-> OwnMethods(c[k])]
    BY <2>1, Zenon DEF ChainMethods
  <2> HIDE DEF n, c
  <2>4. ChainMethods(j) \in [1 .. n -> Seq(Slots)]
    BY <2>2, <2>3
  <2>5. ChainMethods(j) \in Seq(Seq(Slots)) /\ Len(ChainMethods(j)) = n
    BY <2>1, <2>4, FunctionIsSeq
  <2> QED
    BY <2>1, <2>3, <2>5 DEF n, c
<1>4. CASE parent[i] \notin Names
  <2>1. ParentChain[i] = <<>>
    BY <1>1, <1>4
  <2>2. Len(ChainMethods(i)) = 0
    BY <1>3, <2>1, EmptySeq
  <2>3. ChainMethods(i) = <<>>
    BY <1>3, <2>2, EmptySeq
  <2> QED
    BY <1>1, <1>3, <1>4, <2>3, Zenon
<1>5. CASE parent[i] \in Names
  <2> DEFINE p == parent[i]
             c == ParentChain[p]
             n == Len(c)
             s == ChainMethods(i)
             t == Append(ChainMethods(p), OwnMethods(p))
  <2>1. ParentChain[i] = Append(c, p) /\ c \in Seq(Names) /\ p \in Names
    BY <1>1, <1>5
  <2>2. n \in Nat /\ Len(ChainMethods(p)) = n
    BY <1>3, <1>5
  <2>3. /\ Len(ParentChain[i]) = n + 1
        /\ \A k \in 1 .. n : ParentChain[i][k] = c[k]
        /\ ParentChain[i][n + 1] = p
    BY <2>1, AppendProperties
  <2>4. /\ t \in Seq(Seq(Slots)) /\ Len(t) = n + 1
        /\ \A k \in 1 .. n : t[k] = ChainMethods(p)[k]
        /\ t[n + 1] = OwnMethods(p)
    <3> DEFINE e == ChainMethods(p)
               o == OwnMethods(p)
               Q == Seq(Slots)
    <3>1. e \in Seq(Q) /\ o \in Q /\ Len(e) = n
      BY <1>2, <1>3, <2>1, <2>2
    <3> HIDE DEF e, o, Q, n
    <3>2. /\ Append(e, o) \in Seq(Q) /\ Len(Append(e, o)) = Len(e) + 1
          /\ \A k \in 1 .. Len(e) : Append(e, o)[k] = e[k]
          /\ Append(e, o)[Len(e) + 1] = o
      BY <3>1, AppendProperties
    <3> QED
      BY <3>1, <3>2, Zenon DEF e, o, Q
  <2>5. /\ s \in Seq(Seq(Slots)) /\ Len(s) = n + 1
        /\ \A k \in 1 .. n + 1 : s[k] = OwnMethods(ParentChain[i][k])
    BY <1>3, <2>3
  <2>6. \A k \in 1 .. n : ChainMethods(p)[k] = OwnMethods(c[k])
    BY <1>3, <1>5
  <2> HIDE DEF s, t, c, n, p
  <2>7. \A k \in 1 .. n + 1 : s[k] = t[k]
    <3> TAKE k \in 1 .. n + 1
    <3>1. k \in 1 .. n \/ k = n + 1
      BY <2>2
    <3>2. CASE k \in 1 .. n
      BY <2>3, <2>4, <2>5, <2>6, <3>2, Zenon
    <3>3. CASE k = n + 1
      BY <2>3, <2>4, <2>5, <3>3, Zenon
    <3> QED
      BY <3>1, <3>2, <3>3
  <2>8. s = t
    BY <2>4, <2>5, <2>7, SeqEqual
  <2> QED
    BY <1>1, <1>3, <1>5, <2>8, Zenon DEF s, t, p
<1> QED
  BY <1>4, <1>5

LEMMA IterIs ==
  ASSUME ChainInv, NEW i \in Names
  PROVE  /\ IterVtableMethods(i) \in Seq(Slots)
         /\ parent[i] \in Names =>
              IterVtableMethods(i) = Cat(IterVtableMethods(parent[i]), OwnMethods(i))
         /\ parent[i] \notin Names => IterVtableMethods(i) = OwnMethods(i)
<1>1. \A j \in Names : IterVtableMethods(j) = Cat(FlattenSeq(ChainMethods(j)), OwnMethods(j))
  BY Zenon DEF IterVtableMethods, ChainMethods, Cat
<1>2. \A j \in Names : OwnMethods(j) \in Seq(Slots) /\ FlattenSeq(ChainMethods(j)) \in Seq(Slots)
  <2>1. \A j \in Names : ChainMethods(j) \in Seq(Seq(Slots))
    BY ChainMethodsAre
  <2> QED
    BY <2>1, OwnMethodsAre, FlattenTyped
<1>3. IterVtableMethods(i) \in Seq(Slots)
  BY <1>1, <1>2, CatProperties, Zenon
<1>4. ASSUME parent[i] \in Names
      PROVE  IterVtableMethods(i) = Cat(IterVtableMethods(parent[i]), OwnMethods(i))
  <2> DEFINE p == parent[i]
             c == ChainMethods(p)
             o == OwnMethods(p)
  <2>1. ChainMethods(i) = Append(c, o)
    BY <1>4, ChainMethodsAre
  <2>2. c \in Seq(Seq(Slots)) /\ o \in Seq(Slots)
    BY <1>4, OwnMethodsAre, ChainMethodsAre
  <2>3. FlattenSeq(Append(c, o)) = Cat(FlattenSeq(c), o)
    BY <2>2, FlattenAppend
  <2> QED
    BY <1>1, <1>4, <2>1, <2>3, Zenon
<1>5. ASSUME parent[i] \notin Names PROVE IterVtableMethods(i) = OwnMethods(i)
  <2>1. ChainMethods(i) = <<>>
    BY <1>5, ChainMethodsAre
  <2>2. FlattenSeq(<<>>) = <<>>
    <3>1. Len(<<>>) = 0
      BY EmptySeq
    <3> QED
      BY <3>1, Zenon DEF FlattenSeq
  <2>3. <<>> \o OwnMethods(i) = OwnMethods(i)
    BY <1>2, ConcatEmptySeq
  <2> QED
    BY <1>1, <2>1, <2>2, <2>3, Zenon DEF Cat
<1> QED
  BY <1>3, <1>4, <1>5

(* After the loop everything is resolved.                                  *)
LEMMA AllResolved ==
  ASSUME ChainInv, Resolved, NEW i \in Names
  PROVE  /\ parent[i] = reg.parent[i] /\ parent[i] \in All
         /\ base[i] = total[parent[i]] /\ total[i] = base[i] + reg.methods[i]
         /\ family[i] \in Names
         /\ family[i] = IF Follower(i) THEN family[reg.parent[i]] ELSE i
<1>1. Lists(order, All) /\ done = Len(order) /\ reg \in Registries
  BY DEF ChainInv, FormInv, Resolved
<1>2. \A j \in All : total[j] > 0
  BY <1>1, Zenon DEF ChainInv, DoneInv, Lists
<1>3. i \in All /\ reg.parent[i] \in All
  BY <1>1, RegFacts
<1>4. total[i] > 0
  BY <1>2, <1>3
<1> QED
  BY <1>3, <1>4 DEF ChainInv, ParentInv, WidthInv, FamilyInv

---------------------------------------------------------------------------
(* The properties.                                                         *)

Laid(i) ==
  /\ total[i] = Len(IterVtableMethods(i)) + 3
  /\ \A k \in 1 .. Len(IterVtableMethods(i)) : VtableIndex(IterVtableMethods(i)[k]) = 2 + k

LEMMA LaidOut ==
  ASSUME ChainInv, Resolved
  PROVE  \A i \in Names : Laid(i)
<1> DEFINE D == {i \in Names : Laid(i)}
           p == reg.parent
<1>1. ASSUME NEW i \in Names, p[i] \in Names => p[i] \in D PROVE Laid(i)
  <2> DEFINE it == IterVtableMethods(i)
             own == OwnMethods(i)
             m == reg.methods[i]
             a == base[i] - 3
  <2>1. parent[i] = p[i] /\ base[i] = total[p[i]] /\ total[i] = base[i] + m
    BY AllResolved
  <2>2. m \in Nat /\ own \in Seq(Slots) /\ Len(own) = m /\ \A k \in 1 .. m : own[k] = <<i, k>>
    BY ParentsNamed, RegFacts, OwnMethodsAre
  <2>3. \A k \in 1 .. m : VtableIndex(own[k]) = base[i] + k - 1
    <3> HIDE DEF own
    <3> QED
      BY <2>2 DEF VtableIndex
  <2>4. CASE p[i] \in Names
    <3> DEFINE w == IterVtableMethods(p[i])
               n == Len(w)
    <3>1. it = Cat(w, own) /\ w \in Seq(Slots)
      BY <2>1, <2>4, IterIs
    <3>2. Laid(p[i])
      BY <1>1, <2>4
    <3>3. n \in Nat /\ total[p[i]] = n + 3 /\ \A k \in 1 .. n : VtableIndex(w[k]) = 2 + k
      BY <3>1, <3>2, LenProperties DEF Laid
    <3>4. Joins(it, w, own)
      BY <2>2, <3>1, CatProperties, Zenon
    <3>5. /\ Len(it) = n + m
          /\ \A k \in 1 .. n : it[k] = w[k]
          /\ \A k \in 1 .. m : it[n + k] = own[k]
      BY <2>2, <3>4, Zenon DEF Joins
    <3> HIDE DEF it, w, n, own, m
    <3>6. total[i] = Len(it) + 3
      BY <2>1, <2>2, <3>3, <3>5
    <3>7. ASSUME NEW k \in 1 .. n + m PROVE VtableIndex(it[k]) = 2 + k
      <4>1. CASE k \in 1 .. n
        BY <3>3, <3>5, <4>1
      <4>2. CASE k \notin 1 .. n
        <5> DEFINE j == k - n
        <5>1. j \in 1 .. m /\ n + j = k /\ base[i] + j - 1 = 2 + k
          BY <2>1, <2>2, <3>3, <4>2
        <5> HIDE DEF j
        <5>2. it[k] = own[j]
          BY <3>5, <5>1
        <5>3. VtableIndex(own[j]) = base[i] + j - 1
          BY <2>3, <5>1
        <5> QED
          BY <5>1, <5>2, <5>3
      <4> QED
        BY <4>1, <4>2
    <3> QED
      BY <3>5, <3>6, <3>7 DEF Laid, it
  <2>5. CASE p[i] \notin Names
    <3>1. it = own
      BY <2>1, <2>5, IterIs
    <3>2. p[i] = "IUnknown" /\ total[p[i]] = 3
      <4>1. p[i] \in All
        BY <2>1, AllResolved
      <4> QED
        BY <2>5, <4>1 DEF All, ChainInv, RootInv
    <3> HIDE DEF it, own, m
    <3>3. total[i] = Len(it) + 3
      BY <2>1, <2>2, <3>1, <3>2
    <3>4. \A k \in 1 .. Len(it) : VtableIndex(it[k]) = 2 + k
      BY <2>1, <2>2, <2>3, <3>1, <3>2
    <3> QED
      BY <3>3, <3>4 DEF Laid, it
  <2> QED
    BY <2>4, <2>5
<1>2. Founded(Names, p)
  <2>1. Founded(All, p)
    BY ParentsNamed, RegFacts
  <2>2. Names \in SUBSET All
    BY DEF All
  <2> QED
    BY <2>1, <2>2, FoundedBelow
<1>3. Names \subseteq D
  <2>1. \A i \in Names : (p[i] \in Names => p[i] \in D) => i \in D
    BY <1>1
  <2> HIDE DEF D, p
  <2> QED
    BY <1>2, <2>1, ParentInduction
<1> QED
  BY <1>3

LEMMA Typed ==
  ASSUME ChainInv
  PROVE  TypeOK
<1>1. Lists(order, All) /\ done \in 0 .. Len(order)
  BY DEF ChainInv, FormInv
<1>2. Range(order) = All
  <2>1. /\ order \in Seq(All) /\ DOMAIN order = 1 .. Len(order)
        /\ \A x \in All : \E k \in DOMAIN order : order[k] = x
    BY <1>1, Zenon DEF Lists
  <2>2. \A k \in DOMAIN order : order[k] \in All
    BY <2>1, ElementOfSeq
  <2> QED
    BY <2>1, <2>2 DEF Range
<1>3. parent \in [All -> All \cup {"none"}] /\ base \in [All -> Nat] /\ total \in [All -> Nat]
  BY DEF ChainInv, FormInv
<1>4. ASSUME NEW k \in 1 .. done, order[k] \in Names PROVE family[order[k]] \in Names
  BY <1>4 DEF ChainInv, DoneInv, FamilyInv
<1> QED
  BY <1>1, <1>2, <1>3, <1>4 DEF TypeOK

(* SlotsAgree: the slot the host calls a method at is its place in every     *)
(* client vtable that has it, for any interfaces and any order of them.      *)
THEOREM SlotsAreAgreed == Spec => []SlotsAgree
<1>1. ASSUME ChainInv PROVE SlotsAgree
  <2>1. ASSUME Resolved, NEW i \in Names
        PROVE  /\ \A k \in DOMAIN IterVtableMethods(i) : VtableIndex(IterVtableMethods(i)[k]) = 2 + k
               /\ total[i] = Len(IterVtableMethods(i)) + 3
               /\ IF reg.parent[i] \in Names /\ Stem[reg.parent[i]] = Stem[i]
                  THEN family[i] = family[reg.parent[i]]
                  ELSE family[i] = i
    <3>1. Laid(i)
      BY <1>1, <2>1, LaidOut
    <3>2. DOMAIN IterVtableMethods(i) = 1 .. Len(IterVtableMethods(i))
      BY <1>1, IterIs, LenProperties
    <3>3. family[i] = IF Follower(i) THEN family[reg.parent[i]] ELSE i
      BY <1>1, <2>1, AllResolved
    <3> QED
      BY <3>1, <3>2, <3>3 DEF Laid, Follower
  <2> QED
    BY <1>1, <2>1, Typed DEF SlotsAgree
<1> QED
  BY <1>1, ChainInvHolds, PTL

LEMMA TiersAre ==
  ASSUME ChainInv, NEW f
  PROVE  Lists(FamilyTiers(f), WithUuid(f))
<1> DEFINE W == WithUuid(f)
           R == {x \in Names \X Names : Before(x[1], x[2])}
<1>1. W \subseteq Names
  BY DEF WithUuid, GroupInterfaces
<1>2. IsFiniteSet(W)
  BY <1>1, NamesType, FS_Subset
<1>3. Lists(order, All) /\ \A i \in All : total[i] \in Nat
  BY DEF ChainInv, FormInv
<1>4. \A i \in Names : Place(i) \in Nat /\ order[Place(i)] = i
  <2> TAKE i \in Names
  <2>1. \E k \in DOMAIN order : order[k] = i
    BY <1>3, Zenon DEF Lists, All
  <2>2. Place(i) \in DOMAIN order /\ order[Place(i)] = i
    BY <2>1, Zenon DEF Place
  <2>3. DOMAIN order \subseteq Nat
    BY <1>3 DEF Lists
  <2> QED
    BY <2>2, <2>3
<1>5. \A i \in Names : total[i] \in Nat
  BY <1>3 DEF All
<1>6. \A x, y \in Names : <<x, y>> \in R <=> Before(x, y)
  OBVIOUS
<1>7. Orders(R, W)
  <2>1. \A x, y \in Names : x # y => Place(x) # Place(y)
    BY <1>4, Zenon
  <2>2. \A x, y \in Names : x # y => Before(x, y) \/ Before(y, x)
    BY <1>4, <1>5, <2>1 DEF Before
  <2>3. \A x, y \in Names : Before(x, y) => ~Before(y, x)
    BY <1>4, <1>5 DEF Before
  <2>4. \A x, y, z \in Names : Before(x, y) /\ Before(y, z) => Before(x, z)
    BY <1>4, <1>5 DEF Before
  <2> HIDE DEF R, W
  <2> QED
    BY <1>1, <1>6, <2>2, <2>3, <2>4, Zenon DEF Orders
<1>8. PICK s \in SetToSeqs(W) : \A k, l \in DOMAIN s : k < l => <<s[k], s[l]>> \in R
  <2> HIDE DEF R, W
  <2> QED
    BY <1>2, <1>7, SortedExists
<1>9. \A k, l \in DOMAIN s : k < l => Before(s[k], s[l])
  BY <1>8
<1>10. FamilyTiers(f) \in SetToSeqs(W)
  <2>1. \E t \in SetToSeqs(W) : \A k, l \in DOMAIN t : k < l => Before(t[k], t[l])
    BY <1>8, <1>9, Zenon
  <2> QED
    BY <2>1, Zenon DEF FamilyTiers
<1> HIDE DEF W
<1>11. Lists(FamilyTiers(f), W)
  BY <1>2, <1>10, SetToSeqsList
<1> QED
  BY <1>11 DEF W

Starts(s, w) == Len(s) <= Len(w) /\ \A j \in 1 .. Len(s) : w[j] = s[j]

LEMMA StartsPrefix ==
  ASSUME NEW S, NEW s \in Seq(S), NEW w \in Seq(S), Starts(s, w)
  PROVE  IsPrefix(s, w)
<1> DEFINE n == Len(s)
           m == Len(w)
           a == SubSeq(s, 1, n)
           b == SubSeq(w, 1, n)
<1>1. n \in Nat /\ m \in Nat /\ n <= m /\ \A j \in 1 .. n : w[j] = s[j]
  BY LenProperties DEF Starts
<1>2. \A j \in 1 .. n : s[j] \in S
  BY ElementOfSeq
<1> HIDE DEF n, m
<1>3. \A j \in 1 .. n : w[j] \in S
  BY <1>1, <1>2
<1>4. 1 \in Int /\ n \in Int
  BY <1>1
<1>5. /\ a \in Seq(S) /\ Len(a) = IF 1 <= n THEN n - 1 + 1 ELSE 0
      /\ \A j \in 1 .. n - 1 + 1 : a[j] = s[1 + j - 1]
  BY <1>2, <1>4, SubSeqProperties
<1>6. /\ b \in Seq(S) /\ Len(b) = IF 1 <= n THEN n - 1 + 1 ELSE 0
      /\ \A j \in 1 .. n - 1 + 1 : b[j] = w[1 + j - 1]
  BY <1>3, <1>4, SubSeqProperties
<1>7. Len(a) = n /\ Len(b) = n /\ n - 1 + 1 = n
  BY <1>1, <1>5, <1>6
<1>8. \A j \in 1 .. n : 1 + j - 1 = j
  BY <1>1
<1> HIDE DEF a, b
<1>9. \A j \in 1 .. n : a[j] = b[j]
  BY <1>1, <1>5, <1>6, <1>7, <1>8
<1>10. a = b
  BY <1>5, <1>6, <1>7, <1>9, SeqEqual
<1> QED
  BY <1>1, <1>10, Zenon DEF IsPrefix, a, b, n, m

(* Accepted tiers are a chain of parents.                                  *)
LEMMA TierParents ==
  ASSUME ChainInv, NEW f, TiersAccepted(f)
  PROVE  /\ \A k \in 1 .. Len(FamilyTiers(f)) : FamilyTiers(f)[k] \in Names
         /\ \A k \in 1 .. Len(FamilyTiers(f)) - 1 :
              parent[FamilyTiers(f)[k + 1]] = FamilyTiers(f)[k]
<1>1. FamilyTiers(f) \in Seq(WithUuid(f))
  BY TiersAre DEF Lists
<1>2. WithUuid(f) \subseteq Names
  BY DEF WithUuid, GroupInterfaces
<1>3. \A k \in 1 .. Len(FamilyTiers(f)) : FamilyTiers(f)[k] \in Names
  BY <1>1, <1>2, ElementOfSeq
<1> QED
  BY <1>3 DEF TiersAccepted

LEMMA ChildStarts ==
  ASSUME ChainInv, NEW i \in Names, parent[i] \in Names, NEW s \in Seq(Slots),
         Starts(s, IterVtableMethods(parent[i]))
  PROVE  Starts(s, IterVtableMethods(i))
<1> DEFINE w == IterVtableMethods(parent[i])
           own == OwnMethods(i)
           it == IterVtableMethods(i)
<1>1. it = Cat(w, own) /\ w \in Seq(Slots) /\ own \in Seq(Slots)
  BY IterIs, OwnMethodsAre
<1>2. Joins(it, w, own)
  BY <1>1, CatProperties, Zenon
<1>3. /\ Len(w) \in Nat /\ Len(own) \in Nat /\ Len(it) = Len(w) + Len(own)
      /\ \A j \in 1 .. Len(w) : it[j] = w[j]
  BY <1>2, Zenon DEF Joins
<1>4. Len(s) \in Nat /\ Len(s) <= Len(w) /\ \A j \in 1 .. Len(s) : w[j] = s[j]
  BY LenProperties DEF Starts
<1> DEFINE a == Len(s)
           b == Len(w)
           c == Len(own)
           d == Len(it)
<1> HIDE DEF w, own, it, a, b, c, d
<1>5. a <= d /\ \A j \in 1 .. a : it[j] = s[j]
  <2>1. a \in Nat /\ b \in Nat /\ c \in Nat /\ d = b + c /\ a <= b
    BY <1>3, <1>4 DEF a, b, c, d
  <2>2. a <= d /\ \A j \in 1 .. a : j \in 1 .. b
    BY <2>1
  <2> QED
    BY <1>3, <1>4, <2>2 DEF a, b
<1> QED
  BY <1>5 DEF Starts, it, a, d

(* OneVtableServesTheFamily: each tier's layout is the beginning of the      *)
(* widest one's.                                                           *)
THEOREM OneVtableServes == Spec => []OneVtableServesTheFamily
<1>1. ASSUME ChainInv PROVE OneVtableServesTheFamily
  <2> SUFFICES ASSUME Generates, NEW f \in Families, NEW i \in Range(FamilyTiers(f))
               PROVE  IsPrefix(IterVtableMethods(i), IterVtableMethods(Last(FamilyTiers(f))))
    BY DEF OneVtableServesTheFamily
  <2> DEFINE t == FamilyTiers(f)
             n == Len(t)
             It(k) == IterVtableMethods(t[k])
  <2>1. Lists(t, WithUuid(f))
    BY <1>1, TiersAre
  <2>2. n \in Nat /\ DOMAIN t = 1 .. n
    BY <2>1, Zenon DEF Lists
  <2>3. PICK k \in 1 .. n : t[k] = i
    <3> HIDE DEF t, n
    <3> QED
      BY <2>2 DEF Range, t
  <2>4. /\ \A l \in 1 .. n : t[l] \in Names
        /\ \A l \in 1 .. n - 1 : parent[t[l + 1]] = t[l]
    <3>1. TiersAccepted(f)
      BY DEF Generates
    <3> QED
      BY <1>1, <3>1, TierParents, Zenon
  <2> HIDE DEF t, n
  <2>5. \A l \in 1 .. n : It(l) \in Seq(Slots)
    BY <1>1, <2>4, IterIs
  <2> DEFINE s == It(k)
             D == {d \in Nat : k + d <= n => Starts(s, It(k + d))}
  <2>6. 0 \in D
    <3>1. k + 0 = k /\ Len(s) \in Nat
      BY <2>5, LenProperties
    <3>2. Starts(s, It(k))
      <4> HIDE DEF It
      <4> QED
        BY <3>1 DEF Starts
    <3>3. Starts(s, It(k + 0))
      BY <3>1, <3>2
    <3> QED
      BY <3>3
  <2>7. ASSUME NEW d \in Nat, d \in D PROVE d + 1 \in D
    <3> SUFFICES ASSUME k + (d + 1) <= n PROVE Starts(s, It(k + (d + 1)))
      OBVIOUS
    <3> DEFINE l == k + d
               j == k + (d + 1)
    <3>1. l \in 1 .. n - 1 /\ l <= n /\ j = l + 1 /\ j \in 1 .. n /\ l \in 1 .. n
      BY <2>2
    <3>2. Starts(s, It(l))
      BY <2>7, <3>1
    <3> HIDE DEF l, j
    <3>3. t[j] \in Names /\ parent[t[j]] = t[l] /\ t[l] \in Names
      BY <2>4, <3>1
    <3>4. Starts(s, It(j))
      <4>1. s \in Seq(Slots)
        BY <2>5
      <4> HIDE DEF s
      <4>2. Starts(s, IterVtableMethods(parent[t[j]]))
        BY <3>2, <3>3, Zenon
      <4>3. parent[t[j]] \in Names
        BY <3>3
      <4> QED
        BY <1>1, <3>3, <4>1, <4>2, <4>3, ChildStarts
    <3> QED
      BY <3>4 DEF j
  <2>8. Nat \subseteq D
    <3> HIDE DEF D
    <3> QED
      BY <2>6, <2>7, NatSetInduction
  <2>9. Starts(s, It(n))
    <3>1. n - k \in Nat /\ k + (n - k) = n /\ n <= n
      BY <2>2
    <3>2. n - k \in D
      BY <2>8, <3>1
    <3> HIDE DEF It, s
    <3> QED
      BY <3>1, <3>2
  <2>10. s \in Seq(Slots) /\ It(n) \in Seq(Slots)
    <3>1. n \in 1 .. n
      BY <2>2
    <3> QED
      BY <2>5, <3>1
  <2>11. IsPrefix(s, It(n))
    BY <2>9, <2>10, StartsPrefix
  <2> QED
    BY <2>3, <2>11, Zenon DEF Last, t, n
<1> QED
  BY <1>1, ChainInvHolds, PTL

(* What the parents of an interface are, as a set.                         *)
LEMMA Ancestors ==
  ASSUME ChainInv, NEW i \in Names
  PROVE  /\ Range(ParentChain[i]) \subseteq Names
         /\ parent[i] \in Names => Range(ParentChain[i]) = Range(ParentChain[parent[i]]) \cup {parent[i]}
         /\ parent[i] \notin Names => Range(ParentChain[i]) = {}
<1>1. \A j \in All : ParentChain[j] \in Seq(Names)
                     /\ ParentChain[j] = IF parent[j] \in Names
                          THEN Append(ParentChain[parent[j]], parent[j]) ELSE <<>>
  BY ParentsNamed, ParentChainIs
<1>2. i \in All /\ \A j \in Names : j \in All
  BY DEF All
<1>3. Range(ParentChain[i]) \subseteq Names
  BY <1>1, <1>2, RangeOfSeq
<1>4. ASSUME parent[i] \in Names
      PROVE  Range(ParentChain[i]) = Range(ParentChain[parent[i]]) \cup {parent[i]}
  <2> DEFINE p == parent[i]
             c == ParentChain[p]
             d == ParentChain[i]
             n == Len(c)
  <2>1. d = Append(c, p) /\ c \in Seq(Names) /\ p \in Names /\ d \in Seq(Names)
    BY <1>1, <1>2, <1>4
  <2>2. n \in Nat /\ DOMAIN c = 1 .. n
    BY <2>1, LenProperties
  <2>3. Len(d) = n + 1 /\ (\A k \in 1 .. n : d[k] = c[k]) /\ d[n + 1] = p
    BY <2>1, AppendProperties
  <2>4. DOMAIN d = 1 .. n + 1
    BY <2>1, <2>3, LenProperties
  <2> HIDE DEF n, c, d, p
  <2>5. \A k \in 1 .. n + 1 : k \in 1 .. n \/ k = n + 1
    BY <2>2
  <2>6. (\A k \in 1 .. n : k \in 1 .. n + 1) /\ n + 1 \in 1 .. n + 1
    BY <2>2
  <2>7. Range(d) = Range(c) \cup {p}
    BY <2>2, <2>3, <2>4, <2>5, <2>6 DEF Range
  <2> QED
    BY <2>7 DEF c, d, p
<1>5. ASSUME parent[i] \notin Names PROVE Range(ParentChain[i]) = {}
  <2>1. ParentChain[i] = <<>>
    BY <1>1, <1>2, <1>5
  <2> QED
    BY <2>1 DEF Range
<1> QED
  BY <1>3, <1>4, <1>5

LEMMA UpcastsAncestors ==
  ASSUME ChainInv
  PROVE  \A i \in Names : Upcasts[i] = {i} \cup Range(ParentChain[i])
<1> DEFINE D == {i \in Names : Upcasts[i] = {i} \cup Range(ParentChain[i])}
<1>1. /\ reg \in Registries
      /\ \A i \in All : parent[i] \in All => parent[i] = reg.parent[i]
  BY ParentsNamed
<1>2. \A i \in Names : Upcasts[i] = {i} \cup (IF parent[i] \in Names THEN Upcasts[parent[i]] ELSE {})
  BY <1>1, UpcastsIs
<1>3. Founded(Names, parent)
  <2>1. Founded(All, reg.parent) /\ Names \in SUBSET All /\ \A i \in Names : i \in All
    BY <1>1, RegFacts DEF All
  <2>2. \A i \in Names : parent[i] \in Names => parent[i] = reg.parent[i]
    BY <1>1, <2>1
  <2> QED
    BY <2>1, <2>2, FoundedBelow
<1>4. \A i \in Names : (parent[i] \in Names => parent[i] \in D) => i \in D
  <2> TAKE i \in Names
  <2> HAVE parent[i] \in Names => parent[i] \in D
  <2>1. CASE parent[i] \in Names
    <3>1. Upcasts[i] = {i} \cup Upcasts[parent[i]]
      BY <1>2, <2>1
    <3>2. Upcasts[parent[i]] = {parent[i]} \cup Range(ParentChain[parent[i]])
      BY <2>1
    <3>3. Range(ParentChain[i]) = Range(ParentChain[parent[i]]) \cup {parent[i]}
      BY <2>1, Ancestors
    <3> QED
      BY <3>1, <3>2, <3>3
  <2>2. CASE parent[i] \notin Names
    <3>1. Upcasts[i] = {i} \cup {}
      BY <1>2, <2>2
    <3>2. Range(ParentChain[i]) = {}
      BY <2>2, Ancestors
    <3> QED
      BY <3>1, <3>2
  <2> QED
    BY <2>1, <2>2
<1>5. Names \subseteq D
  <2> HIDE DEF D
  <2> QED
    BY <1>3, <1>4, ParentInduction
<1> QED
  BY <1>5

(* QueriesMatchUpcasts: the guest's family tables and the host's upcast      *)
(* table give the same answers.                                            *)
THEOREM QueriesMatch == Spec => []QueriesMatchUpcasts
<1>1. ASSUME ChainInv PROVE QueriesMatchUpcasts
  <2> SUFFICES ASSUME Generates, Resolved, NEW i \in Names, reg.uuid[i]
               PROVE  QueryAnswers(i) = Upcasts[i] \cup {"IUnknown"}
    BY DEF QueriesMatchUpcasts
  <2> DEFINE f == family[i]
             t == FamilyTiers(f)
             n == Len(t)
             C(k) == Range(ParentChain[t[k]])
             m == CHOOSE x \in DOMAIN t : t[x] = i
  <2>1. Lists(t, WithUuid(f))
    BY <1>1, TiersAre
  <2>2. n \in Nat /\ DOMAIN t = 1 .. n
    BY <2>1, Zenon DEF Lists
  <2>3. m \in 1 .. n /\ t[m] = i
    <3>1. i \in WithUuid(f)
      BY DEF WithUuid, GroupInterfaces
    <3>2. \E x \in DOMAIN t : t[x] = i
      BY <2>1, <3>1, Zenon DEF Lists
    <3>3. m \in DOMAIN t /\ t[m] = i
      BY <3>2, Zenon
    <3> QED
      BY <2>2, <3>3
  <2>4. /\ \A l \in 1 .. n : t[l] \in Names
        /\ \A l \in 1 .. n - 1 : parent[t[l + 1]] = t[l]
    <3>1. TiersAccepted(f)
      BY DEF Generates, Families
    <3> QED
      BY <1>1, <3>1, TierParents, Zenon
  <2> HIDE DEF t, n, m
  <2> DEFINE Same(l) == C(l) \cup {t[l]} = C(1) \cup {t[k] : k \in 1 .. l}
             D == {l \in 0 .. n : l # 0 => Same(l)}
  <2>5. ASSUME NEW l \in 1 .. n, l - 1 \in D PROVE Same(l)
    <3>1. CASE l = 1
      <4>1. {t[k] : k \in 1 .. 1} = {t[1]}
        <5>1. \A k \in 1 .. 1 : k = 1
          OBVIOUS
        <5> QED
          BY <5>1
      <4> QED
        BY <3>1, <4>1
    <3>2. CASE l # 1
      <4> DEFINE j == l - 1
      <4>1. j \in 1 .. n - 1 /\ j # 0 /\ j + 1 = l /\ l \in 1 .. l /\ \A k \in 1 .. l : k = l \/ k \in 1 .. j
        BY <2>2, <3>2
      <4>2. \A k \in 1 .. j : k \in 1 .. l
        BY <2>2, <3>2
      <4>3. C(j) \cup {t[j]} = C(1) \cup {t[k] : k \in 1 .. j}
        BY <2>5, <4>1
      <4> HIDE DEF j
      <4>4. t[l] \in Names /\ parent[t[l]] = t[j] /\ t[j] \in Names
        BY <2>2, <2>4, <4>1
      <4>5. C(l) = C(j) \cup {t[j]}
        <5>1. Range(ParentChain[t[l]]) = Range(ParentChain[parent[t[l]]]) \cup {parent[t[l]]}
          BY <1>1, <4>4, Ancestors
        <5> QED
          BY <4>4, <5>1
      <4>6. {t[k] : k \in 1 .. l} = {t[k] : k \in 1 .. j} \cup {t[l]}
        BY <4>1, <4>2
      <4> HIDE DEF C
      <4> QED
        BY <4>3, <4>5, <4>6
    <3> QED
      BY <3>1, <3>2
  <2>6. 0 .. n \subseteq D
    <3>1. 0 \in D
      BY <2>2
    <3> HIDE DEF Same
    <3>2. \A l \in 1 .. n : l - 1 \in D => l \in D
      BY <2>2, <2>5
    <3> HIDE DEF D
    <3> QED
      BY <2>2, <3>1, <3>2, UptoInduction
  <2>7. C(m) \cup {t[m]} = C(1) \cup {t[k] : k \in 1 .. m}
    <3>1. m \in 0 .. n /\ m # 0
      BY <2>2, <2>3
    <3>2. m \in D
      BY <2>6, <3>1
    <3> HIDE DEF C
    <3> QED
      BY <3>1, <3>2
  <2>8. Upcasts[i] = C(m) \cup {t[m]}
    BY <1>1, <2>3, UpcastsAncestors
  <2>9. UpToTier(i) = {t[k] : k \in 1 .. m}
    BY Zenon DEF UpToTier, t, m
  <2>10. AncestorNames(f) = ({"IUnknown", t[1]} \cup C(1)) \ {t[1]}
    <3>1. t # <<>>
      <4>1. t = <<>> => DOMAIN t = {}
        OBVIOUS
      <4> QED
        BY <2>2, <2>3, <4>1
    <3> QED
      BY <3>1, Zenon DEF AncestorNames, ParentIidChainNames, t
  <2>11. QueryAnswers(i) = AncestorNames(f) \cup UpToTier(i)
    BY DEF QueryAnswers
  <2>12. t[1] \in {t[k] : k \in 1 .. m} /\ t[1] # "IUnknown"
    <3>1. 1 \in 1 .. m /\ 1 \in 1 .. n
      BY <2>2, <2>3
    <3> QED
      BY <2>4, <3>1, NamesType
  <2> HIDE DEF C, f
  <2> QED
    BY <2>7, <2>8, <2>9, <2>10, <2>11, <2>12
<1> QED
  BY <1>1, ChainInvHolds, PTL

(* A family is named after one of its members: the first of its versions.    *)
LEMMA NamesakeBelongs ==
  ASSUME ChainInv, Resolved
  PROVE  \A i \in Names : family[i] \in Names /\ family[family[i]] = family[i]
<1> DEFINE p == reg.parent
           D == {i \in Names : family[family[i]] = family[i]}
<1>1. Founded(Names, p)
  <2>1. Founded(All, p)
    BY ParentsNamed, RegFacts
  <2>2. Names \in SUBSET All
    BY DEF All
  <2> QED
    BY <2>1, <2>2, FoundedBelow
<1>2. ASSUME NEW i \in Names, p[i] \in Names => p[i] \in D PROVE i \in D
  <2>1. family[i] = IF Follower(i) THEN family[p[i]] ELSE i
    BY AllResolved
  <2>2. CASE Follower(i)
    <3>1. p[i] \in D
      BY <1>2, <2>2 DEF Follower
    <3> QED
      BY <2>1, <2>2, <3>1
  <2>3. CASE ~Follower(i)
    BY <2>1, <2>3
  <2> QED
    BY <2>2, <2>3
<1>3. Names \subseteq D
  <2>1. \A i \in Names : (p[i] \in Names => p[i] \in D) => i \in D
    BY <1>2
  <2> HIDE DEF D, p
  <2> QED
    BY <1>1, <2>1, ParentInduction
<1> QED
  BY <1>3, AllResolved

(* FilesAsListed: of the files the build expects only the client files of a  *)
(* family whose namesake has no uuid are not generated.  A family without a  *)
(* client file has no member with a uuid, and its namesake is a member.      *)
THEOREM ListedFiles == Spec => []FilesAsListed
<1>1. ChainInv => FilesAsListed
  <2> SUFFICES ASSUME ChainInv, Resolved,
                      NEW file \in ExpectedFiles, file \notin GenerateCommands, file \notin GenerateClient
               PROVE  file[1] = "client" /\ ~reg.uuid[file[2]]
    BY DEF FilesAsListed
  <2>1. PICK side \in {"host", "guest", "client"}, f \in ListFamilies : file = <<side, f>>
    BY DEF ExpectedFiles
  <2>2. f \in Families
    BY DEF ListFamilies, Families
  <2>3. side = "client"
    BY <2>1, <2>2 DEF GenerateCommands
  <2>4. WithUuid(f) = {}
    BY <2>1, <2>2, <2>3 DEF GenerateClient
  <2>5. f \in Names /\ family[f] = f
    BY NamesakeBelongs DEF ListFamilies
  <2>6. ~reg.uuid[f]
    BY <2>4, <2>5 DEF WithUuid, GroupInterfaces
  <2> QED
    BY <2>1, <2>3, <2>6
<1> QED
  BY <1>1, ChainInvHolds, PTL

---------------------------------------------------------------------------
(* The order of the declarations *)

---------------------------------------------------------------------------
(* One after another *)

(* What there is after each step. *)
Turns(n, S, step, a) ==
  {U \in [0 .. n -> S] : U[0] = a /\ \A k \in 1 .. n : U[k] = step[k][U[k - 1]]}

LEMMA InTurnExists ==
  ASSUME NEW n \in Nat, NEW S, NEW a \in S, NEW step \in [1 .. n -> [S -> S]]
  PROVE  \E U \in Turns(n, S, step, a) : InTurn(n, step, a) = U[n]
<1> DEFINE Body(g, k) == IF k = 0 THEN a ELSE step[k][g[k - 1]]
           Solves(g) == g = [k \in 0 .. n |-> Body(g, k)]
           next == [p \in S \X Nat |->
                      IF p[2] + 1 \notin 1 .. n THEN p[1] ELSE step[p[2] + 1][p[1]]]
<1>1. next \in [S \X Nat -> S]
  OBVIOUS
<1>2. PICK g \in [0 .. n -> S] :
        g = [k \in 0 .. n |-> IF k = 0 THEN a ELSE next[<<g[k - 1], k - 1>>]]
  <2> HIDE DEF next
  <2>1. \E g \in [0 .. n -> S] : RecursiveUpto(g, n, a, next)
    BY <1>1, UptoRecursion
  <2> QED
    BY <2>1 DEF RecursiveUpto
<1>3. ASSUME NEW k \in 0 .. n PROVE g[k] = Body(g, k)
  <2>1. CASE k = 0
    BY <1>2, <2>1
  <2>2. CASE k # 0
    <3>1. k - 1 \in Nat /\ k - 1 \in 0 .. n /\ k - 1 + 1 = k /\ k \in 1 .. n
      BY <2>2
    <3>2. g[k] = next[<<g[k - 1], k - 1>>]
      <4> HIDE DEF next
      <4> QED
        BY <1>2, <2>2
    <3>3. <<g[k - 1], k - 1>> \in S \X Nat
      BY <3>1
    <3>4. g[k] = step[k][g[k - 1]]
      BY <3>1, <3>2, <3>3
    <3> QED
      BY <2>2, <3>4
  <2> QED
    BY <2>1, <2>2
<1>4. Solves(g)
  <2>1. g = [k \in 0 .. n |-> g[k]]
    OBVIOUS
  <2> HIDE DEF Body
  <2> QED
    BY <1>3, <2>1
<1> DEFINE U == CHOOSE h : Solves(h)
<1>5. Solves(U)
  <2> HIDE DEF Solves
  <2> QED
    BY <1>4, Zenon
<1>6. \A k \in 0 .. n : U[k] = g[k]
  <2> DEFINE D == {k \in Nat : k \in 0 .. n => U[k] = g[k]}
  <2>1. 0 \in D
    BY <1>4, <1>5
  <2>2. ASSUME NEW k \in Nat, k \in D PROVE k + 1 \in D
    <3> SUFFICES ASSUME k + 1 \in 0 .. n PROVE U[k + 1] = g[k + 1]
      OBVIOUS
    <3>1. k \in 0 .. n /\ k + 1 # 0 /\ k + 1 - 1 = k
      OBVIOUS
    <3>2. U[k] = g[k]
      BY <2>2, <3>1
    <3>3. U[k + 1] = Body(U, k + 1) /\ g[k + 1] = Body(g, k + 1)
      <4> HIDE DEF Body, U
      <4> QED
        BY <1>4, <1>5
    <3> HIDE DEF U
    <3> QED
      BY <3>1, <3>2, <3>3
  <2>3. Nat \subseteq D
    <3> HIDE DEF D
    <3> QED
      BY <2>1, <2>2, NatSetInduction
  <2> HIDE DEF U
  <2> QED
    BY <2>3
<1>7. InTurn(n, step, a) = U[n]
  BY DEF InTurn
<1>8. g \in Turns(n, S, step, a)
  <2>1. 0 \in 0 .. n /\ \A k \in 1 .. n : k \in 0 .. n /\ k # 0
    OBVIOUS
  <2> QED
    BY <1>3, <2>1 DEF Turns
<1>9. n \in 0 .. n
  OBVIOUS
<1> QED
  <2> HIDE DEF U
  <2> QED
    BY <1>6, <1>7, <1>8, <1>9

(* Whatever holds at first and is kept by each step holds in the end.       *)
LEMMA InTurnKeeps ==
  ASSUME NEW n \in Nat, NEW S, NEW a \in S, NEW step \in [1 .. n -> [S -> S]],
         NEW Inv, a \in Inv[0],
         \A k \in 1 .. n : \A s \in S : s \in Inv[k - 1] => step[k][s] \in Inv[k]
  PROVE  InTurn(n, step, a) \in S /\ InTurn(n, step, a) \in Inv[n]
<1>1. PICK U \in Turns(n, S, step, a) : InTurn(n, step, a) = U[n]
  BY InTurnExists
<1> DEFINE D == {k \in 0 .. n : U[k] \in Inv[k]}
<1>2. 0 \in D
  BY <1>1 DEF Turns
<1>3. \A k \in 1 .. n : k - 1 \in D => k \in D
  <2> SUFFICES ASSUME NEW k \in 1 .. n, U[k - 1] \in Inv[k - 1]
               PROVE  U[k] \in Inv[k] /\ k \in 0 .. n
    OBVIOUS
  <2>1. k - 1 \in 0 .. n /\ U[k - 1] \in S /\ U[k] = step[k][U[k - 1]]
    BY DEF Turns
  <2> QED
    BY <2>1
<1>4. 0 .. n \subseteq D
  <2> HIDE DEF D
  <2> QED
    BY <1>2, <1>3, UptoInduction
<1>5. n \in 0 .. n
  OBVIOUS
<1> QED
  BY <1>1, <1>4, <1>5 DEF Turns

---------------------------------------------------------------------------
(* Lists of names *)

LEMMA AppendFacts ==
  ASSUME NEW S, NEW s \in Seq(S), NEW x \in S
  PROVE  /\ Append(s, x) \in Seq(S)
         /\ DOMAIN Append(s, x) = 1 .. Len(s) + 1 /\ DOMAIN s = 1 .. Len(s) /\ Len(s) \in Nat
         /\ \A k \in DOMAIN s : Append(s, x)[k] = s[k]
         /\ Append(s, x)[Len(s) + 1] = x
         /\ ToSet(Append(s, x)) = ToSet(s) \cup {x}
         /\ IsInjective(s) /\ x \notin ToSet(s) => IsInjective(Append(s, x))
<1>1. /\ Append(s, x) \in Seq(S)
      /\ DOMAIN Append(s, x) = 1 .. Len(s) + 1 /\ DOMAIN s = 1 .. Len(s) /\ Len(s) \in Nat
      /\ \A k \in DOMAIN s : Append(s, x)[k] = s[k]
      /\ Append(s, x)[Len(s) + 1] = x
  BY AppendProperties, LenProperties
<1> DEFINE r == Append(s, x)
<1> HIDE DEF r
<1>2. ToSet(r) = ToSet(s) \cup {x}
  <2>1. \A k \in 1 .. Len(s) + 1 : k \in 1 .. Len(s) \/ k = Len(s) + 1
    BY <1>1
  <2>2. Len(s) + 1 \in 1 .. Len(s) + 1 /\ 1 .. Len(s) \subseteq 1 .. Len(s) + 1
    BY <1>1
  <2> QED
    BY <1>1, <2>1, <2>2 DEF ToSet, r
<1>3. ASSUME IsInjective(s), x \notin ToSet(s) PROVE IsInjective(r)
  <2> SUFFICES ASSUME NEW j \in 1 .. Len(s) + 1, NEW k \in 1 .. Len(s) + 1, r[j] = r[k]
               PROVE  j = k
    BY <1>1 DEF IsInjective, r
  <2>1. (j \in DOMAIN s \/ j = Len(s) + 1) /\ (k \in DOMAIN s \/ k = Len(s) + 1)
    BY <1>1
  <2>2. \A i \in DOMAIN s : s[i] # x /\ r[i] = s[i]
    BY <1>1, <1>3 DEF ToSet, r
  <2> QED
    BY <1>1, <1>3, <2>1, <2>2 DEF IsInjective, r
<1> QED
  BY <1>1, <1>2, <1>3 DEF r

LEMMA ConcatFacts ==
  ASSUME NEW S, NEW s \in Seq(S), NEW t \in Seq(S)
  PROVE  /\ s \o t \in Seq(S)
         /\ DOMAIN s = 1 .. Len(s) /\ DOMAIN t = 1 .. Len(t) /\ Len(s) \in Nat /\ Len(t) \in Nat
         /\ DOMAIN (s \o t) = 1 .. Len(s) + Len(t)
         /\ \A k \in DOMAIN s : (s \o t)[k] = s[k]
         /\ \A k \in DOMAIN t : (s \o t)[Len(s) + k] = t[k]
         /\ \A k \in DOMAIN (s \o t) :
              k \in DOMAIN s \/ (k - Len(s) \in DOMAIN t /\ k = Len(s) + (k - Len(s)))
         /\ ToSet(s \o t) = ToSet(s) \cup ToSet(t)
         /\ IsInjective(s) /\ IsInjective(t) /\ ToSet(s) \cap ToSet(t) = {}
              => IsInjective(s \o t)
<1> DEFINE r == s \o t
<1>1. /\ r \in Seq(S)
      /\ DOMAIN s = 1 .. Len(s) /\ DOMAIN t = 1 .. Len(t) /\ Len(s) \in Nat /\ Len(t) \in Nat
      /\ DOMAIN r = 1 .. Len(s) + Len(t)
  BY ConcatProperties, LenProperties
<1>2. \A k \in DOMAIN s : r[k] = s[k]
  BY <1>1, ConcatProperties
<1>3. \A k \in DOMAIN t : r[Len(s) + k] = t[k]
  <2> TAKE k \in DOMAIN t
  <2> DEFINE i == Len(s) + k
  <2>1. i \in 1 .. Len(s) + Len(t) /\ ~(i <= Len(s)) /\ i - Len(s) = k
    BY <1>1
  <2> HIDE DEF i
  <2>2. r[i] = t[i - Len(s)]
    BY <2>1, ConcatProperties
  <2> QED
    BY <2>1, <2>2 DEF i
<1>4. \A k \in DOMAIN r :
        k \in DOMAIN s \/ (k - Len(s) \in DOMAIN t /\ k = Len(s) + (k - Len(s)))
  BY <1>1
<1>5. \A k \in DOMAIN s : k \in DOMAIN r
  BY <1>1
<1>6. \A k \in DOMAIN t : Len(s) + k \in DOMAIN r
  BY <1>1
<1> HIDE DEF r
<1>7. ToSet(r) = ToSet(s) \cup ToSet(t)
  <2>1. ASSUME NEW x \in ToSet(r) PROVE x \in ToSet(s) \cup ToSet(t)
    <3>1. PICK k \in DOMAIN r : x = r[k]
      BY DEF ToSet
    <3>2. CASE k \in DOMAIN s
      BY <1>2, <3>1, <3>2 DEF ToSet
    <3>3. CASE k - Len(s) \in DOMAIN t /\ k = Len(s) + (k - Len(s))
      <4>1. r[k] = t[k - Len(s)]
        BY <1>3, <3>3
      <4> QED
        BY <3>1, <3>3, <4>1 DEF ToSet
    <3> QED
      BY <1>4, <3>1, <3>2, <3>3
  <2>2. ToSet(s) \subseteq ToSet(r)
    BY <1>2, <1>5 DEF ToSet
  <2>3. ToSet(t) \subseteq ToSet(r)
    BY <1>3, <1>6 DEF ToSet
  <2> QED
    BY <2>1, <2>2, <2>3
<1>8. ASSUME IsInjective(s), IsInjective(t), ToSet(s) \cap ToSet(t) = {}
      PROVE  IsInjective(r)
  <2> SUFFICES ASSUME NEW j \in DOMAIN r, NEW k \in DOMAIN r, r[j] = r[k] PROVE j = k
    BY DEF IsInjective
  <2> DEFINE i == j - Len(s)
             l == k - Len(s)
  <2>1. j \in DOMAIN s \/ (i \in DOMAIN t /\ r[j] = t[i] /\ j = Len(s) + i)
    BY <1>3, <1>4
  <2>2. k \in DOMAIN s \/ (l \in DOMAIN t /\ r[k] = t[l] /\ k = Len(s) + l)
    BY <1>3, <1>4
  <2>3. \A x \in DOMAIN s : \A y \in DOMAIN t : s[x] # t[y]
    BY <1>8 DEF ToSet
  <2> HIDE DEF i, l
  <2> QED
    BY <1>2, <1>8, <2>1, <2>2, <2>3 DEF IsInjective
<1> QED
  BY <1>1, <1>2, <1>3, <1>4, <1>7, <1>8 DEF r

(* Of the elements in S, those before each element of s are before it in    *)
(* list too.                                                                *)
InOrder(s, list, S) ==
  \A m \in DOMAIN s : \E i \in DOMAIN list :
    /\ list[i] = s[m]
    /\ \A h \in 1 .. i - 1 : list[h] \in S => \E j \in 1 .. m - 1 : s[j] = list[h]

LEMMA OnlyIs ==
  ASSUME NEW list \in Seq(Types), NEW S
  PROVE  /\ Only(list, S) \in Seq(Types)
         /\ ToSet(Only(list, S)) = ToSet(list) \cap S
         /\ IsInjective(list) => IsInjective(Only(list, S))
         /\ InOrder(Only(list, S), list, S)
<1> DEFINE n == Len(list)
           Q == Seq(Types)
           step == [k \in DOMAIN list |-> [kept \in Q |->
                      IF list[k] \in S THEN Append(kept, list[k]) ELSE kept]]
           First(k) == {list[j] : j \in 1 .. k}
           Inv == [k \in 0 .. n |-> {s \in Q : /\ ToSet(s) = First(k) \cap S
                                               /\ IsInjective(list) => IsInjective(s)
                                               /\ InOrder(s, list, S)}]
<1>1. n \in Nat /\ DOMAIN list = 1 .. n /\ \A k \in 1 .. n : list[k] \in Types
  BY LenProperties
<1>2. step \in [1 .. n -> [Q -> Q]]
  BY <1>1, AppendProperties
<1>3. <<>> \in Q /\ <<>> \in Inv[0]
  <2>1. ToSet(<<>>) = {} /\ IsInjective(<<>>) /\ First(0) = {} /\ InOrder(<<>>, list, S)
    BY DEF ToSet, IsInjective, InOrder
  <2> QED
    BY <1>1, <2>1
<1>4. ASSUME NEW k \in 1 .. n, NEW s \in Q, s \in Inv[k - 1]
      PROVE  step[k][s] \in Inv[k]
  <2>1. First(k) = First(k - 1) \cup {list[k]}
    <3>1. \A j \in 1 .. k : j = k \/ j \in 1 .. k - 1
      OBVIOUS
    <3>2. k \in 1 .. k /\ 1 .. k - 1 \subseteq 1 .. k
      OBVIOUS
    <3> QED
      BY <3>1, <3>2
  <2>2. /\ ToSet(s) = First(k - 1) \cap S /\ (IsInjective(list) => IsInjective(s))
        /\ InOrder(s, list, S)
    <3>1. k - 1 \in 0 .. n
      BY <1>1
    <3> QED
      BY <1>4, <3>1
  <2>3. step[k][s] = IF list[k] \in S THEN Append(s, list[k]) ELSE s
    BY <1>1
  <2>4. IsInjective(list) => list[k] \notin ToSet(s)
    <3>1. \A j \in 1 .. k - 1 : j \in 1 .. n /\ j # k
      BY <1>1
    <3> QED
      BY <1>1, <2>2, <3>1 DEF IsInjective
  <2> k \in 0 .. n
    BY <1>1
  <2>5. CASE list[k] \in S
    <3>1. Append(s, list[k]) \in Q
      BY <1>1, AppendFacts
    <3>2. ToSet(Append(s, list[k])) = ToSet(s) \cup {list[k]}
      BY <1>1, AppendFacts
    <3>3. IsInjective(list) => IsInjective(Append(s, list[k]))
      BY <1>1, <2>2, <2>4, AppendFacts
    <3>4. InOrder(Append(s, list[k]), list, S)
      <4> DEFINE r == Append(s, list[k])
      <4>1. /\ DOMAIN r = 1 .. Len(s) + 1 /\ DOMAIN s = 1 .. Len(s) /\ Len(s) \in Nat
            /\ \A m \in DOMAIN s : r[m] = s[m]
            /\ r[Len(s) + 1] = list[k]
        BY <1>1, AppendFacts
      <4> HIDE DEF r
      <4>2. ASSUME NEW m \in DOMAIN s
            PROVE  \E i \in DOMAIN list :
                     /\ list[i] = r[m]
                     /\ \A h \in 1 .. i - 1 :
                          list[h] \in S => \E j \in 1 .. m - 1 : r[j] = list[h]
        <5>1. PICK i \in DOMAIN list :
                /\ list[i] = s[m]
                /\ \A h \in 1 .. i - 1 :
                     list[h] \in S => \E j \in 1 .. m - 1 : s[j] = list[h]
          BY <2>2 DEF InOrder
        <5>2. \A j \in 1 .. m - 1 : j \in DOMAIN s /\ r[j] = s[j]
          BY <4>1
        <5> QED
          BY <4>1, <5>1, <5>2
      <4>3. \A h \in 1 .. k - 1 :
              list[h] \in S => \E j \in 1 .. (Len(s) + 1) - 1 : r[j] = list[h]
        <5> SUFFICES ASSUME NEW h \in 1 .. k - 1, list[h] \in S
                     PROVE  \E j \in 1 .. (Len(s) + 1) - 1 : r[j] = list[h]
          OBVIOUS
        <5>1. list[h] \in ToSet(s)
          BY <2>2
        <5>2. PICK j \in DOMAIN s : s[j] = list[h]
          BY <5>1 DEF ToSet
        <5>3. j \in 1 .. (Len(s) + 1) - 1
          BY <4>1
        <5> QED
          BY <4>1, <5>2, <5>3
      <4>4. \A m \in DOMAIN r : m \in DOMAIN s \/ m = Len(s) + 1
        BY <4>1
      <4>5. k \in DOMAIN list
        BY <1>1
      <4>6. ASSUME NEW m \in DOMAIN r
            PROVE  \E i \in DOMAIN list :
                     /\ list[i] = r[m]
                     /\ \A h \in 1 .. i - 1 :
                          list[h] \in S => \E j \in 1 .. m - 1 : r[j] = list[h]
        <5>1. CASE m \in DOMAIN s
          BY <4>2, <5>1
        <5>2. CASE m = Len(s) + 1
          BY <4>1, <4>3, <4>5, <5>2
        <5> QED
          BY <4>4, <5>1, <5>2
      <4>7. InOrder(r, list, S)
        BY <4>6 DEF InOrder
      <4> QED
        BY <4>7 DEF r
    <3> HIDE DEF First
    <3> QED
      BY <2>1, <2>2, <2>3, <2>5, <3>1, <3>2, <3>3, <3>4
  <2>6. CASE list[k] \notin S
    <3> HIDE DEF First
    <3> QED
      BY <2>1, <2>2, <2>3, <2>6
  <2> QED
    BY <2>5, <2>6
<1>5. InTurn(n, step, <<>>) \in Q /\ InTurn(n, step, <<>>) \in Inv[n]
  <2> HIDE DEF Q, step, Inv, n
  <2> QED
    BY <1>1, <1>2, <1>3, <1>4, InTurnKeeps
<1>6. ToSet(list) = First(n)
  BY <1>1 DEF ToSet
<1> QED
  BY <1>1, <1>5, <1>6 DEF Only

---------------------------------------------------------------------------
(* What leads where *)

LEMMA ClosureIs ==
  ASSUME NEW leads, NEW start
  PROVE  /\ Closure(leads, start) \subseteq Types
         /\ start \cap Types \subseteq Closure(leads, start)
         /\ \A t \in Closure(leads, start) :
              leads[t] \cap Types \subseteq Closure(leads, start)
  BY DEF Closure

LEMMA ClosureWithin ==
  ASSUME NEW leads, NEW start, NEW S \in SUBSET Types, start \cap Types \subseteq S,
         \A t \in S : leads[t] \cap Types \subseteq S
  PROVE  Closure(leads, start) \subseteq S
  BY DEF Closure

(* What is led to from what is led to. *)
LEMMA ClosureWider ==
  ASSUME NEW leads, NEW start, NEW from, from \cap Types \subseteq Closure(leads, start)
  PROVE  Closure(leads, from) \subseteq Closure(leads, start)
<1> DEFINE S == Closure(leads, start)
<1>1. S \in SUBSET Types /\ \A t \in S : leads[t] \cap Types \subseteq S
  BY ClosureIs
<1> HIDE DEF S
<1>2. from \cap Types \subseteq S
  BY DEF S
<1> QED
  BY <1>1, <1>2, ClosureWithin DEF S

LEMMA TypesAre ==
  /\ IsFiniteSet(Types) /\ Cardinality(Types) \in Nat
  /\ Order \in Seq(Types) /\ ToSet(Order) = Types /\ IsInjective(Order)
  /\ "prim" \notin Types /\ "unknown" \notin Types
<1>1. /\ Order \in Seq(Types) /\ ToSet(Order) = Types /\ IsInjective(Order)
      /\ "prim" \notin Types /\ "unknown" \notin Types
  BY OrderType DEF Types, Leaves
<1>2. IsFiniteSet(Types)
  <2>1. Len(Order) \in Nat /\ DOMAIN Order = 1 .. Len(Order)
    BY <1>1, LenProperties
  <2>2. IsFiniteSet(1 .. Len(Order))
    BY <2>1, FS_Interval
  <2>3. Order \in Surjection(1 .. Len(Order), Types)
    <3>1. Order \in [1 .. Len(Order) -> Types]
      BY <1>1, LenProperties
    <3> QED
      BY <1>1, <2>1, <3>1 DEF Surjection, ToSet
  <2> QED
    BY <2>2, <2>3, FS_Surjection
<1> QED
  BY <1>1, <1>2, FS_CardinalityType

---------------------------------------------------------------------------
(* Walks that write each name once, after what it leads to *)

(* The names in into that each name leads to. *)
Edges(leads, into) == [t \in Types |-> ToSet(leads[t]) \cap into]

(* u is written before the k-th name, or is silent, or leads back to it.    *)
Settled(leads, into, silent, out, k, u) ==
  \/ u \in silent
  \/ \E j \in 1 .. k - 1 : out[j] = u
  \/ out[k] \in Closure(Edges(leads, into), {u})

(* States of a walk.  Open: the names that are being walked.                *)
Sound(leads, into, silent) ==
  {a \in Walked :
     /\ ToSet(a.out) \subseteq a.seen \ silent
     /\ a.seen \subseteq into
     /\ IsInjective(a.out)
     /\ \A k \in DOMAIN a.out : \A u \in Edges(leads, into)[a.out[k]] :
          Settled(leads, into, silent, a.out, k, u)}

Open(a, silent) == a.seen \ (ToSet(a.out) \cup silent)

(* The states after one in which the names in T have been walked. *)
After(leads, into, silent, a, T) ==
  {b \in Sound(leads, into, silent) :
     a.seen \cup T \subseteq b.seen /\ Open(b, silent) = Open(a, silent)}

Walks == [Types -> [Walked -> Walked]]

LEMMA ChildrenTyped ==
  ASSUME NEW walk \in Walks, NEW into \in SUBSET Types,
         NEW names \in Seq(Types \cup Leaves), NEW a \in Walked
  PROVE  Children(walk, into, names, a) \in Walked
<1> DEFINE step == [k \in DOMAIN names |-> [b \in Walked |->
                      IF names[k] \in into THEN walk[names[k]][b] ELSE b]]
           n == Len(names)
           Inv == [k \in 0 .. n |-> Walked]
<1>1. n \in Nat /\ DOMAIN names = 1 .. n
  BY LenProperties
<1>2. step \in [1 .. n -> [Walked -> Walked]]
  <2>1. \A k \in 1 .. n : \A b \in Walked :
          (IF names[k] \in into THEN walk[names[k]][b] ELSE b) \in Walked
    BY DEF Walks
  <2> QED
    BY <1>1, <2>1
<1>3. a \in Inv[0]
  BY <1>1
<1>4. \A k \in 1 .. n : \A b \in Walked : b \in Inv[k - 1] => step[k][b] \in Inv[k]
  <2> HIDE DEF step
  <2> QED
    BY <1>1, <1>2
<1>5. InTurn(n, step, a) \in Walked
  <2> HIDE DEF step, n, Inv
  <2> QED
    BY <1>1, <1>2, <1>3, <1>4, InTurnKeeps
<1> QED
  BY <1>5 DEF Children

LEMMA ChildrenWalked ==
  ASSUME NEW leads, NEW into \in SUBSET Types, NEW silent,
         NEW walk \in Walks, NEW names \in Seq(Types \cup Leaves),
         NEW a \in Sound(leads, into, silent),
         \A t \in ToSet(names) \cap into : \A b \in After(leads, into, silent, a, {}) :
           walk[t][b] \in After(leads, into, silent, b, {t})
  PROVE  Children(walk, into, names, a)
           \in After(leads, into, silent, a, ToSet(names) \cap into)
<1> DEFINE step == [k \in DOMAIN names |-> [b \in Walked |->
                      IF names[k] \in into THEN walk[names[k]][b] ELSE b]]
           n == Len(names)
           First(k) == {names[j] : j \in 1 .. k} \cap into
           Inv == [k \in 0 .. n |-> After(leads, into, silent, a, First(k))]
<1>1. n \in Nat /\ DOMAIN names = 1 .. n
  BY LenProperties
<1>2. step \in [1 .. n -> [Walked -> Walked]]
  <2>1. \A k \in 1 .. n : \A b \in Walked :
          (IF names[k] \in into THEN walk[names[k]][b] ELSE b) \in Walked
    BY DEF Walks
  <2> QED
    BY <1>1, <2>1
<1>3. a \in Walked /\ a \in Inv[0]
  BY <1>1 DEF After, Sound
<1>4. ASSUME NEW k \in 1 .. n, NEW b \in Walked, b \in Inv[k - 1]
      PROVE  step[k][b] \in Inv[k]
  <2>1. k - 1 \in 0 .. n /\ k \in 0 .. n
    BY <1>1
  <2>2. b \in After(leads, into, silent, a, First(k - 1))
    BY <1>4, <2>1
  <2>3. First(k) = First(k - 1) \cup ({names[k]} \cap into)
    <3>1. \A j \in 1 .. k : j = k \/ j \in 1 .. k - 1
      OBVIOUS
    <3>2. k \in 1 .. k /\ 1 .. k - 1 \subseteq 1 .. k
      OBVIOUS
    <3> QED
      BY <3>1, <3>2
  <2>4. step[k][b] = IF names[k] \in into THEN walk[names[k]][b] ELSE b
    BY <1>1
  <2>5. step[k][b] \in After(leads, into, silent, a, First(k))
    <3> HIDE DEF step, First
    <3>1. CASE names[k] \in into
      <4>1. names[k] \in ToSet(names) \cap into /\ b \in After(leads, into, silent, a, {})
        BY <1>1, <2>2, <3>1 DEF ToSet, After
      <4>2. walk[names[k]][b] \in After(leads, into, silent, b, {names[k]})
        BY <4>1
      <4> QED
        BY <2>2, <2>3, <2>4, <3>1, <4>2 DEF After
    <3>2. CASE names[k] \notin into
      BY <2>2, <2>3, <2>4, <3>2 DEF After
    <3> QED
      BY <3>1, <3>2
  <2> HIDE DEF step, First
  <2> QED
    BY <2>1, <2>5
<1>5. InTurn(n, step, a) \in Inv[n]
  <2> HIDE DEF step, n, Inv
  <2> QED
    BY <1>1, <1>2, <1>3, <1>4, InTurnKeeps
<1>6. First(n) = ToSet(names) \cap into
  BY <1>1 DEF ToSet
<1>7. Children(walk, into, names, a) = InTurn(n, step, a)
  BY DEF Children
<1>8. n \in 0 .. n
  BY <1>1
<1> HIDE DEF step, First, n
<1> QED
  BY <1>5, <1>6, <1>7, <1>8

LEMMA VisitTyped ==
  ASSUME NEW walk \in Walks, NEW leads \in [Types -> Seq(Types \cup Leaves)],
         NEW into \in SUBSET Types, NEW silent, NEW t \in Types, NEW a \in Walked
  PROVE  Visit(walk, leads, into, silent, t, a) \in Walked
<1> DEFINE c == [a EXCEPT !.seen = @ \cup {t}]
           b == Children(walk, into, leads[t], c)
<1>1. c \in Walked
  BY DEF Walked
<1>2. b \in Walked
  <2> HIDE DEF c
  <2> QED
    BY <1>1, ChildrenTyped
<1>3. AppendTo(b, t) \in Walked
  <2> HIDE DEF b
  <2>1. Append(b.out, t) \in Seq(Types)
    BY <1>2, AppendFacts DEF Walked
  <2> QED
    BY <1>2, <2>1 DEF AppendTo, Walked
<1> QED
  BY <1>2, <1>3 DEF Visit

(* A name on the way from each of the open ones is walked, whatever it      *)
(* leads to.                                                                *)
LEMMA VisitWalked ==
  ASSUME NEW leads \in [Types -> Seq(Types \cup Leaves)], NEW into \in SUBSET Types,
         NEW silent \in SUBSET Types, NEW walk \in Walks, NEW t \in into,
         NEW a \in Sound(leads, into, silent), t \notin a.seen,
         \A u \in Open(a, silent) : t \in Closure(Edges(leads, into), {u}),
         \A v \in into : \A b \in Sound(leads, into, silent) :
           /\ a.seen \cup {t} \subseteq b.seen
           /\ \A u \in Open(b, silent) : v \in Closure(Edges(leads, into), {u})
           => walk[v][b] \in After(leads, into, silent, b, {v})
  PROVE  Visit(walk, leads, into, silent, t, a) \in After(leads, into, silent, a, {t})
<1> DEFINE c == [a EXCEPT !.seen = @ \cup {t}]
           b == Children(walk, into, leads[t], c)
           E == Edges(leads, into)
<1>1. /\ a \in Walked /\ ToSet(a.out) \subseteq a.seen \ silent /\ a.seen \subseteq into
      /\ IsInjective(a.out)
      /\ \A k \in DOMAIN a.out : \A u \in E[a.out[k]] :
           Settled(leads, into, silent, a.out, k, u)
  BY DEF Sound
<1>2. c \in Walked /\ c.out = a.out /\ c.seen = a.seen \cup {t}
  BY <1>1 DEF Walked
<1> HIDE DEF c, E
<1>3. c \in Sound(leads, into, silent)
  BY <1>1, <1>2 DEF Sound, E
<1>4. Open(c, silent) = Open(a, silent) \cup ({t} \ silent)
  BY <1>1, <1>2 DEF Open
<1>5. t \in Closure(E, {t})
  BY ClosureIs
<1>6. \A u \in Open(c, silent) : t \in Closure(E, {u})
  BY <1>4, <1>5 DEF E
<1>7. E[t] = ToSet(leads[t]) \cap into
  BY DEF E, Edges
<1>8. b \in After(leads, into, silent, c, E[t])
  <2>1. leads[t] \in Seq(Types \cup Leaves)
    OBVIOUS
  <2>2. ASSUME NEW v \in ToSet(leads[t]) \cap into, NEW d \in After(leads, into, silent, c, {})
        PROVE  walk[v][d] \in After(leads, into, silent, d, {v})
    <3>1. d \in Sound(leads, into, silent) /\ a.seen \cup {t} \subseteq d.seen
      BY <1>2 DEF After
    <3>2. ASSUME NEW u \in Open(d, silent) PROVE v \in Closure(E, {u})
      <4>1. t \in Closure(E, {u})
        BY <1>6 DEF After
      <4>2. v \in E[t] /\ v \in Types
        BY <1>7
      <4> QED
        BY <4>1, <4>2, ClosureIs
    <3> QED
      BY <3>1, <3>2 DEF E
  <2> HIDE DEF b
  <2>3. Children(walk, into, leads[t], c)
          \in After(leads, into, silent, c, ToSet(leads[t]) \cap into)
    BY <1>3, <2>1, <2>2, ChildrenWalked
  <2> QED
    BY <1>7, <2>3 DEF b
<1> HIDE DEF b
<1>9. /\ b \in Sound(leads, into, silent) /\ c.seen \cup E[t] \subseteq b.seen
      /\ Open(b, silent) = Open(c, silent)
  BY <1>8 DEF After
<1>10. /\ b \in Walked /\ ToSet(b.out) \subseteq b.seen \ silent /\ b.seen \subseteq into
       /\ IsInjective(b.out)
       /\ \A k \in DOMAIN b.out : \A u \in E[b.out[k]] :
            Settled(leads, into, silent, b.out, k, u)
  BY <1>9 DEF Sound, E
<1>11. Visit(walk, leads, into, silent, t, a) = IF t \in silent THEN b ELSE AppendTo(b, t)
  BY DEF Visit, b, c
<1>12. CASE t \in silent
  <2>1. b \in After(leads, into, silent, a, {t})
    <3>1. Open(b, silent) = Open(a, silent)
      BY <1>4, <1>9, <1>12
    <3>2. a.seen \cup {t} \subseteq b.seen
      BY <1>2, <1>9
    <3> QED
      BY <1>9, <3>1, <3>2 DEF After
  <2> QED
    BY <1>11, <1>12, <2>1
<1>13. CASE t \notin silent
  <2> DEFINE d == AppendTo(b, t)
             out == Append(b.out, t)
  <2>1. b.out \in Seq(Types) /\ b.seen \in SUBSET Types /\ t \in Types
    BY <1>10 DEF Walked
  <2>2. /\ out \in Seq(Types)
        /\ DOMAIN out = 1 .. Len(b.out) + 1 /\ DOMAIN b.out = 1 .. Len(b.out)
        /\ Len(b.out) \in Nat
        /\ \A k \in DOMAIN b.out : out[k] = b.out[k]
        /\ out[Len(b.out) + 1] = t
        /\ ToSet(out) = ToSet(b.out) \cup {t}
        /\ IsInjective(b.out) /\ t \notin ToSet(b.out) => IsInjective(out)
    BY <2>1, AppendFacts
  <2> HIDE DEF out
  <2>3. d \in Walked /\ d.seen = b.seen /\ d.out = out
    <3>1. d = [b EXCEPT !.out = out]
      BY DEF AppendTo, out
    <3> QED
      BY <1>10, <2>2, <3>1 DEF Walked
  <2> HIDE DEF d
  <2>4. t \in Open(b, silent) /\ t \notin ToSet(b.out) /\ t \in b.seen
    BY <1>2, <1>4, <1>9, <1>13 DEF Open
  <2>5. ASSUME NEW k \in DOMAIN out, NEW u \in E[out[k]]
        PROVE  Settled(leads, into, silent, out, k, u)
    <3>1. CASE k \in DOMAIN b.out
      <4>1. out[k] = b.out[k] /\ \A j \in 1 .. k - 1 : j \in DOMAIN b.out
        BY <2>2, <3>1
      <4>2. Settled(leads, into, silent, b.out, k, u)
        BY <1>10, <3>1, <4>1
      <4> QED
        BY <2>2, <4>1, <4>2 DEF Settled
    <3>2. CASE k = Len(b.out) + 1
      <4>1. out[k] = t /\ u \in b.seen
        BY <1>9, <2>2, <3>2
      <4>2. CASE u \in ToSet(b.out)
        <5>1. PICK j \in DOMAIN b.out : b.out[j] = u
          BY <4>2 DEF ToSet
        <5>2. j \in 1 .. k - 1 /\ out[j] = u
          BY <2>2, <3>2, <5>1
        <5> QED
          BY <5>2 DEF Settled
      <4>3. CASE u \notin ToSet(b.out) /\ u \notin silent
        <5>1. t \in Closure(E, {u})
          BY <1>6, <1>9, <4>1, <4>3 DEF Open
        <5> QED
          BY <4>1, <5>1 DEF Settled, E
      <4> QED
        BY <4>2, <4>3 DEF Settled
    <3> QED
      BY <2>2, <3>1, <3>2
  <2>6. d \in Sound(leads, into, silent)
    <3>1. ToSet(d.out) \subseteq d.seen \ silent /\ d.seen \subseteq into /\ IsInjective(d.out)
      BY <1>10, <1>13, <2>2, <2>3, <2>4
    <3>2. \A k \in DOMAIN d.out : \A u \in E[d.out[k]] :
            Settled(leads, into, silent, d.out, k, u)
      BY <2>3, <2>5
    <3> QED
      BY <2>3, <3>1, <3>2 DEF Sound, E
  <2>7. Open(d, silent) = Open(b, silent) \ {t}
    BY <2>2, <2>3 DEF Open
  <2>8. t \notin Open(a, silent)
    BY DEF Open
  <2>9. d \in After(leads, into, silent, a, {t})
    <3>1. Open(d, silent) = Open(a, silent)
      BY <1>4, <1>9, <1>13, <2>7, <2>8
    <3>2. a.seen \cup {t} \subseteq d.seen
      BY <1>2, <1>9, <2>3
    <3> QED
      BY <2>6, <3>1, <3>2 DEF After
  <2> QED
    BY <1>11, <1>13, <2>9 DEF d
<1> QED
  BY <1>12, <1>13

WalkStep(leads, into, silent) ==
  [p \in Walks \X Nat |-> [t \in Types |-> [a \in Walked |->
     Visit(p[1], leads, into, silent, t, a)]]]

(* W[n]: what is walked within n nested visits. *)
WalksOf(leads, into, silent) ==
  {W \in [0 .. Cardinality(Types) -> Walks] :
     /\ \A n \in 1 .. Cardinality(Types) : \A t \in Types : \A a \in Walked :
          W[n][t][a] = Visit(W[n - 1], leads, into, silent, t, a)
     /\ \A t \in Types : \A a \in Walked : W[0][t][a] = a}

LEMMA DepthFirstExists ==
  ASSUME NEW leads \in [Types -> Seq(Types \cup Leaves)], NEW into \in SUBSET Types,
         NEW silent \in SUBSET Types, NEW roots
  PROVE  \E W \in WalksOf(leads, into, silent) :
           DepthFirst(leads, into, silent, roots) =
             Children(W[Cardinality(Types)], into, roots, Nothing).out
<1> DEFINE N == Cardinality(Types)
           Body(g, n) == [t \in Types |-> [a \in Walked |->
             IF n = 0 THEN a ELSE Visit(g[n - 1], leads, into, silent, t, a)]]
           Solves(g) == g = [n \in 0 .. N |-> Body(g, n)]
           first == [t \in Types |-> [a \in Walked |-> a]]
           next == WalkStep(leads, into, silent)
<1>1. N \in Nat
  BY TypesAre
<1>2. first \in Walks
  BY DEF Walks
<1>3. next \in [Walks \X Nat -> Walks]
  <2>1. \A p \in Walks \X Nat : \A t \in Types : \A a \in Walked :
          Visit(p[1], leads, into, silent, t, a) \in Walked
    BY VisitTyped
  <2>2. \A p \in Walks \X Nat :
          [t \in Types |-> [a \in Walked |-> Visit(p[1], leads, into, silent, t, a)]]
            \in Walks
    BY <2>1 DEF Walks
  <2> QED
    BY <2>2 DEF WalkStep
<1>4. PICK g \in [0 .. N -> Walks] :
        g = [n \in 0 .. N |-> IF n = 0 THEN first ELSE next[<<g[n - 1], n - 1>>]]
  <2> HIDE DEF next, first, N
  <2>1. \E g \in [0 .. N -> Walks] : RecursiveUpto(g, N, first, next)
    BY <1>1, <1>2, <1>3, UptoRecursion
  <2> QED
    BY <2>1 DEF RecursiveUpto
<1>5. ASSUME NEW n \in 0 .. N PROVE g[n] = Body(g, n)
  <2>1. CASE n = 0
    <3>1. g[n] = first
      <4> HIDE DEF first, next
      <4> QED
        BY <1>4, <2>1
    <3> QED
      BY <2>1, <3>1
  <2>2. CASE n # 0
    <3>1. n - 1 \in Nat /\ n - 1 \in 0 .. N
      BY <1>1, <2>2
    <3>2. g[n] = next[<<g[n - 1], n - 1>>]
      <4> HIDE DEF first, next
      <4> QED
        BY <1>4, <2>2
    <3>3. <<g[n - 1], n - 1>> \in Walks \X Nat
      BY <3>1
    <3>4. g[n] = [t \in Types |-> [a \in Walked |->
                    Visit(g[n - 1], leads, into, silent, t, a)]]
      BY <3>2, <3>3 DEF WalkStep
    <3> QED
      BY <2>2, <3>4
  <2> QED
    BY <2>1, <2>2
<1>6. Solves(g)
  <2>1. g = [n \in 0 .. N |-> g[n]]
    OBVIOUS
  <2> HIDE DEF Body, N
  <2> QED
    BY <1>5, <2>1
<1> DEFINE W == CHOOSE h : Solves(h)
<1>7. Solves(W)
  <2> HIDE DEF Solves
  <2> QED
    BY <1>6, Zenon
<1>8. DepthFirst(leads, into, silent, roots) = Children(W[N], into, roots, Nothing).out
  BY DEF DepthFirst
<1>9. \A n \in 0 .. N : W[n] = g[n]
  <2> DEFINE D == {n \in Nat : n \in 0 .. N => W[n] = g[n]}
  <2>0. \A n \in 0 .. N : W[n] = Body(W, n) /\ g[n] = Body(g, n)
    <3> HIDE DEF Body, W, N
    <3> QED
      BY <1>6, <1>7
  <2>1. 0 \in D
    <3>1. 0 \in 0 .. N
      BY <1>1
    <3>2. Body(W, 0) = Body(g, 0)
      OBVIOUS
    <3> HIDE DEF Body, W, N
    <3> QED
      BY <2>0, <3>1, <3>2
  <2>2. ASSUME NEW n \in Nat, n \in D PROVE n + 1 \in D
    <3> SUFFICES ASSUME n + 1 \in 0 .. N PROVE W[n + 1] = g[n + 1]
      OBVIOUS
    <3>1. n \in 0 .. N /\ n + 1 # 0 /\ n + 1 - 1 = n
      BY <1>1
    <3>2. W[n] = g[n]
      BY <2>2, <3>1
    <3>3. Body(W, n + 1) = Body(g, n + 1)
      <4> HIDE DEF W
      <4> QED
        BY <3>1, <3>2
    <3> HIDE DEF W, Body
    <3> QED
      BY <2>0, <3>3
  <2>3. Nat \subseteq D
    <3> HIDE DEF D
    <3> QED
      BY <2>1, <2>2, NatSetInduction
  <2> HIDE DEF W, Solves, Body
  <2> QED
    BY <1>1, <2>3
<1>10. \A n \in 1 .. N : \A t \in Types : \A a \in Walked :
         g[n][t][a] = Visit(g[n - 1], leads, into, silent, t, a)
  <2> TAKE n \in 1 .. N
  <2>1. g[n] = Body(g, n) /\ n # 0
    <3> HIDE DEF Body
    <3> QED
      BY <1>1, <1>5
  <2> QED
    BY <2>1
<1>11. \A t \in Types : \A a \in Walked : g[0][t][a] = a
  <2>1. g[0] = Body(g, 0)
    <3> HIDE DEF Body
    <3> QED
      BY <1>1, <1>5
  <2> QED
    BY <2>1
<1>12. W[N] = g[N]
  <2> HIDE DEF W
  <2> QED
    BY <1>1, <1>9
<1>13. g \in WalksOf(leads, into, silent)
  BY <1>10, <1>11 DEF WalksOf
<1> HIDE DEF W
<1> QED
  BY <1>8, <1>12, <1>13

(* There are frames enough: each nested visit is to a name not seen before. *)
LEMMA WalkWalks ==
  ASSUME NEW leads \in [Types -> Seq(Types \cup Leaves)], NEW into \in SUBSET Types,
         NEW silent \in SUBSET Types, NEW W \in WalksOf(leads, into, silent),
         NEW n \in 0 .. Cardinality(Types), NEW t \in into,
         NEW a \in Sound(leads, into, silent), Cardinality(Types \ a.seen) <= n,
         \A u \in Open(a, silent) : t \in Closure(Edges(leads, into), {u})
  PROVE  W[n][t][a] \in After(leads, into, silent, a, {t})
<1> DEFINE N == Cardinality(Types)
           Right(m) == \A v \in into : \A b \in Sound(leads, into, silent) :
                         /\ Cardinality(Types \ b.seen) <= m
                         /\ \A u \in Open(b, silent) : v \in Closure(Edges(leads, into), {u})
                         => W[m][v][b] \in After(leads, into, silent, b, {v})
           D == {m \in 0 .. N : Right(m)}
<1>1. N \in Nat
  BY TypesAre
<1>2. \A S \in SUBSET Types : IsFiniteSet(S) /\ Cardinality(S) \in Nat
  BY TypesAre, FS_Subset, FS_CardinalityType
<1>3. ASSUME NEW v \in into, NEW b \in Sound(leads, into, silent), v \in b.seen
      PROVE  /\ b \in After(leads, into, silent, b, {v})
             /\ \A walk : Visit(walk, leads, into, silent, v, b) = b
  BY <1>3 DEF After, Visit
<1>4. Right(0)
  <2> SUFFICES ASSUME NEW v \in into, NEW b \in Sound(leads, into, silent),
                      Cardinality(Types \ b.seen) <= 0
               PROVE  W[0][v][b] \in After(leads, into, silent, b, {v})
    OBVIOUS
  <2>1. Types \ b.seen = {}
    <3>1. Cardinality(Types \ b.seen) = 0 /\ IsFiniteSet(Types \ b.seen)
      BY <1>2
    <3> QED
      BY <3>1, FS_EmptySet
  <2>2. v \in b.seen /\ b \in Walked
    BY <2>1 DEF Sound
  <2> QED
    BY <1>3, <2>2 DEF WalksOf
<1>5. ASSUME NEW m \in 1 .. N, Right(m - 1) PROVE Right(m)
  <2> SUFFICES ASSUME NEW v \in into, NEW b \in Sound(leads, into, silent),
                      Cardinality(Types \ b.seen) <= m,
                      \A u \in Open(b, silent) : v \in Closure(Edges(leads, into), {u})
               PROVE  W[m][v][b] \in After(leads, into, silent, b, {v})
    OBVIOUS
  <2>1. W[m][v][b] = Visit(W[m - 1], leads, into, silent, v, b) /\ W[m - 1] \in Walks
    <3>1. m \in 1 .. Cardinality(Types) /\ m - 1 \in 0 .. N /\ v \in Types /\ b \in Walked
      BY <1>1 DEF Sound
    <3>2. W[m][v][b] = Visit(W[m - 1], leads, into, silent, v, b)
      BY <3>1 DEF WalksOf
    <3> QED
      BY <3>1, <3>2 DEF WalksOf
  <2>2. CASE v \in b.seen
    BY <1>3, <2>1, <2>2
  <2>3. CASE v \notin b.seen
    <3>1. ASSUME NEW c \in Sound(leads, into, silent), b.seen \cup {v} \subseteq c.seen
          PROVE  Cardinality(Types \ c.seen) <= m - 1
      <4>1. Cardinality((Types \ b.seen) \ {v}) = Cardinality(Types \ b.seen) - 1
        BY <1>2, <2>3, FS_RemoveElement
      <4>2. Types \ c.seen \in SUBSET ((Types \ b.seen) \ {v})
        BY <3>1
      <4>3. IsFiniteSet((Types \ b.seen) \ {v})
        BY <1>2
      <4>4. Cardinality(Types \ c.seen) <= Cardinality((Types \ b.seen) \ {v})
        BY <4>2, <4>3, FS_Subset
      <4>5. Cardinality(Types \ c.seen) \in Nat /\ Cardinality(Types \ b.seen) \in Nat
        BY <1>2
      <4> QED
        BY <4>1, <4>4, <4>5
    <3>2. \A x \in into : \A c \in Sound(leads, into, silent) :
            /\ b.seen \cup {v} \subseteq c.seen
            /\ \A u \in Open(c, silent) : x \in Closure(Edges(leads, into), {u})
            => W[m - 1][x][c] \in After(leads, into, silent, c, {x})
      BY <1>5, <3>1
    <3>3. Visit(W[m - 1], leads, into, silent, v, b) \in After(leads, into, silent, b, {v})
      <4> DEFINE walk == W[m - 1]
      <4> HIDE DEF walk, Right
      <4>1. walk \in Walks
        BY <2>1 DEF walk
      <4>2. \A x \in into : \A c \in Sound(leads, into, silent) :
              /\ b.seen \cup {v} \subseteq c.seen
              /\ \A u \in Open(c, silent) : x \in Closure(Edges(leads, into), {u})
              => walk[x][c] \in After(leads, into, silent, c, {x})
        BY <3>2 DEF walk
      <4>3. Visit(walk, leads, into, silent, v, b) \in After(leads, into, silent, b, {v})
        BY <2>3, <4>1, <4>2, VisitWalked
      <4> QED
        BY <4>3 DEF walk
    <3> QED
      BY <2>1, <3>3
  <2> QED
    BY <2>2, <2>3
<1>6. 0 .. N \subseteq D
  <2> HIDE DEF Right
  <2>1. 0 \in D
    BY <1>1, <1>4
  <2>2. \A m \in 1 .. N : m - 1 \in D => m \in D
    BY <1>1, <1>5
  <2> HIDE DEF D, N
  <2> QED
    BY <1>1, <2>1, <2>2, UptoInduction
<1>7. Right(n)
  <2> HIDE DEF Right
  <2> QED
    BY <1>6
<1> QED
  BY <1>7

(* What a walk from the roots writes. *)
PostOrder(leads, into, silent, roots, out) ==
  /\ out \in Seq(Types) /\ IsInjective(out)
  /\ ToSet(out) \subseteq into \ silent
  /\ (ToSet(roots) \cap into) \ silent \subseteq ToSet(out)
  /\ \A k \in DOMAIN out : \A u \in Edges(leads, into)[out[k]] :
       Settled(leads, into, silent, out, k, u)

LEMMA DepthFirstIs ==
  ASSUME NEW leads \in [Types -> Seq(Types \cup Leaves)], NEW into \in SUBSET Types,
         NEW silent \in SUBSET Types, NEW roots \in Seq(Types)
  PROVE  PostOrder(leads, into, silent, roots, DepthFirst(leads, into, silent, roots))
<1>1. PICK W \in WalksOf(leads, into, silent) :
        DepthFirst(leads, into, silent, roots) =
          Children(W[Cardinality(Types)], into, roots, Nothing).out
  BY DepthFirstExists, SMTT(60)
<1> DEFINE N == Cardinality(Types)
<1>2. N \in Nat /\ N \in 0 .. N /\ W[N] \in Walks
  BY TypesAre DEF WalksOf
<1>3. Nothing \in Sound(leads, into, silent) /\ Open(Nothing, silent) = {}
  BY DEF Nothing, Sound, Open, Walked, ToSet, IsInjective
<1>4. ASSUME NEW t \in ToSet(roots) \cap into,
             NEW b \in After(leads, into, silent, Nothing, {})
      PROVE  W[N][t][b] \in After(leads, into, silent, b, {t})
  <2>1. b \in Sound(leads, into, silent) /\ Open(b, silent) = {}
    BY <1>3 DEF After
  <2>2. Cardinality(Types \ b.seen) <= N
    BY TypesAre, FS_Subset
  <2> HIDE DEF N
  <2> QED
    BY <1>1, <1>2, <2>1, <2>2, WalkWalks DEF N
<1> DEFINE b == Children(W[N], into, roots, Nothing)
<1>5. b \in After(leads, into, silent, Nothing, ToSet(roots) \cap into)
  <2>1. roots \in Seq(Types \cup Leaves)
    OBVIOUS
  <2> HIDE DEF N
  <2> QED
    BY <1>2, <1>3, <1>4, <2>1, ChildrenWalked
<1>6. DepthFirst(leads, into, silent, roots) = b.out
  BY <1>1
<1> HIDE DEF b
<1>7. /\ b \in Sound(leads, into, silent) /\ Open(b, silent) = {}
      /\ ToSet(roots) \cap into \subseteq b.seen
  BY <1>3, <1>5 DEF After
<1>8. (ToSet(roots) \cap into) \ silent \subseteq ToSet(b.out)
  BY <1>7 DEF Open
<1> QED
  BY <1>6, <1>7, <1>8 DEF Sound, Walked, PostOrder

---------------------------------------------------------------------------
(* The registry's lists *)

LEMMA RegistryFacts ==
  ASSUME registry \in [Types -> Definitions]
  PROVE  /\ \A t \in Types :
              /\ registry[t].cat \in Category /\ registry[t].target \in Types \cup {"prim"}
              /\ registry[t].fields \in Seq(Field)
              /\ FieldSet(t) # {} => registry[t].cat \in {"struct", "function"}
              /\ \A f \in FieldSet(t) : f \in Field /\ f.type \in Types \cup Leaves
              /\ DOMAIN FieldTypes[t] = DOMAIN registry[t].fields
              /\ \A k \in DOMAIN FieldTypes[t] : FieldTypes[t][k] = registry[t].fields[k].type
              /\ ToSet(FieldTypes[t]) = TypesIn(FieldSet(t))
         /\ FieldTypes \in [Types -> Seq(Types \cup Leaves)]
<1>1. ASSUME NEW t \in Types
      PROVE  /\ registry[t].cat \in Category /\ registry[t].target \in Types \cup {"prim"}
             /\ registry[t].fields \in Seq(Field)
             /\ FieldSet(t) # {} => registry[t].cat \in {"struct", "function"}
             /\ \A f \in FieldSet(t) : f \in Field /\ f.type \in Types \cup Leaves
             /\ DOMAIN FieldTypes[t] = DOMAIN registry[t].fields
             /\ \A k \in DOMAIN FieldTypes[t] : FieldTypes[t][k] = registry[t].fields[k].type
             /\ ToSet(FieldTypes[t]) = TypesIn(FieldSet(t))
             /\ FieldTypes[t] \in Seq(Types \cup Leaves)
  <2> DEFINE fields == registry[t].fields
             types == [k \in DOMAIN fields |-> fields[k].type]
  <2>1. registry[t] \in Definition /\ registry[t] \in Definitions
    BY DefinitionsType
  <2>2. /\ registry[t].cat \in Category /\ registry[t].target \in Types \cup {"prim"}
        /\ fields \in Seq(Field)
    BY <2>1 DEF Definition
  <2>3. FieldSet(t) # {} => registry[t].cat \in {"struct", "function"}
    <3>1. FieldSet(t) # {} => fields # <<>>
      BY DEF FieldSet, ToSet
    <3> QED
      BY <2>1, <3>1, DefinitionsType
  <2>4. DOMAIN fields = 1 .. Len(fields) /\ Len(fields) \in Nat
        /\ \A k \in DOMAIN fields : fields[k] \in Field
    <3> HIDE DEF fields
    <3> QED
      BY <2>2, LenProperties
  <2>5. \A f \in Field : f.type \in Types \cup Leaves
    BY DEF Field
  <2>6. FieldTypes[t] = types
    BY DEF FieldTypes
  <2>7. types \in [1 .. Len(fields) -> Types \cup Leaves]
    <3> HIDE DEF fields
    <3> QED
      BY <2>4, <2>5
  <2>8. types \in Seq(Types \cup Leaves)
    <3> HIDE DEF types, fields
    <3> QED
      BY <2>4, <2>7, FunctionIsSeq
  <2>9. \A f \in FieldSet(t) : f \in Field
    BY <2>4 DEF FieldSet, ToSet
  <2>10. ToSet(types) = TypesIn(FieldSet(t))
    BY DEF FieldSet, ToSet, TypesIn
  <2>11. DOMAIN types = DOMAIN fields /\ \A k \in DOMAIN types : types[k] = fields[k].type
    OBVIOUS
  <2> HIDE DEF types
  <2> QED
    BY <2>2, <2>3, <2>5, <2>6, <2>8, <2>9, <2>10, <2>11
<1>2. FieldTypes = [t \in Types |-> FieldTypes[t]]
  BY DEF FieldTypes
<1> HIDE DEF FieldTypes
<1> QED
  BY <1>1, <1>2

(* list has each element of S once, and no others. *)
Holds(list, S) == list \in Seq(Types) /\ IsInjective(list) /\ ToSet(list) = S

LEMMA NamedIs ==
  ASSUME NEW cat
  PROVE  Holds(Named(cat), {t \in Types : Is(t, cat)})
  BY TypesAre, OnlyIs DEF Named, Holds

LEMMA AnonymousIs == Holds(AnonymousTypes, {t \in Types : IsAnonymous(t)})
  BY TypesAre, OnlyIs DEF AnonymousTypes, Holds

LEMMA ManualIs == Holds(ManualTypes, {t \in Types : IsStruct(t) /\ registry[t].manual})
  BY TypesAre, OnlyIs DEF ManualTypes, Holds

LEMMA OnlyOf ==
  ASSUME NEW list, NEW T, Holds(list, T), NEW S
  PROVE  Holds(Only(list, S), T \cap S)
  BY OnlyIs DEF Holds

Structs == {t \in Types : IsStruct(t)}

(* Anonymous types are structs (Declarable). *)
AnonymousAreStructs == \A t \in Types : IsAnonymous(t) => IsStruct(t)

LEMMA CollectIs ==
  ASSUME registry \in [Types -> Definitions], AnonymousAreStructs
  PROVE  /\ Holds(CollectStructTypes, Structs)
         /\ \A k \in DOMAIN CollectStructTypes :
              \A u \in Edges(FieldTypes, Structs)[CollectStructTypes[k]] :
                Settled(FieldTypes, Structs, {}, CollectStructTypes, k, u)
<1> DEFINE roots == AnonymousTypes \o Named("struct")
           out == CollectStructTypes
<1>1. roots \in Seq(Types) /\ Structs \subseteq ToSet(roots)
  BY AnonymousIs, NamedIs, ConcatFacts DEF Holds, Structs, IsStruct
<1>2. out = DepthFirst(FieldTypes, Structs, {}, roots)
  BY DEF CollectStructTypes, Structs
<1>3. FieldTypes \in [Types -> Seq(Types \cup Leaves)] /\ Structs \in SUBSET Types
  BY RegistryFacts DEF Structs
<1> HIDE DEF roots, out
<1>4. PostOrder(FieldTypes, Structs, {}, roots, out)
  BY <1>1, <1>2, <1>3, DepthFirstIs
<1>5. ToSet(out) = Structs
  BY <1>1, <1>4 DEF PostOrder
<1> QED
  BY <1>4, <1>5 DEF Holds, out, PostOrder

HeaderNames == {t \in Types : IsStruct(t) /\ ~IsAnonymous(t) /\ ~IsGiven(t)}

LEMMA HeaderStructsAre ==
  ASSUME registry \in [Types -> Definitions], AnonymousAreStructs
  PROVE  Holds(HeaderStructs, HeaderNames)
<1>1. Holds(CollectStructTypes, Structs)
  BY CollectIs
<1>2. Structs \cap {t \in Types : ~IsAnonymous(t) /\ ~IsGiven(t)} = HeaderNames
  BY DEF Structs, HeaderNames
<1>3. Holds(HeaderStructs, Structs \cap {t \in Types : ~IsAnonymous(t) /\ ~IsGiven(t)})
  BY <1>1, OnlyOf DEF HeaderStructs
<1> QED
  BY <1>2, <1>3

(* Structs that have a codec of their own. *)
CodecNames ==
  {t \in Types : IsStruct(t) /\ ~IsBuiltin(t) /\ ~registry[t].manual /\ t \notin Flattened}

LEMMA CodecTypesAre ==
  ASSUME registry \in [Types -> Definitions]
  PROVE  Holds(CodecTypes, CodecNames)
<1> DEFINE rest == Only(AnonymousTypes, Types \ Flattened)
           roots == rest \o Named("struct")
           into == {t \in Types : IsStruct(t) /\ ~IsBuiltin(t) /\ ~registry[t].manual}
           out == CodecTypes
<1>1. roots \in Seq(Types) /\ into \subseteq ToSet(roots)
  <2>1. rest \in Seq(Types)
    BY AnonymousIs, OnlyOf DEF Holds
  <2>2. Named("struct") \in Seq(Types) /\ into \subseteq ToSet(Named("struct"))
    BY NamedIs DEF Holds, IsStruct
  <2> HIDE DEF rest, into
  <2> QED
    BY <2>1, <2>2, ConcatFacts
<1>2. out = DepthFirst(FieldTypes, into, Flattened, roots)
  BY DEF CodecTypes
<1>3. /\ FieldTypes \in [Types -> Seq(Types \cup Leaves)]
      /\ into \in SUBSET Types /\ Flattened \in SUBSET Types
  BY RegistryFacts DEF Flattened
<1>4. into \ Flattened = CodecNames
  BY DEF CodecNames
<1> HIDE DEF roots, out, into
<1>5. PostOrder(FieldTypes, into, Flattened, roots, out)
  BY <1>1, <1>2, <1>3, DepthFirstIs
<1>6. ToSet(out) = CodecNames
  BY <1>1, <1>4, <1>5 DEF PostOrder
<1> QED
  BY <1>5, <1>6 DEF Holds, out, PostOrder

Aliases == {t \in Types : Is(t, "alias")}

NothingHoldsItself == \A t \in Types : t \notin Holding(t)

(* Sorted, a list of aliases has each alias after its target. *)
SortedFrom(list, S) ==
  /\ list \in Seq(Types) /\ IsInjective(list)
  /\ S \subseteq ToSet(list) /\ ToSet(list) \subseteq Aliases
  /\ \A k \in DOMAIN list :
       registry[list[k]].target \in Aliases =>
         \E j \in 1 .. k - 1 : list[j] = registry[list[k]].target

LEMMA SortAliasesIs ==
  ASSUME registry \in [Types -> Definitions], NothingHoldsItself,
         NEW list, NEW S \in SUBSET Aliases, Holds(list, S)
  PROVE  SortedFrom(SortAliases(list), S)
<1> DEFINE leads == [t \in Types |-> <<registry[t].target>>]
           out == SortAliases(list)
           E == Edges(leads, Aliases)
<1>1. list \in Seq(Types) /\ ToSet(list) = S
  BY DEF Holds
<1>2. Aliases \in SUBSET Types /\ leads \in [Types -> Seq(Types \cup Leaves)]
  <2>1. \A t \in Types : registry[t].target \in Types \cup Leaves
    BY RegistryFacts DEF Leaves
  <2>2. \A t \in Types : <<registry[t].target>> \in Seq(Types \cup Leaves)
    BY <2>1
  <2> QED
    BY <2>2 DEF Aliases
<1>3. out = DepthFirst(leads, Aliases, {}, list)
  BY DEF SortAliases, Aliases
<1>4. \A t \in Types : E[t] = {registry[t].target} \cap Aliases
  <2>1. \A x : ToSet(<<x>>) = {x}
    BY DEF ToSet
  <2> QED
    BY <2>1 DEF Edges
<1> HIDE DEF out, leads, E
<1>5. PostOrder(leads, Aliases, {}, list, out)
  BY <1>1, <1>2, <1>3, DepthFirstIs
<1>6. /\ out \in Seq(Types) /\ IsInjective(out) /\ S \subseteq ToSet(out)
      /\ ToSet(out) \subseteq Aliases
  BY <1>1, <1>5 DEF PostOrder
<1>7. ASSUME NEW k \in DOMAIN out, registry[out[k]].target \in Aliases
      PROVE  \E j \in 1 .. k - 1 : out[j] = registry[out[k]].target
  <2> DEFINE t == out[k]
             u == registry[t].target
             H == [v \in Types |-> Held(v)]
  <2>1. t \in Types /\ t \in Aliases
    BY <1>6 DEF ToSet, Aliases
  <2>2. u \in E[t] /\ u \in Types
    BY <1>2, <1>4, <1>7, <2>1
  <2>3. Settled(leads, Aliases, {}, out, k, u)
    BY <1>5, <2>2 DEF PostOrder, E
  <2>4. ASSUME t \in Closure(E, {u}) PROVE FALSE
    <3> DEFINE R == Holding(t) \cap Aliases
    <3>1. \A v \in Aliases : E[v] = {registry[v].target} \cap Aliases /\ H[v] = {registry[v].target}
      BY <1>4 DEF Held, Aliases, Is
    <3>2. Holding(t) = Closure(H, Held(t)) /\ u \in Held(t)
      BY <2>1 DEF Holding, Held, Aliases, Is
    <3>3. /\ R \in SUBSET Types /\ {u} \cap Types \subseteq R
          /\ \A v \in R : E[v] \cap Types \subseteq R
      <4> HIDE DEF H, u, t
      <4>1. /\ Closure(H, Held(t)) \subseteq Types
            /\ Held(t) \cap Types \subseteq Closure(H, Held(t))
            /\ \A v \in Closure(H, Held(t)) : H[v] \cap Types \subseteq Closure(H, Held(t))
        BY ClosureIs
      <4>2. u \in Aliases
        BY <1>7 DEF u, t
      <4> QED
        BY <1>2, <2>2, <3>1, <3>2, <4>1, <4>2
    <3>4. Closure(E, {u}) \subseteq R
      <4> HIDE DEF H, u, t, R
      <4> QED
        BY <3>3, ClosureWithin
    <3> HIDE DEF H, u, t
    <3> QED
      BY <2>1, <2>4, <3>4 DEF NothingHoldsItself
  <2> HIDE DEF u
  <2>5. t \notin Closure(Edges(leads, Aliases), {u})
    BY <2>4 DEF E
  <2>6. \E j \in 1 .. k - 1 : out[j] = u
    BY <2>3, <2>5 DEF Settled
  <2> QED
    BY <2>6 DEF u
<1> QED
  BY <1>6, <1>7 DEF SortedFrom, out

LEMMA HeaderAliasesAre ==
  ASSUME registry \in [Types -> Definitions], NothingHoldsItself
  PROVE  SortedFrom(HeaderAliases, {t \in Aliases : ~IsGiven(t) /\ ~IsInterfaceAlias(t)})
<1> DEFINE T == {t \in Types : ~IsGiven(t) /\ ~IsInterfaceAlias(t)}
           S == Aliases \cap T
<1>1. Holds(Named("alias"), Aliases)
  BY NamedIs DEF Aliases
<1>2. Holds(Only(Named("alias"), T), S)
  BY <1>1, OnlyOf
<1>3. S = {t \in Aliases : ~IsGiven(t) /\ ~IsInterfaceAlias(t)}
  BY DEF Aliases
<1>4. HeaderAliases = SortAliases(Only(Named("alias"), T))
  BY DEF HeaderAliases
<1> HIDE DEF T, S
<1>5. SortedFrom(SortAliases(Only(Named("alias"), T)), S)
  BY <1>2, <1>3, SortAliasesIs
<1> QED
  BY <1>3, <1>4, <1>5

LEMMA CodecAliasesAre ==
  ASSUME registry \in [Types -> Definitions], NothingHoldsItself
  PROVE  SortedFrom(CodecAliases, {t \in Aliases : ~IsBuiltin(t) /\ ~IsInterfaceAlias(t)})
<1> DEFINE T == {t \in Types : ~IsBuiltin(t) /\ ~IsInterfaceAlias(t)}
           S == Aliases \cap T
<1>1. Holds(Named("alias"), Aliases)
  BY NamedIs DEF Aliases
<1>2. Holds(Only(Named("alias"), T), S)
  BY <1>1, OnlyOf
<1>3. S = {t \in Aliases : ~IsBuiltin(t) /\ ~IsInterfaceAlias(t)}
  BY DEF Aliases
<1>4. CodecAliases = SortAliases(Only(Named("alias"), T))
  BY DEF CodecAliases
<1> HIDE DEF T, S
<1>5. SortedFrom(SortAliases(Only(Named("alias"), T)), S)
  BY <1>2, <1>3, SortAliasesIs
<1> QED
  BY <1>3, <1>4, <1>5

(* What is no alias stands for itself, and an alias for its target if that  *)
(* is none.                                                                 *)
LEMMA UnderlyingIs ==
  ASSUME registry \in [Types -> Definitions], NEW t \in Types \cup Leaves
  PROVE  /\ ~Is(t, "alias") => Underlying(t) = t
         /\ Is(t, "alias") /\ ~Is(registry[t].target, "alias")
              => Underlying(t) = registry[t].target
<1> DEFINE n == Cardinality(Types)
           S == Types \cup Leaves
           step == [k \in 1 .. n |-> [u \in S |->
                      IF Is(u, "alias") THEN registry[u].target ELSE u]]
<1>1. n \in Nat
  BY TypesAre
<1>2. step \in [1 .. n -> [S -> S]]
  <2>1. \A u \in S : (IF Is(u, "alias") THEN registry[u].target ELSE u) \in S
    BY RegistryFacts DEF Is, Leaves
  <2> QED
    BY <2>1
<1>3. Underlying(t) = InTurn(n, step, t)
  BY DEF Underlying
<1>4. ASSUME ~Is(t, "alias") PROVE Underlying(t) = t
  <2> DEFINE Inv == [k \in 0 .. n |-> {t}]
  <2>1. t \in Inv[0]
    BY <1>1
  <2>2. \A k \in 1 .. n : \A s \in S : s \in Inv[k - 1] => step[k][s] \in Inv[k]
    <3> TAKE k \in 1 .. n
    <3>1. k - 1 \in 0 .. n /\ k \in 0 .. n
      BY <1>1
    <3> QED
      BY <1>4, <3>1
  <2>3. InTurn(n, step, t) \in Inv[n]
    <3> HIDE DEF Inv, step, S
    <3> QED
      BY <1>1, <1>2, <2>1, <2>2, InTurnKeeps DEF S
  <2> QED
    BY <1>1, <1>3, <2>3
<1>5. ASSUME Is(t, "alias"), ~Is(registry[t].target, "alias")
      PROVE  Underlying(t) = registry[t].target
  <2> DEFINE v == registry[t].target
             Inv == [k \in 0 .. n |-> IF k = 0 THEN {t} ELSE {v}]
  <2>1. t \in Inv[0]
    BY <1>1
  <2>2. \A k \in 1 .. n : \A s \in S : s \in Inv[k - 1] => step[k][s] \in Inv[k]
    <3> TAKE k \in 1 .. n
    <3>1. k - 1 \in 0 .. n /\ k \in 0 .. n /\ k # 0
      BY <1>1
    <3>2. step[k] = [u \in S |-> IF Is(u, "alias") THEN registry[u].target ELSE u]
      OBVIOUS
    <3>3. Inv[k] = {v}
      BY <3>1
    <3>4. Inv[k - 1] = {t} \/ Inv[k - 1] = {v}
      BY <3>1
    <3> HIDE DEF Inv, step
    <3> QED
      BY <1>5, <3>2, <3>3, <3>4
  <2>3. InTurn(n, step, t) \in Inv[n]
    <3> HIDE DEF Inv, step, S
    <3> QED
      BY <1>1, <1>2, <2>1, <2>2, InTurnKeeps DEF S
  <2>4. n # 0
    <3>1. Types # {} /\ IsFiniteSet(Types)
      BY <1>5, TypesAre DEF Is
    <3> QED
      BY <3>1, FS_EmptySet
  <2> QED
    BY <1>1, <1>3, <2>3, <2>4
<1> QED
  BY <1>4, <1>5

LEMMA UndefinedListed ==
  ASSUME registry \in [Types -> Definitions]
  PROVE  /\ UndefinedTypes \subseteq {"unknown"}
         /\ SetToSeq(UndefinedTypes) \in Seq({"unknown"})
         /\ ToSet(SetToSeq(UndefinedTypes)) = UndefinedTypes
<1> DEFINE S == UndefinedTypes
           n == Cardinality(S)
<1>1. S \subseteq {"unknown"}
  <2>1. ASSUME NEW x \in UndefinedTypes PROVE x = "unknown"
    <3> DEFINE T == UNION {TypesIn(FieldSet(t)) : t \in Types}
    <3>0. UndefinedTypes = T \ (Types \cup {"prim"})
      BY DEF UndefinedTypes
    <3> HIDE DEF T
    <3>1. x \in T /\ x \notin Types /\ x # "prim"
      BY <3>0
    <3> USE DEF T
    <3>2. PICK t \in Types : x \in TypesIn(FieldSet(t))
      BY <3>1
    <3>3. PICK f \in FieldSet(t) : x = f.type
      BY <3>2 DEF TypesIn
    <3>4. x \in Types \cup Leaves
      BY <3>3, RegistryFacts
    <3> QED
      BY <3>1, <3>4 DEF Leaves
  <2> QED
    BY <2>1
<1> HIDE DEF S
<1>2. (S = {} /\ n = 0) \/ (S = {"unknown"} /\ n = 1)
  <2>1. Cardinality({}) = 0 /\ Cardinality({"unknown"}) = 1
    BY FS_EmptySet, FS_Singleton
  <2> QED
    BY <1>1, <2>1
<1>3. \E f \in [1 .. n -> S] : IsInjective(f)
  <2>1. CASE S = {} /\ n = 0
    <3>1. <<>> \in [1 .. n -> S] /\ IsInjective(<<>>)
      BY <2>1 DEF IsInjective
    <3> QED
      BY <3>1
  <2>2. CASE S = {"unknown"} /\ n = 1
    <3> DEFINE f == [k \in 1 .. 1 |-> "unknown"]
    <3>1. f \in [1 .. n -> S] /\ IsInjective(f)
      BY <2>2 DEF IsInjective
    <3> QED
      BY <3>1
  <2> QED
    BY <1>2, <2>1, <2>2
<1> DEFINE f == SetToSeq(S)
<1>4. f \in [1 .. n -> S]
  BY <1>3 DEF SetToSeq
<1> HIDE DEF f
<1>5. f \in Seq({"unknown"})
  <2>1. f \in [1 .. n -> {"unknown"}] /\ n \in Nat
    BY <1>1, <1>2, <1>4
  <2> HIDE DEF n
  <2> QED
    BY <2>1, FunctionIsSeq
<1>6. ToSet(f) = S
  <2>1. CASE S = {} /\ n = 0
    BY <1>4, <2>1 DEF ToSet
  <2>2. CASE S = {"unknown"} /\ n = 1
    <3>1. 1 \in DOMAIN f /\ \A k \in DOMAIN f : f[k] = "unknown"
      BY <1>4, <2>2
    <3> QED
      BY <2>2, <3>1 DEF ToSet
  <2> QED
    BY <1>2, <2>1, <2>2
<1> QED
  BY <1>1, <1>5, <1>6 DEF f, S

---------------------------------------------------------------------------
(* Files that grow *)

Ahead(names, k) == {names[j] : j \in 1 .. k - 1}

(* Written below the declarations in E, the file p is in order: each of its *)
(* declarations may, by Right, stand below those above it, and names are    *)
(* defined once, by the declarations in Defining.                           *)
Fits(p, E, Right) == \A k \in DOMAIN p : <<p[k], E \cup Above(p, k)>> \in Right
Once(p, E, Defining) ==
  /\ \A j, k \in DOMAIN p :
       p[j].what \in Defining /\ p[k].what \in Defining /\ p[j].name = p[k].name => j = k
  /\ \A k \in DOMAIN p : \A d \in E :
       p[k].what \in Defining /\ d.what \in Defining => p[k].name # d.name

WellPlaced(p, Decls, E, Right, Defining) ==
  p \in Seq(Decls) /\ Fits(p, E, Right) /\ Once(p, E, Defining)

LEMMA AboveConcat ==
  ASSUME NEW S, NEW s \in Seq(S), NEW t \in Seq(S)
  PROVE  /\ \A k \in DOMAIN s : Above(s \o t, k) = Above(s, k)
         /\ \A k \in DOMAIN t : Above(s \o t, Len(s) + k) = ToSet(s) \cup Above(t, k)
<1> DEFINE r == s \o t
<1>1. /\ DOMAIN s = 1 .. Len(s) /\ DOMAIN t = 1 .. Len(t) /\ Len(s) \in Nat /\ Len(t) \in Nat
      /\ \A k \in DOMAIN s : r[k] = s[k]
      /\ \A k \in DOMAIN t : r[Len(s) + k] = t[k]
  BY ConcatFacts
<1> HIDE DEF r
<1>2. ASSUME NEW k \in DOMAIN s PROVE Above(r, k) = Above(s, k)
  <2>1. \A j \in 1 .. k - 1 : j \in DOMAIN s
    BY <1>1
  <2> QED
    BY <1>1, <2>1 DEF Above
<1>3. ASSUME NEW k \in DOMAIN t PROVE Above(r, Len(s) + k) = ToSet(s) \cup Above(t, k)
  <2>1. ASSUME NEW x \in Above(r, Len(s) + k) PROVE x \in ToSet(s) \cup Above(t, k)
    <3>1. PICK j \in 1 .. (Len(s) + k) - 1 : x = r[j]
      BY DEF Above
    <3>2. CASE j \in DOMAIN s
      BY <1>1, <3>1, <3>2 DEF ToSet
    <3>3. CASE j \notin DOMAIN s
      <4> DEFINE i == j - Len(s)
      <4>1. i \in 1 .. k - 1 /\ i \in DOMAIN t /\ j = Len(s) + i
        BY <1>1, <3>3
      <4> HIDE DEF i
      <4>2. x = t[i]
        BY <1>1, <3>1, <4>1
      <4> QED
        BY <4>1, <4>2 DEF Above
    <3> QED
      BY <3>2, <3>3
  <2>2. ToSet(s) \subseteq Above(r, Len(s) + k)
    <3>1. \A j \in DOMAIN s : j \in 1 .. (Len(s) + k) - 1
      BY <1>1
    <3> QED
      BY <1>1, <3>1 DEF Above, ToSet
  <2>3. Above(t, k) \subseteq Above(r, Len(s) + k)
    <3>1. \A j \in 1 .. k - 1 : j \in DOMAIN t /\ Len(s) + j \in 1 .. (Len(s) + k) - 1
      BY <1>1
    <3> QED
      BY <1>1, <3>1 DEF Above
  <2> QED
    BY <2>1, <2>2, <2>3
<1> QED
  BY <1>2, <1>3 DEF r

(* A file that fits, and one that fits below it, fit together.              *)
LEMMA PlacedConcat ==
  ASSUME NEW Decls, NEW E, NEW Right, NEW Defining, NEW p, NEW q,
         WellPlaced(p, Decls, E, Right, Defining),
         WellPlaced(q, Decls, E \cup ToSet(p), Right, Defining)
  PROVE  /\ WellPlaced(p \o q, Decls, E, Right, Defining)
         /\ ToSet(p \o q) = ToSet(p) \cup ToSet(q)
<1> DEFINE r == p \o q
<1>1. p \in Seq(Decls) /\ q \in Seq(Decls)
  BY DEF WellPlaced
<1>2. /\ r \in Seq(Decls) /\ ToSet(r) = ToSet(p) \cup ToSet(q)
      /\ \A k \in DOMAIN p : r[k] = p[k] /\ Above(r, k) = Above(p, k)
      /\ \A k \in DOMAIN q : r[Len(p) + k] = q[k] /\ Above(r, Len(p) + k) = ToSet(p) \cup Above(q, k)
      /\ \A k \in DOMAIN r : k \in DOMAIN p \/ (k - Len(p) \in DOMAIN q /\ k = Len(p) + (k - Len(p)))
  BY <1>1, ConcatFacts, AboveConcat
<1> HIDE DEF r
<1>3. Fits(r, E, Right)
  <2> SUFFICES ASSUME NEW k \in DOMAIN r PROVE <<r[k], E \cup Above(r, k)>> \in Right
    BY DEF Fits
  <2>1. CASE k \in DOMAIN p
    BY <1>2, <2>1 DEF WellPlaced, Fits
  <2>2. CASE k - Len(p) \in DOMAIN q /\ k = Len(p) + (k - Len(p))
    <3> DEFINE i == k - Len(p)
    <3>1. i \in DOMAIN q /\ k = Len(p) + i
      BY <2>2
    <3> HIDE DEF i
    <3>2. <<q[i], (E \cup ToSet(p)) \cup Above(q, i)>> \in Right
      BY <3>1 DEF WellPlaced, Fits
    <3>3. E \cup Above(r, k) = (E \cup ToSet(p)) \cup Above(q, i)
      BY <1>2, <3>1
    <3> QED
      BY <1>2, <3>1, <3>2, <3>3
  <2> QED
    BY <1>2, <2>1, <2>2
<1>4. Once(r, E, Defining)
  <2>1. \A k \in DOMAIN r : (k \in DOMAIN p /\ r[k] = p[k])
          \/ \E i \in DOMAIN q : k = Len(p) + i /\ r[k] = q[i]
    BY <1>2
  <2>2. \A i \in DOMAIN q : \A k \in DOMAIN p :
          q[i].what \in Defining /\ p[k].what \in Defining => q[i].name # p[k].name
    BY DEF WellPlaced, Once, ToSet
  <2>3. \A i, k \in DOMAIN p :
          p[i].what \in Defining /\ p[k].what \in Defining /\ p[i].name = p[k].name => i = k
    BY DEF WellPlaced, Once
  <2>4. \A i, k \in DOMAIN q :
          q[i].what \in Defining /\ q[k].what \in Defining /\ q[i].name = q[k].name => i = k
    BY DEF WellPlaced, Once
  <2>5. \A k \in DOMAIN r : \A d \in E :
          r[k].what \in Defining /\ d.what \in Defining => r[k].name # d.name
    <3>1. \A k \in DOMAIN p : \A d \in E :
            p[k].what \in Defining /\ d.what \in Defining => p[k].name # d.name
      BY DEF WellPlaced, Once
    <3>2. \A k \in DOMAIN q : \A d \in E :
            q[k].what \in Defining /\ d.what \in Defining => q[k].name # d.name
      BY DEF WellPlaced, Once
    <3> QED
      BY <2>1, <3>1, <3>2
  <2>6. ASSUME NEW j \in DOMAIN r, NEW k \in DOMAIN r,
               r[j].what \in Defining, r[k].what \in Defining, r[j].name = r[k].name
        PROVE  j = k
    BY <2>1, <2>2, <2>3, <2>4, <2>6
  <2> QED
    BY <2>5, <2>6 DEF Once
<1> QED
  BY <1>2, <1>3, <1>4 DEF WellPlaced, r

Decl(what, names) == {[what |-> what, name |-> t] : t \in names}

(* a declares the names of a list. *)
Declares(a, what, names, Decls) ==
  /\ a \in Seq(Decls) /\ DOMAIN a = DOMAIN names
  /\ \A k \in DOMAIN names : a[k] = [what |-> what, name |-> names[k]]
  /\ ToSet(a) = Decl(what, ToSet(names))
  /\ \A k \in DOMAIN names : Above(a, k) = Decl(what, Ahead(names, k))

LEMMA AsIs ==
  ASSUME NEW T, NEW names \in Seq(T), NEW W, NEW what \in W
  PROVE  Declares(As(what, names), what, names, [what : W, name : T])
<1> DEFINE a == As(what, names)
           n == Len(names)
<1>1. n \in Nat /\ DOMAIN names = 1 .. n /\ \A k \in 1 .. n : names[k] \in T
  BY LenProperties
<1>2. a = [k \in 1 .. n |-> [what |-> what, name |-> names[k]]]
  BY <1>1 DEF As
<1> HIDE DEF a, n
<1>3. DOMAIN a = 1 .. n /\ \A k \in 1 .. n : a[k] = [what |-> what, name |-> names[k]]
  BY <1>2
<1>4. a \in Seq([what : W, name : T])
  <2>1. a \in [1 .. n -> [what : W, name : T]]
    BY <1>1, <1>2
  <2> QED
    BY <1>1, <2>1, FunctionIsSeq
<1>5. ToSet(a) = Decl(what, ToSet(names))
  BY <1>1, <1>3 DEF ToSet, Decl
<1>6. ASSUME NEW k \in 1 .. n PROVE Above(a, k) = Decl(what, Ahead(names, k))
  <2>1. \A j \in 1 .. k - 1 : j \in 1 .. n
    BY <1>1
  <2> QED
    BY <1>3, <2>1 DEF Above, Decl, Ahead
<1> QED
  BY <1>1, <1>3, <1>4, <1>5, <1>6 DEF a, Declares

LEMMA PlacedAs ==
  ASSUME NEW T, NEW names \in Seq(T), NEW W, NEW what \in W, NEW E, NEW Right, NEW Defining,
         \A k \in DOMAIN names :
           <<[what |-> what, name |-> names[k]], E \cup Decl(what, Ahead(names, k))>> \in Right,
         what \in Defining =>
           /\ IsInjective(names)
           /\ \A d \in E : d.what \in Defining => d.name \notin ToSet(names)
  PROVE  WellPlaced(As(what, names), [what : W, name : T], E, Right, Defining)
<1> DEFINE a == As(what, names)
<1> DEFINE D == [what : W, name : T]
<1> HIDE DEF D
<1>0. Declares(a, what, names, D)
  BY AsIs DEF D
<1> HIDE DEF a
<1>1. /\ a \in Seq(D)
      /\ DOMAIN a = DOMAIN names
      /\ \A k \in DOMAIN names : a[k] = [what |-> what, name |-> names[k]]
      /\ \A k \in DOMAIN names : Above(a, k) = Decl(what, Ahead(names, k))
  BY <1>0 DEF Declares
<1>2. Fits(a, E, Right)
  BY <1>1 DEF Fits
<1>3. Once(a, E, Defining)
  <2>1. \A k \in DOMAIN a : a[k].what = what /\ a[k].name = names[k] /\ names[k] \in ToSet(names)
    BY <1>1 DEF ToSet
  <2>2. CASE what \in Defining
    BY <1>1, <2>1, <2>2 DEF Once, IsInjective
  <2>3. CASE what \notin Defining
    BY <2>1, <2>3 DEF Once
  <2> QED
    BY <2>2, <2>3
<1> QED
  BY <1>1, <1>2, <1>3 DEF WellPlaced, a, D

LEMMA NamesInDecl ==
  ASSUME NEW what, NEW S
  PROVE  NamesIn(Decl(what, S)) = S
<1>1. \A t : [what |-> what, name |-> t].name = t
  OBVIOUS
<1> QED
  BY <1>1 DEF NamesIn, Decl

---------------------------------------------------------------------------
(* The header *)

RegistryOK == registry \in [Types -> Definitions] /\ Declarable

HeaderWhat == {"forward", "alias", "placeholder", "body", "function"}
HeaderDecls == [what : HeaderWhat, name : Types \cup {"unknown"}]

(* Why a struct embedded in d may be incomplete. *)
Excused(d, t) ==
  \/ Is(t, "alias")
  \/ d.name \in Referring(t)
  \/ \E f \in FieldSet(d.name) : IsAnonymous(f.type) /\ d.name \in Referring(f.type)

HeaderRight ==
  {w \in HeaderDecls \X SUBSET HeaderDecls :
     /\ Uses(w[1]) \subseteq Given \cup NamesIn(w[2])
     /\ \A t \in Incomplete(w[1], w[2]) : Excused(w[1], t)}

LEMMA RightIs ==
  ASSUME NEW d \in HeaderDecls, NEW E \in SUBSET HeaderDecls
  PROVE  <<d, E>> \in HeaderRight <=>
           /\ Uses(d) \subseteq Given \cup NamesIn(E)
           /\ \A t \in Incomplete(d, E) : Excused(d, t)
  BY DEF HeaderRight

(* Declarations that use nothing. *)
LEMMA UsesNothing ==
  ASSUME NEW d \in HeaderDecls, NEW E \in SUBSET HeaderDecls,
         d.what \in {"forward", "placeholder"}
  PROVE  <<d, E>> \in HeaderRight
<1>1. Uses(d) = {}
  BY DEF Uses
<1>2. Embeds(d) = {}
  BY DEF Embeds
<1>3. Incomplete(d, E) = {}
  BY <1>2 DEF Incomplete
<1> QED
  BY <1>1, <1>3, RightIs

LEMMA UsesTarget ==
  ASSUME NEW t \in Types, NEW E \in SUBSET HeaderDecls,
         registry[t].target \in Given \cup NamesIn(E)
  PROVE  <<[what |-> "alias", name |-> t], E>> \in HeaderRight
<1> DEFINE d == [what |-> "alias", name |-> t]
<1>1. d \in HeaderDecls /\ d.what = "alias" /\ d.name = t
  BY DEF HeaderDecls, HeaderWhat
<1> HIDE DEF d
<1>2. Uses(d) = {registry[t].target}
  BY <1>1 DEF Uses
<1>3. Embeds(d) = {}
  BY <1>1 DEF Embeds
<1>4. Incomplete(d, E) = {}
  BY <1>3 DEF Incomplete
<1>5. <<d, E>> \in HeaderRight
  BY <1>1, <1>2, <1>4, RightIs
<1> QED
  BY <1>5 DEF d

InterfaceNames == {t \in Types : Is(t, "interface") /\ ~IsGiven(t)}
InterfaceAliases == {t \in Types : IsInterfaceAlias(t)}
OtherAliases == {t \in Aliases : ~IsGiven(t) /\ ~IsInterfaceAlias(t)}
EnumNames == {t \in Types : Is(t, "enum")}
AnonymousNames == {t \in Types : IsAnonymous(t)}
FunctionNames == {t \in Types : Is(t, "function")}

(* What the header has after each section. *)
AfterForwards ==
  Decl("forward", InterfaceNames) \cup Decl("alias", InterfaceAliases)
    \cup Decl("forward", HeaderNames)

AfterPlaceholders == AfterForwards \cup Decl("placeholder", UndefinedTypes)
AfterEnums == AfterPlaceholders \cup Decl("body", EnumNames)
AfterAliases == AfterEnums \cup Decl("alias", ToSet(HeaderAliases))
AfterBodies == AfterAliases \cup Decl("body", HeaderNames)
AfterAnonymous == AfterBodies \cup Decl("body", AnonymousNames)
AfterFunctions == AfterAnonymous \cup Decl("function", FunctionNames)

LEMMA DeclTyped ==
  ASSUME NEW what \in HeaderWhat, NEW S \in SUBSET (Types \cup {"unknown"})
  PROVE  Decl(what, S) \in SUBSET HeaderDecls
  BY DEF Decl, HeaderDecls

LEMMA AftersTyped ==
  ASSUME registry \in [Types -> Definitions], NothingHoldsItself
  PROVE  /\ AfterForwards \in SUBSET HeaderDecls /\ AfterPlaceholders \in SUBSET HeaderDecls
         /\ AfterEnums \in SUBSET HeaderDecls /\ AfterAliases \in SUBSET HeaderDecls
         /\ AfterBodies \in SUBSET HeaderDecls /\ AfterAnonymous \in SUBSET HeaderDecls
         /\ AfterFunctions \in SUBSET HeaderDecls
<1>1. /\ InterfaceNames \subseteq Types /\ InterfaceAliases \subseteq Types
      /\ HeaderNames \subseteq Types /\ EnumNames \subseteq Types
      /\ AnonymousNames \subseteq Types /\ FunctionNames \subseteq Types
  BY DEF InterfaceNames, InterfaceAliases, HeaderNames, EnumNames, AnonymousNames, FunctionNames
<1>2. UndefinedTypes \subseteq {"unknown"}
  BY UndefinedListed
<1>3. ToSet(HeaderAliases) \subseteq Types
  BY HeaderAliasesAre DEF SortedFrom, Aliases
<1>4. \A S \in SUBSET (Types \cup {"unknown"}) :
        /\ Decl("forward", S) \in SUBSET HeaderDecls /\ Decl("alias", S) \in SUBSET HeaderDecls
        /\ Decl("placeholder", S) \in SUBSET HeaderDecls /\ Decl("body", S) \in SUBSET HeaderDecls
        /\ Decl("function", S) \in SUBSET HeaderDecls
  BY DeclTyped DEF HeaderWhat
<1>5. AfterForwards \in SUBSET HeaderDecls
  BY <1>1, <1>4 DEF AfterForwards
<1>6. AfterPlaceholders \in SUBSET HeaderDecls
  BY <1>2, <1>4, <1>5 DEF AfterPlaceholders
<1>7. AfterEnums \in SUBSET HeaderDecls
  BY <1>1, <1>4, <1>6 DEF AfterEnums
<1>8. AfterAliases \in SUBSET HeaderDecls
  BY <1>3, <1>4, <1>7 DEF AfterAliases
<1>9. AfterBodies \in SUBSET HeaderDecls
  BY <1>1, <1>4, <1>8 DEF AfterBodies
<1>10. AfterAnonymous \in SUBSET HeaderDecls
  BY <1>1, <1>4, <1>9 DEF AfterAnonymous
<1>11. AfterFunctions \in SUBSET HeaderDecls
  BY <1>1, <1>4, <1>10 DEF AfterFunctions
<1> QED
  BY <1>5, <1>6, <1>7, <1>8, <1>9, <1>10, <1>11

LEMMA DeclarableSays ==
  ASSUME RegistryOK
  PROVE  /\ AnonymousAreStructs /\ NothingHoldsItself
         /\ \A t \in Types : ~IsAnonymous(registry[t].target) /\ ~Is(registry[t].target, "function")
         /\ \A t \in Types : \A f \in FieldSet(t) : ~Is(f.type, "function")
<1>1. Declarable
  BY DEF RegistryOK
<1>2. \A t \in Types : IsAnonymous(t) => IsStruct(t) /\ \A u \in Types : registry[u].target # t
  BY <1>1 DEF Declarable
<1>3. /\ \A t \in Types : t \notin Holding(t)
      /\ \A t \in Types : ~Is(registry[t].target, "function")
      /\ \A t \in Types : \A f \in FieldSet(t) : ~Is(f.type, "function")
  BY <1>1 DEF Declarable
<1>4. \A t \in Types : ~IsAnonymous(registry[t].target)
  <2>1. \A x : IsAnonymous(x) => x \in Types
    BY DEF IsAnonymous
  <2> QED
    BY <1>2, <2>1
<1> QED
  BY <1>2, <1>3, <1>4 DEF AnonymousAreStructs, NothingHoldsItself

LEMMA NamesInUnion ==
  ASSUME NEW A, NEW B
  PROVE  NamesIn(A \cup B) = NamesIn(A) \cup NamesIn(B)
  BY DEF NamesIn

(* What the fields that are not written out in place can be of.             *)
Usable ==
  Given \cup UndefinedTypes \cup InterfaceNames \cup InterfaceAliases \cup OtherAliases
    \cup EnumNames \cup HeaderNames

LEMMA MembersUsable ==
  ASSUME RegistryOK, NEW t \in Types, NEW f \in Members(t)
  PROVE  f.type \in Usable /\ f.type \in Types \cup Leaves /\ ~IsAnonymous(f.type)
<1> registry \in [Types -> Definitions]
  BY DEF RegistryOK
<1> DEFINE fields == UNION {FieldSet(u) : u \in Inlined(t)}
<1>1. f \in fields /\ ~IsAnonymous(f.type)
  BY DEF Members, InPlace
<1>2. PICK u \in Inlined(t) : f \in FieldSet(u)
  BY <1>1
<1> HIDE DEF fields
<1>3. u \in Types
  BY <1>2, ClosureIs DEF Inlined
<1>4. f.type \in Types \cup Leaves /\ f.type \in TypesIn(FieldSet(u)) /\ ~Is(f.type, "function")
  BY <1>2, <1>3, RegistryFacts, DeclarableSays DEF TypesIn
<1>5. CASE f.type \notin Types
  <2>1. f.type = "prim" \/ f.type = "unknown"
    BY <1>4, <1>5 DEF Leaves
  <2>2. f.type = "unknown" => f.type \in UndefinedTypes
    BY <1>3, <1>4, <1>5 DEF UndefinedTypes
  <2> QED
    BY <1>1, <1>4, <2>1, <2>2 DEF Usable, Given
<1>6. CASE f.type \in Types
  <2> DEFINE a == f.type
  <2> HIDE DEF a
  <2>1. a \in Types /\ registry[a].cat \in Category /\ ~Is(a, "function") /\ ~IsAnonymous(a)
    BY <1>1, <1>4, <1>6, RegistryFacts DEF a
  <2>2. a \in Given \/ ~IsGiven(a)
    BY <2>1 DEF Given
  <2>3. ASSUME ~IsGiven(a) PROVE a \in Usable
    <3>1. Is(a, "alias") => a \in InterfaceAliases \cup OtherAliases
      BY <2>1, <2>3 DEF InterfaceAliases, OtherAliases, Aliases
    <3>2. Is(a, "struct") => a \in HeaderNames
      BY <2>1, <2>3 DEF HeaderNames, IsStruct
    <3>3. Is(a, "interface") => a \in InterfaceNames
      BY <2>1, <2>3 DEF InterfaceNames
    <3>4. Is(a, "enum") => a \in EnumNames
      BY <2>1 DEF EnumNames
    <3> QED
      BY <2>1, <3>1, <3>2, <3>3, <3>4 DEF Is, Category, Usable
  <2>4. a \in Usable
    BY <2>2, <2>3 DEF Usable
  <2> QED
    BY <1>1, <1>4, <2>4 DEF a
<1> QED
  BY <1>5, <1>6

LEMMA UsableDeclared ==
  ASSUME registry \in [Types -> Definitions], NothingHoldsItself
  PROVE  Usable \subseteq Given \cup NamesIn(AfterAliases)
<1>1. NamesIn(AfterForwards) = (InterfaceNames \cup InterfaceAliases) \cup HeaderNames
  <2>1. NamesIn(Decl("forward", InterfaceNames) \cup Decl("alias", InterfaceAliases))
          = InterfaceNames \cup InterfaceAliases
    BY NamesInDecl, NamesInUnion
  <2> QED
    BY <2>1, NamesInDecl, NamesInUnion DEF AfterForwards
<1>2. NamesIn(AfterPlaceholders) = NamesIn(AfterForwards) \cup UndefinedTypes
  BY NamesInDecl, NamesInUnion DEF AfterPlaceholders
<1>3. NamesIn(AfterEnums) = NamesIn(AfterPlaceholders) \cup EnumNames
  BY NamesInDecl, NamesInUnion DEF AfterEnums
<1>4. NamesIn(AfterAliases) = NamesIn(AfterEnums) \cup ToSet(HeaderAliases)
  BY NamesInDecl, NamesInUnion DEF AfterAliases
<1>5. OtherAliases \subseteq ToSet(HeaderAliases)
  BY HeaderAliasesAre DEF SortedFrom, OtherAliases
<1> QED
  BY <1>1, <1>2, <1>3, <1>4, <1>5 DEF Usable

LEMMA UsesMembers ==
  ASSUME RegistryOK, NEW d \in HeaderDecls, d.name \in Types, d.what \in {"body", "function"},
         NEW E, AfterAliases \subseteq E
  PROVE  Uses(d) \subseteq Given \cup NamesIn(E)
<1> registry \in [Types -> Definitions] /\ NothingHoldsItself
  BY DeclarableSays DEF RegistryOK
<1>1. Uses(d) = TypesIn(Members(d.name))
  BY DEF Uses
<1>2. TypesIn(Members(d.name)) \subseteq Usable
  BY MembersUsable DEF TypesIn
<1>3. NamesIn(AfterAliases) \subseteq NamesIn(E)
  BY DEF NamesIn
<1> QED
  BY <1>1, <1>2, <1>3, UsableDeclared

(* What is embedded and incomplete.                                         *)
LEMMA IncompleteIs ==
  ASSUME RegistryOK, NEW d \in HeaderDecls, d.name \in Types, NEW E,
         NEW t \in Incomplete(d, E), ~Is(t, "alias")
  PROVE  /\ d.what = "body"
         /\ \E f \in Members(d.name) : f.ind = 0 /\ f.type = t
         /\ t \in HeaderNames
         /\ [what |-> "body", name |-> t] \notin E
<1> registry \in [Types -> Definitions]
  BY DEF RegistryOK
<1>1. /\ t \in Embeds(d) /\ IsStruct(Underlying(t)) /\ ~IsGiven(t)
      /\ [what |-> "body", name |-> Underlying(t)] \notin E
  BY DEF Incomplete
<1>2. d.what = "body" /\ t \in TypesIn({f \in Members(d.name) : f.ind = 0})
  BY <1>1 DEF Embeds
<1>3. PICK f \in Members(d.name) : f.ind = 0 /\ f.type = t
  BY <1>2 DEF TypesIn
<1>4. t \in Types \cup Leaves /\ ~IsAnonymous(t)
  BY <1>3, MembersUsable
<1>5. Underlying(t) = t
  BY <1>4, UnderlyingIs
<1>6. t \in HeaderNames
  BY <1>1, <1>4, <1>5 DEF HeaderNames, IsStruct, Is
<1> QED
  BY <1>1, <1>2, <1>3, <1>5, <1>6

LEMMA AllComplete ==
  ASSUME RegistryOK, NEW d \in HeaderDecls, d.name \in Types, d.what \in {"body", "function"},
         NEW E \in SUBSET HeaderDecls, AfterBodies \subseteq E
  PROVE  <<d, E>> \in HeaderRight
<1>1. AfterAliases \subseteq E /\ Decl("body", HeaderNames) \subseteq E
  BY DEF AfterBodies
<1>2. ASSUME NEW t \in Incomplete(d, E) PROVE Excused(d, t)
  <2>1. \A u \in HeaderNames : [what |-> "body", name |-> u] \in E
    BY <1>1 DEF Decl
  <2>2. Is(t, "alias")
    BY <2>1, IncompleteIs
  <2> QED
    BY <2>2 DEF Excused
<1> QED
  BY <1>1, <1>2, UsesMembers, RightIs

(* An enumeration's body uses nothing.                                      *)
LEMMA EnumsUseNothing ==
  ASSUME registry \in [Types -> Definitions], NEW t \in EnumNames, NEW E \in SUBSET HeaderDecls
  PROVE  <<[what |-> "body", name |-> t], E>> \in HeaderRight
<1> DEFINE d == [what |-> "body", name |-> t]
           leads == [u \in Types |-> TypesIn({f \in FieldSet(u) : InPlace(f)})]
<1>1. d \in HeaderDecls /\ d.what = "body" /\ d.name = t /\ t \in Types
  BY DEF HeaderDecls, HeaderWhat, EnumNames
<1> HIDE DEF d
<1>2. FieldSet(t) = {}
  BY RegistryFacts DEF EnumNames, Is
<1>3. leads[t] = {}
  BY <1>1, <1>2 DEF TypesIn
<1> HIDE DEF leads
<1>4. Closure(leads, {t}) \subseteq {t}
  <2>1. {t} \in SUBSET Types /\ {t} \cap Types \subseteq {t}
    BY <1>1
  <2>2. \A u \in {t} : leads[u] \cap Types \subseteq {t}
    BY <1>3
  <2> QED
    BY <2>1, <2>2, ClosureWithin
<1>5. Inlined(t) \subseteq {t}
  BY <1>4 DEF Inlined, leads
<1>6. Members(t) = {}
  BY <1>2, <1>5 DEF Members
<1>7. Uses(d) = {}
  BY <1>1, <1>6 DEF Uses, TypesIn
<1>8. Embeds(d) = {}
  BY <1>1, <1>6 DEF Embeds, TypesIn
<1>9. Incomplete(d, E) = {}
  BY <1>8 DEF Incomplete
<1>10. <<d, E>> \in HeaderRight
  BY <1>1, <1>7, <1>9, RightIs
<1> QED
  BY <1>10 DEF d

(* A part of the header, in order below E, after which there is E2.         *)
HeaderPart(p, E, E2) ==
  WellPlaced(p, HeaderDecls, E, HeaderRight, {"body"}) /\ E \cup ToSet(p) = E2

LEMMA HeaderGrows ==
  ASSUME NEW E, NEW E2, NEW E3, NEW p, NEW q, HeaderPart(p, E, E2), HeaderPart(q, E2, E3)
  PROVE  HeaderPart(p \o q, E, E3)
<1>1. /\ WellPlaced(p, HeaderDecls, E, HeaderRight, {"body"})
      /\ WellPlaced(q, HeaderDecls, E \cup ToSet(p), HeaderRight, {"body"})
  BY DEF HeaderPart
<1>2. /\ WellPlaced(p \o q, HeaderDecls, E, HeaderRight, {"body"})
      /\ ToSet(p \o q) = ToSet(p) \cup ToSet(q)
  BY <1>1, PlacedConcat
<1> QED
  BY <1>2 DEF HeaderPart

LEMMA AheadTyped ==
  ASSUME NEW T, NEW names \in Seq(T), NEW k \in DOMAIN names
  PROVE  Ahead(names, k) \in SUBSET ToSet(names) /\ ToSet(names) \in SUBSET T /\ names[k] \in ToSet(names)
<1>1. DOMAIN names = 1 .. Len(names) /\ Len(names) \in Nat /\ \A j \in DOMAIN names : names[j] \in T
  BY LenProperties
<1>2. \A j \in 1 .. k - 1 : j \in DOMAIN names
  BY <1>1
<1> QED
  BY <1>1, <1>2 DEF Ahead, ToSet

LEMMA HeaderAs ==
  ASSUME NEW names \in Seq(Types \cup {"unknown"}), NEW what \in HeaderWhat,
         NEW E \in SUBSET HeaderDecls,
         \A k \in DOMAIN names : E \cup Decl(what, Ahead(names, k)) \in SUBSET HeaderDecls =>
           <<[what |-> what, name |-> names[k]], E \cup Decl(what, Ahead(names, k))>> \in HeaderRight,
         what = "body" =>
           IsInjective(names) /\ \A t \in ToSet(names) : [what |-> "body", name |-> t] \notin E
  PROVE  HeaderPart(As(what, names), E, E \cup Decl(what, ToSet(names)))
<1> DEFINE T == Types \cup {"unknown"}
<1>1. ASSUME NEW k \in DOMAIN names
      PROVE  <<[what |-> what, name |-> names[k]], E \cup Decl(what, Ahead(names, k))>> \in HeaderRight
  <2>1. Ahead(names, k) \in SUBSET T
    BY AheadTyped
  <2>2. Decl(what, Ahead(names, k)) \in SUBSET HeaderDecls
    BY <2>1, DeclTyped
  <2> QED
    BY <2>2
<1>2. ASSUME what \in {"body"}
      PROVE  /\ IsInjective(names)
             /\ \A d \in E : d.what \in {"body"} => d.name \notin ToSet(names)
  <2>1. \A d \in E : d = [what |-> d.what, name |-> d.name]
    BY DEF HeaderDecls
  <2> QED
    BY <1>2, <2>1
<1>3. WellPlaced(As(what, names), [what : HeaderWhat, name : T], E, HeaderRight, {"body"})
  <2> HIDE DEF T
  <2>1. names \in Seq(T)
    BY DEF T
  <2> QED
    BY <1>1, <1>2, <2>1, PlacedAs
<1>4. ToSet(As(what, names)) = Decl(what, ToSet(names))
  <2>1. Declares(As(what, names), what, names, [what : HeaderWhat, name : T])
    BY AsIs
  <2> QED
    BY <2>1 DEF Declares
<1> QED
  BY <1>3, <1>4 DEF HeaderPart, HeaderDecls

LEMMA HoldsTyped ==
  ASSUME NEW list, NEW S, Holds(list, S)
  PROVE  /\ list \in Seq(Types \cup {"unknown"}) /\ ToSet(list) = S /\ IsInjective(list)
         /\ \A k \in DOMAIN list : list[k] \in S
  BY DEF Holds, ToSet

LEMMA ForwardLists ==
  /\ Holds(Only(Named("interface"), {t \in Types : ~IsGiven(t)}), InterfaceNames)
  /\ Holds(Only(Named("alias"), {t \in Types : IsInterfaceAlias(t)}), InterfaceAliases)
<1>1. /\ Holds(Named("interface"), {t \in Types : Is(t, "interface")})
      /\ Holds(Named("alias"), {t \in Types : Is(t, "alias")})
  BY NamedIs
<1>2. /\ InterfaceNames = {t \in Types : Is(t, "interface")} \cap {t \in Types : ~IsGiven(t)}
      /\ InterfaceAliases = {t \in Types : Is(t, "alias")} \cap {t \in Types : IsInterfaceAlias(t)}
  BY DEF InterfaceNames, InterfaceAliases, IsInterfaceAlias
<1> QED
  BY <1>1, <1>2, OnlyOf

ForwardsPart ==
  As("forward", Only(Named("interface"), {t \in Types : ~IsGiven(t)}))
    \o As("alias", Only(Named("alias"), {t \in Types : IsInterfaceAlias(t)}))
    \o As("forward", HeaderStructs)

LEMMA ForwardsPlaced ==
  ASSUME RegistryOK
  PROVE  HeaderPart(ForwardsPart, {}, AfterForwards)
<1> registry \in [Types -> Definitions] /\ NothingHoldsItself /\ AnonymousAreStructs
  BY DeclarableSays DEF RegistryOK
<1> DEFINE L1 == Only(Named("interface"), {t \in Types : ~IsGiven(t)})
           L2 == Only(Named("alias"), {t \in Types : IsInterfaceAlias(t)})
           E1 == Decl("forward", InterfaceNames)
           E2 == E1 \cup Decl("alias", InterfaceAliases)
<1>1. Holds(L1, InterfaceNames) /\ Holds(L2, InterfaceAliases) /\ Holds(HeaderStructs, HeaderNames)
  BY ForwardLists, HeaderStructsAre
<1> HIDE DEF L1, L2
<1>2. {} \in SUBSET HeaderDecls /\ E1 \in SUBSET HeaderDecls /\ E2 \in SUBSET HeaderDecls
  BY AftersTyped DEF AfterForwards
<1>3. HeaderPart(As("forward", L1), {}, E1)
  <2>1. \A k \in DOMAIN L1 : [what |-> "forward", name |-> L1[k]] \in HeaderDecls
    BY <1>1 DEF HeaderDecls, HeaderWhat, Holds
  <2>2. \A k \in DOMAIN L1 : \A E \in SUBSET HeaderDecls :
          <<[what |-> "forward", name |-> L1[k]], E>> \in HeaderRight
    BY <2>1, UsesNothing
  <2>3. HeaderPart(As("forward", L1), {}, {} \cup Decl("forward", ToSet(L1)))
    BY <1>1, <1>2, <2>2, HoldsTyped, HeaderAs DEF HeaderWhat
  <2> QED
    BY <1>1, <2>3, HoldsTyped
<1>4. HeaderPart(As("alias", L2), E1, E2)
  <2>1. ASSUME NEW k \in DOMAIN L2, NEW E \in SUBSET HeaderDecls, E1 \subseteq E
        PROVE  <<[what |-> "alias", name |-> L2[k]], E>> \in HeaderRight
    <3> DEFINE a == L2[k]
    <3>1. a \in InterfaceAliases
      BY <1>1, HoldsTyped
    <3> HIDE DEF a
    <3>2. a \in Types /\ Is(registry[a].target, "interface")
      BY <3>1 DEF InterfaceAliases, IsInterfaceAlias
    <3>3. registry[a].target \in Given \cup InterfaceNames
      BY <3>2 DEF Given, InterfaceNames, Is
    <3>4. InterfaceNames \subseteq NamesIn(E)
      <4>1. NamesIn(E1) = InterfaceNames
        BY NamesInDecl
      <4> QED
        BY <2>1, <4>1 DEF NamesIn
    <3>5. <<[what |-> "alias", name |-> a], E>> \in HeaderRight
      BY <3>2, <3>3, <3>4, UsesTarget
    <3> QED
      BY <3>5 DEF a
  <2>2. HeaderPart(As("alias", L2), E1, E1 \cup Decl("alias", ToSet(L2)))
    <3> HIDE DEF E1
    <3> QED
      BY <1>1, <1>2, <2>1, HoldsTyped, HeaderAs DEF HeaderWhat
  <2> QED
    BY <1>1, <2>2, HoldsTyped
<1>5. HeaderPart(As("forward", HeaderStructs), E2, AfterForwards)
  <2>1. \A k \in DOMAIN HeaderStructs : [what |-> "forward", name |-> HeaderStructs[k]] \in HeaderDecls
    BY <1>1 DEF HeaderDecls, HeaderWhat, Holds
  <2>2. \A k \in DOMAIN HeaderStructs : \A E \in SUBSET HeaderDecls :
          <<[what |-> "forward", name |-> HeaderStructs[k]], E>> \in HeaderRight
    BY <2>1, UsesNothing
  <2>3. HeaderPart(As("forward", HeaderStructs), E2, E2 \cup Decl("forward", ToSet(HeaderStructs)))
    <3> HIDE DEF E2
    <3> QED
      BY <1>1, <1>2, <2>2, HoldsTyped, HeaderAs DEF HeaderWhat
  <2> QED
    BY <1>1, <2>3, HoldsTyped DEF AfterForwards
<1>6. HeaderPart((As("forward", L1) \o As("alias", L2)) \o As("forward", HeaderStructs), {}, AfterForwards)
  <2> HIDE DEF E1, E2
  <2> QED
    BY <1>3, <1>4, <1>5, HeaderGrows
<1> QED
  BY <1>6 DEF ForwardsPart, L1, L2

PlaceholdersPart == As("placeholder", SetToSeq(UndefinedTypes))

LEMMA PlaceholdersPlaced ==
  ASSUME RegistryOK
  PROVE  HeaderPart(PlaceholdersPart, AfterForwards, AfterPlaceholders)
<1> registry \in [Types -> Definitions] /\ NothingHoldsItself
  BY DeclarableSays DEF RegistryOK
<1> DEFINE L == SetToSeq(UndefinedTypes)
<1>1. L \in Seq({"unknown"}) /\ ToSet(L) = UndefinedTypes
  BY UndefinedListed
<1> HIDE DEF L
<1>2. L \in Seq(Types \cup {"unknown"}) /\ \A k \in DOMAIN L : L[k] \in Types \cup {"unknown"}
  BY <1>1
<1>3. AfterForwards \in SUBSET HeaderDecls
  BY AftersTyped
<1>4. \A k \in DOMAIN L : [what |-> "placeholder", name |-> L[k]] \in HeaderDecls
  BY <1>2 DEF HeaderDecls, HeaderWhat
<1>5. \A k \in DOMAIN L : \A E \in SUBSET HeaderDecls :
        <<[what |-> "placeholder", name |-> L[k]], E>> \in HeaderRight
  BY <1>4, UsesNothing
<1>6. HeaderPart(As("placeholder", L), AfterForwards, AfterForwards \cup Decl("placeholder", ToSet(L)))
  BY <1>2, <1>3, <1>5, HeaderAs DEF HeaderWhat
<1> QED
  BY <1>1, <1>6 DEF PlaceholdersPart, AfterPlaceholders, L

(* Whose bodies there are after each section.                               *)
LEMMA BodiesAre ==
  ASSUME NEW t
  PROVE  /\ [what |-> "body", name |-> t] \notin AfterPlaceholders
         /\ [what |-> "body", name |-> t] \in AfterAliases => t \in EnumNames
         /\ [what |-> "body", name |-> t] \in AfterBodies => t \in EnumNames \cup HeaderNames
<1> DEFINE d == [what |-> "body", name |-> t]
<1>1. d.what = "body" /\ d.name = t
  OBVIOUS
<1> HIDE DEF d
<1>2. \A what : \A S : d \in Decl(what, S) => what = "body" /\ t \in S
  BY <1>1 DEF Decl
<1>3. d \notin AfterForwards
  BY <1>2 DEF AfterForwards
<1>4. d \notin AfterPlaceholders
  BY <1>2, <1>3 DEF AfterPlaceholders
<1>5. d \in AfterEnums => t \in EnumNames
  BY <1>2, <1>4 DEF AfterEnums
<1>6. d \in AfterAliases => t \in EnumNames
  BY <1>2, <1>5 DEF AfterAliases
<1>7. d \in AfterBodies => t \in EnumNames \cup HeaderNames
  BY <1>2, <1>6 DEF AfterBodies
<1> QED
  BY <1>4, <1>6, <1>7 DEF d

EnumsPart == As("body", Named("enum"))

LEMMA EnumsPlaced ==
  ASSUME RegistryOK
  PROVE  HeaderPart(EnumsPart, AfterPlaceholders, AfterEnums)
<1> registry \in [Types -> Definitions] /\ NothingHoldsItself
  BY DeclarableSays DEF RegistryOK
<1> DEFINE L == Named("enum")
<1>1. Holds(L, EnumNames)
  BY NamedIs DEF EnumNames
<1> HIDE DEF L
<1>2. AfterPlaceholders \in SUBSET HeaderDecls
  BY AftersTyped
<1>3. \A k \in DOMAIN L : \A E \in SUBSET HeaderDecls :
        <<[what |-> "body", name |-> L[k]], E>> \in HeaderRight
  BY <1>1, HoldsTyped, EnumsUseNothing
<1>4. \A t \in ToSet(L) : [what |-> "body", name |-> t] \notin AfterPlaceholders
  BY BodiesAre
<1>5. HeaderPart(As("body", L), AfterPlaceholders, AfterPlaceholders \cup Decl("body", ToSet(L)))
  BY <1>1, <1>2, <1>3, <1>4, HoldsTyped, HeaderAs DEF HeaderWhat
<1> QED
  BY <1>1, <1>5, HoldsTyped DEF EnumsPart, AfterEnums, L

AliasesPart == As("alias", HeaderAliases)

LEMMA AliasesPlaced ==
  ASSUME RegistryOK
  PROVE  HeaderPart(AliasesPart, AfterEnums, AfterAliases)
<1> registry \in [Types -> Definitions] /\ NothingHoldsItself
  BY DeclarableSays DEF RegistryOK
<1> DEFINE L == HeaderAliases
<1>1. SortedFrom(L, OtherAliases)
  BY HeaderAliasesAre DEF OtherAliases
<1> HIDE DEF L
<1>2. AfterEnums \in SUBSET HeaderDecls
  BY AftersTyped
<1>3. L \in Seq(Types \cup {"unknown"}) /\ L \in Seq(Types)
  BY <1>1 DEF SortedFrom
<1>4. NamesIn(AfterEnums) = ((InterfaceNames \cup InterfaceAliases \cup HeaderNames)
                               \cup UndefinedTypes) \cup EnumNames
  <2>1. NamesIn(Decl("forward", InterfaceNames) \cup Decl("alias", InterfaceAliases))
          = InterfaceNames \cup InterfaceAliases
    BY NamesInDecl, NamesInUnion
  <2>2. NamesIn(AfterForwards) = InterfaceNames \cup InterfaceAliases \cup HeaderNames
    BY <2>1, NamesInDecl, NamesInUnion DEF AfterForwards
  <2>3. NamesIn(AfterPlaceholders) = NamesIn(AfterForwards) \cup UndefinedTypes
    BY NamesInDecl, NamesInUnion DEF AfterPlaceholders
  <2>4. NamesIn(AfterEnums) = NamesIn(AfterPlaceholders) \cup EnumNames
    BY NamesInDecl, NamesInUnion DEF AfterEnums
  <2> QED
    BY <2>2, <2>3, <2>4
<1>5. ASSUME NEW k \in DOMAIN L,
             AfterEnums \cup Decl("alias", Ahead(L, k)) \in SUBSET HeaderDecls
      PROVE  <<[what |-> "alias", name |-> L[k]], AfterEnums \cup Decl("alias", Ahead(L, k))>>
               \in HeaderRight
  <2> DEFINE a == L[k]
             t == registry[a].target
             E == AfterEnums \cup Decl("alias", Ahead(L, k))
  <2>1. a \in Types
    BY <1>3
  <2>2. NamesIn(E) = NamesIn(AfterEnums) \cup Ahead(L, k)
    BY NamesInDecl, NamesInUnion
  <2>3. t \in Aliases => t \in Ahead(L, k)
    BY <1>1 DEF SortedFrom, Ahead
  <2>4. t \in Types \cup {"prim"} /\ ~Is(t, "function") /\ ~IsAnonymous(t)
    BY <2>1, RegistryFacts, DeclarableSays
  <2> HIDE DEF a, t, E
  <2>5. t \in Given \cup NamesIn(E)
    <3>1. CASE t = "prim"
      BY <3>1 DEF Given
    <3>2. CASE t \in Types
      <4>1. registry[t].cat \in Category
        BY <3>2, RegistryFacts
      <4>2. t \in Given \/ ~IsGiven(t)
        BY <3>2 DEF Given
      <4>3. Is(t, "alias") => t \in Ahead(L, k)
        BY <2>3, <3>2 DEF Aliases
      <4>4. Is(t, "struct") /\ ~IsGiven(t) => t \in HeaderNames
        BY <2>4, <3>2 DEF HeaderNames, IsStruct
      <4>5. Is(t, "interface") /\ ~IsGiven(t) => t \in InterfaceNames
        BY <3>2 DEF InterfaceNames
      <4>6. Is(t, "enum") => t \in EnumNames
        BY <3>2 DEF EnumNames
      <4>7. t \in Given \/ t \in Ahead(L, k) \/ t \in HeaderNames \/ t \in InterfaceNames \/ t \in EnumNames
        BY <2>4, <3>2, <4>1, <4>2, <4>3, <4>4, <4>5, <4>6 DEF Is, Category
      <4> QED
        BY <1>4, <2>2, <4>7
    <3> QED
      BY <2>4, <3>1, <3>2
  <2>6. E \in SUBSET HeaderDecls
    BY <1>5 DEF E
  <2>7. <<[what |-> "alias", name |-> a], E>> \in HeaderRight
    BY <2>1, <2>5, <2>6, UsesTarget DEF t
  <2> QED
    BY <2>7 DEF a, E
<1>6. HeaderPart(As("alias", L), AfterEnums, AfterEnums \cup Decl("alias", ToSet(L)))
  BY <1>2, <1>3, <1>5, HeaderAs DEF HeaderWhat
<1> QED
  BY <1>6 DEF AliasesPart, AfterAliases, L

AnonymousPart == As("body", AnonymousTypes)

LEMMA AnonymousPlaced ==
  ASSUME RegistryOK
  PROVE  HeaderPart(AnonymousPart, AfterBodies, AfterAnonymous)
<1> registry \in [Types -> Definitions] /\ NothingHoldsItself
  BY DeclarableSays DEF RegistryOK
<1> DEFINE L == AnonymousTypes
<1>1. Holds(L, AnonymousNames)
  BY AnonymousIs DEF AnonymousNames
<1> HIDE DEF L
<1>2. AfterBodies \in SUBSET HeaderDecls
  BY AftersTyped
<1>3. ASSUME NEW k \in DOMAIN L, NEW E \in SUBSET HeaderDecls, AfterBodies \subseteq E
      PROVE  <<[what |-> "body", name |-> L[k]], E>> \in HeaderRight
  <2> DEFINE d == [what |-> "body", name |-> L[k]]
  <2>1. d \in HeaderDecls /\ d.what = "body" /\ d.name \in Types
    BY <1>1 DEF HeaderDecls, HeaderWhat, Holds
  <2> HIDE DEF d
  <2>2. <<d, E>> \in HeaderRight
    BY <1>3, <2>1, AllComplete
  <2> QED
    BY <2>2 DEF d
<1>4. \A t \in ToSet(L) : [what |-> "body", name |-> t] \notin AfterBodies
  <2>1. AnonymousNames \cap (EnumNames \cup HeaderNames) = {}
    BY DeclarableSays
       DEF AnonymousAreStructs, AnonymousNames, EnumNames, HeaderNames, IsStruct, Is
  <2> QED
    BY <1>1, <2>1, HoldsTyped, BodiesAre
<1>5. HeaderPart(As("body", L), AfterBodies, AfterBodies \cup Decl("body", ToSet(L)))
  BY <1>1, <1>2, <1>3, <1>4, HoldsTyped, HeaderAs DEF HeaderWhat
<1> QED
  BY <1>1, <1>5, HoldsTyped DEF AnonymousPart, AfterAnonymous, L

FunctionsPart == As("function", Named("function"))

LEMMA FunctionsPlaced ==
  ASSUME RegistryOK
  PROVE  HeaderPart(FunctionsPart, AfterAnonymous, AfterFunctions)
<1> registry \in [Types -> Definitions] /\ NothingHoldsItself
  BY DeclarableSays DEF RegistryOK
<1> DEFINE L == Named("function")
<1>1. Holds(L, FunctionNames)
  BY NamedIs DEF FunctionNames
<1> HIDE DEF L
<1>2. AfterAnonymous \in SUBSET HeaderDecls /\ AfterBodies \subseteq AfterAnonymous
  BY AftersTyped DEF AfterAnonymous
<1>3. ASSUME NEW k \in DOMAIN L, NEW E \in SUBSET HeaderDecls, AfterAnonymous \subseteq E
      PROVE  <<[what |-> "function", name |-> L[k]], E>> \in HeaderRight
  <2> DEFINE d == [what |-> "function", name |-> L[k]]
  <2>1. d \in HeaderDecls /\ d.what = "function" /\ d.name \in Types
    BY <1>1 DEF HeaderDecls, HeaderWhat, Holds
  <2> HIDE DEF d
  <2>2. <<d, E>> \in HeaderRight
    BY <1>2, <1>3, <2>1, AllComplete
  <2> QED
    BY <2>2 DEF d
<1>4. HeaderPart(As("function", L), AfterAnonymous, AfterAnonymous \cup Decl("function", ToSet(L)))
  BY <1>1, <1>2, <1>3, HoldsTyped, HeaderAs DEF HeaderWhat
<1> QED
  BY <1>1, <1>4, HoldsTyped DEF FunctionsPart, AfterFunctions, L

---------------------------------------------------------------------------
(* The order of the bodies *)

LEMMA ClosureStep ==
  ASSUME NEW leads, NEW w, NEW y \in Closure(leads, {w}), y # w
  PROVE  y \in Closure(leads, leads[w])
<1> DEFINE S == ({w} \cap Types) \cup Closure(leads, leads[w])
<1>1. S \in SUBSET Types /\ {w} \cap Types \subseteq S
  BY ClosureIs
<1>2. \A t \in S : leads[t] \cap Types \subseteq S
  BY ClosureIs
<1>3. Closure(leads, {w}) \subseteq S
  <2> HIDE DEF S
  <2> QED
    BY <1>1, <1>2, ClosureWithin
<1> QED
  BY <1>3

LEMMA LastStep ==
  ASSUME NEW leads, NEW start, NEW y \in Closure(leads, start), y \notin start
  PROVE  \E z \in Closure(leads, start) : y \in leads[z]
<1> DEFINE C == Closure(leads, start)
           P(u) == u \in start \/ \E z \in C : u \in leads[z]
           S == {u \in C : P(u)}
<1>1. /\ C \subseteq Types /\ start \cap Types \subseteq C
      /\ \A t \in C : leads[t] \cap Types \subseteq C
  BY ClosureIs
<1>2. y \in C
  OBVIOUS
<1> HIDE DEF C
<1>3. S \in SUBSET Types /\ start \cap Types \subseteq S
  BY <1>1
<1>4. \A t \in S : leads[t] \cap Types \subseteq S
  BY <1>1
<1>5. Closure(leads, start) \subseteq S
  <2> HIDE DEF S
  <2> QED
    BY <1>3, <1>4, ClosureWithin
<1> QED
  BY <1>2, <1>5 DEF C

LEMMA ClosureMore ==
  ASSUME NEW leads, NEW more, NEW start, \A t \in Types : leads[t] \subseteq more[t]
  PROVE  Closure(leads, start) \subseteq Closure(more, start)
<1> DEFINE S == Closure(more, start)
<1>1. /\ S \in SUBSET Types /\ start \cap Types \subseteq S
      /\ \A t \in S : more[t] \cap Types \subseteq S
  BY ClosureIs
<1> HIDE DEF S
<1>2. \A t \in S : leads[t] \cap Types \subseteq S
  BY <1>1
<1>3. Closure(leads, start) \subseteq S
  BY <1>1, <1>2, ClosureWithin
<1> QED
  BY <1>3 DEF S

LEMMA HoldingIs ==
  ASSUME NEW w \in Types
  PROVE  /\ Held(w) \cap Types \subseteq Holding(w) /\ Holding(w) \subseteq Types
         /\ \A v \in Holding(w) : Held(v) \cap Types \subseteq Holding(w)
<1> DEFINE H == [u \in Types |-> Held(u)]
<1>1. Holding(w) = Closure(H, Held(w))
  BY DEF Holding
<1>2. \A v \in Types : H[v] = Held(v)
  OBVIOUS
<1> HIDE DEF H
<1>3. /\ Closure(H, Held(w)) \subseteq Types
      /\ Held(w) \cap Types \subseteq Closure(H, Held(w))
      /\ \A v \in Closure(H, Held(w)) : H[v] \cap Types \subseteq Closure(H, Held(w))
  BY ClosureIs
<1> QED
  BY <1>1, <1>2, <1>3

Fields == [u \in Types |-> TypesIn(FieldSet(u))]

LEMMA ReferringIs ==
  ASSUME NEW t \in Types
  PROVE  Referring(t) = Closure(Fields, Fields[t])
  BY DEF Referring, Fields

(* An anonymous type is held by its parent, and only that has a field of it. *)
LEMMA OneParent ==
  ASSUME RegistryOK, NEW v \in Types, NEW f \in FieldSet(v), IsAnonymous(f.type)
  PROVE  /\ IsStruct(v) /\ f.type \in Types /\ f.type \in Held(v)
         /\ \A z \in Types : f.type \in Fields[z] => z = v
<1> registry \in [Types -> Definitions]
  BY DEF RegistryOK
<1> DEFINE a == f.type
<1>1. a \in Types /\ IsAnonymous(a)
  BY DEF IsAnonymous
<1>2. PICK u \in Types : \E k \in DOMAIN FieldTypes[u] :
        /\ FieldsOf(a) = {<<u, k>>} /\ IsStruct(u) /\ registry[u].fields[k].ind = 0
  BY <1>1 DEF RegistryOK, Declarable
<1>3. PICK k \in DOMAIN FieldTypes[u] :
        /\ FieldsOf(a) = {<<u, k>>} /\ IsStruct(u) /\ registry[u].fields[k].ind = 0
  BY <1>2
<1>4. ASSUME NEW z \in Types, NEW m \in DOMAIN registry[z].fields,
             registry[z].fields[m].type = a
      PROVE  z = u /\ m = k
  <2>1. m \in DOMAIN FieldTypes[z] /\ FieldTypes[z][m] = a
    BY <1>4, RegistryFacts
  <2>2. <<z, m>> \in FieldsOf(a)
    <3> DEFINE of(w) == {<<w, n>> : n \in {i \in DOMAIN FieldTypes[w] : FieldTypes[w][i] = a}}
    <3>1. <<z, m>> \in of(z)
      BY <2>1
    <3>2. FieldsOf(a) = UNION {of(w) : w \in Types}
      BY DEF FieldsOf
    <3> HIDE DEF of
    <3> QED
      BY <3>1, <3>2
  <2> QED
    BY <1>3, <2>2
<1>5. PICK m \in DOMAIN registry[v].fields : f = registry[v].fields[m]
  BY DEF FieldSet, ToSet
<1>6. v = u /\ m = k /\ f.ind = 0
  BY <1>3, <1>4, <1>5
<1>7. a \in Held(v)
  <2>1. a \in TypesIn({g \in FieldSet(v) : g.ind = 0})
    BY <1>6 DEF TypesIn
  <2>2. ~Is(v, "alias")
    BY <1>3, <1>6 DEF IsStruct, Is
  <2> QED
    BY <1>3, <1>6, <2>1, <2>2 DEF Held
<1>8. ASSUME NEW z \in Types, a \in Fields[z] PROVE z = v
  <2>1. PICK g \in FieldSet(z) : g.type = a
    BY <1>8 DEF Fields, TypesIn
  <2>2. PICK n \in DOMAIN registry[z].fields : g = registry[z].fields[n]
    BY DEF FieldSet, ToSet
  <2> QED
    BY <1>4, <1>6, <2>1, <2>2
<1> QED
  BY <1>1, <1>3, <1>6, <1>7, <1>8

(* The types that are written out inside x, the i-th in the order of the    *)
(* walk, if none of them leads back to x: they come before it in that order. *)
Inner(x, i) ==
  {v \in Types :
     /\ \E h \in 1 .. i : CollectStructTypes[h] = v
     /\ v = x \/ v \in Holding(x)
     /\ v = x \/ \E a \in Fields[x] : IsAnonymous(a) /\ v \in Closure(Fields, {a})
     /\ \A w \in Types :
          v \in Closure(Fields, {w}) => w = v \/ v \in Holding(w) \/ x \in Closure(Fields, {w})}

LEMMA FieldsAre ==
  ASSUME registry \in [Types -> Definitions], NEW v \in Types
  PROVE  /\ Fields[v] = TypesIn(FieldSet(v))
         /\ Edges(FieldTypes, Structs)[v] = Fields[v] \cap Structs
<1>1. ToSet(FieldTypes[v]) = TypesIn(FieldSet(v))
  BY RegistryFacts
<1> QED
  BY <1>1 DEF Fields, Edges

(* x holds t, which was walked before it or leads to it.                    *)
WalkedOrBack(x, i, t) ==
  /\ t # x /\ t \in Holding(x)
  /\ (\E j \in 1 .. i - 1 : CollectStructTypes[j] = t) \/ x \in Closure(Fields, {t})

LEMMA InnerLeads ==
  ASSUME RegistryOK, NEW x \in Types, NEW i \in DOMAIN CollectStructTypes,
         NEW v \in Inner(x, i), NEW t \in Structs, t \in Fields[v], t \in Held(v)
  PROVE  WalkedOrBack(x, i, t)
<1> registry \in [Types -> Definitions]
  BY DEF RegistryOK
<1> DEFINE C == CollectStructTypes
           E == Edges(FieldTypes, Structs)
<1>1. /\ Holds(C, Structs)
      /\ \A k \in DOMAIN C : \A u \in E[C[k]] : Settled(FieldTypes, Structs, {}, C, k, u)
  BY CollectIs, DeclarableSays
<1>2. \A w \in Types : w \notin Holding(w)
  BY DeclarableSays DEF NothingHoldsItself
<1> HIDE DEF C, E
<1>3. t \in Types /\ v \in Types
  BY DEF Structs, Inner
<1>4. t \in Holding(v)
  BY <1>3, HoldingIs
<1>5. t \in Holding(x)
  <2>1. v = x \/ v \in Holding(x)
    BY DEF Inner
  <2> QED
    BY <1>3, <1>4, <2>1, HoldingIs
<1>6. PICK h \in 1 .. i : C[h] = v
  BY DEF Inner, C
<1>7. h \in DOMAIN C
  <2>1. DOMAIN C = 1 .. Len(C) /\ Len(C) \in Nat /\ i \in DOMAIN C
    BY <1>1, LenProperties DEF Holds, C
  <2> QED
    BY <2>1
<1>8. t \in E[C[h]]
  BY <1>3, <1>6, FieldsAre DEF E
<1>9. Settled(FieldTypes, Structs, {}, C, h, t)
  BY <1>1, <1>7, <1>8
<1>10. CASE \E j \in 1 .. h - 1 : C[j] = t
  <2>1. PICK j \in 1 .. h - 1 : C[j] = t
    BY <1>10
  <2>2. i \in Nat /\ j \in 1 .. i - 1
    BY <1>1, <1>6, LenProperties DEF Holds, C
  <2> QED
    BY <1>2, <1>5, <2>1, <2>2 DEF C, WalkedOrBack
<1>11. CASE v \in Closure(E, {t})
  <2>1. \A w \in Types : E[w] \subseteq Fields[w]
    BY FieldsAre DEF E
  <2>2. v \in Closure(Fields, {t})
    BY <1>11, <2>1, ClosureMore
  <2>3. t = v \/ v \in Holding(t) \/ x \in Closure(Fields, {t})
    BY <1>3, <2>2 DEF Inner
  <2>4. t # v
    BY <1>2, <1>3, <1>4
  <2>5. v \notin Holding(t)
    BY <1>2, <1>3, HoldingIs
  <2> QED
    BY <1>2, <1>5, <2>3, <2>4, <2>5 DEF WalkedOrBack
<1> QED
  BY <1>6, <1>9, <1>10, <1>11 DEF Settled, E

LEMMA InnerStep ==
  ASSUME RegistryOK, NEW x \in Types, ~IsAnonymous(x), NEW i \in DOMAIN CollectStructTypes,
         \A a \in Fields[x] : IsAnonymous(a) => x \notin Referring(a),
         NEW v \in Inner(x, i), NEW f \in FieldSet(v), IsAnonymous(f.type)
  PROVE  f.type \in Inner(x, i)
<1> registry \in [Types -> Definitions]
  BY DEF RegistryOK
<1> DEFINE t == f.type
<1>1. v \in Types
  BY DEF Inner
<1>2. /\ IsStruct(v) /\ t \in Types /\ t \in Held(v)
      /\ \A z \in Types : t \in Fields[z] => z = v
  BY <1>1, OneParent
<1>3. t \in Fields[v] /\ IsAnonymous(t) /\ t \in Structs
  BY <1>1, <1>2, FieldsAre, DeclarableSays DEF TypesIn, AnonymousAreStructs, Structs
<1> HIDE DEF t
<1>4. /\ t # x /\ t \in Holding(x)
      /\ (\E j \in 1 .. i - 1 : CollectStructTypes[j] = t) \/ x \in Closure(Fields, {t})
  <2>1. t \in Structs /\ t \in Fields[v] /\ t \in Held(v)
    BY <1>2, <1>3
  <2>2. WalkedOrBack(x, i, t)
    BY <2>1, InnerLeads
  <2> QED
    BY <2>2 DEF WalkedOrBack
<1>5. PICK a \in Fields[x] : IsAnonymous(a) /\ a \in Types /\ t \in Closure(Fields, {a})
  <2>1. CASE v = x
    <3>1. t \in Closure(Fields, {t})
      BY <1>2, ClosureIs
    <3> QED
      BY <1>2, <1>3, <2>1, <3>1
  <2>2. CASE v # x
    <3>1. PICK a \in Fields[x] : IsAnonymous(a) /\ v \in Closure(Fields, {a})
      BY <2>2 DEF Inner
    <3>2. t \in Closure(Fields, {a})
      BY <1>2, <1>3, <3>1, ClosureIs
    <3> QED
      BY <3>1, <3>2 DEF IsAnonymous
  <2> QED
    BY <2>1, <2>2
<1>6. x \notin Closure(Fields, {t})
  <2> SUFFICES ASSUME x \in Closure(Fields, {t}) PROVE FALSE
    OBVIOUS
  <2>1. x \in Closure(Fields, {a})
    <3>1. Closure(Fields, {t}) \subseteq Closure(Fields, {a})
      BY <1>5, ClosureWider
    <3> QED
      BY <3>1
  <2>2. x # a
    BY <1>5
  <2>3. x \in Closure(Fields, Fields[a])
    BY <2>1, <2>2, ClosureStep
  <2> QED
    BY <1>5, <2>3, ReferringIs
<1>7. \E j \in 1 .. i : CollectStructTypes[j] = t
  <2>1. i \in Nat
    BY CollectIs, DeclarableSays, LenProperties DEF Holds
  <2>2. 1 .. i - 1 \subseteq 1 .. i
    BY <2>1
  <2> QED
    BY <1>4, <1>6, <2>2
<1>8. ASSUME NEW w \in Types, t \in Closure(Fields, {w})
      PROVE  w = t \/ t \in Holding(w) \/ x \in Closure(Fields, {w})
  <2> SUFFICES ASSUME w # t PROVE t \in Holding(w) \/ x \in Closure(Fields, {w})
    OBVIOUS
  <2>1. PICK z \in Closure(Fields, {w}) : t \in Fields[z]
    BY <1>8, LastStep
  <2>2. z \in Types
    BY ClosureIs
  <2>3. v \in Closure(Fields, {w})
    BY <1>2, <2>1, <2>2
  <2>4. w = v \/ v \in Holding(w) \/ x \in Closure(Fields, {w})
    BY <2>3 DEF Inner
  <2> QED
    BY <1>2, <2>4, HoldingIs
<1>9. t \in Inner(x, i)
  BY <1>2, <1>4, <1>5, <1>7, <1>8 DEF Inner
<1> QED
  BY <1>9 DEF t

(* A struct that x holds has its body above, or leads to x.                 *)
LEMMA CompleteInTurn ==
  ASSUME RegistryOK, NEW k \in DOMAIN HeaderStructs, NEW x, x = HeaderStructs[k],
         \A a \in Fields[x] : IsAnonymous(a) => x \notin Referring(a),
         NEW f \in Members(x), f.ind = 0, f.type \in HeaderNames,
         f.type \notin Ahead(HeaderStructs, k)
  PROVE  x \in Referring(f.type)
<1> registry \in [Types -> Definitions]
  BY DEF RegistryOK
<1> DEFINE C == CollectStructTypes
           S == {t \in Types : ~IsAnonymous(t) /\ ~IsGiven(t)}
           t == f.type
<1>1. Holds(HeaderStructs, HeaderNames) /\ Holds(C, Structs)
  BY HeaderStructsAre, CollectIs, DeclarableSays
<1>2. x \in HeaderNames /\ x \in Types /\ ~IsAnonymous(x)
  BY <1>1, HoldsTyped DEF HeaderNames
<1>3. InOrder(HeaderStructs, C, S)
  <2>1. C \in Seq(Types)
    BY <1>1 DEF Holds
  <2> HIDE DEF C, S
  <2>2. InOrder(Only(C, S), C, S)
    BY <2>1, OnlyIs
  <2> QED
    BY <2>2 DEF HeaderStructs, C, S
<1> HIDE DEF S
<1>4. PICK i \in DOMAIN C :
        /\ C[i] = x
        /\ \A h \in 1 .. i - 1 : C[h] \in S => \E j \in 1 .. k - 1 : HeaderStructs[j] = C[h]
  BY <1>3 DEF InOrder
<1>5. Inlined(x) \subseteq Inner(x, i)
  <2> DEFINE leads == [u \in Types |-> TypesIn({g \in FieldSet(u) : InPlace(g)})]
  <2>1. x \in Inner(x, i)
    <3>1. i \in 1 .. i
      BY <1>1, LenProperties DEF Holds
    <3> QED
      BY <1>2, <1>4, <3>1 DEF Inner
  <2>2. ASSUME NEW v \in Inner(x, i), NEW a \in leads[v] PROVE a \in Inner(x, i)
    <3>1. v \in Types
      BY DEF Inner
    <3>2. PICK g \in FieldSet(v) : InPlace(g) /\ a = g.type
      BY <3>1 DEF TypesIn
    <3> QED
      BY <1>2, <3>2, InnerStep DEF InPlace
  <2>3. Inner(x, i) \in SUBSET Types
    BY DEF Inner
  <2> HIDE DEF leads
  <2>4. Closure(leads, {x}) \subseteq Inner(x, i)
    BY <2>1, <2>2, <2>3, ClosureWithin
  <2> QED
    BY <2>4 DEF Inlined, leads
<1>6. PICK u \in Inlined(x) : f \in FieldSet(u)
  <2> DEFINE fields == UNION {FieldSet(u) : u \in Inlined(x)}
  <2>1. f \in fields
    BY DEF Members
  <2> QED
    BY <2>1
<1>7. u \in Inner(x, i) /\ u \in Types
  BY <1>5, <1>6 DEF Inner
<1>8. t \in Types /\ t \in Structs /\ t \in S
  BY DEF HeaderNames, Structs, S
<1>9. t \in Fields[u] /\ t \in Held(u)
  <2>1. t \in TypesIn(FieldSet(u)) /\ t \in TypesIn({g \in FieldSet(u) : g.ind = 0})
    BY <1>6 DEF TypesIn
  <2>2. IsStruct(u)
    <3>1. \A h \in DOMAIN C : C[h] \in Structs
      BY <1>1, HoldsTyped
    <3>2. PICK h \in 1 .. i : C[h] = u
      BY <1>7 DEF Inner
    <3>3. h \in DOMAIN C
      BY <1>1, LenProperties DEF Holds
    <3> QED
      BY <3>1, <3>2, <3>3 DEF Structs
  <2>3. ~Is(u, "alias")
    BY <2>2 DEF IsStruct, Is
  <2> QED
    BY <1>7, <2>1, <2>2, <2>3, FieldsAre DEF Held
<1> HIDE DEF t
<1>10. /\ t # x
       /\ (\E j \in 1 .. i - 1 : C[j] = t) \/ x \in Closure(Fields, {t})
  BY <1>2, <1>7, <1>8, <1>9, InnerLeads DEF WalkedOrBack, C
<1>11. ~ \E j \in 1 .. i - 1 : C[j] = t
  <2> SUFFICES ASSUME NEW j \in 1 .. i - 1, C[j] = t PROVE FALSE
    OBVIOUS
  <2>1. \E h \in 1 .. k - 1 : HeaderStructs[h] = t
    BY <1>4, <1>8
  <2> QED
    BY <2>1 DEF Ahead, t
<1>12. x \in Closure(Fields, Fields[t])
  BY <1>10, <1>11, ClosureStep
<1> QED
  BY <1>8, <1>12, ReferringIs DEF t

BodiesPart == As("body", HeaderStructs)

LEMMA BodiesPlaced ==
  ASSUME RegistryOK
  PROVE  HeaderPart(BodiesPart, AfterAliases, AfterBodies)
<1> registry \in [Types -> Definitions] /\ NothingHoldsItself
  BY DeclarableSays DEF RegistryOK
<1> DEFINE L == HeaderStructs
<1>1. Holds(L, HeaderNames)
  BY HeaderStructsAre, DeclarableSays
<1>2. AfterAliases \in SUBSET HeaderDecls
  BY AftersTyped
<1>3. ASSUME NEW k \in DOMAIN L,
             AfterAliases \cup Decl("body", Ahead(L, k)) \in SUBSET HeaderDecls
      PROVE  <<[what |-> "body", name |-> L[k]], AfterAliases \cup Decl("body", Ahead(L, k))>>
               \in HeaderRight
  <2> DEFINE x == L[k]
             d == [what |-> "body", name |-> x]
             E == AfterAliases \cup Decl("body", Ahead(L, k))
  <2>1. x \in HeaderNames /\ x \in Types
    BY <1>1, HoldsTyped DEF HeaderNames
  <2>2. d \in HeaderDecls /\ d.what = "body" /\ d.name = x
    BY <2>1 DEF HeaderDecls, HeaderWhat
  <2>3. E \in SUBSET HeaderDecls /\ AfterAliases \subseteq E
    BY <1>3
  <2>4. \A t : [what |-> "body", name |-> t] \notin E => t \notin Ahead(L, k)
    BY DEF Decl
  <2>5. x = HeaderStructs[k] /\ k \in DOMAIN HeaderStructs
    OBVIOUS
  <2> HIDE DEF d, E, x
  <2>6. Uses(d) \subseteq Given \cup NamesIn(E)
    BY <2>1, <2>2, <2>3, UsesMembers
  <2>7. ASSUME NEW t \in Incomplete(d, E), ~Is(t, "alias")
        PROVE  Excused(d, t)
    <3>1. /\ \E f \in Members(d.name) : f.ind = 0 /\ f.type = t
          /\ t \in HeaderNames
          /\ [what |-> "body", name |-> t] \notin E
      BY <2>1, <2>2, <2>7, IncompleteIs
    <3>2. PICK f \in Members(x) : f.ind = 0 /\ f.type = t
      BY <2>2, <3>1
    <3>3. t \notin Ahead(L, k)
      BY <2>4, <3>1
    <3>4. CASE \A a \in Fields[x] : IsAnonymous(a) => x \notin Referring(a)
      <4>1. x \in Referring(f.type)
        BY <2>5, <3>1, <3>2, <3>3, <3>4, CompleteInTurn
      <4> QED
        BY <2>2, <3>2, <4>1 DEF Excused
    <3>5. CASE \E a \in Fields[x] : IsAnonymous(a) /\ x \in Referring(a)
      <4>1. PICK a \in TypesIn(FieldSet(x)) : IsAnonymous(a) /\ x \in Referring(a)
        BY <2>1, <3>5 DEF Fields
      <4>2. PICK g \in FieldSet(x) : g.type = a
        BY DEF TypesIn
      <4> QED
        BY <2>2, <4>1, <4>2 DEF Excused
    <3> QED
      BY <3>4, <3>5
  <2>8. \A t \in Incomplete(d, E) : Excused(d, t)
    BY <2>7 DEF Excused
  <2>9. <<d, E>> \in HeaderRight
    BY <2>2, <2>3, <2>6, <2>8, RightIs
  <2> QED
    BY <2>9 DEF d, E, x
<1> HIDE DEF L
<1>4. \A t \in ToSet(L) : [what |-> "body", name |-> t] \notin AfterAliases
  <2>1. HeaderNames \cap EnumNames = {}
    BY DEF HeaderNames, EnumNames, IsStruct, Is
  <2> QED
    BY <1>1, <2>1, HoldsTyped, BodiesAre
<1>5. HeaderPart(As("body", L), AfterAliases, AfterAliases \cup Decl("body", ToSet(L)))
  BY <1>1, <1>2, <1>3, <1>4, HoldsTyped, HeaderAs DEF HeaderWhat
<1> QED
  BY <1>1, <1>5, HoldsTyped DEF BodiesPart, AfterBodies, L

---------------------------------------------------------------------------
(* The codec headers *)

CodecWhat == {"ahead", "codec", "manual"}
CodecDecls == [what : CodecWhat, name : Types]

(* A helper that d may call below the declarations in E.                    *)
Callable(d, t, E) ==
  \/ t \in HelpersGiven \cup NamesIn(E)
  \/ t = "unknown"
  \/ Is(d.name, "alias") /\ (Is(t, "interface") \/ registry[t].manual)

CodecRight ==
  {w \in CodecDecls \X SUBSET CodecDecls : \A t \in Calls(w[1]) : Callable(w[1], t, w[2])}

CodecPart(p, E, E2) ==
  WellPlaced(p, CodecDecls, E, CodecRight, {"codec", "manual"}) /\ E \cup ToSet(p) = E2

LEMMA CodecGrows ==
  ASSUME NEW E, NEW E2, NEW E3, NEW p, NEW q, CodecPart(p, E, E2), CodecPart(q, E2, E3)
  PROVE  CodecPart(p \o q, E, E3)
<1> DEFINE Defining == {"codec", "manual"}
<1> HIDE DEF Defining
<1>1. /\ WellPlaced(p, CodecDecls, E, CodecRight, Defining)
      /\ WellPlaced(q, CodecDecls, E \cup ToSet(p), CodecRight, Defining)
  BY DEF CodecPart, Defining
<1>2. /\ WellPlaced(p \o q, CodecDecls, E, CodecRight, Defining)
      /\ ToSet(p \o q) = ToSet(p) \cup ToSet(q)
  BY <1>1, PlacedConcat
<1> QED
  BY <1>2 DEF CodecPart, Defining

LEMMA CodecAs ==
  ASSUME NEW names \in Seq(Types), NEW what \in CodecWhat, NEW E \in SUBSET CodecDecls,
         \A k \in DOMAIN names : \A t \in Calls([what |-> what, name |-> names[k]]) :
           Callable([what |-> what, name |-> names[k]], t, E \cup Decl(what, Ahead(names, k))),
         what # "ahead" =>
           /\ IsInjective(names)
           /\ \A t \in ToSet(names) :
                [what |-> "codec", name |-> t] \notin E /\ [what |-> "manual", name |-> t] \notin E
  PROVE  /\ CodecPart(As(what, names), E, E \cup Decl(what, ToSet(names)))
         /\ E \cup Decl(what, ToSet(names)) \in SUBSET CodecDecls
<1> DEFINE Defining == {"codec", "manual"}
<1>1. ASSUME NEW k \in DOMAIN names
      PROVE  <<[what |-> what, name |-> names[k]], E \cup Decl(what, Ahead(names, k))>> \in CodecRight
  <2> DEFINE d == [what |-> what, name |-> names[k]]
             F == E \cup Decl(what, Ahead(names, k))
  <2>1. names[k] \in Types /\ Ahead(names, k) \in SUBSET Types
    BY AheadTyped
  <2>2. d \in CodecDecls /\ F \in SUBSET CodecDecls
    BY <2>1 DEF CodecDecls, Decl
  <2>3. \A t \in Calls(d) : Callable(d, t, F)
    OBVIOUS
  <2> HIDE DEF d, F
  <2>4. <<d, F>> \in CodecRight
    BY <2>2, <2>3 DEF CodecRight
  <2> QED
    BY <2>4 DEF d, F
<1>2. ASSUME what \in Defining
      PROVE  /\ IsInjective(names)
             /\ \A d \in E : d.what \in Defining => d.name \notin ToSet(names)
  <2>1. \A d \in E : d = [what |-> d.what, name |-> d.name]
    BY DEF CodecDecls
  <2> QED
    BY <1>2, <2>1
<1> HIDE DEF Defining
<1>3. WellPlaced(As(what, names), [what : CodecWhat, name : Types], E, CodecRight, Defining)
  BY <1>1, <1>2, PlacedAs
<1>4. ToSet(As(what, names)) = Decl(what, ToSet(names))
  <2>1. Declares(As(what, names), what, names, [what : CodecWhat, name : Types])
    BY AsIs
  <2> QED
    BY <2>1 DEF Declares
<1>5. Decl(what, ToSet(names)) \in SUBSET CodecDecls
  <2>1. \A t \in ToSet(names) : t \in Types
    BY DEF ToSet
  <2> QED
    BY <2>1 DEF Decl, CodecDecls
<1> QED
  BY <1>3, <1>4, <1>5 DEF CodecPart, CodecDecls, Defining

ManualNames == {t \in Types : IsStruct(t) /\ registry[t].manual}

(* What the codec headers have after each part.                             *)
AfterEnumCodecs == {} \cup Decl("codec", EnumNames)
AfterAhead == AfterEnumCodecs \cup Decl("ahead", CodecNames)
AfterTypes == AfterAhead \cup Decl("codec", ToSet(CodecAliases))
AfterAllAhead == AfterTypes \cup Decl("ahead", CodecNames \cup ManualNames)
AfterCodecs == AfterAllAhead \cup Decl("codec", CodecNames)
AfterStructs == AfterCodecs \cup Decl("manual", ManualNames)

TypesPart ==
  As("codec", Named("enum")) \o As("ahead", CodecTypes) \o As("codec", CodecAliases)

StructsPart ==
  As("ahead", CodecTypes \o ManualTypes) \o As("codec", CodecTypes)
    \o As("manual", ManualTypes)

LEMMA CallsNothing ==
  ASSUME NEW what \in CodecWhat, NEW t, what # "codec" \/ Is(t, "enum")
  PROVE  Calls([what |-> what, name |-> t]) = {}
<1> DEFINE d == [what |-> what, name |-> t]
<1>1. d.what # "codec" \/ Is(d.name, "enum")
  OBVIOUS
<1> HIDE DEF d
<1>2. ~(d.what = "codec" /\ Is(d.name, "alias"))
  BY <1>1 DEF Is
<1>3. Calls(d) = {}
  BY <1>1, <1>2, Zenon DEF Calls
<1> QED
  BY <1>3 DEF d

LEMMA AliasCallable ==
  ASSUME RegistryOK, NEW k \in DOMAIN CodecAliases,
         NEW t \in Calls([what |-> "codec", name |-> CodecAliases[k]])
  PROVE  Callable([what |-> "codec", name |-> CodecAliases[k]], t,
                  AfterAhead \cup Decl("codec", Ahead(CodecAliases, k)))
<1> registry \in [Types -> Definitions] /\ NothingHoldsItself
  BY DeclarableSays DEF RegistryOK
<1> DEFINE L == CodecAliases
           a == L[k]
           d == [what |-> "codec", name |-> a]
           E == AfterAhead \cup Decl("codec", Ahead(L, k))
<1>1. /\ L \in Seq(Types) /\ ToSet(L) \subseteq Aliases
      /\ registry[a].target \in Aliases => registry[a].target \in Ahead(L, k)
  BY CodecAliasesAre DEF SortedFrom, Ahead
<1>2. a \in Types /\ Is(a, "alias") /\ ~Is(a, "enum")
  BY <1>1, AheadTyped DEF Aliases, Is
<1>3. d.what = "codec" /\ d.name = a /\ t \in Calls(d)
  OBVIOUS
<1>4. NamesIn(E) = (EnumNames \cup CodecNames) \cup Ahead(L, k)
  <2>1. NamesIn(AfterEnumCodecs) = EnumNames
    BY NamesInDecl DEF AfterEnumCodecs
  <2>2. NamesIn(AfterAhead) = EnumNames \cup CodecNames
    BY <2>1, NamesInDecl, NamesInUnion DEF AfterAhead
  <2> QED
    BY <2>2, NamesInDecl, NamesInUnion
<1> HIDE DEF L, d, E, a
<1>5. t = registry[a].target
  <2>1. Calls(d) = {registry[a].target}
    BY <1>2, <1>3 DEF Calls
  <2> QED
    BY <1>3, <2>1
<1>6. t \in Types \cup {"prim"} /\ ~Is(t, "function") /\ ~IsAnonymous(t)
  BY <1>2, <1>5, RegistryFacts, DeclarableSays
<1>7. Callable(d, t, E)
  <2>1. CASE t \notin Types \/ IsBuiltin(t)
    BY <1>6, <2>1 DEF Callable, HelpersGiven, Leaves
  <2>2. CASE t \in Types /\ ~IsBuiltin(t)
    <3>1. registry[t].cat \in Category
      BY <2>2, RegistryFacts
    <3>2. Is(t, "alias") => t \in Ahead(L, k)
      BY <1>1, <1>5, <2>2 DEF Aliases
    <3>3. Is(t, "enum") => t \in EnumNames
      BY <2>2 DEF EnumNames
    <3>4. Is(t, "struct") /\ ~registry[t].manual => t \in CodecNames
      BY <1>6, <2>2 DEF CodecNames, IsStruct, Flattened
    <3>5. t \in NamesIn(E) \/ Is(t, "interface") \/ registry[t].manual
      BY <1>4, <1>6, <2>2, <3>1, <3>2, <3>3, <3>4 DEF Is, Category
    <3> QED
      BY <1>2, <1>3, <3>5 DEF Callable
  <2> QED
    BY <2>1, <2>2
<1> QED
  BY <1>7 DEF d, E, a, L

LEMMA StructCallable ==
  ASSUME RegistryOK, NEW x \in CodecNames, NEW E, AfterAllAhead \subseteq E,
         NEW t \in Calls([what |-> "codec", name |-> x])
  PROVE  Callable([what |-> "codec", name |-> x], t, E)
<1> registry \in [Types -> Definitions] /\ NothingHoldsItself
  BY DeclarableSays DEF RegistryOK
<1> DEFINE d == [what |-> "codec", name |-> x]
<1>1. d.what = "codec" /\ d.name = x /\ t \in Calls(d)
  OBVIOUS
<1> HIDE DEF d
<1>2. x \in Types /\ ~Is(x, "enum") /\ ~Is(x, "alias")
  BY DEF CodecNames, IsStruct, Is
<1>3. Calls(d) = TypesIn({f \in CodecMembers(x) : ~Is(Underlying(f.type), "interface")})
  BY <1>1, <1>2 DEF Calls
<1>4. PICK f \in CodecMembers(x) : ~Is(Underlying(f.type), "interface") /\ t = f.type
  BY <1>1, <1>3 DEF TypesIn
<1>5. PICK u \in Types : f \in FieldSet(u)
  <2> DEFINE fields == UNION {FieldSet(u) : u \in CodecInlined(x)}
  <2>1. f \in fields
    BY DEF CodecMembers
  <2>2. PICK u \in CodecInlined(x) : f \in FieldSet(u)
    BY <2>1
  <2> QED
    BY <2>2, ClosureIs DEF CodecInlined
<1>6. t \in Types \cup Leaves /\ ~Is(t, "function") /\ f.named \in BOOLEAN
  BY <1>4, <1>5, RegistryFacts, DeclarableSays DEF Field
<1>7. t \notin Flattened
  <2> SUFFICES ASSUME t \in Flattened PROVE FALSE
    OBVIOUS
  <2>1. IsAnonymous(t) /\ ~f.named
    BY <1>4, <1>5 DEF Flattened
  <2>2. ~CodecInPlace(f)
    BY DEF CodecMembers
  <2> QED
    BY <1>4, <2>1, <2>2 DEF CodecInPlace
<1>8. EnumNames \cup CodecNames \cup ManualNames \cup ToSet(CodecAliases) \subseteq NamesIn(E)
  <2>1. NamesIn(AfterEnumCodecs) = EnumNames
    BY NamesInDecl DEF AfterEnumCodecs
  <2>2. NamesIn(AfterAhead) = EnumNames \cup CodecNames
    BY <2>1, NamesInDecl, NamesInUnion DEF AfterAhead
  <2>3. NamesIn(AfterTypes) = NamesIn(AfterAhead) \cup ToSet(CodecAliases)
    BY NamesInDecl, NamesInUnion DEF AfterTypes
  <2>4. NamesIn(AfterAllAhead) = NamesIn(AfterTypes) \cup (CodecNames \cup ManualNames)
    BY NamesInDecl, NamesInUnion DEF AfterAllAhead
  <2>5. NamesIn(AfterAllAhead) \subseteq NamesIn(E)
    BY DEF NamesIn
  <2> QED
    BY <2>2, <2>3, <2>4, <2>5
<1>9. Callable(d, t, E)
  <2>1. CASE t \notin Types \/ IsBuiltin(t)
    BY <1>6, <2>1 DEF Callable, HelpersGiven, Leaves
  <2>2. CASE t \in Types /\ ~IsBuiltin(t)
    <3>1. registry[t].cat \in Category
      BY <2>2, RegistryFacts
    <3>2. ~Is(t, "interface")
      <4>1. Is(t, "interface") => Underlying(t) = t
        BY <1>6, UnderlyingIs DEF Is
      <4> QED
        BY <1>4, <4>1
    <3>3. ~IsInterfaceAlias(t)
      <4>1. IsInterfaceAlias(t) => Underlying(t) = registry[t].target
        BY <1>6, UnderlyingIs DEF IsInterfaceAlias, Is
      <4> QED
        BY <1>4, <4>1 DEF IsInterfaceAlias
    <3>4. Is(t, "alias") => t \in ToSet(CodecAliases)
      BY <2>2, <3>3, CodecAliasesAre DEF SortedFrom, Aliases
    <3>5. Is(t, "enum") => t \in EnumNames
      BY <2>2 DEF EnumNames
    <3>6. Is(t, "struct") => t \in CodecNames \cup ManualNames
      BY <1>7, <2>2 DEF CodecNames, ManualNames, IsStruct
    <3>7. t \in NamesIn(E)
      BY <1>6, <1>8, <2>2, <3>1, <3>2, <3>4, <3>5, <3>6 DEF Is, Category
    <3> QED
      BY <3>7 DEF Callable
  <2> QED
    BY <2>1, <2>2
<1> QED
  BY <1>9 DEF d

(* Which names have codecs after each part.                                 *)
LEMMA CodecsAre ==
  ASSUME RegistryOK, NEW t
  PROVE  /\ \A what : [what |-> what, name |-> t] \in AfterAhead /\ what # "ahead" => t \in EnumNames
         /\ \A what : [what |-> what, name |-> t] \in AfterAllAhead /\ what # "ahead"
              => t \in EnumNames \cup Aliases
         /\ \A what : [what |-> what, name |-> t] \in AfterCodecs /\ what # "ahead"
              => t \in (EnumNames \cup Aliases) \cup CodecNames
<1> registry \in [Types -> Definitions] /\ NothingHoldsItself
  BY DeclarableSays DEF RegistryOK
<1>1. ToSet(CodecAliases) \subseteq Aliases
  BY CodecAliasesAre DEF SortedFrom
<1> DEFINE Made(what) == [what |-> what, name |-> t]
<1>2. \A what, w : \A S : Made(what) \in Decl(w, S) => what = w /\ t \in S
  BY DEF Decl
<1> HIDE DEF Made
<1>3. \A what : Made(what) \in AfterAhead /\ what # "ahead" => t \in EnumNames
  BY <1>2 DEF AfterAhead, AfterEnumCodecs
<1>4. \A what : Made(what) \in AfterTypes /\ what # "ahead" => t \in EnumNames \cup Aliases
  BY <1>1, <1>2, <1>3 DEF AfterTypes
<1>5. \A what : Made(what) \in AfterAllAhead /\ what # "ahead" => t \in EnumNames \cup Aliases
  BY <1>2, <1>4 DEF AfterAllAhead
<1>6. \A what : Made(what) \in AfterCodecs /\ what # "ahead"
        => t \in (EnumNames \cup Aliases) \cup CodecNames
  BY <1>2, <1>5 DEF AfterCodecs
<1> QED
  BY <1>3, <1>5, <1>6 DEF Made

LEMMA TypesPlaced ==
  ASSUME RegistryOK
  PROVE  CodecPart(TypesPart, {}, AfterTypes) /\ AfterTypes \in SUBSET CodecDecls
<1> registry \in [Types -> Definitions] /\ NothingHoldsItself
  BY DeclarableSays DEF RegistryOK
<1> DEFINE L1 == Named("enum")
           L2 == CodecTypes
           L3 == CodecAliases
<1>1. Holds(L1, EnumNames) /\ Holds(L2, CodecNames)
  BY NamedIs, CodecTypesAre DEF EnumNames
<1>2. L3 \in Seq(Types) /\ IsInjective(L3) /\ ToSet(L3) \subseteq Aliases
  BY CodecAliasesAre DEF SortedFrom
<1> HIDE DEF L1, L2, L3
<1>3. CodecPart(As("codec", L1), {}, AfterEnumCodecs) /\ AfterEnumCodecs \in SUBSET CodecDecls
  <2>0. \A k \in DOMAIN L1 : Calls([what |-> "codec", name |-> L1[k]]) = {}
    BY <1>1, HoldsTyped, CallsNothing DEF EnumNames, CodecWhat
  <2>1. \A k \in DOMAIN L1 : \A t \in Calls([what |-> "codec", name |-> L1[k]]) :
          Callable([what |-> "codec", name |-> L1[k]], t, {} \cup Decl("codec", Ahead(L1, k)))
    BY <2>0
  <2>2. /\ CodecPart(As("codec", L1), {}, {} \cup Decl("codec", ToSet(L1)))
        /\ {} \cup Decl("codec", ToSet(L1)) \in SUBSET CodecDecls
    BY <1>1, <2>1, CodecAs DEF Holds, CodecWhat
  <2>3. ToSet(L1) = EnumNames
    BY <1>1 DEF Holds
  <2> QED
    BY <2>2, <2>3 DEF AfterEnumCodecs
<1>4. CodecPart(As("ahead", L2), AfterEnumCodecs, AfterAhead) /\ AfterAhead \in SUBSET CodecDecls
  <2>0. \A k \in DOMAIN L2 : Calls([what |-> "ahead", name |-> L2[k]]) = {}
    BY CallsNothing DEF CodecWhat
  <2>1. \A k \in DOMAIN L2 : \A t \in Calls([what |-> "ahead", name |-> L2[k]]) :
          Callable([what |-> "ahead", name |-> L2[k]], t, AfterEnumCodecs \cup Decl("ahead", Ahead(L2, k)))
    BY <2>0
  <2>2. /\ CodecPart(As("ahead", L2), AfterEnumCodecs, AfterEnumCodecs \cup Decl("ahead", ToSet(L2)))
        /\ AfterEnumCodecs \cup Decl("ahead", ToSet(L2)) \in SUBSET CodecDecls
    BY <1>1, <1>3, <2>1, CodecAs DEF Holds, CodecWhat
  <2>3. ToSet(L2) = CodecNames
    BY <1>1 DEF Holds
  <2> QED
    BY <2>2, <2>3 DEF AfterAhead
<1>5. CodecPart(As("codec", L3), AfterAhead, AfterTypes) /\ AfterTypes \in SUBSET CodecDecls
  <2>1. \A k \in DOMAIN L3 : \A t \in Calls([what |-> "codec", name |-> L3[k]]) :
          Callable([what |-> "codec", name |-> L3[k]], t, AfterAhead \cup Decl("codec", Ahead(L3, k)))
    BY AliasCallable DEF L3
  <2>2. \A t \in ToSet(L3) :
          [what |-> "codec", name |-> t] \notin AfterAhead /\ [what |-> "manual", name |-> t] \notin AfterAhead
    <3>1. Aliases \cap EnumNames = {}
      BY DEF Aliases, EnumNames, Is
    <3> QED
      BY <1>2, <3>1, CodecsAre
  <2>3. /\ CodecPart(As("codec", L3), AfterAhead, AfterAhead \cup Decl("codec", ToSet(L3)))
        /\ AfterAhead \cup Decl("codec", ToSet(L3)) \in SUBSET CodecDecls
    BY <1>2, <1>4, <2>1, <2>2, CodecAs DEF CodecWhat
  <2> QED
    BY <2>3 DEF AfterTypes, L3
<1>6. CodecPart((As("codec", L1) \o As("ahead", L2)) \o As("codec", L3), {}, AfterTypes)
  BY <1>3, <1>4, <1>5, CodecGrows
<1> QED
  BY <1>5, <1>6 DEF TypesPart, L1, L2, L3

LEMMA StructsPlaced ==
  ASSUME RegistryOK
  PROVE  CodecPart(StructsPart, AfterTypes, AfterStructs)
<1> registry \in [Types -> Definitions] /\ NothingHoldsItself
  BY DeclarableSays DEF RegistryOK
<1> DEFINE L1 == CodecTypes \o ManualTypes
           L2 == CodecTypes
           L3 == ManualTypes
<1>1. Holds(L2, CodecNames) /\ Holds(L3, ManualNames)
  BY CodecTypesAre, ManualIs DEF ManualNames
<1>2. L1 \in Seq(Types) /\ ToSet(L1) = CodecNames \cup ManualNames
  BY <1>1, ConcatFacts DEF Holds
<1> HIDE DEF L1, L2, L3
<1>3. CodecPart(As("ahead", L1), AfterTypes, AfterAllAhead) /\ AfterAllAhead \in SUBSET CodecDecls
  <2>0. \A k \in DOMAIN L1 : Calls([what |-> "ahead", name |-> L1[k]]) = {}
    BY CallsNothing DEF CodecWhat
  <2>1. \A k \in DOMAIN L1 : \A t \in Calls([what |-> "ahead", name |-> L1[k]]) :
          Callable([what |-> "ahead", name |-> L1[k]], t, AfterTypes \cup Decl("ahead", Ahead(L1, k)))
    BY <2>0
  <2>2. AfterTypes \in SUBSET CodecDecls
    BY TypesPlaced
  <2>3. /\ CodecPart(As("ahead", L1), AfterTypes, AfterTypes \cup Decl("ahead", ToSet(L1)))
        /\ AfterTypes \cup Decl("ahead", ToSet(L1)) \in SUBSET CodecDecls
    BY <1>2, <2>1, <2>2, CodecAs DEF CodecWhat
  <2> QED
    BY <1>2, <2>3 DEF AfterAllAhead
<1>4. CodecPart(As("codec", L2), AfterAllAhead, AfterCodecs) /\ AfterCodecs \in SUBSET CodecDecls
  <2>1. \A k \in DOMAIN L2 : \A t \in Calls([what |-> "codec", name |-> L2[k]]) :
          Callable([what |-> "codec", name |-> L2[k]], t, AfterAllAhead \cup Decl("codec", Ahead(L2, k)))
    BY <1>1, HoldsTyped, StructCallable
  <2>2. \A t \in ToSet(L2) :
          [what |-> "codec", name |-> t] \notin AfterAllAhead /\ [what |-> "manual", name |-> t] \notin AfterAllAhead
    <3>1. CodecNames \cap (EnumNames \cup Aliases) = {}
      BY DEF CodecNames, Aliases, EnumNames, IsStruct, Is
    <3> QED
      BY <1>1, <3>1, CodecsAre DEF Holds
  <2>3. /\ CodecPart(As("codec", L2), AfterAllAhead, AfterAllAhead \cup Decl("codec", ToSet(L2)))
        /\ AfterAllAhead \cup Decl("codec", ToSet(L2)) \in SUBSET CodecDecls
    BY <1>1, <1>3, <2>1, <2>2, CodecAs DEF Holds, CodecWhat
  <2>4. ToSet(L2) = CodecNames
    BY <1>1 DEF Holds
  <2> QED
    BY <2>3, <2>4 DEF AfterCodecs
<1>5. CodecPart(As("manual", L3), AfterCodecs, AfterStructs)
  <2>0. \A k \in DOMAIN L3 : Calls([what |-> "manual", name |-> L3[k]]) = {}
    BY CallsNothing DEF CodecWhat
  <2>1. \A k \in DOMAIN L3 : \A t \in Calls([what |-> "manual", name |-> L3[k]]) :
          Callable([what |-> "manual", name |-> L3[k]], t, AfterCodecs \cup Decl("manual", Ahead(L3, k)))
    BY <2>0
  <2>2. \A t \in ToSet(L3) :
          [what |-> "codec", name |-> t] \notin AfterCodecs /\ [what |-> "manual", name |-> t] \notin AfterCodecs
    <3>1. ManualNames \cap ((EnumNames \cup Aliases) \cup CodecNames) = {}
      BY DEF ManualNames, CodecNames, Aliases, EnumNames, IsStruct, Is
    <3> QED
      BY <1>1, <3>1, CodecsAre DEF Holds
  <2>3. CodecPart(As("manual", L3), AfterCodecs, AfterCodecs \cup Decl("manual", ToSet(L3)))
    BY <1>1, <1>4, <2>1, <2>2, CodecAs DEF Holds, CodecWhat
  <2>4. ToSet(L3) = ManualNames
    BY <1>1 DEF Holds
  <2> QED
    BY <2>3, <2>4 DEF AfterStructs
<1>6. CodecPart((As("ahead", L1) \o As("codec", L2)) \o As("manual", L3), AfterTypes, AfterStructs)
  BY <1>3, <1>4, <1>5, CodecGrows
<1> QED
  BY <1>6 DEF StructsPart, L1, L2, L3

---------------------------------------------------------------------------
(* The registry stays, and so does all that is defined from it *)

LEMMA SameRegistry ==
  ASSUME registry' = registry
  PROVE  RegistryOK' <=> RegistryOK
  BY DEF RegistryOK, Declarable, Holding, Held, IsAnonymous, IsStruct, Is, FieldsOf,
         FieldTypes, FieldSet, IsGiven, Underlying

LEMMA SameStructs ==
  ASSUME registry' = registry
  PROVE  CollectStructTypes' = CollectStructTypes /\ HeaderStructs' = HeaderStructs
  BY DEF CollectStructTypes, HeaderStructs, FieldTypes, IsStruct, Is, AnonymousTypes, Named,
         IsAnonymous, IsGiven

LEMMA SameAliases ==
  ASSUME registry' = registry
  PROVE  HeaderAliases' = HeaderAliases /\ CodecAliases' = CodecAliases
  BY DEF HeaderAliases, CodecAliases, SortAliases, Named, Is, IsGiven, IsBuiltin,
         IsInterfaceAlias

LEMMA SameNames ==
  ASSUME registry' = registry
  PROVE  /\ InterfaceNames' = InterfaceNames /\ InterfaceAliases' = InterfaceAliases
         /\ HeaderNames' = HeaderNames /\ EnumNames' = EnumNames
         /\ AnonymousNames' = AnonymousNames /\ FunctionNames' = FunctionNames
         /\ UndefinedTypes' = UndefinedTypes /\ ManualNames' = ManualNames
         /\ CodecNames' = CodecNames
  BY DEF InterfaceNames, InterfaceAliases, HeaderNames, EnumNames, AnonymousNames,
         FunctionNames, UndefinedTypes, ManualNames, CodecNames, Flattened, Is, IsStruct,
         IsGiven, IsBuiltin, IsAnonymous, IsInterfaceAlias, FieldSet

LEMMA SameHeader ==
  ASSUME registry' = registry
  PROVE  HeaderRight' = HeaderRight
  BY DEF HeaderRight, Uses, Incomplete, Excused, Embeds, Members, Inlined, InPlace, Given,
         IsGiven, IsAnonymous, IsStruct, Is, FieldSet, Underlying, Referring

LEMMA SameCodecs ==
  ASSUME registry' = registry
  PROVE  CodecRight' = CodecRight
  BY DEF CodecRight, Callable, Calls, CodecMembers, CodecInlined, CodecInPlace, HelpersGiven,
         IsBuiltin, IsAnonymous, Is, FieldSet, Underlying

LEMMA SameAfters ==
  ASSUME registry' = registry
  PROVE  /\ AfterForwards' = AfterForwards /\ AfterPlaceholders' = AfterPlaceholders
         /\ AfterEnums' = AfterEnums /\ AfterAliases' = AfterAliases
         /\ AfterBodies' = AfterBodies /\ AfterAnonymous' = AfterAnonymous
         /\ AfterFunctions' = AfterFunctions
         /\ AfterTypes' = AfterTypes /\ AfterStructs' = AfterStructs
<1>1. /\ AfterForwards' = AfterForwards /\ AfterPlaceholders' = AfterPlaceholders
      /\ AfterEnums' = AfterEnums
  BY SameNames DEF AfterForwards, AfterPlaceholders, AfterEnums
<1>2. AfterAliases' = AfterAliases /\ AfterBodies' = AfterBodies
  BY <1>1, SameNames, SameAliases DEF AfterAliases, AfterBodies
<1>3. AfterAnonymous' = AfterAnonymous /\ AfterFunctions' = AfterFunctions
  BY <1>2, SameNames DEF AfterAnonymous, AfterFunctions
<1>4. AfterTypes' = AfterTypes
  BY SameNames, SameAliases DEF AfterTypes, AfterAhead, AfterEnumCodecs
<1>5. AfterStructs' = AfterStructs
  BY <1>4, SameNames DEF AfterStructs, AfterCodecs, AfterAllAhead
<1> QED
  BY <1>1, <1>2, <1>3, <1>4, <1>5

---------------------------------------------------------------------------
(* The invariant *)

(* The header, when s is the section to write next.                         *)
HeaderAt(s, h) ==
  /\ s = "forwards" => HeaderPart(h, {}, {})
  /\ s = "placeholders" => HeaderPart(h, {}, AfterForwards)
  /\ s = "enums" => HeaderPart(h, {}, AfterPlaceholders)
  /\ s = "aliases" => HeaderPart(h, {}, AfterEnums)
  /\ s = "bodies" => HeaderPart(h, {}, AfterAliases)
  /\ s = "anonymous" => HeaderPart(h, {}, AfterBodies)
  /\ s = "functions" => HeaderPart(h, {}, AfterAnonymous)
  /\ s \in {"types.h", "structs.h", "done"} => HeaderPart(h, {}, AfterFunctions)

(* The codec headers, one included by the other.                            *)
CodecsAt(s, c) ==
  /\ s \notin {"structs.h", "done"} => CodecPart(c, {}, {})
  /\ s = "structs.h" => CodecPart(c, {}, AfterTypes)
  /\ s = "done" => CodecPart(c, {}, AfterStructs)

Sections == {"forwards", "placeholders", "enums", "aliases", "bodies", "anonymous",
             "functions", "types.h", "structs.h", "done"}

DeclInv ==
  /\ RegistryOK
  /\ section \in Sections
  /\ HeaderAt(section, header)
  /\ CodecsAt(section, codecs)

LEMMA DeclInvInit == DeclInit => DeclInv
<1> SUFFICES ASSUME DeclInit PROVE DeclInv
  OBVIOUS
<1>1. RegistryOK /\ section = "forwards" /\ header = <<>> /\ codecs = <<>>
  BY DEF DeclInit, RegistryOK
<1>2. \A Decls, Right, Defining : WellPlaced(<<>>, Decls, {}, Right, Defining) /\ ToSet(<<>>) = {}
  BY DEF WellPlaced, Fits, Once, ToSet
<1>3. HeaderPart(<<>>, {}, {}) /\ CodecPart(<<>>, {}, {})
  BY <1>2 DEF HeaderPart, CodecPart
<1> QED
  BY <1>1, <1>3 DEF DeclInv, HeaderAt, CodecsAt, Sections

(* What is right by the registry is right by it in the next state.          *)
LEMMA NextInv ==
  ASSUME registry' = registry, RegistryOK, section' \in Sections,
         HeaderAt(section', header'), CodecsAt(section', codecs')
  PROVE  DeclInv'
<1>1. RegistryOK'
  BY SameRegistry
<1>2. HeaderAt(section, header)'
  BY SameHeader, SameAfters DEF HeaderAt, HeaderPart
<1>3. CodecsAt(section, codecs)'
  BY SameCodecs, SameAfters DEF CodecsAt, CodecPart
<1> QED
  BY <1>1, <1>2, <1>3 DEF DeclInv, Sections

LEMMA DeclInvNext ==
  ASSUME DeclInv, [DeclNext]_declVars
  PROVE  DeclInv'
<1> RegistryOK
  BY DEF DeclInv
<1>1. CASE EmitForwards
  <2>1. /\ section = "forwards" /\ section' = "placeholders" /\ registry' = registry
        /\ header' = header \o ForwardsPart /\ codecs' = codecs
    BY <1>1 DEF EmitForwards, Write, ForwardsPart
  <2>2. HeaderPart(header', {}, AfterForwards)
    BY <2>1, ForwardsPlaced, HeaderGrows DEF DeclInv, HeaderAt
  <2> QED
    BY <2>1, <2>2, NextInv DEF DeclInv, HeaderAt, CodecsAt, Sections
<1>2. CASE EmitPlaceholders
  <2>1. /\ section = "placeholders" /\ section' = "enums" /\ registry' = registry
        /\ header' = header \o PlaceholdersPart /\ codecs' = codecs
    BY <1>2 DEF EmitPlaceholders, Write, PlaceholdersPart
  <2>2. HeaderPart(header', {}, AfterPlaceholders)
    BY <2>1, PlaceholdersPlaced, HeaderGrows DEF DeclInv, HeaderAt
  <2> QED
    BY <2>1, <2>2, NextInv DEF DeclInv, HeaderAt, CodecsAt, Sections
<1>3. CASE EmitEnums
  <2>1. /\ section = "enums" /\ section' = "aliases" /\ registry' = registry
        /\ header' = header \o EnumsPart /\ codecs' = codecs
    BY <1>3 DEF EmitEnums, Write, EnumsPart
  <2>2. HeaderPart(header', {}, AfterEnums)
    BY <2>1, EnumsPlaced, HeaderGrows DEF DeclInv, HeaderAt
  <2> QED
    BY <2>1, <2>2, NextInv DEF DeclInv, HeaderAt, CodecsAt, Sections
<1>4. CASE EmitAliases
  <2>1. /\ section = "aliases" /\ section' = "bodies" /\ registry' = registry
        /\ header' = header \o AliasesPart /\ codecs' = codecs
    BY <1>4 DEF EmitAliases, Write, AliasesPart
  <2>2. HeaderPart(header', {}, AfterAliases)
    BY <2>1, AliasesPlaced, HeaderGrows DEF DeclInv, HeaderAt
  <2> QED
    BY <2>1, <2>2, NextInv DEF DeclInv, HeaderAt, CodecsAt, Sections
<1>5. CASE EmitStructsUnions
  <2>1. /\ section = "bodies" /\ section' = "anonymous" /\ registry' = registry
        /\ header' = header \o BodiesPart /\ codecs' = codecs
    BY <1>5 DEF EmitStructsUnions, Write, BodiesPart
  <2>2. HeaderPart(header', {}, AfterBodies)
    BY <2>1, BodiesPlaced, HeaderGrows DEF DeclInv, HeaderAt
  <2> QED
    BY <2>1, <2>2, NextInv DEF DeclInv, HeaderAt, CodecsAt, Sections
<1>6. CASE EmitAnonTypedefs
  <2>1. /\ section = "anonymous" /\ section' = "functions" /\ registry' = registry
        /\ header' = header \o AnonymousPart /\ codecs' = codecs
    BY <1>6 DEF EmitAnonTypedefs, Write, AnonymousPart
  <2>2. HeaderPart(header', {}, AfterAnonymous)
    BY <2>1, AnonymousPlaced, HeaderGrows DEF DeclInv, HeaderAt
  <2> QED
    BY <2>1, <2>2, NextInv DEF DeclInv, HeaderAt, CodecsAt, Sections
<1>7. CASE EmitFunctions
  <2>1. /\ section = "functions" /\ section' = "types.h" /\ registry' = registry
        /\ header' = header \o FunctionsPart /\ codecs' = codecs
    BY <1>7 DEF EmitFunctions, Write, FunctionsPart
  <2>2. HeaderPart(header', {}, AfterFunctions)
    BY <2>1, FunctionsPlaced, HeaderGrows DEF DeclInv, HeaderAt
  <2> QED
    BY <2>1, <2>2, NextInv DEF DeclInv, HeaderAt, CodecsAt, Sections
<1>8. CASE GenerateTypes
  <2>1. /\ section = "types.h" /\ section' = "structs.h" /\ registry' = registry
        /\ codecs' = codecs \o TypesPart /\ header' = header
    BY <1>8 DEF GenerateTypes, Write, TypesPart
  <2>2. CodecPart(codecs', {}, AfterTypes)
    BY <2>1, TypesPlaced, CodecGrows DEF DeclInv, CodecsAt
  <2> QED
    BY <2>1, <2>2, NextInv DEF DeclInv, HeaderAt, CodecsAt, Sections
<1>9. CASE GenerateStructs
  <2>1. /\ section = "structs.h" /\ section' = "done" /\ registry' = registry
        /\ codecs' = codecs \o StructsPart /\ header' = header
    BY <1>9 DEF GenerateStructs, Write, StructsPart
  <2>2. CodecPart(codecs', {}, AfterStructs)
    BY <2>1, StructsPlaced, CodecGrows DEF DeclInv, CodecsAt
  <2> QED
    BY <2>1, <2>2, NextInv DEF DeclInv, HeaderAt, CodecsAt, Sections
<1>10. CASE UNCHANGED declVars
  <2>1. section' = section /\ registry' = registry /\ header' = header /\ codecs' = codecs
    BY <1>10 DEF declVars
  <2> QED
    BY <2>1, NextInv DEF DeclInv
<1> QED
  BY <1>1, <1>2, <1>3, <1>4, <1>5, <1>6, <1>7, <1>8, <1>9, <1>10 DEF DeclNext

LEMMA DeclInvAlways == DeclSpec => []DeclInv
  BY DeclInvInit, DeclInvNext, PTL DEF DeclSpec

LEMMA HeaderPlaced ==
  ASSUME DeclInv
  PROVE  /\ WellPlaced(header, HeaderDecls, {}, HeaderRight, {"body"})
         /\ ToSet(header) \subseteq HeaderDecls
         /\ \A k \in DOMAIN header :
              /\ Uses(header[k]) \subseteq Given \cup NamesIn(Above(header, k))
              /\ \A t \in Incomplete(header[k], Above(header, k)) : Excused(header[k], t)
<1>1. WellPlaced(header, HeaderDecls, {}, HeaderRight, {"body"})
  BY DEF DeclInv, HeaderAt, HeaderPart, Sections
<1>2. header \in Seq(HeaderDecls)
  BY <1>1 DEF WellPlaced
<1>3. ToSet(header) \subseteq HeaderDecls
  BY <1>2 DEF ToSet
<1>4. ASSUME NEW k \in DOMAIN header
      PROVE  /\ Uses(header[k]) \subseteq Given \cup NamesIn(Above(header, k))
             /\ \A t \in Incomplete(header[k], Above(header, k)) : Excused(header[k], t)
  <2>1. <<header[k], {} \cup Above(header, k)>> \in HeaderRight
    BY <1>1 DEF WellPlaced, Fits
  <2>2. {} \cup Above(header, k) = Above(header, k)
    OBVIOUS
  <2>3. <<header[k], Above(header, k)>> \in HeaderRight
    BY <2>1, <2>2
  <2>4. header[k] \in HeaderDecls /\ Above(header, k) \in SUBSET HeaderDecls
    BY <2>3 DEF HeaderRight
  <2> QED
    BY <2>3, <2>4, RightIs
<1> QED
  BY <1>1, <1>3, <1>4

LEMMA CodecsPlaced ==
  ASSUME DeclInv
  PROVE  /\ WellPlaced(codecs, CodecDecls, {}, CodecRight, {"codec", "manual"})
         /\ ToSet(codecs) \subseteq CodecDecls
         /\ \A k \in DOMAIN codecs : \A t \in Calls(codecs[k]) :
              Callable(codecs[k], t, Above(codecs, k))
<1>1. WellPlaced(codecs, CodecDecls, {}, CodecRight, {"codec", "manual"})
  BY DEF DeclInv, CodecsAt, CodecPart, Sections
<1>2. codecs \in Seq(CodecDecls)
  BY <1>1 DEF WellPlaced
<1>3. ToSet(codecs) \subseteq CodecDecls
  BY <1>2 DEF ToSet
<1>4. ASSUME NEW k \in DOMAIN codecs, NEW t \in Calls(codecs[k])
      PROVE  Callable(codecs[k], t, Above(codecs, k))
  <2>1. <<codecs[k], {} \cup Above(codecs, k)>> \in CodecRight
    BY <1>1 DEF WellPlaced, Fits
  <2>2. {} \cup Above(codecs, k) = Above(codecs, k)
    OBVIOUS
  <2>3. <<codecs[k], Above(codecs, k)>> \in CodecRight
    BY <2>1, <2>2
  <2> QED
    BY <2>3 DEF CodecRight
<1> QED
  BY <1>1, <1>3, <1>4

LEMMA InvDeclaresFirst == DeclInv => HeaderDeclaresFirst
<1> SUFFICES ASSUME DeclInv PROVE HeaderDeclaresFirst
  OBVIOUS
<1>1. DeclTypeOK
  BY HeaderPlaced, CodecsPlaced
     DEF DeclTypeOK, DeclInv, RegistryOK, HeaderDecls, HeaderWhat, CodecDecls, CodecWhat
<1>2. \A k \in DOMAIN header : Uses(header[k]) \subseteq Given \cup NamesIn(Above(header, k))
  BY HeaderPlaced
<1>3. ASSUME NEW j \in DOMAIN header, NEW k \in DOMAIN header,
             header[j].what = "body", header[j] = header[k]
      PROVE  j = k
  BY <1>3, HeaderPlaced DEF WellPlaced, Once
<1>4. ASSUME section = "types.h", NEW t \in Types,
             (IsStruct(t) /\ ~IsGiven(t)) \/ Is(t, "enum")
      PROVE  [what |-> "body", name |-> t] \in ToSet(header)
  <2>1. ToSet(header) = AfterFunctions
    BY <1>4 DEF DeclInv, HeaderAt, HeaderPart
  <2>2. t \in HeaderNames \/ t \in AnonymousNames \/ t \in EnumNames
    BY <1>4 DEF HeaderNames, AnonymousNames, EnumNames
  <2>3. [what |-> "body", name |-> t] \in
          Decl("body", HeaderNames) \cup Decl("body", AnonymousNames) \cup Decl("body", EnumNames)
    BY <2>2 DEF Decl
  <2>4. Decl("body", HeaderNames) \cup Decl("body", AnonymousNames) \cup Decl("body", EnumNames)
          \subseteq AfterFunctions
    BY DEF AfterFunctions, AfterAnonymous, AfterBodies, AfterAliases, AfterEnums
  <2> QED
    BY <2>1, <2>3, <2>4
<1> QED
  BY <1>1, <1>2, <1>3, <1>4 DEF HeaderDeclaresFirst

LEMMA InvComplete == DeclInv => CompleteUnlessCyclic
  BY HeaderPlaced DEF CompleteUnlessCyclic, Excused, OnCircle

LEMMA InvCodecsFirst == DeclInv => CodecDeclaresFirst
<1> SUFFICES ASSUME DeclInv PROVE CodecDeclaresFirst
  OBVIOUS
<1> DEFINE defining == {k \in DOMAIN codecs : codecs[k].what # "ahead"}
           called == UNION {Calls(codecs[k]) : k \in {i \in DOMAIN codecs :
                              ~Is(codecs[i].name, "alias")}}
           defined == {codecs[k].name : k \in defining}
<1>1. \A k \in DOMAIN codecs : \A t \in Calls(codecs[k]) : Callable(codecs[k], t, Above(codecs, k))
  BY CodecsPlaced
<1>2. \A k \in DOMAIN codecs : codecs[k].what \in CodecWhat /\ codecs[k] \in ToSet(codecs)
  BY CodecsPlaced DEF CodecDecls, ToSet
<1>3. ASSUME NEW j \in defining, NEW k \in defining, codecs[j].name = codecs[k].name
      PROVE  j = k
  <2>1. codecs[j].what \in {"codec", "manual"} /\ codecs[k].what \in {"codec", "manual"}
    BY <1>2 DEF CodecWhat
  <2> QED
    BY <1>3, <2>1, CodecsPlaced DEF WellPlaced, Once
<1>4. ASSUME section = "done" PROVE NamesIn(ToSet(codecs)) \subseteq defined
  <2>1. ToSet(codecs) = AfterStructs
    BY <1>4 DEF DeclInv, CodecsAt, CodecPart
  <2>2. Decl("codec", CodecNames) \cup Decl("manual", ManualNames) \subseteq ToSet(codecs)
    BY <2>1 DEF AfterStructs, AfterCodecs
  <2>3. ASSUME NEW d \in ToSet(codecs), d.what # "ahead" PROVE d.name \in defined
    BY <2>3 DEF ToSet
  <2>4. \A t \in CodecNames \cup ManualNames : t \in defined
    <3>1. \A t \in CodecNames \cup ManualNames :
            [what |-> "codec", name |-> t] \in ToSet(codecs)
            \/ [what |-> "manual", name |-> t] \in ToSet(codecs)
      BY <2>2 DEF Decl
    <3> HIDE DEF defined
    <3> QED
      BY <2>3, <3>1
  <2>5. ASSUME NEW d \in AfterStructs, d.what = "ahead" PROVE d.name \in CodecNames \cup ManualNames
    BY <2>5 DEF AfterStructs, AfterCodecs, AfterAllAhead, AfterTypes, AfterAhead,
                AfterEnumCodecs, Decl
  <2> HIDE DEF defined
  <2> QED
    BY <2>1, <2>3, <2>4, <2>5 DEF NamesIn
<1>5. called \ (HelpersGiven \cup {"unknown"}) \subseteq NamesIn(ToSet(codecs))
  <2> SUFFICES ASSUME NEW k \in DOMAIN codecs, ~Is(codecs[k].name, "alias"),
                      NEW t \in Calls(codecs[k]), t \notin HelpersGiven, t # "unknown"
               PROVE  t \in NamesIn(ToSet(codecs))
    OBVIOUS
  <2>1. t \in NamesIn(Above(codecs, k))
    BY <1>1 DEF Callable
  <2>2. Above(codecs, k) \subseteq ToSet(codecs)
    <3>1. DOMAIN codecs = 1 .. Len(codecs) /\ Len(codecs) \in Nat
      BY CodecsPlaced, LenProperties DEF WellPlaced
    <3>2. \A j \in 1 .. k - 1 : j \in DOMAIN codecs
      BY <3>1
    <3> QED
      BY <3>2 DEF Above, ToSet
  <2> QED
    BY <2>1, <2>2 DEF NamesIn
<1>6. \A k \in DOMAIN codecs : \A t \in Calls(codecs[k]) :
        \/ t \in HelpersGiven \cup NamesIn(Above(codecs, k))
        \/ t = "unknown"
        \/ Is(codecs[k].name, "alias") /\ (Is(t, "interface") \/ registry[t].manual)
  BY <1>1 DEF Callable
<1>7. section = "done" =>
        /\ \A j, k \in defining : codecs[j].name = codecs[k].name => j = k
        /\ (NamesIn(ToSet(codecs)) \cup (called \ (HelpersGiven \cup {"unknown"}))) \subseteq defined
  <2> HIDE DEF defining, defined, called
  <2> QED
    BY <1>3, <1>4, <1>5
<1> QED
  BY <1>6, <1>7 DEF CodecDeclaresFirst

(* gen_headers.py declares before use: in the header that it writes of any  *)
(* registry the converter makes, each name a declaration uses is given or   *)
(* declared above it, no body is written twice, and none is missing.        *)
THEOREM DeclaredBeforeUse == DeclSpec => []HeaderDeclaresFirst
  BY DeclInvAlways, InvDeclaresFirst, PTL

(* Walked depth first, also through pointers and through the types that are *)
(* written out in place, every struct that a body embeds under its own name *)
(* is complete above it, unless the two, or an inner type of the body and   *)
(* it, are on a circle.  Of structs that are embedded under an alias, which *)
(* the walk does not see, nothing is said.                                  *)
THEOREM CompleteBeforeUse == DeclSpec => []CompleteUnlessCyclic
  BY DeclInvAlways, InvComplete, PTL

(* npt_protocol.py's types.h and structs.h: a codec helper calls only those *)
(* declared above it, and each that is called is defined once, although an  *)
(* anonymous type has one of its own only behind a named field.             *)
THEOREM HelpersBeforeCalls == DeclSpec => []CodecDeclaresFirst
  BY DeclInvAlways, InvCodecsFirst, PTL
=============================================================================
