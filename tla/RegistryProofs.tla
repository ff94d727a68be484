-------------------------- MODULE RegistryProofs --------------------------
(***************************************************************************)
(* Proofs about the registry: the pinning of its interfaces to wire ids    *)
(* (InterfaceIds) and the walks over its types (TypeWalks), for any names, *)
(* definitions, GUIDs and number of ids.                                   *)
(***************************************************************************)
EXTENDS InterfaceIds, TypeWalks, Inductions

---------------------------------------------------------------------------
(* Pinned ids *)

(* A bounded nonempty set of ids has a greatest element, which Max returns.*)
LEMMA MaxOfIds ==
  ASSUME NEW S \in SUBSET (1..MaxId), S # {}
  PROVE  Max(S) \in S /\ \A k \in S : Max(S) >= k
<1>1. MaxId \in Nat
  BY MaxIdType
<1> DEFINE Below == {MaxId - k : k \in S}
<1>2. Below \subseteq Nat /\ Below # {}
  <2>1. \A k \in S : MaxId - k \in Nat
    BY <1>1
  <2>2. PICK k \in S : TRUE
    OBVIOUS
  <2>3. MaxId - k \in Below
    OBVIOUS
  <2> QED
    BY <2>1, <2>3
<1> DEFINE Less == OpToRel(<, Nat)
<1>3. IsWellFoundedOn(Less, Nat)
  BY NatLessThanWellFounded
<1> HIDE DEF Less
<1>4. PICK d \in Below : \A e \in Below : <<e, d>> \notin Less
  BY <1>2, <1>3, WFMin
<1>5. PICK m \in S : d = MaxId - m
  BY <1>4
<1>6. \A k \in S : m >= k
  <2> SUFFICES ASSUME NEW k \in S, ~(m >= k) PROVE FALSE
    OBVIOUS
  <2>1. m \in 1..MaxId /\ k \in 1..MaxId
    OBVIOUS
  <2>2. MaxId - k \in Below
    OBVIOUS
  <2>3. MaxId - k < d /\ MaxId - k \in Nat /\ d \in Nat
    BY <1>1, <1>5, <2>1
  <2>4. <<MaxId - k, d>> \in Less
    BY <2>3 DEF Less, OpToRel
  <2> QED
    BY <2>2, <2>4, <1>4
<1> QED
  BY <1>6 DEF Max

(* Besides the types: what was shipped is still in the file, where entries *)
(* keep their id and GUID; and the file is never empty.                    *)
PinsInv ==
  /\ PinsTypeOK
  /\ DOMAIN pins # {}
  /\ \A s \in shipped : s.id \in DOMAIN pins /\ pins[s.id].guid = s.guid
  /\ NeverReassigned

(* A new id is past every id of the file, those of retired entries too. *)
LEMMA NextIdIsFresh ==
  ASSUME PinsTypeOK, DOMAIN pins # {}
  PROVE  NextId \in Nat \ {0} /\ NextId \notin DOMAIN pins
<1>1. Max(DOMAIN pins) \in DOMAIN pins /\ \A k \in DOMAIN pins : Max(DOMAIN pins) >= k
  BY MaxOfIds DEF PinsTypeOK
<1>2. MaxId \in Nat /\ DOMAIN pins \subseteq 1..MaxId
  BY MaxIdType DEF PinsTypeOK
<1> QED
  BY <1>1, <1>2 DEF NextId

(* When a build succeeds, the GUID of each interface is on one entry only: *)
(* of two, the loader wants the later one retired and the interface's pin, *)
(* which is the later one, live.                                           *)
LEMMA BuildUsesOnlyPin ==
  ASSUME PinsTypeOK, FileAccepted, NEW n \in Name, Pinned(n),
         NEW k \in DOMAIN pins, pins[k].guid = registry[n]
  PROVE  k = IdOf(n)
<1> DEFINE S == PinsOf(registry[n])
<1>1. S \in SUBSET (1..MaxId) /\ S # {} /\ k \in S
  BY DEF PinsTypeOK, PinsOf
<1>2. IdOf(n) \in S /\ IdOf(n) >= k
  BY <1>1, MaxOfIds DEF IdOf
<1>3. IdOf(n) \in DOMAIN pins /\ pins[IdOf(n)].guid = pins[k].guid
  BY <1>2 DEF PinsOf
<1>4. Live(IdOf(n))
  BY DEF Pinned
<1>5. ~(k < IdOf(n))
  BY <1>3, <1>4 DEF FileAccepted
<1>6. IdOf(n) \in Nat /\ k \in Nat
  BY <1>1, <1>2, MaxIdType
<1> QED
  BY <1>2, <1>5, <1>6

LEMMA InitPins == PinsInit => PinsInv
<1> SUFFICES ASSUME PinsInit PROVE PinsInv
  OBVIOUS
<1>1. PICK n \in Name, g \in Guid :
        /\ registry = [m \in Name |-> IF m = n THEN g ELSE NoGuid]
        /\ pins = [k \in {1} |-> [guid |-> g, name |-> n, retired |-> FALSE]]
  BY DEF PinsInit
<1>2. DOMAIN pins = {1} /\ pins[1] = [guid |-> g, name |-> n, retired |-> FALSE]
  BY <1>1
<1>3. 1 \in 1..MaxId
  BY MaxIdType
<1>4. registry \in [Name -> Guid \cup {NoGuid}]
  BY <1>1
<1>5. shipped = {}
  BY DEF PinsInit
<1>6. pins[1] \in Pin
  BY <1>2 DEF Pin
<1>7. PinsTypeOK
  BY <1>2, <1>3, <1>4, <1>5, <1>6 DEF PinsTypeOK
<1> QED
  BY <1>2, <1>5, <1>7 DEF PinsInv, NeverReassigned

(* Adding an entry under a fresh id leaves every other entry alone. *)
LEMMA AddPinInv ==
  ASSUME PinsInv, NEW k \in 1..MaxId, NEW n \in Name, NEW g \in Guid,
         k \notin DOMAIN pins, AddPin(k, n, g),
         UNCHANGED <<registry, shipped>>
  PROVE  PinsInv'
<1>1. DOMAIN pins' = DOMAIN pins \cup {k}
  BY DEF AddPin
<1>2. \A j \in DOMAIN pins : pins'[j] = pins[j]
  BY DEF AddPin
<1>3. pins'[k] = [guid |-> g, name |-> n, retired |-> FALSE]
  BY DEF AddPin
<1>4. PinsTypeOK'
  <2>1. DOMAIN pins' \subseteq 1..MaxId
    BY <1>1 DEF PinsInv, PinsTypeOK
  <2>2. pins'[k] \in Pin
    BY <1>3 DEF Pin
  <2>3. \A j \in DOMAIN pins' : pins'[j] \in Pin
    BY <1>1, <1>2, <2>2 DEF PinsInv, PinsTypeOK
  <2> QED
    BY <2>1, <2>3 DEF PinsInv, PinsTypeOK, Pin
<1>5. NeverReassigned'
  BY DEF PinsInv, NeverReassigned
<1> QED
  BY <1>1, <1>2, <1>4, <1>5 DEF PinsInv

LEMMA StepPins == PinsInv /\ [PinsNext]_pinsVars => PinsInv'
<1> SUFFICES ASSUME PinsInv, [PinsNext]_pinsVars PROVE PinsInv'
  OBVIOUS
<1> USE DEF PinsInv
<1>1. ASSUME NEW n \in Name, NEW g \in Guid \cup {NoGuid}, SetInterface(n, g)
      PROVE  PinsInv'
  BY <1>1 DEF SetInterface, PinsTypeOK, NeverReassigned
<1>2. ASSUME NEW k \in 1..MaxId, NEW n \in Name, NEW g \in Guid,
             HandAdd(k, n, g)
      PROVE  PinsInv'
  BY <1>2, AddPinInv DEF HandAdd
<1>3. ASSUME NEW k \in DOMAIN pins, Retire(k)
      PROVE  PinsInv'
  BY <1>3 DEF Retire, PinsTypeOK, Pin, NeverReassigned
<1>4. ASSUME NEW k \in DOMAIN pins, NEW n \in Name, RenamePin(k, n)
      PROVE  PinsInv'
  BY <1>4 DEF RenamePin, PinsTypeOK, Pin, NeverReassigned
<1>5. ASSUME NEW n \in Name, NEW g \in Guid, Allocate(n, g)
      PROVE  PinsInv'
  <2>1. CASE Clashes(n, g) # {}
    BY <1>5, <2>1 DEF Allocate, PinsTypeOK, NeverReassigned
  <2>2. CASE Clashes(n, g) = {}
    <3>1. NextId \in 1..MaxId /\ NextId \notin DOMAIN pins
      BY <1>5, <2>2, NextIdIsFresh, MaxIdType DEF Allocate
    <3> QED
      BY <1>5, <2>2, <3>1, AddPinInv DEF Allocate
  <2> QED
    BY <2>1, <2>2
<1>6. ASSUME Build
      PROVE  PinsInv'
  <2>1. UNCHANGED <<pins, registry>> /\ FileAccepted
    BY <1>6 DEF Build
  <2> DEFINE New == {[id |-> IdOf(n), guid |-> registry[n]] : n \in Interfaces}
  <2>2. shipped' = shipped \cup New
    BY <1>6 DEF Build
  <2>3. ASSUME NEW s \in New
        PROVE  /\ s \in [id : 1..MaxId, guid : Guid]
               /\ s.id \in DOMAIN pins /\ pins[s.id].guid = s.guid
               /\ \A k \in DOMAIN pins : pins[k].guid = s.guid => k = s.id
    <3>1. PICK n \in Interfaces : s = [id |-> IdOf(n), guid |-> registry[n]]
      OBVIOUS
    <3>2. n \in Name /\ registry[n] \in Guid /\ Pinned(n)
      BY <1>6 DEF Build, Interfaces, PinsTypeOK
    <3>3. PinsOf(registry[n]) \in SUBSET (1..MaxId) /\ PinsOf(registry[n]) # {}
      BY <3>2 DEF Pinned, PinsOf, PinsTypeOK
    <3>4. IdOf(n) \in PinsOf(registry[n])
      BY <3>3, MaxOfIds DEF IdOf
    <3>5. IdOf(n) \in DOMAIN pins /\ pins[IdOf(n)].guid = registry[n]
      BY <3>4 DEF PinsOf
    <3>6. \A k \in DOMAIN pins : pins[k].guid = registry[n] => k = IdOf(n)
      BY <2>1, <3>2, BuildUsesOnlyPin
    <3> QED
      BY <3>1, <3>2, <3>3, <3>4, <3>5, <3>6
  <2>4. PinsTypeOK'
    BY <2>1, <2>2, <2>3 DEF PinsTypeOK
  <2>5. \A s \in shipped' : s.id \in DOMAIN pins /\ pins[s.id].guid = s.guid
    BY <2>2, <2>3
  <2>6. NeverReassigned'
    <3> SUFFICES ASSUME NEW a \in shipped', NEW b \in shipped'
                 PROVE  a.id = b.id <=> a.guid = b.guid
      BY DEF NeverReassigned
    <3>1. a.id = b.id => a.guid = b.guid
      BY <2>5
    <3>2. a.guid = b.guid => a.id = b.id
      <4>1. CASE a \in New
        BY <2>3, <2>5, <4>1
      <4>2. CASE b \in New
        BY <2>3, <2>5, <4>2
      <4>3. CASE a \in shipped /\ b \in shipped
        BY <4>3 DEF NeverReassigned
      <4> QED
        BY <2>2, <4>1, <4>2, <4>3
    <3> QED
      BY <3>1, <3>2
  <2> QED
    BY <2>1, <2>4, <2>5, <2>6
<1>7. CASE UNCHANGED pinsVars
  BY <1>7 DEF pinsVars, PinsTypeOK, NeverReassigned
<1> QED
  BY <1>1, <1>2, <1>3, <1>4, <1>5, <1>6, <1>7 DEF PinsNext

(* Every id of the file is a wire id other than 0, and the file, the       *)
(* registry and what was shipped keep their types.                         *)
THEOREM PinsTyped == PinsSpec => []PinsTypeOK
<1>1. PinsInv => PinsTypeOK
  BY DEF PinsInv
<1> QED
  BY InitPins, StepPins, <1>1, PTL DEF PinsSpec

(* Whatever tool runs, hand edits and regenerations of the registry lie    *)
(* between two builds, they agree on the meaning of every id.              *)
THEOREM IdsAreForEver == PinsSpec => []NeverReassigned
<1>1. PinsInv => NeverReassigned
  BY DEF PinsInv
<1> QED
  BY InitPins, StepPins, <1>1, PTL DEF PinsSpec

(* One build gives no id to two interfaces: a pin carries one name, and    *)
(* the loader wants an interface's pin to carry its name.                  *)
THEOREM BuildsAreInjective == PinsSpec => []BuildIsInjective
<1>1. PinsInit => BuildIsInjective
  BY DEF PinsInit, BuildIsInjective
<1>2. BuildIsInjective /\ [PinsNext]_pinsVars => BuildIsInjective'
  <2> SUFFICES ASSUME BuildIsInjective, [PinsNext]_pinsVars PROVE BuildIsInjective'
    OBVIOUS
  <2>1. CASE Build
    <3>1. build' = [n \in Interfaces |-> IdOf(n)]
      BY <2>1 DEF Build
    <3>2. \A n \in Interfaces : pins[IdOf(n)].name = n
      BY <2>1 DEF Build, Pinned
    <3> QED
      BY <3>1, <3>2 DEF BuildIsInjective
  <2>2. CASE UNCHANGED build
    BY <2>2 DEF BuildIsInjective
  <2> QED
    BY <2>1, <2>2 DEF PinsNext, SetInterface, HandAdd, Retire, RenamePin,
                      Allocate, pinsVars
<1> QED
  BY <1>1, <1>2, PTL DEF PinsSpec

---------------------------------------------------------------------------
(* Loops *)

Answers(S) == [yes : BOOLEAN, known : S]

LEMMA AnswerParts ==
  ASSUME NEW S, NEW b \in BOOLEAN, NEW s \in S
  PROVE  /\ Answer(b, s) \in Answers(S)
         /\ Answer(b, s).yes = b /\ Answer(b, s).known = s
  BY DEF Answer, Answers

(* Rounds: what any() has after each of the n things. *)
Rounds(U, n, test, s) ==
  /\ U[0] = Answer(FALSE, s)
  /\ \A k \in 1 .. n :
       U[k] = IF U[k - 1].yes THEN U[k - 1] ELSE test[k][U[k - 1].known]

LEMMA AnyOfRounds ==
  ASSUME NEW n \in Nat, NEW S, NEW s \in S,
         NEW test \in [1 .. n -> [S -> Answers(S)]]
  PROVE  \E U \in [0 .. n -> Answers(S)] :
           Rounds(U, n, test, s) /\ AnyOf(n, test, s) = U[n]
<1> DEFINE Body(g, k) == IF k = 0 THEN Answer(FALSE, s)
                         ELSE IF g[k - 1].yes THEN g[k - 1] ELSE test[k][g[k - 1].known]
           Solves(g) == g = [k \in 0 .. n |-> Body(g, k)]
           step == [p \in Answers(S) \X Nat |->
                      IF p[1].yes \/ p[2] + 1 \notin 1 .. n THEN p[1]
                      ELSE test[p[2] + 1][p[1].known]]
<1>1. Answer(FALSE, s) \in Answers(S)
  BY AnswerParts
<1>2. step \in [Answers(S) \X Nat -> Answers(S)]
  BY DEF Answers
<1>3. PICK g \in [0 .. n -> Answers(S)] :
        g = [k \in 0 .. n |-> IF k = 0 THEN Answer(FALSE, s) ELSE step[<<g[k - 1], k - 1>>]]
  <2> HIDE DEF step
  <2>1. \E g \in [0 .. n -> Answers(S)] : RecursiveUpto(g, n, Answer(FALSE, s), step)
    BY <1>1, <1>2, UptoRecursion
  <2> QED
    BY <2>1 DEF RecursiveUpto
<1>4. ASSUME NEW k \in 0 .. n PROVE g[k] = Body(g, k)
  <2>1. CASE k = 0
    BY <1>3, <2>1
  <2>2. CASE k # 0
    <3>1. k - 1 \in Nat /\ k - 1 \in 0 .. n /\ k - 1 + 1 = k /\ k \in 1 .. n
      BY <2>2
    <3>2. g[k] = step[<<g[k - 1], k - 1>>]
      <4> HIDE DEF step
      <4> QED
        BY <1>3, <2>2
    <3>3. <<g[k - 1], k - 1>> \in Answers(S) \X Nat
      BY <3>1
    <3>4. g[k] = IF g[k - 1].yes THEN g[k - 1] ELSE test[k][g[k - 1].known]
      BY <3>1, <3>2, <3>3
    <3> QED
      BY <2>2, <3>4
  <2> QED
    BY <2>1, <2>2
<1>5. Solves(g)
  <2>1. g = [k \in 0 .. n |-> g[k]]
    OBVIOUS
  <2> HIDE DEF Body
  <2> QED
    BY <1>4, <2>1
<1> DEFINE U == CHOOSE h : Solves(h)
<1>6. Solves(U)
  <2> HIDE DEF Solves
  <2> QED
    BY <1>5, Zenon
<1>7. U = g
  <2> DEFINE D == {k \in Nat : k \in 0 .. n => U[k] = g[k]}
  <2>1. 0 \in D
    BY <1>5, <1>6
  <2>2. ASSUME NEW k \in Nat, k \in D PROVE k + 1 \in D
    <3> SUFFICES ASSUME k + 1 \in 0 .. n PROVE U[k + 1] = g[k + 1]
      OBVIOUS
    <3>1. k \in 0 .. n /\ k + 1 # 0 /\ k + 1 - 1 = k
      OBVIOUS
    <3>2. U[k] = g[k]
      BY <2>2, <3>1
    <3>3. U[k + 1] = Body(U, k + 1) /\ g[k + 1] = Body(g, k + 1)
      <4> HIDE DEF Body, U
      <4> QED
        BY <1>5, <1>6
    <3> HIDE DEF U
    <3> QED
      BY <3>1, <3>2, <3>3
  <2>3. Nat \subseteq D
    <3> HIDE DEF D
    <3> QED
      BY <2>1, <2>2, NatSetInduction
  <2>4. \A k \in 0 .. n : U[k] = g[k]
    <3> HIDE DEF U
    <3> QED
      BY <2>3
  <2>5. U = [k \in 0 .. n |-> U[k]] /\ g = [k \in 0 .. n |-> g[k]]
    <3>1. DOMAIN U = 0 .. n /\ U = [k \in DOMAIN U |-> U[k]]
      <4>1. U = [k \in 0 .. n |-> Body(U, k)]
        BY <1>6
      <4> HIDE DEF U, Body
      <4> QED
        BY <4>1
    <3> HIDE DEF U
    <3> QED
      BY <3>1
  <2> HIDE DEF U, D
  <2> QED
    BY <2>4, <2>5
<1>8. AnyOf(n, test, s) = U[n]
  BY DEF AnyOf
<1>9. Rounds(g, n, test, s)
  <2>1. g[0] = Answer(FALSE, s)
    <3>1. 0 \in 0 .. n
      OBVIOUS
    <3> QED
      BY <1>4, <3>1
  <2>2. ASSUME NEW k \in 1 .. n
        PROVE  g[k] = IF g[k - 1].yes THEN g[k - 1] ELSE test[k][g[k - 1].known]
    <3>1. k \in 0 .. n /\ k # 0
      OBVIOUS
    <3> QED
      BY <1>4, <3>1
  <2> QED
    BY <2>1, <2>2 DEF Rounds
<1> QED
  <2> HIDE DEF U
  <2> QED
    BY <1>7, <1>8, <1>9

(* Whatever holds at first and is kept by each question holds in the end.   *)
LEMMA AnyOfKeeps ==
  ASSUME NEW n \in Nat, NEW S, NEW s \in S,
         NEW test \in [1 .. n -> [S -> Answers(S)]],
         NEW Inv, Answer(FALSE, s) \in Inv[0],
         \A k \in 1 .. n : \A a \in Answers(S) : a \in Inv[k - 1] =>
           (IF a.yes THEN a ELSE test[k][a.known]) \in Inv[k]
  PROVE  AnyOf(n, test, s) \in Answers(S) /\ AnyOf(n, test, s) \in Inv[n]
<1>1. PICK U \in [0 .. n -> Answers(S)] :
        Rounds(U, n, test, s) /\ AnyOf(n, test, s) = U[n]
  BY AnyOfRounds
<1> DEFINE D == {k \in 0 .. n : U[k] \in Inv[k]}
<1>2. 0 \in D
  <2>1. 0 \in 0 .. n
    OBVIOUS
  <2> QED
    BY <1>1, <2>1 DEF Rounds
<1>3. \A k \in 1 .. n : k - 1 \in D => k \in D
  <2> SUFFICES ASSUME NEW k \in 1 .. n, U[k - 1] \in Inv[k - 1]
               PROVE  U[k] \in Inv[k] /\ k \in 0 .. n
    OBVIOUS
  <2>1. k - 1 \in 0 .. n /\ U[k - 1] \in Answers(S)
    OBVIOUS
  <2>2. U[k] = IF U[k - 1].yes THEN U[k - 1] ELSE test[k][U[k - 1].known]
    BY <1>1 DEF Rounds
  <2> QED
    BY <2>1, <2>2
<1>4. 0 .. n \subseteq D
  <2> HIDE DEF D
  <2> QED
    BY <1>2, <1>3, UptoInduction
<1>5. n \in 0 .. n
  OBVIOUS
<1> QED
  BY <1>1, <1>4, <1>5

---------------------------------------------------------------------------
(* Paths *)

Closed(edges, S) == \A t \in Types : \A u \in S : <<t, u>> \in edges => t \in S

Wider(edges, S) == S \cup {t \in Types : \E u \in S : <<t, u>> \in edges}

Widening(W, edges, targets) ==
  /\ W[0] = targets
  /\ \A k \in 1 .. Cardinality(Types) : W[k] = Wider(edges, W[k - 1])

LEMMA TypesFinite == IsFiniteSet(Types) /\ Cardinality(Types) \in Nat
  BY NamesType, FS_CardinalityType

LEMMA LeadingWidens ==
  ASSUME NEW edges, NEW targets \in SUBSET Types
  PROVE  \E W \in [0 .. Cardinality(Types) -> SUBSET Types] :
           Widening(W, edges, targets) /\ Leading(edges, targets) = W[Cardinality(Types)]
<1> DEFINE n == Cardinality(Types)
           Body(g, k) == IF k = 0 THEN targets
                         ELSE g[k - 1] \cup {t \in Types : \E u \in g[k - 1] : <<t, u>> \in edges}
           Solves(g) == g = [k \in 0 .. n |-> Body(g, k)]
           step == [p \in (SUBSET Types) \X Nat |-> Wider(edges, p[1])]
<1>1. n \in Nat
  BY TypesFinite
<1>2. step \in [(SUBSET Types) \X Nat -> SUBSET Types]
  BY DEF Wider
<1>3. PICK g \in [0 .. n -> SUBSET Types] : RecursiveUpto(g, n, targets, step)
  <2> HIDE DEF step, n
  <2> QED
    BY <1>1, <1>2, UptoRecursion
<1>4. ASSUME NEW k \in 0 .. n PROVE g[k] = Body(g, k)
  <2>1. CASE k = 0
    BY <1>3, <2>1 DEF RecursiveUpto
  <2>2. CASE k # 0
    <3>1. k - 1 \in Nat /\ k - 1 \in 0 .. n
      BY <1>1, <2>2
    <3>2. g[k] = step[<<g[k - 1], k - 1>>]
      <4> HIDE DEF step
      <4> QED
        BY <1>3, <2>2 DEF RecursiveUpto
    <3>3. <<g[k - 1], k - 1>> \in (SUBSET Types) \X Nat
      <4> HIDE DEF n
      <4> QED
        BY <3>1
    <3>4. g[k] = Wider(edges, g[k - 1])
      BY <3>2, <3>3
    <3> QED
      BY <2>2, <3>4 DEF Wider
  <2> QED
    BY <2>1, <2>2
<1>5. Solves(g)
  <2>1. g = [k \in 0 .. n |-> g[k]]
    OBVIOUS
  <2> HIDE DEF Body
  <2> QED
    BY <1>4, <2>1
<1> DEFINE W == CHOOSE h : Solves(h)
<1>6. Solves(W)
  <2> HIDE DEF Solves
  <2> QED
    BY <1>5, Zenon
<1>7. Leading(edges, targets) = W[n]
  BY DEF Leading
<1> HIDE DEF W
<1>8. ASSUME NEW k \in 0 .. n PROVE W[k] = Body(W, k)
  <2> HIDE DEF Body
  <2> QED
    BY <1>6
<1>9. Widening(W, edges, targets)
  <2>1. W[0] = targets
    <3>1. 0 \in 0 .. n
      BY <1>1
    <3> QED
      BY <1>8, <3>1
  <2>2. \A k \in 1 .. n : W[k] = Wider(edges, W[k - 1])
    <3>1. \A k \in 1 .. n : k \in 0 .. n /\ k # 0
      BY <1>1
    <3> QED
      BY <1>8, <3>1 DEF Wider
  <2> QED
    BY <2>1, <2>2 DEF Widening
<1>10. W \in [0 .. n -> SUBSET Types]
  <2> DEFINE D == {k \in 0 .. n : W[k] \in SUBSET Types}
  <2>1. 0 \in D
    BY <1>1, <1>9 DEF Widening
  <2>2. \A k \in 1 .. n : k - 1 \in D => k \in D
    <3> SUFFICES ASSUME NEW k \in 1 .. n, W[k - 1] \in SUBSET Types
                 PROVE  W[k] \in SUBSET Types /\ k \in 0 .. n
      OBVIOUS
    <3>1. W[k] = Wider(edges, W[k - 1])
      BY <1>9 DEF Widening
    <3>2. k \in 0 .. n
      BY <1>1
    <3> QED
      BY <3>1, <3>2 DEF Wider
  <2>3. 0 .. n \subseteq D
    <3> HIDE DEF D, n
    <3> QED
      BY <1>1, <2>1, <2>2, UptoInduction
  <2>4. \A k \in 0 .. n : W[k] \in SUBSET Types
    BY <2>3
  <2>5. W = [k \in 0 .. n |-> W[k]]
    <3>1. W = [k \in 0 .. n |-> Body(W, k)]
      BY <1>6
    <3> HIDE DEF Body
    <3> QED
      BY <3>1
  <2> HIDE DEF D
  <2> QED
    BY <2>4, <2>5
<1> QED
  BY <1>7, <1>9, <1>10

(* Once a widening adds nothing the set is closed; until then each one     *)
(* adds a name, and there are only so many.                                *)
LEMMA LeadingClosed ==
  ASSUME NEW edges, NEW targets \in SUBSET Types
  PROVE  Closed(edges, Leading(edges, targets))
<1> DEFINE n == Cardinality(Types)
<1>1. n \in Nat /\ IsFiniteSet(Types)
  BY TypesFinite
<1>2. PICK W \in [0 .. n -> SUBSET Types] :
        Widening(W, edges, targets) /\ Leading(edges, targets) = W[n]
  BY LeadingWidens
<1> HIDE DEF n
<1>3. \A S \in SUBSET Types : IsFiniteSet(S) /\ Cardinality(S) \in Nat /\ Cardinality(S) <= n
  BY <1>1, FS_Subset, FS_CardinalityType DEF n
<1> DEFINE D == {k \in 0 .. n : Closed(edges, W[k]) \/ Cardinality(W[k]) >= k + 1}
<1>4. 0 \in D
  <2>1. CASE W[0] = {}
    BY <1>1, <2>1 DEF Closed
  <2>2. CASE W[0] # {}
    <3>1. IsFiniteSet(W[0]) /\ Cardinality(W[0]) \in Nat /\ 0 \in 0 .. n
      BY <1>1, <1>3
    <3>2. Cardinality(W[0]) # 0
      BY <2>2, <3>1, FS_EmptySet
    <3> QED
      BY <3>1, <3>2
  <2> QED
    BY <2>1, <2>2
<1>5. \A k \in 1 .. n : k - 1 \in D => k \in D
  <2> SUFFICES ASSUME NEW k \in 1 .. n, k - 1 \in D, ~Closed(edges, W[k])
               PROVE  Cardinality(W[k]) >= k + 1
    BY <1>1
  <2>1. W[k] = Wider(edges, W[k - 1])
    BY <1>2 DEF Widening, n
  <2>2. k - 1 \in 0 .. n /\ k \in 0 .. n
    BY <1>1
  <2>3. ~Closed(edges, W[k - 1])
    <3> SUFFICES ASSUME Closed(edges, W[k - 1]) PROVE W[k] = W[k - 1]
      OBVIOUS
    <3> QED
      BY <2>1 DEF Closed, Wider
  <2>4. Cardinality(W[k - 1]) >= k
    BY <2>3
  <2>5. PICK t \in Types : t \in W[k] /\ t \notin W[k - 1]
    BY <2>1, <2>3 DEF Closed, Wider
  <2>6. W[k - 1] \cup {t} \in SUBSET W[k]
    BY <2>1, <2>5 DEF Wider
  <2>7. Cardinality(W[k - 1] \cup {t}) = Cardinality(W[k - 1]) + 1
    BY <1>3, <2>2, <2>5, FS_AddElement
  <2>8. Cardinality(W[k - 1] \cup {t}) <= Cardinality(W[k])
    BY <1>3, <2>2, <2>6, FS_Subset
  <2> QED
    BY <1>3, <2>2, <2>4, <2>7, <2>8
<1>6. 0 .. n \subseteq D
  <2> HIDE DEF D
  <2> QED
    BY <1>1, <1>4, <1>5, UptoInduction
<1>7. n \in 0 .. n /\ W[n] \in SUBSET Types
  BY <1>1
<1>8. ~(Cardinality(W[n]) >= n + 1)
  BY <1>1, <1>3, <1>7
<1> QED
  BY <1>2, <1>6, <1>7, <1>8

LEMMA LeadingIs ==
  ASSUME NEW edges, NEW targets \in SUBSET Types
  PROVE  /\ targets \subseteq Leading(edges, targets)
         /\ Leading(edges, targets) \in SUBSET Types
         /\ \A S \in SUBSET Types : targets \subseteq S /\ Closed(edges, S) =>
              Leading(edges, targets) \subseteq S
<1> DEFINE n == Cardinality(Types)
<1>1. n \in Nat
  BY TypesFinite
<1>2. PICK W \in [0 .. n -> SUBSET Types] :
        Widening(W, edges, targets) /\ Leading(edges, targets) = W[n]
  BY LeadingWidens
<1> HIDE DEF n
<1>3. n \in 0 .. n
  BY <1>1
<1>4. targets \subseteq W[n]
  <2> DEFINE D == {k \in 0 .. n : targets \subseteq W[k]}
  <2>1. 0 \in D
    BY <1>1, <1>2 DEF Widening
  <2>2. \A k \in 1 .. n : k - 1 \in D => k \in D
    BY <1>1, <1>2 DEF Widening, Wider, n
  <2>3. 0 .. n \subseteq D
    <3> HIDE DEF D
    <3> QED
      BY <1>1, <2>1, <2>2, UptoInduction
  <2> QED
    BY <1>3, <2>3
<1>5. ASSUME NEW S \in SUBSET Types, targets \subseteq S, Closed(edges, S)
      PROVE  W[n] \subseteq S
  <2> DEFINE D == {k \in 0 .. n : W[k] \subseteq S}
  <2>1. 0 \in D
    BY <1>1, <1>2, <1>5 DEF Widening
  <2>2. \A k \in 1 .. n : k - 1 \in D => k \in D
    <3> SUFFICES ASSUME NEW k \in 1 .. n, W[k - 1] \subseteq S
                 PROVE  k \in 0 .. n /\ W[k] \subseteq S
      OBVIOUS
    <3>1. k \in 0 .. n /\ W[k] = Wider(edges, W[k - 1])
      BY <1>1, <1>2 DEF Widening, n
    <3> QED
      BY <1>5, <3>1 DEF Wider, Closed
  <2>3. 0 .. n \subseteq D
    <3> HIDE DEF D
    <3> QED
      BY <1>1, <2>1, <2>2, UptoInduction
  <2> QED
    BY <1>3, <2>3
<1> QED
  BY <1>2, <1>3, <1>4, <1>5

(* A name that leads into targets is one, or has an edge to such a name.   *)
LEMMA LeadingStep ==
  ASSUME NEW edges, NEW targets \in SUBSET Types, NEW t \in Leading(edges, targets)
  PROVE  t \in targets \/ \E u \in Leading(edges, targets) : <<t, u>> \in edges
<1> DEFINE L == Leading(edges, targets)
           S == targets \cup {v \in Types : \E u \in L : <<v, u>> \in edges}
<1>1. L \in SUBSET Types /\ Closed(edges, L) /\ targets \subseteq L
  BY LeadingIs, LeadingClosed
<1>2. S \subseteq L
  BY <1>1 DEF Closed
<1>3. S \in SUBSET Types /\ targets \subseteq S /\ Closed(edges, S)
  BY <1>2 DEF Closed
<1>4. L \subseteq S
  <2> HIDE DEF S
  <2> QED
    BY <1>3, LeadingIs
<1> QED
  BY <1>4

LEMMA LeadingMonotone ==
  ASSUME NEW edges, NEW targets \in SUBSET Types, NEW t \in Leading(edges, targets)
  PROVE  Leading(edges, {t}) \subseteq Leading(edges, targets)
<1>1. Leading(edges, targets) \in SUBSET Types /\ Closed(edges, Leading(edges, targets))
  BY LeadingIs, LeadingClosed
<1>2. {t} \in SUBSET Types /\ {t} \subseteq Leading(edges, targets)
  BY <1>1
<1> QED
  BY <1>1, <1>2, LeadingIs

---------------------------------------------------------------------------
(* Types without a bound *)

RegOK == reg \in [Types -> Definitions] /\ Declarable

LEMMA RegTypes ==
  ASSUME RegOK, NEW t \in Types
  PROVE  /\ reg[t] \in Definition /\ reg[t].target \in Types \cup Leaves
         /\ reg[t].cat \in Category
         /\ Fields(t) \in Seq(Field) /\ Len(Fields(t)) \in Nat
         /\ DOMAIN Fields(t) = 1 .. Len(Fields(t))
         /\ \A k \in DOMAIN Fields(t) : Fields(t)[k] \in Field
<1>1. reg[t] \in Definition
  BY DefinitionsType DEF RegOK
<1>2. reg[t].fields \in Seq(Field) /\ reg[t].cat \in Category /\ reg[t].target \in Types \cup Leaves
  BY <1>1 DEF Definition
<1>3. Fields(t) \in Seq(Field)
  BY <1>2 DEF Fields
<1> HIDE DEF Fields
<1>4. Len(Fields(t)) \in Nat /\ DOMAIN Fields(t) = 1 .. Len(Fields(t))
  BY <1>3, LenProperties
<1>5. \A k \in 1 .. Len(Fields(t)) : Fields(t)[k] \in Field
  BY <1>3, ElementOfSeq
<1> QED
  BY <1>1, <1>2, <1>3, <1>4, <1>5

(* No name is both defined and a leaf. *)
LEMMA LeavesApart == "prim" \notin Types /\ "char" \notin Types /\ "void" \notin Types
  BY NamesType DEF Leaves

LEMMA DynamicIs ==
  ASSUME NEW t \in Types
  PROVE  /\ Dynamic \in SUBSET Types
         /\ t \in Dynamic <=> \/ reg[t].manual
                              \/ \E f \in FieldSet(t) : Unbounded(f)
                              \/ \E u \in Enclosed(t) : u \in Dynamic
<1> DEFINE X == OnCycle(Enclosing) \cup
                {s \in Types : reg[s].manual \/ \E f \in FieldSet(s) : Unbounded(f)}
<1>1. X \in SUBSET Types /\ Dynamic = Leading(Enclosing, X)
  BY DEF Dynamic, OnCycle
<1>2. \A u : u \in Enclosed(t) <=> <<t, u>> \in Enclosing
  BY DEF Enclosing, Enclosed
<1>3. t \in X <=> t \in OnCycle(Enclosing) \/ reg[t].manual \/ \E f \in FieldSet(t) : Unbounded(f)
  OBVIOUS
<1> HIDE DEF X
<1>4. X \subseteq Dynamic /\ Dynamic \in SUBSET Types /\ Closed(Enclosing, Dynamic)
  BY <1>1, LeadingIs, LeadingClosed
<1>5. (\E u \in Enclosed(t) : u \in Dynamic) => t \in Dynamic
  BY <1>2, <1>4 DEF Closed
<1>6. ASSUME t \in Dynamic
      PROVE  t \in X \/ \E u \in Enclosed(t) : u \in Dynamic
  BY <1>1, <1>2, <1>6, LeadingStep
<1>7. ASSUME t \in OnCycle(Enclosing)
      PROVE  \E u \in Enclosed(t) : u \in Dynamic
  <2>1. PICK u \in Types : <<t, u>> \in Enclosing /\ u \in Leading(Enclosing, {t})
    BY <1>7 DEF OnCycle
  <2>2. t \in Leading(Enclosing, X)
    BY <1>1, <1>3, <1>4, <1>7
  <2>3. u \in Dynamic
    BY <1>1, <2>1, <2>2, LeadingMonotone
  <2> QED
    BY <1>2, <2>1, <2>3
<1> QED
  BY <1>3, <1>4, <1>5, <1>6, <1>7

(* What a field adds to its struct. *)
FieldDynamic(f) == Unbounded(f) \/ (Encloses(f) /\ f.type \in Dynamic)

LEMMA DynamicStruct ==
  ASSUME RegOK, NEW t \in Types, Is(t, "struct"), ~reg[t].manual
  PROVE  t \in Dynamic <=> \E k \in DOMAIN Fields(t) : FieldDynamic(Fields(t)[k])
<1>1. t \in Dynamic <=> \/ \E f \in FieldSet(t) : Unbounded(f)
                        \/ \E u \in Enclosed(t) : u \in Dynamic
  BY DynamicIs
<1>2. \A u \in Types : u \in Enclosed(t) <=> \E f \in FieldSet(t) : f.type = u /\ Encloses(f)
  BY DEF Enclosed, Is
<1>3. Dynamic \in SUBSET Types
  BY DynamicIs
<1>4. \A f : f \in FieldSet(t) <=> \E k \in DOMAIN Fields(t) : f = Fields(t)[k]
  BY DEF FieldSet
<1> QED
  BY <1>1, <1>2, <1>3, <1>4 DEF FieldDynamic

LEMMA DynamicOthers ==
  ASSUME RegOK, NEW t \in Types
  PROVE  /\ Is(t, "alias") => (t \in Dynamic <=> reg[t].target \in Dynamic)
         /\ Is(t, "struct") /\ reg[t].manual => t \in Dynamic
         /\ t \in Dynamic => Is(t, "alias") \/ Is(t, "struct")
<1>1. /\ Dynamic \in SUBSET Types
      /\ t \in Dynamic <=> \/ reg[t].manual
                           \/ \E f \in FieldSet(t) : Unbounded(f)
                           \/ \E u \in Enclosed(t) : u \in Dynamic
  BY DynamicIs
<1>2. reg[t].manual => Is(t, "struct")
  BY DEF RegOK, Declarable
<1>3. ~Is(t, "struct") => FieldSet(t) = {}
  BY DEF FieldSet, Fields
<1>4. ~Is(t, "struct") => \A u : u \in Enclosed(t) <=> u \in Types /\ Is(t, "alias") /\ reg[t].target = u
  BY <1>3 DEF Enclosed
<1>5. Is(t, "alias") => ~Is(t, "struct")
  BY DEF Is
<1> QED
  BY <1>1, <1>2, <1>3, <1>4, <1>5

---------------------------------------------------------------------------
(* How deep a walk goes *)

(* What t holds by value, at any depth. *)
Below(t) ==
  {u \in Types : \E w \in HeldByValue(t) : w \in Leading(ByValue, {u})}

Height(t) == IF t \in Types THEN Cardinality(Below(t)) + 2 ELSE 1

LEMMA BelowFinite ==
  ASSUME NEW t
  PROVE  /\ IsFiniteSet(Below(t)) /\ Cardinality(Below(t)) \in Nat
         /\ Cardinality(Below(t)) <= Cardinality(Types)
  BY TypesFinite, FS_Subset, FS_CardinalityType DEF Below

LEMMA HeightType ==
  ASSUME NEW t
  PROVE  /\ Height(t) \in Nat /\ 1 <= Height(t) /\ Height(t) <= Cardinality(Types) + 2
         /\ t \in Types => 2 <= Height(t)
  BY BelowFinite, TypesFinite DEF Height

LEMMA HeightFalls ==
  ASSUME RegOK, NEW t \in Types, NEW v,
         \/ Is(t, "alias") /\ reg[t].target = v
         \/ \E f \in FieldSet(t) : f.type = v /\ f.ind = 0
  PROVE  Height(v) < Height(t)
<1>1. CASE v \notin Types
  BY <1>1, HeightType DEF Height
<1>2. CASE v \in Types
  <2>1. v \in HeldByValue(t) /\ <<t, v>> \in ByValue
    BY <1>2 DEF HeldByValue, ByValue
  <2>2. \A a, b \in Types : b \in HeldByValue(a) <=> <<a, b>> \in ByValue
    BY DEF HeldByValue, ByValue
  <2>3. \A u \in Types : /\ u \in Leading(ByValue, {u})
                         /\ Closed(ByValue, Leading(ByValue, {u}))
    <3> SUFFICES ASSUME NEW u \in Types
                 PROVE  /\ u \in Leading(ByValue, {u})
                        /\ Closed(ByValue, Leading(ByValue, {u}))
      OBVIOUS
    <3>1. {u} \in SUBSET Types
      OBVIOUS
    <3>2. {u} \subseteq Leading(ByValue, {u})
      BY <3>1, LeadingIs
    <3> QED
      BY <3>1, <3>2, LeadingClosed
  <2>4. Below(v) \subseteq Below(t)
    <3> SUFFICES ASSUME NEW u \in Below(v) PROVE u \in Below(t)
      OBVIOUS
    <3>1. u \in Types
      BY DEF Below
    <3>2. PICK w \in HeldByValue(v) : w \in Leading(ByValue, {u})
      BY DEF Below
    <3>3. w \in Types
      BY DEF HeldByValue
    <3>4. v \in Leading(ByValue, {u})
      BY <1>2, <2>2, <2>3, <3>1, <3>2, <3>3 DEF Closed
    <3> QED
      BY <2>1, <3>1, <3>4 DEF Below
  <2>5. v \in Below(t)
    BY <1>2, <2>1, <2>3 DEF Below
  <2>6. v \notin Below(v)
    <3> SUFFICES ASSUME v \in Below(v) PROVE FALSE
      OBVIOUS
    <3>1. PICK w \in HeldByValue(v) : w \in Leading(ByValue, {v})
      BY DEF Below
    <3>2. w \in Types
      BY DEF HeldByValue
    <3>3. v \in OnCycle(ByValue)
      BY <1>2, <2>2, <3>1, <3>2 DEF OnCycle
    <3> QED
      BY <3>3 DEF RegOK, Declarable
  <2>7. Cardinality(Below(v) \cup {v}) = Cardinality(Below(v)) + 1
    BY <2>6, BelowFinite, FS_AddElement
  <2>8. Below(v) \cup {v} \in SUBSET Below(t)
    BY <2>4, <2>5
  <2>9. Cardinality(Below(v) \cup {v}) <= Cardinality(Below(t))
    BY <2>8, BelowFinite, FS_Subset
  <2> QED
    BY <1>2, <2>7, <2>9, BelowFinite DEF Height
<1> QED
  BY <1>1, <1>2

Turn == 2 * Cardinality(Types) + 2

(* Frames the structs that are not entered yet may take. *)
Load(visited) == Cardinality(Types \ visited) * Turn

LEMMA LoadFalls ==
  ASSUME NEW visited \in SUBSET Types
  PROVE  /\ Turn \in Nat /\ Load(visited) \in Nat
         /\ \A t \in Types \ visited : Load(visited \cup {t}) + Turn = Load(visited)
<1>1. /\ IsFiniteSet(Types \ visited) /\ Cardinality(Types \ visited) \in Nat
      /\ Turn \in Nat
  BY TypesFinite, FS_Subset, FS_CardinalityType DEF Turn
<1>2. \A a, b \in Nat : a * b \in Nat
  OBVIOUS
<1>3. \A a, b \in Nat : a # 0 => (a - 1) * b + b = a * b
  OBVIOUS
<1>4. ASSUME NEW t \in Types \ visited
      PROVE  Load(visited \cup {t}) + Turn = Load(visited)
  <2> DEFINE R == Types \ visited
  <2>1. Types \ (visited \cup {t}) = R \ {t} /\ t \in R
    OBVIOUS
  <2>2. Cardinality(Types \ (visited \cup {t})) = Cardinality(Types \ visited) - 1
    <3>1. IsFiniteSet(R)
      BY <1>1
    <3> HIDE DEF R
    <3>2. Cardinality(R \ {t}) = Cardinality(R) - 1
      BY <2>1, <3>1, FS_RemoveElement
    <3> QED
      BY <2>1, <3>2 DEF R
  <2>3. Cardinality(Types \ visited) # 0
    BY <1>1, FS_EmptySet
  <2> QED
    BY <1>1, <1>3, <2>2, <2>3 DEF Load
<1> QED
  BY <1>1, <1>2, <1>4 DEF Load

LEMMA FramesSuffice == Frames \in Nat /\ Load({}) + Turn = Frames
<1>1. Cardinality(Types) \in Nat /\ Types \ {} = Types
  BY TypesFinite
<1>2. \A a, b \in Nat : (a + 1) * b = a * b + b /\ a * b \in Nat
  OBVIOUS
<1>3. Turn \in Nat
  BY <1>1 DEF Turn
<1>4. Frames = (Cardinality(Types) + 1) * Turn
  BY DEF Frames, Turn
<1> QED
  BY <1>1, <1>2, <1>3, <1>4 DEF Load

(* Frames a call takes: a struct that is not entered yet takes Turn.       *)
Need(c) ==
  Load(c.visited) + Height(c.type)
    + (IF c.of = "fields" THEN Cardinality(Types) + 1 ELSE 0)

---------------------------------------------------------------------------
(* The calls of a walk *)

LEMMA CallParts ==
  ASSUME NEW of \in {"type", "fields"}, NEW t \in Types \cup Leaves,
         NEW visited \in SUBSET Types, NEW m \in Memo
  PROVE  /\ Call(of, t, visited, m) \in Calls
         /\ Call(of, t, visited, m).of = of
         /\ Call(of, t, visited, m).type = t
         /\ Call(of, t, visited, m).visited = visited
         /\ Call(of, t, visited, m).memo = m
  BY DEF Call, Calls

LEMMA FieldTyped ==
  ASSUME NEW walk \in [Calls -> Answers(Memo)], NEW f \in Field,
         NEW visited \in SUBSET Types, NEW m \in Memo
  PROVE  FieldMakesDynamic(walk, f, visited, m) \in Answers(Memo)
<1>1. f.type \in Types \cup Leaves
  BY DEF Field
<1>2. \A of \in {"type", "fields"} : walk[Call(of, f.type, visited, m)] \in Answers(Memo)
  BY <1>1, CallParts
<1>3. Answer(FALSE, m) \in Answers(Memo) /\ Answer(TRUE, m) \in Answers(Memo)
  BY AnswerParts
<1> QED
  BY <1>2, <1>3 DEF FieldMakesDynamic

Tests(walk, t, visited) ==
  [k \in DOMAIN Fields(t) |->
     [s \in Memo |-> FieldMakesDynamic(walk, Fields(t)[k], visited, s)]]

LEMMA TestsTyped ==
  ASSUME RegOK, NEW t \in Types, NEW walk \in [Calls -> Answers(Memo)],
         NEW visited \in SUBSET Types
  PROVE  Tests(walk, t, visited) \in [1 .. Len(Fields(t)) -> [Memo -> Answers(Memo)]]
<1>1. DOMAIN Fields(t) = 1 .. Len(Fields(t))
  BY RegTypes
<1>2. \A k \in DOMAIN Fields(t) : \A s \in Memo :
        FieldMakesDynamic(walk, Fields(t)[k], visited, s) \in Answers(Memo)
  BY RegTypes, FieldTyped
<1> QED
  BY <1>1, <1>2 DEF Tests

LEMMA AnyDynamicTyped ==
  ASSUME RegOK, NEW t \in Types \cup Leaves, NEW walk \in [Calls -> Answers(Memo)],
         NEW visited \in SUBSET Types, NEW m \in Memo
  PROVE  AnyDynamic(walk, t, visited, m) \in Answers(Memo)
<1> DEFINE n == Len(Fields(t))
<1>1. n \in Nat /\ Tests(walk, t, visited) \in [1 .. n -> [Memo -> Answers(Memo)]]
  <2>1. CASE t \in Types
    BY <2>1, RegTypes, TestsTyped
  <2>2. CASE t \notin Types
    <3>1. Fields(t) = << >>
      BY <2>2 DEF Fields, Is
    <3>2. n = 0 /\ DOMAIN Fields(t) = {} /\ 1 .. n = {}
      BY <3>1
    <3> QED
      BY <3>2 DEF Tests
  <2> QED
    BY <2>1, <2>2
<1> HIDE DEF n
<1>2. PICK U \in [0 .. n -> Answers(Memo)] :
        Rounds(U, n, Tests(walk, t, visited), m) /\ AnyOf(n, Tests(walk, t, visited), m) = U[n]
  BY <1>1, AnyOfRounds
<1>3. n \in 0 .. n
  BY <1>1
<1> QED
  BY <1>2, <1>3 DEF AnyDynamic, Tests, n

LEMMA WalkTypeTyped ==
  ASSUME RegOK, NEW t \in Types \cup Leaves, NEW walk \in [Calls -> Answers(Memo)],
         NEW visited \in SUBSET Types, NEW m \in Memo
  PROVE  WalkType(walk, t, visited, m) \in Answers(Memo)
<1>1. \A b \in BOOLEAN : Answer(b, m) \in Answers(Memo)
  BY AnswerParts
<1>2. CASE t \in Leaves \/ t \in visited
  BY <1>1, <1>2 DEF WalkType, MetAgain
<1>3. CASE t \notin Leaves /\ t \notin visited /\ m[t] # Absent
  <2>1. m[t] \in BOOLEAN
    BY <1>3 DEF Memo
  <2> QED
    BY <1>1, <1>3, <2>1 DEF WalkType
<1>4. CASE t \notin Leaves /\ t \notin visited /\ m[t] = Absent
  <2>1. t \in Types
    BY <1>4
  <2> DEFINE a == CASE reg[t].cat = "alias" ->
                       walk[Call("type", reg[t].target, visited, m)]
                    [] reg[t].cat = "struct" /\ reg[t].manual -> Answer(TRUE, m)
                    [] reg[t].cat = "struct" /\ ~reg[t].manual ->
                         AnyDynamic(walk, t, visited \cup {t}, m)
                    [] OTHER -> Answer(FALSE, m)
  <2>2. walk[Call("type", reg[t].target, visited, m)] \in Answers(Memo)
    BY <2>1, RegTypes, CallParts
  <2>3. AnyDynamic(walk, t, visited \cup {t}, m) \in Answers(Memo)
    <3>1. visited \cup {t} \in SUBSET Types
      BY <2>1
    <3> QED
      BY <3>1, AnyDynamicTyped
  <2>4. a \in Answers(Memo)
    BY <1>1, <2>2, <2>3
  <2>5. WalkType(walk, t, visited, m) = Answer(a.yes, [a.known EXCEPT ![t] = a.yes])
    BY <1>4 DEF WalkType
  <2> HIDE DEF a
  <2>6. a.yes \in BOOLEAN /\ a.known \in Memo
    BY <2>4 DEF Answers
  <2>7. [a.known EXCEPT ![t] = a.yes] \in Memo
    BY <2>6 DEF Memo
  <2> QED
    BY <2>5, <2>6, <2>7, AnswerParts
<1> QED
  BY <1>2, <1>3, <1>4

WalkStep(walk, n, c) ==
  IF n = 0 THEN Answer(FALSE, c.memo)
  ELSE IF c.of = "fields" THEN AnyDynamic(walk, c.type, c.visited, c.memo)
  ELSE WalkType(walk, c.type, c.visited, c.memo)

LEMMA WalkStepTyped ==
  ASSUME RegOK, NEW walk \in [Calls -> Answers(Memo)], NEW n, NEW c \in Calls
  PROVE  WalkStep(walk, n, c) \in Answers(Memo)
<1>1. c.type \in Types \cup Leaves /\ c.visited \in SUBSET Types /\ c.memo \in Memo
  BY DEF Calls
<1> QED
  BY <1>1, AnswerParts, AnyDynamicTyped, WalkTypeTyped DEF WalkStep

LEMMA WalkIs ==
  ASSUME RegOK
  PROVE  /\ Walk \in [0 .. Frames -> [Calls -> Answers(Memo)]]
         /\ \A n \in 0 .. Frames : \A c \in Calls :
              Walk[n][c] = WalkStep(Walk[n - 1], n, c)
<1> DEFINE S == [Calls -> Answers(Memo)]
           Body(g, n) == [c \in Calls |->
             IF n = 0 THEN Answer(FALSE, c.memo)
             ELSE IF c.of = "fields"
                  THEN AnyDynamic(g[n - 1], c.type, c.visited, c.memo)
                  ELSE WalkType(g[n - 1], c.type, c.visited, c.memo)]
           Solves(g) == g = [n \in 0 .. Frames |-> Body(g, n)]
           first == [c \in Calls |-> Answer(FALSE, c.memo)]
           step == [p \in S \X Nat |-> [c \in Calls |-> WalkStep(p[1], 1, c)]]
<1>1. Frames \in Nat
  BY FramesSuffice
<1>2. first \in S
  <2>1. \A c \in Calls : c.memo \in Memo
    BY DEF Calls
  <2> QED
    BY <2>1, AnswerParts
<1>3. step \in [S \X Nat -> S]
  <2>1. \A p \in S \X Nat : p[1] \in S
    OBVIOUS
  <2>2. \A p \in S \X Nat : \A c \in Calls : WalkStep(p[1], 1, c) \in Answers(Memo)
    BY <2>1, WalkStepTyped
  <2> QED
    BY <2>2
<1>4. PICK g \in [0 .. Frames -> S] : RecursiveUpto(g, Frames, first, step)
  <2> HIDE DEF first, step, S
  <2> QED
    BY <1>1, <1>2, <1>3, UptoRecursion
<1>5. ASSUME NEW n \in 0 .. Frames PROVE g[n] = Body(g, n)
  <2>1. CASE n = 0
    <3>1. g[n] = first
      <4> HIDE DEF first, step, S
      <4> QED
        BY <1>4, <2>1 DEF RecursiveUpto
    <3> QED
      BY <2>1, <3>1
  <2>2. CASE n # 0
    <3>1. n - 1 \in Nat /\ n - 1 \in 0 .. Frames
      BY <1>1, <2>2
    <3>2. g[n] = step[<<g[n - 1], n - 1>>]
      <4> HIDE DEF first, step, S
      <4> QED
        BY <1>4, <2>2 DEF RecursiveUpto
    <3>3. <<g[n - 1], n - 1>> \in S \X Nat
      <4> HIDE DEF S
      <4> QED
        BY <1>4, <3>1
    <3>4. g[n] = [c \in Calls |-> WalkStep(g[n - 1], 1, c)]
      <4> HIDE DEF S
      <4> QED
        BY <3>2, <3>3
    <3> QED
      BY <2>2, <3>4 DEF WalkStep
  <2> QED
    BY <2>1, <2>2
<1>6. Solves(g)
  <2>1. g = [n \in 0 .. Frames |-> g[n]]
    <3> HIDE DEF S
    <3> QED
      BY <1>4
  <2> HIDE DEF Body
  <2> QED
    BY <1>5, <2>1
<1>7. Walk = CHOOSE h : Solves(h)
  BY DEF Walk
<1>8. Solves(Walk)
  <2> HIDE DEF Solves
  <2> QED
    BY <1>6, <1>7, Zenon
<1>9. ASSUME NEW n \in 0 .. Frames PROVE Walk[n] = Body(Walk, n)
  <2> HIDE DEF Body
  <2> QED
    BY <1>8
<1>10. ASSUME NEW n \in 0 .. Frames, NEW c \in Calls
       PROVE  Walk[n][c] = WalkStep(Walk[n - 1], n, c)
  BY <1>9 DEF WalkStep
<1>11. \A n \in 0 .. Frames : Walk[n] \in S
  <2> DEFINE D == {n \in 0 .. Frames : Walk[n] \in S}
  <2>1. 0 \in D
    <3>1. 0 \in 0 .. Frames
      BY <1>1
    <3>2. Walk[0] = first
      BY <1>9, <3>1
    <3> HIDE DEF first, S
    <3> QED
      BY <1>2, <3>1, <3>2
  <2>2. \A n \in 1 .. Frames : n - 1 \in D => n \in D
    <3> SUFFICES ASSUME NEW n \in 1 .. Frames, Walk[n - 1] \in S
                 PROVE  n \in 0 .. Frames /\ Walk[n] \in S
      OBVIOUS
    <3>1. n \in 0 .. Frames
      BY <1>1
    <3>2. \A c \in Calls : Walk[n][c] \in Answers(Memo)
      BY <1>10, <3>1, WalkStepTyped
    <3>3. Walk[n] = [c \in Calls |-> Walk[n][c]]
      <4>1. Walk[n] = Body(Walk, n)
        BY <1>9, <3>1
      <4> QED
        BY <4>1
    <3> QED
      BY <3>1, <3>2, <3>3
  <2>3. 0 .. Frames \subseteq D
    <3> HIDE DEF D
    <3> QED
      BY <1>1, <2>1, <2>2, UptoInduction
  <2> HIDE DEF S
  <2> QED
    BY <2>3
<1>12. Walk = [n \in 0 .. Frames |-> Walk[n]]
  <2> HIDE DEF Body
  <2> QED
    BY <1>8
<1>13. Walk \in [0 .. Frames -> S]
  <2> HIDE DEF S
  <2> QED
    BY <1>11, <1>12
<1> QED
  BY <1>10, <1>13

---------------------------------------------------------------------------
(* Walks answer what is true, whatever true answers are stored *)

Sound == {m \in Memo : \A t \in Types : m[t] # Absent => (m[t] <=> t \in Dynamic)}

Right(a, b) == a \in Answers(Memo) /\ a.known \in Sound /\ (a.yes <=> b)

(* Each struct of the chain that is walked leads to the type that is asked.*)
Leads(v, t) == \E u \in Enclosed(v) : u \in Leading(Enclosing, {t})

Sane(c) ==
  /\ c \in Calls /\ c.memo \in Sound
  /\ \A v \in c.visited : c.type \in Types => Leads(v, c.type)
  /\ c.of = "fields" => Is(c.type, "struct") /\ ~reg[c.type].manual

(* The calls a field of t makes. *)
Asks(c, f, visited) ==
  /\ c \in Calls /\ c.type = f.type /\ c.visited = visited /\ c.memo \in Sound
  /\ Encloses(f)
  /\ c.of = "fields" => f.ind = 0 /\ IsInline(f)

LEMMA RightAnswer ==
  ASSUME NEW m \in Sound, NEW b \in BOOLEAN, NEW p \in BOOLEAN, b <=> p
  PROVE  Right(Answer(b, m), p)
<1>1. m \in Memo
  BY DEF Sound
<1> QED
  BY <1>1, AnswerParts DEF Right

LEMMA RightBounded ==
  ASSUME NEW m \in Sound, NEW t, t \notin Dynamic
  PROVE  Right(Answer(FALSE, m), t \in Dynamic)
BY AnswerParts DEF Right, Answers, Sound, Answer

LEMMA RightUnbounded ==
  ASSUME NEW m \in Sound, NEW p, p
  PROVE  Right(Answer(TRUE, m), p)
BY AnswerParts DEF Right, Answers, Sound, Answer

LEMMA FieldRight ==
  ASSUME RegOK, NEW t \in Types, NEW f \in FieldSet(t), f \in Field,
         NEW walk \in [Calls -> Answers(Memo)], NEW visited \in SUBSET Types,
         NEW m \in Sound,
         \A c \in Calls : Asks(c, f, visited) => Right(walk[c], f.type \in Dynamic)
  PROVE  Right(FieldMakesDynamic(walk, f, visited, m), FieldDynamic(f))
<1> DEFINE a == FieldMakesDynamic(walk, f, visited, m)
<1>1. /\ f.type \in Types \cup Leaves /\ f.ind \in 0 .. 2
      /\ f.count \in {"none", "fixed", "runtime"}
      /\ f.handle \in BOOLEAN /\ f.bits \in BOOLEAN /\ m \in Memo
  BY DEF Field, Sound
<1>2. FieldDynamic(f) \in BOOLEAN
  BY DEF FieldDynamic, Unbounded, Encloses
<1>3. ~(Is(f.type, "interface") /\ Is(f.type, "alias"))
  BY DEF Is
<1>4. f.type = "void" \/ f.type = "char" => ~Is(f.type, "interface") /\ ~Is(f.type, "alias")
  BY LeavesApart DEF Is
<1>5. f.type = "void" /\ f.ind = 2 => f.handle
  BY DEF RegOK, Declarable
<1>6. CASE f.bits \/ f.handle
  <2>1. ~(\/ ~f.bits /\ ~f.handle /\ IsStringType(f)
          \/ ~f.bits /\ ~f.handle /\ IsBlob(f)
          \/ ~f.bits /\ IsNonSerializable(f))
    BY <1>6 DEF IsNonSerializable
  <2>3. a = Answer(FALSE, m)
    BY <1>6, <2>1, Zenon DEF FieldMakesDynamic
  <2>2. ~FieldDynamic(f)
    BY <1>6 DEF FieldDynamic, Unbounded, Encloses
  <2> QED
    BY <1>2, <2>2, <2>3, RightAnswer
<1>7. CASE ~f.bits /\ ~f.handle /\ (IsStringType(f) \/ IsBlob(f) \/ IsNonSerializable(f))
  <2>1. a = Answer(TRUE, m)
    BY <1>7 DEF FieldMakesDynamic
  <2>2. FieldDynamic(f)
    BY <1>7 DEF FieldDynamic, Unbounded, IsBlob, IsNonSerializable
  <2> QED
    BY <1>2, <2>1, <2>2, RightAnswer
<1>8. CASE /\ ~f.bits /\ ~f.handle
           /\ ~IsStringType(f) /\ ~IsBlob(f) /\ ~IsNonSerializable(f)
  <2>1. a = IF f.ind = 0
            THEN walk[Call(IF IsInline(f) THEN "fields" ELSE "type", f.type, visited, m)]
            ELSE IF Is(f.type, "interface") THEN Answer(FALSE, m)
            ELSE IF f.count = "fixed" \/ (f.count = "none" /\ f.ind = 1)
                 THEN walk[Call("type", f.type, visited, m)]
                 ELSE Answer(TRUE, m)
    BY <1>8 DEF FieldMakesDynamic
  <2>2. ASSUME Encloses(f), NEW of \in {"type", "fields"},
               of = "fields" => f.ind = 0 /\ IsInline(f)
        PROVE  Right(walk[Call(of, f.type, visited, m)], f.type \in Dynamic)
    <3>1. Asks(Call(of, f.type, visited, m), f, visited)
      BY <1>1, <2>2, CallParts DEF Asks
    <3> QED
      BY <3>1 DEF Asks
  <2>3. f.type # "void"
    <3> SUFFICES ASSUME f.type = "void" PROVE FALSE
      OBVIOUS
    <3>1. f.ind # 2
      BY <1>5, <1>8
    <3> QED
      BY <1>1, <1>8, <3>1 DEF IsBlob, IsNonSerializable
  <2>4. CASE f.ind = 0
    <3>1. ~Unbounded(f) /\ Encloses(f)
      BY <1>8, <2>3, <2>4 DEF Unbounded, Encloses
    <3>2. FieldDynamic(f) <=> f.type \in Dynamic
      BY <3>1 DEF FieldDynamic
    <3>3. Right(a, f.type \in Dynamic)
      BY <2>1, <2>2, <2>4, <3>1
    <3> QED
      BY <3>2, <3>3 DEF Right
  <2>5. CASE f.ind # 0 /\ Is(f.type, "interface")
    <3>1. ~Unbounded(f) /\ ~Encloses(f)
      BY <1>1, <1>3, <1>8, <2>3, <2>5 DEF Unbounded, Encloses
    <3>2. a = Answer(FALSE, m) /\ ~FieldDynamic(f)
      BY <2>1, <2>5, <3>1 DEF FieldDynamic
    <3> QED
      BY <1>2, <3>2, RightAnswer
  <2>6. CASE /\ f.ind # 0 /\ ~Is(f.type, "interface")
             /\ f.count = "fixed" \/ (f.count = "none" /\ f.ind = 1)
    <3>1. ~Unbounded(f) /\ Encloses(f)
      BY <1>1, <1>8, <2>3, <2>6 DEF Unbounded, Encloses
    <3>2. FieldDynamic(f) <=> f.type \in Dynamic
      BY <3>1 DEF FieldDynamic
    <3>3. Right(a, f.type \in Dynamic)
      BY <2>1, <2>2, <2>6, <3>1
    <3> QED
      BY <3>2, <3>3 DEF Right
  <2>7. CASE /\ f.ind # 0 /\ ~Is(f.type, "interface")
             /\ ~(f.count = "fixed" \/ (f.count = "none" /\ f.ind = 1))
    <3>1. Unbounded(f)
      BY <1>1, <1>8, <2>7 DEF Unbounded
    <3>2. a = Answer(TRUE, m) /\ FieldDynamic(f)
      BY <2>1, <2>7, <3>1 DEF FieldDynamic
    <3> QED
      BY <1>2, <3>2, RightAnswer
  <2> QED
    BY <2>4, <2>5, <2>6, <2>7
<1> QED
  BY <1>1, <1>6, <1>7, <1>8

LEMMA StructRight ==
  ASSUME RegOK, NEW t \in Types, Is(t, "struct"), ~reg[t].manual,
         NEW walk \in [Calls -> Answers(Memo)], NEW visited \in SUBSET Types,
         NEW m \in Sound,
         \A f \in FieldSet(t) : \A c \in Calls :
           Asks(c, f, visited) => Right(walk[c], f.type \in Dynamic)
  PROVE  Right(AnyDynamic(walk, t, visited, m), t \in Dynamic)
<1> DEFINE n == Len(Fields(t))
           test == Tests(walk, t, visited)
           Some(k) == \E j \in 1 .. k : FieldDynamic(Fields(t)[j])
           Inv == [k \in 0 .. n |-> {a \in Answers(Memo) : Right(a, Some(k))}]
<1>1. n \in Nat /\ DOMAIN Fields(t) = 1 .. n /\ \A k \in 1 .. n : Fields(t)[k] \in Field
  BY RegTypes
<1>2. test \in [1 .. n -> [Memo -> Answers(Memo)]] /\ m \in Memo
  BY TestsTyped DEF Sound
<1>3. \A k \in 1 .. n : \A s \in Sound :
        Right(test[k][s], FieldDynamic(Fields(t)[k]))
  <2> SUFFICES ASSUME NEW k \in 1 .. n, NEW s \in Sound
               PROVE  Right(test[k][s], FieldDynamic(Fields(t)[k]))
    OBVIOUS
  <2>1. Fields(t)[k] \in FieldSet(t) /\ Fields(t)[k] \in Field
    BY <1>1 DEF FieldSet
  <2>2. s \in Memo
    BY DEF Sound
  <2>3. test[k][s] = FieldMakesDynamic(walk, Fields(t)[k], visited, s)
    BY <1>1, <2>2 DEF Tests
  <2>4. Right(FieldMakesDynamic(walk, Fields(t)[k], visited, s), FieldDynamic(Fields(t)[k]))
    BY <2>1, FieldRight
  <2> QED
    BY <2>3, <2>4
<1> HIDE DEF n, test
<1>4. Answer(FALSE, m) \in Inv[0]
  <2>1. 0 \in 0 .. n /\ ~Some(0)
    BY <1>1
  <2>2. Right(Answer(FALSE, m), Some(0))
    BY <2>1, RightAnswer
  <2> HIDE DEF Some
  <2> QED
    BY <2>1, <2>2 DEF Right
<1>5. ASSUME NEW k \in 1 .. n, NEW a \in Answers(Memo), a \in Inv[k - 1]
      PROVE  (IF a.yes THEN a ELSE test[k][a.known]) \in Inv[k]
  <2>1. k - 1 \in 0 .. n /\ k \in 0 .. n
    BY <1>1
  <2>2. Some(k) <=> Some(k - 1) \/ FieldDynamic(Fields(t)[k])
    <3>1. \A j : j \in 1 .. k <=> j \in 1 .. k - 1 \/ j = k
      BY <1>1
    <3> QED
      BY <3>1
  <2> HIDE DEF Some
  <2>3. Right(a, Some(k - 1))
    BY <1>5, <2>1
  <2>4. Right(IF a.yes THEN a ELSE test[k][a.known], Some(k))
    <3>1. CASE a.yes
      BY <2>2, <2>3, <3>1 DEF Right
    <3>2. CASE ~a.yes
      <4>1. Right(test[k][a.known], FieldDynamic(Fields(t)[k]))
        BY <1>3, <2>3 DEF Right
      <4> QED
        BY <2>2, <2>3, <3>2, <4>1 DEF Right
    <3> QED
      BY <3>1, <3>2
  <2> QED
    BY <2>1, <2>4 DEF Right
<1>6. AnyOf(n, test, m) \in Inv[n]
  <2> HIDE DEF Inv
  <2> QED
    BY <1>1, <1>2, <1>4, <1>5, AnyOfKeeps
<1>7. Right(AnyOf(n, test, m), Some(n))
  <2>1. n \in 0 .. n
    BY <1>1
  <2> HIDE DEF Some
  <2> QED
    BY <1>6, <2>1
<1>8. Some(n) <=> t \in Dynamic
  BY <1>1, DynamicStruct
<1> HIDE DEF Some
<1>9. AnyDynamic(walk, t, visited, m) = AnyOf(n, test, m)
  BY DEF AnyDynamic, Tests, n, test
<1> QED
  BY <1>7, <1>8, <1>9 DEF Right

LEMMA StoredRight ==
  ASSUME NEW t \in Types, NEW a, Right(a, t \in Dynamic)
  PROVE  Right(Answer(a.yes, [a.known EXCEPT ![t] = a.yes]), t \in Dynamic)
<1>1. a.yes \in BOOLEAN /\ a.known \in Memo /\ a.known \in Sound /\ (a.yes <=> t \in Dynamic)
  BY DEF Right, Answers
<1> DEFINE m == [a.known EXCEPT ![t] = a.yes]
<1>2. m \in Memo /\ m[t] = a.yes /\ \A s \in Types \ {t} : m[s] = a.known[s]
  BY <1>1 DEF Memo
<1>3. m \in Sound
  <2> HIDE DEF m
  <2>1. \A s \in Types : m[s] # Absent => (m[s] <=> s \in Dynamic)
    <3> SUFFICES ASSUME NEW s \in Types, m[s] # Absent PROVE m[s] <=> s \in Dynamic
      OBVIOUS
    <3>1. CASE s = t
      BY <1>1, <1>2, <3>1
    <3>2. CASE s # t
      BY <1>1, <1>2, <3>2 DEF Sound
    <3> QED
      BY <3>1, <3>2
  <2> QED
    BY <1>2, <2>1 DEF Sound
<1> HIDE DEF m
<1>4. Right(Answer(a.yes, m), t \in Dynamic)
  BY <1>1, <1>3, RightAnswer
<1> QED
  BY <1>4 DEF m

LEMMA DynamicTypes ==
  /\ Dynamic \in SUBSET Types
  /\ \A t \in Types : Leads(t, t) => t \in Dynamic
<1> DEFINE X == OnCycle(Enclosing) \cup
                {s \in Types : reg[s].manual \/ \E f \in FieldSet(s) : Unbounded(f)}
<1>1. X \in SUBSET Types /\ Dynamic = Leading(Enclosing, X)
  BY DEF Dynamic, OnCycle
<1>2. OnCycle(Enclosing) \subseteq X
  OBVIOUS
<1> HIDE DEF X
<1>3. X \subseteq Dynamic /\ Dynamic \in SUBSET Types
  BY <1>1, LeadingIs
<1>4. \A t \in Types : Leads(t, t) => t \in OnCycle(Enclosing)
  BY DEF Leads, OnCycle, Enclosing, Enclosed
<1> QED
  BY <1>2, <1>3, <1>4

LEMMA LeadsOn ==
  ASSUME NEW t \in Types, NEW u \in Enclosed(t), NEW v, v = t \/ Leads(v, t)
  PROVE  Leads(v, u)
<1>1. u \in Types /\ {u} \in SUBSET Types /\ <<t, u>> \in Enclosing
  BY DEF Enclosed, Enclosing
<1>2. {u} \subseteq Leading(Enclosing, {u}) /\ Closed(Enclosing, Leading(Enclosing, {u}))
  BY <1>1, LeadingIs, LeadingClosed
<1>3. t \in Leading(Enclosing, {u})
  BY <1>1, <1>2 DEF Closed
<1>4. Leading(Enclosing, {t}) \subseteq Leading(Enclosing, {u})
  BY <1>1, <1>3, LeadingMonotone
<1> QED
  BY <1>2, <1>4 DEF Leads

LEMMA AsksSane ==
  ASSUME RegOK, NEW t \in Types, NEW f \in FieldSet(t), NEW d,
         NEW visited \in SUBSET Types, Asks(d, f, visited),
         \A v \in visited : v = t \/ Leads(v, t)
  PROVE  Sane(d)
<1>1. d \in Calls /\ d.memo \in Sound /\ d.type = f.type /\ d.visited = visited
  BY DEF Asks
<1>2. ASSUME NEW v \in visited, f.type \in Types PROVE Leads(v, f.type)
  <2>1. f.type \in Enclosed(t)
    BY <1>2 DEF Asks, Enclosed
  <2> QED
    BY <2>1, LeadsOn
<1>3. d.of = "fields" => Is(d.type, "struct") /\ ~reg[d.type].manual
  <2> SUFFICES ASSUME d.of = "fields" PROVE Is(d.type, "struct") /\ ~reg[d.type].manual
    OBVIOUS
  <2>1. Is(d.type, "struct") /\ reg[d.type].anonymous
    BY <1>1 DEF Asks, IsInline, IsStruct
  <2> QED
    BY <2>1 DEF RegOK, Declarable, Is
<1> QED
  BY <1>1, <1>2, <1>3 DEF Sane

LEMMA StepRight ==
  ASSUME RegOK, NEW walk \in [Calls -> Answers(Memo)],
         NEW n \in Nat, n # 0, NEW c \in Calls, Sane(c), Need(c) <= n,
         \A d \in Calls : Sane(d) /\ Need(d) <= n - 1 => Right(walk[d], d.type \in Dynamic)
  PROVE  Right(WalkStep(walk, n, c), c.type \in Dynamic)
<1> DEFINE t == c.type
           V == c.visited
           m == c.memo
           N == Cardinality(Types)
<1>1. /\ t \in Types \cup Leaves /\ V \in SUBSET Types /\ m \in Memo
      /\ c.of \in {"type", "fields"} /\ m \in Sound /\ N \in Nat
  BY TypesFinite DEF Calls, Sane
<1>2. Turn = 2 * N + 2 /\ Load(V) \in Nat /\ Height(t) \in Nat
  BY <1>1, LoadFalls, HeightType DEF Turn
<1> HIDE DEF t, V, m, N
<1>3. CASE c.of = "fields"
  <2>1. Is(t, "struct") /\ ~reg[t].manual /\ t \in Types
    BY <1>3 DEF Sane, t, Is
  <2>2. \A v \in V : Leads(v, t)
    BY <2>1 DEF Sane, V, t
  <2>3. ASSUME NEW f \in FieldSet(t), NEW d \in Calls, Asks(d, f, V)
        PROVE  Right(walk[d], f.type \in Dynamic)
    <3>1. Sane(d)
      BY <1>1, <2>1, <2>2, <2>3, AsksSane
    <3>2. /\ Height(f.type) \in Nat /\ Height(f.type) <= N + 2 /\ 2 <= Height(t)
          /\ d.of = "fields" => Height(f.type) < Height(t)
      BY <2>1, <2>3, HeightType, HeightFalls DEF Asks, N
    <3>3. Need(d) = Load(V) + Height(f.type) + (IF d.of = "fields" THEN N + 1 ELSE 0)
      BY <2>3 DEF Need, Asks, N
    <3>4. Need(c) = Load(V) + Height(t) + (N + 1)
      BY <1>3 DEF Need, V, t, N
    <3>5. Need(d) <= n - 1
      BY <1>1, <1>2, <3>2, <3>3, <3>4
    <3>6. d.type = f.type
      BY <2>3 DEF Asks
    <3> QED
      BY <3>1, <3>5, <3>6
  <2>4. Right(AnyDynamic(walk, t, V, m), t \in Dynamic)
    BY <1>1, <2>1, <2>3, StructRight
  <2> QED
    BY <1>3, <2>4 DEF WalkStep, t, V, m
<1>4. CASE c.of = "type"
  <2>1. WalkStep(walk, n, c) = WalkType(walk, t, V, m)
    BY <1>4 DEF WalkStep, t, V, m
  <2>2. CASE t \in Leaves
    <3>1. t \notin Dynamic
      BY <2>2, NamesType, DynamicTypes
    <3>2. WalkType(walk, t, V, m) = Answer(FALSE, m)
      BY <2>2 DEF WalkType
    <3>3. Right(Answer(FALSE, m), t \in Dynamic)
      BY <1>1, <3>1, RightBounded
    <3> QED
      BY <2>1, <3>2, <3>3 DEF t
  <2>3. CASE t \notin Leaves /\ t \in V
    <3>1. t \in Dynamic
      BY <1>1, <2>3, DynamicTypes DEF Sane, t, V
    <3>2. WalkType(walk, t, V, m) = Answer(TRUE, m)
      BY <2>3 DEF WalkType, MetAgain
    <3>3. Right(Answer(TRUE, m), t \in Dynamic)
      BY <1>1, <3>1, RightAnswer
    <3> QED
      BY <2>1, <3>2, <3>3 DEF t
  <2>4. CASE t \notin Leaves /\ t \notin V /\ m[t] # Absent
    <3>1. m[t] \in BOOLEAN /\ (m[t] <=> t \in Dynamic)
      BY <1>1, <2>4 DEF Memo, Sound
    <3>2. WalkType(walk, t, V, m) = Answer(m[t], m)
      BY <2>4 DEF WalkType
    <3>3. Right(Answer(m[t], m), t \in Dynamic)
      BY <1>1, <3>1, RightAnswer
    <3> QED
      BY <2>1, <3>2, <3>3 DEF t
  <2>5. CASE t \notin Leaves /\ t \notin V /\ m[t] = Absent
    <3> DEFINE a == CASE reg[t].cat = "alias" ->
                           walk[Call("type", reg[t].target, V, m)]
                      [] reg[t].cat = "struct" /\ reg[t].manual -> Answer(TRUE, m)
                      [] reg[t].cat = "struct" /\ ~reg[t].manual ->
                           AnyDynamic(walk, t, V \cup {t}, m)
                      [] OTHER -> Answer(FALSE, m)
    <3>1. WalkType(walk, t, V, m) = Answer(a.yes, [a.known EXCEPT ![t] = a.yes])
      BY <2>5 DEF WalkType
    <3>2. t \in Types
      BY <1>1, <2>5
    <3>3. \A v \in V : Leads(v, t)
      BY <3>2 DEF Sane, V, t
    <3>4. ASSUME Is(t, "alias") PROVE Right(a, t \in Dynamic)
      <4> DEFINE d == Call("type", reg[t].target, V, m)
      <4>1. reg[t].target \in Types \cup Leaves
        BY <3>2, RegTypes
      <4>2. /\ d \in Calls /\ d.of = "type" /\ d.type = reg[t].target
            /\ d.visited = V /\ d.memo = m
        BY <1>1, <4>1, CallParts
      <4> HIDE DEF d
      <4>3. Sane(d)
        <5>1. ASSUME NEW v \in V, reg[t].target \in Types PROVE Leads(v, reg[t].target)
          <6>1. reg[t].target \in Enclosed(t)
            BY <3>4, <5>1 DEF Enclosed
          <6> QED
            BY <3>2, <3>3, <6>1, LeadsOn
        <5> QED
          BY <1>1, <4>2, <5>1 DEF Sane
      <4>4. Height(reg[t].target) \in Nat /\ Height(reg[t].target) < Height(t)
        BY <3>2, <3>4, HeightType, HeightFalls
      <4>5. Need(d) <= n - 1
        BY <1>2, <1>4, <4>2, <4>4 DEF Need, t, V
      <4>6. Right(walk[d], reg[t].target \in Dynamic)
        BY <4>2, <4>3, <4>5
      <4>7. a = walk[d]
        <5>1. reg[t].cat = "alias" /\ reg[t].cat # "struct"
          BY <3>4 DEF Is
        <5> QED
          BY <5>1, Zenon DEF d
      <4>8. Right(a, t \in Dynamic)
        BY <3>2, <3>4, <4>6, <4>7, DynamicOthers DEF Right
      <4> QED
        BY <4>8
    <3>5. ASSUME Is(t, "struct"), reg[t].manual PROVE Right(a, t \in Dynamic)
      <4>1. a = Answer(TRUE, m)
        <5>1. reg[t].cat = "struct" /\ reg[t].cat # "alias" /\ reg[t].manual
          BY <3>5 DEF Is
        <5> QED
          BY <5>1, Zenon
      <4>2. t \in Dynamic
        BY <3>2, <3>5, DynamicOthers
      <4> QED
        BY <1>1, <4>1, <4>2, RightUnbounded
    <3>6. ASSUME Is(t, "struct"), ~reg[t].manual PROVE Right(a, t \in Dynamic)
      <4> DEFINE W == V \cup {t}
      <4>1. W \in SUBSET Types /\ \A v \in W : v = t \/ Leads(v, t)
        BY <1>1, <3>2, <3>3
      <4>2. Load(W) \in Nat /\ Load(W) + Turn = Load(V)
        BY <1>1, <2>5, <3>2, <4>1, LoadFalls
      <4> HIDE DEF W
      <4>3. ASSUME NEW f \in FieldSet(t), NEW d \in Calls, Asks(d, f, W)
            PROVE  Right(walk[d], f.type \in Dynamic)
        <5>1. Sane(d)
          BY <3>2, <4>1, <4>3, AsksSane
        <5>2. Height(f.type) \in Nat /\ Height(f.type) <= N + 2 /\ 2 <= Height(t)
          BY <3>2, HeightType DEF N
        <5>3. Need(d) = Load(W) + Height(f.type) + (IF d.of = "fields" THEN N + 1 ELSE 0)
          BY <4>3 DEF Need, Asks, N
        <5>4. Need(c) = Load(V) + Height(t)
          BY <1>2, <1>4 DEF Need, V, t
        <5>5. Need(d) <= n - 1
          BY <1>1, <1>2, <4>2, <5>2, <5>3, <5>4
        <5>6. d.type = f.type
          BY <4>3 DEF Asks
        <5> QED
          BY <5>1, <5>5, <5>6
      <4>4. Right(AnyDynamic(walk, t, W, m), t \in Dynamic)
        BY <1>1, <3>2, <3>6, <4>1, <4>3, StructRight
      <4>5. a = AnyDynamic(walk, t, W, m)
        <5>1. reg[t].cat = "struct" /\ reg[t].cat # "alias" /\ ~reg[t].manual
          BY <3>6 DEF Is
        <5> QED
          BY <5>1, Zenon DEF W
      <4> QED
        BY <4>4, <4>5
    <3>7. ASSUME ~Is(t, "alias"), ~Is(t, "struct") PROVE Right(a, t \in Dynamic)
      <4>1. a = Answer(FALSE, m)
        <5>1. reg[t].cat # "struct" /\ reg[t].cat # "alias"
          BY <3>2, <3>7 DEF Is
        <5> QED
          BY <5>1, Zenon
      <4>2. t \notin Dynamic
        BY <3>2, <3>7, DynamicOthers
      <4> QED
        BY <1>1, <4>1, <4>2, RightBounded
    <3> HIDE DEF a
    <3>8. Right(a, t \in Dynamic)
      BY <3>4, <3>5, <3>6, <3>7
    <3> QED
      BY <2>1, <3>1, <3>2, <3>8, StoredRight DEF t
  <2> QED
    BY <2>2, <2>3, <2>4, <2>5
<1> QED
  BY <1>1, <1>3, <1>4

LEMMA WalkRight ==
  ASSUME RegOK, NEW t \in Types \cup Leaves, NEW m \in Sound
  PROVE  Right(IsDynamicWireSize(t, m), t \in Dynamic)
<1> DEFINE D == {n \in 0 .. Frames : \A c \in Calls :
                   Sane(c) /\ Need(c) <= n => Right(Walk[n][c], c.type \in Dynamic)}
<1>1. Frames \in Nat
  BY FramesSuffice
<1>2. 0 \in D
  <2>1. ASSUME NEW c \in Calls PROVE ~(Need(c) <= 0)
    <3>1. c.visited \in SUBSET Types
      BY DEF Calls
    <3>2. Load(c.visited) \in Nat /\ Height(c.type) \in Nat /\ 1 <= Height(c.type)
      BY <3>1, LoadFalls, HeightType
    <3> QED
      BY <3>2, TypesFinite DEF Need
  <2> QED
    BY <1>1, <2>1
<1>3. \A n \in 1 .. Frames : n - 1 \in D => n \in D
  <2> SUFFICES ASSUME NEW n \in 1 .. Frames, n - 1 \in D, NEW c \in Calls,
                      Sane(c), Need(c) <= n
               PROVE  n \in 0 .. Frames /\ Right(Walk[n][c], c.type \in Dynamic)
    BY <1>1
  <2>1. n \in Nat /\ n # 0 /\ n \in 0 .. Frames /\ n - 1 \in 0 .. Frames
    BY <1>1
  <2>2. Walk[n][c] = WalkStep(Walk[n - 1], n, c) /\ Walk[n - 1] \in [Calls -> Answers(Memo)]
    BY <2>1, WalkIs
  <2>3. \A d \in Calls : Sane(d) /\ Need(d) <= n - 1 => Right(Walk[n - 1][d], d.type \in Dynamic)
    OBVIOUS
  <2> HIDE DEF D
  <2>4. Right(WalkStep(Walk[n - 1], n, c), c.type \in Dynamic)
    BY <2>1, <2>2, <2>3, StepRight
  <2> QED
    BY <2>1, <2>2, <2>4
<1>4. 0 .. Frames \subseteq D
  <2> HIDE DEF D
  <2> QED
    BY <1>1, <1>2, <1>3, UptoInduction
<1> DEFINE c == Call("type", t, {}, m)
<1>5. c \in Calls /\ c.of = "type" /\ c.type = t /\ c.visited = {} /\ c.memo = m
  <2>1. m \in Memo /\ {} \in SUBSET Types
    BY DEF Sound
  <2> QED
    BY <2>1, CallParts
<1> HIDE DEF c
<1>6. Sane(c)
  BY <1>5 DEF Sane
<1>7. Need(c) <= Frames
  <2>1. Load({}) \in Nat /\ Load({}) + Turn = Frames /\ Height(t) \in Nat
        /\ Height(t) <= Cardinality(Types) + 2
    BY FramesSuffice, LoadFalls, HeightType
  <2> QED
    BY <1>5, <2>1, TypesFinite DEF Need, Turn
<1>8. Frames \in 0 .. Frames
  BY <1>1
<1>9. Right(Walk[Frames][c], c.type \in Dynamic)
  BY <1>4, <1>5, <1>6, <1>7, <1>8
<1> QED
  BY <1>5, <1>9 DEF IsDynamicWireSize, c

---------------------------------------------------------------------------
(* Replies *)

(* The names an alias chain goes through. *)
Following(F, t) ==
  /\ F[0] = t
  /\ \A k \in 1 .. Cardinality(Types) :
       F[k] = IF Is(F[k - 1], "alias") THEN reg[F[k - 1]].target ELSE F[k - 1]

LEMMA AliasChain ==
  ASSUME RegOK, NEW t \in Types \cup Leaves
  PROVE  \E F \in [0 .. Cardinality(Types) -> Types \cup Leaves] :
           Following(F, t) /\ ResolveAliasChain(t) = F[Cardinality(Types)]
<1> DEFINE n == Cardinality(Types)
           S == Types \cup Leaves
           Onward(u) == IF Is(u, "alias") THEN reg[u].target ELSE u
           Body(g, k) == IF k = 0 THEN t
                         ELSE IF Is(g[k - 1], "alias") THEN reg[g[k - 1]].target
                              ELSE g[k - 1]
           Solves(g) == g = [k \in 0 .. n |-> Body(g, k)]
           step == [p \in S \X Nat |-> Onward(p[1])]
<1>1. n \in Nat
  BY TypesFinite
<1>2. step \in [S \X Nat -> S]
  <2>1. \A u \in S : Onward(u) \in S
    BY RegTypes DEF Is
  <2> HIDE DEF Onward, S
  <2> QED
    BY <2>1
<1>3. PICK g \in [0 .. n -> S] : RecursiveUpto(g, n, t, step)
  <2> HIDE DEF step, n, S
  <2>1. t \in S
    BY DEF S
  <2> QED
    BY <1>1, <1>2, <2>1, UptoRecursion
<1> HIDE DEF S
<1>4. ASSUME NEW k \in 0 .. n PROVE g[k] = Body(g, k)
  <2>1. CASE k = 0
    BY <1>3, <2>1 DEF RecursiveUpto
  <2>2. CASE k # 0
    <3>1. k - 1 \in Nat /\ k - 1 \in 0 .. n
      BY <1>1, <2>2
    <3>2. g[k] = step[<<g[k - 1], k - 1>>]
      <4> HIDE DEF step
      <4> QED
        BY <1>3, <2>2 DEF RecursiveUpto
    <3>3. <<g[k - 1], k - 1>> \in S \X Nat
      <4> HIDE DEF n
      <4> QED
        BY <3>1
    <3>4. g[k] = Onward(g[k - 1])
      BY <3>2, <3>3
    <3> QED
      BY <2>2, <3>4
  <2> QED
    BY <2>1, <2>2
<1>5. Solves(g)
  <2>1. g = [k \in 0 .. n |-> g[k]]
    OBVIOUS
  <2> HIDE DEF Body
  <2> QED
    BY <1>4, <2>1
<1> DEFINE F == CHOOSE h : Solves(h)
<1>6. Solves(F)
  <2> HIDE DEF Solves
  <2> QED
    BY <1>5, Zenon
<1>7. ResolveAliasChain(t) = F[n]
  BY DEF ResolveAliasChain
<1> HIDE DEF F
<1>8. ASSUME NEW k \in 0 .. n PROVE F[k] = Body(F, k)
  <2> HIDE DEF Body
  <2> QED
    BY <1>6
<1>9. Following(F, t)
  <2>1. F[0] = t
    <3>1. 0 \in 0 .. n
      BY <1>1
    <3> QED
      BY <1>8, <3>1
  <2>2. \A k \in 1 .. n : F[k] = Onward(F[k - 1])
    <3>1. \A k \in 1 .. n : k \in 0 .. n /\ k # 0
      BY <1>1
    <3> QED
      BY <1>8, <3>1
  <2> QED
    BY <2>1, <2>2 DEF Following
<1>10. F \in [0 .. n -> S]
  <2> DEFINE D == {k \in 0 .. n : F[k] \in S}
  <2>1. 0 \in D
    BY <1>1, <1>9 DEF Following, S
  <2>2. \A k \in 1 .. n : k - 1 \in D => k \in D
    <3> SUFFICES ASSUME NEW k \in 1 .. n, F[k - 1] \in S
                 PROVE  F[k] \in S /\ k \in 0 .. n
      OBVIOUS
    <3>1. F[k] = Onward(F[k - 1])
      BY <1>9 DEF Following
    <3>2. k \in 0 .. n
      BY <1>1
    <3> QED
      BY <3>1, <3>2, RegTypes DEF Is, S
  <2>3. 0 .. n \subseteq D
    <3> HIDE DEF D, n
    <3> QED
      BY <1>1, <2>1, <2>2, UptoInduction
  <2>4. \A k \in 0 .. n : F[k] \in S
    BY <2>3
  <2>5. F = [k \in 0 .. n |-> F[k]]
    <3>1. F = [k \in 0 .. n |-> Body(F, k)]
      BY <1>6
    <3> HIDE DEF Body
    <3> QED
      BY <3>1
  <2> HIDE DEF D
  <2> QED
    BY <2>4, <2>5
<1> QED
  BY <1>7, <1>9, <1>10 DEF S

(* A type without a bound has none through its aliases either.             *)
LEMMA ChainDynamic ==
  ASSUME RegOK, NEW t \in Dynamic
  PROVE  ResolveAliasChain(t) \in Dynamic
<1> DEFINE n == Cardinality(Types)
<1>1. n \in Nat
  BY TypesFinite
<1>2. Dynamic \in SUBSET Types /\ t \in Types \cup Leaves
  BY DynamicTypes
<1>3. PICK F \in [0 .. n -> Types \cup Leaves] :
        Following(F, t) /\ ResolveAliasChain(t) = F[n]
  BY <1>2, AliasChain
<1> DEFINE D == {k \in 0 .. n : F[k] \in Dynamic}
<1>4. 0 \in D
  BY <1>1, <1>3 DEF Following
<1>5. \A k \in 1 .. n : k - 1 \in D => k \in D
  <2> SUFFICES ASSUME NEW k \in 1 .. n, F[k - 1] \in Dynamic
               PROVE  k \in 0 .. n /\ F[k] \in Dynamic
    OBVIOUS
  <2>1. k \in 0 .. n
    BY <1>1
  <2>2. F[k] = IF Is(F[k - 1], "alias") THEN reg[F[k - 1]].target ELSE F[k - 1]
    BY <1>3 DEF Following
  <2> QED
    BY <1>2, <2>1, <2>2, DynamicOthers
<1>6. 0 .. n \subseteq D
  <2> HIDE DEF D, n
  <2> QED
    BY <1>1, <1>4, <1>5, UptoInduction
<1>7. n \in 0 .. n
  BY <1>1
<1> HIDE DEF n
<1> QED
  BY <1>3, <1>6, <1>7

LEMMA ScalarBounded ==
  ASSUME RegOK, NEW t \in Types \cup Leaves, IsScalarReturn(t)
  PROVE  t \notin Dynamic
<1>1. Dynamic \in SUBSET Types
  BY DynamicTypes
<1>2. t \in Dynamic => ResolveAliasChain(t) \in Types
  BY <1>1, ChainDynamic
<1>3. Is(t, "enum") => ~Is(t, "alias") /\ ~Is(t, "struct")
  BY DEF Is
<1> QED
  BY <1>1, <1>2, <1>3, LeavesApart, DynamicOthers DEF IsScalarReturn

LEMMA OutputsRight ==
  ASSUME RegOK, NEW outs \in Seq(Field), NEW checked \in SUBSET DOMAIN outs, NEW m \in Sound
  PROVE  Right(AnyOutput(checked, outs, m), \E k \in checked : outs[k].type \in Dynamic)
<1> DEFINE n == Len(outs)
           test == [k \in DOMAIN outs |->
                      [s \in Memo |-> IF k \in checked THEN IsDynamicWireSize(outs[k].type, s)
                                      ELSE Answer(FALSE, s)]]
           Some(k) == \E j \in 1 .. k : j \in checked /\ outs[j].type \in Dynamic
           Inv == [k \in 0 .. n |-> {a \in Answers(Memo) : Right(a, Some(k))}]
<1>1. n \in Nat /\ DOMAIN outs = 1 .. n /\ \A k \in 1 .. n : outs[k].type \in Types \cup Leaves
  <2>1. n \in Nat /\ DOMAIN outs = 1 .. n
    BY LenProperties
  <2>2. \A k \in 1 .. n : outs[k] \in Field
    BY ElementOfSeq
  <2> QED
    BY <2>1, <2>2 DEF Field
<1>2. test \in [1 .. n -> [Memo -> Answers(Memo)]] /\ m \in Memo
  <2>1. ASSUME NEW k \in 1 .. n, NEW s \in Memo
        PROVE  IsDynamicWireSize(outs[k].type, s) \in Answers(Memo)
    <3>1. {} \in SUBSET Types /\ Frames \in 0 .. Frames
      BY FramesSuffice
    <3>2. Call("type", outs[k].type, {}, s) \in Calls
      BY <1>1, <3>1, CallParts
    <3> QED
      BY <3>1, <3>2, WalkIs DEF IsDynamicWireSize
  <2>2. \A s \in Memo : Answer(FALSE, s) \in Answers(Memo)
    BY AnswerParts
  <2> HIDE DEF n
  <2> QED
    BY <1>1, <2>1, <2>2 DEF Sound
<1>3. \A k \in 1 .. n : \A s \in Sound :
        Right(test[k][s], k \in checked /\ outs[k].type \in Dynamic)
  <2> SUFFICES ASSUME NEW k \in 1 .. n, NEW s \in Sound
               PROVE  Right(test[k][s], k \in checked /\ outs[k].type \in Dynamic)
    OBVIOUS
  <2>1. s \in Memo
    BY DEF Sound
  <2>2. test[k][s] = IF k \in checked THEN IsDynamicWireSize(outs[k].type, s)
                     ELSE Answer(FALSE, s)
    BY <1>1, <2>1
  <2>3. Right(IsDynamicWireSize(outs[k].type, s), outs[k].type \in Dynamic)
    BY <1>1, WalkRight
  <2>4. Answer(FALSE, s) \in Answers(Memo) /\ Answer(FALSE, s).yes = FALSE
        /\ Answer(FALSE, s).known = s
    BY <2>1, AnswerParts
  <2> HIDE DEF test
  <2> QED
    BY <2>2, <2>3, <2>4 DEF Right
<1> HIDE DEF n, test
<1>4. Answer(FALSE, m) \in Inv[0]
  <2>1. 0 \in 0 .. n /\ ~Some(0)
    BY <1>1
  <2>2. Right(Answer(FALSE, m), Some(0))
    BY <2>1, RightAnswer
  <2> HIDE DEF Some
  <2> QED
    BY <2>1, <2>2 DEF Right
<1>5. ASSUME NEW k \in 1 .. n, NEW a \in Answers(Memo), a \in Inv[k - 1]
      PROVE  (IF a.yes THEN a ELSE test[k][a.known]) \in Inv[k]
  <2>1. k - 1 \in 0 .. n /\ k \in 0 .. n
    BY <1>1
  <2>2. Some(k) <=> Some(k - 1) \/ (k \in checked /\ outs[k].type \in Dynamic)
    <3>1. \A j : j \in 1 .. k <=> j \in 1 .. k - 1 \/ j = k
      BY <1>1
    <3> QED
      BY <3>1
  <2> HIDE DEF Some
  <2>3. Right(a, Some(k - 1))
    BY <1>5, <2>1
  <2>4. Right(IF a.yes THEN a ELSE test[k][a.known], Some(k))
    <3>1. CASE a.yes
      BY <2>2, <2>3, <3>1 DEF Right
    <3>2. CASE ~a.yes
      <4>1. Right(test[k][a.known], k \in checked /\ outs[k].type \in Dynamic)
        BY <1>3, <2>3 DEF Right
      <4> QED
        BY <2>2, <2>3, <3>2, <4>1 DEF Right
    <3> QED
      BY <3>1, <3>2
  <2> QED
    BY <2>1, <2>4 DEF Right
<1>6. AnyOf(n, test, m) \in Inv[n]
  <2> HIDE DEF Inv
  <2> QED
    BY <1>1, <1>2, <1>4, <1>5, AnyOfKeeps
<1>7. Right(AnyOf(n, test, m), Some(n))
  <2>1. n \in 0 .. n
    BY <1>1
  <2> HIDE DEF Some
  <2> QED
    BY <1>6, <2>1
<1>8. Some(n) <=> \E k \in checked : outs[k].type \in Dynamic
  BY <1>1
<1> HIDE DEF Some
<1>9. AnyOutput(checked, outs, m) = AnyOf(n, test, m)
  BY DEF AnyOutput, n, test
<1> QED
  BY <1>7, <1>8, <1>9 DEF Right

Asked(r) == {r.ret} \cup {r.outs[k].type : k \in Checked(r.outs)}

LEMMA ReplyRight ==
  ASSUME RegOK, NEW r \in Reply, NEW m \in Sound
  PROVE  Right(MethodReplyIsUnsupported(r, m), Asked(r) \cap Dynamic # {})
<1> DEFINE none == r.ret = "void" \/ IsScalarReturn(r.ret)
           ret == IF none THEN Answer(FALSE, m) ELSE IsDynamicWireSize(r.ret, m)
           outs == AnyOutput(Checked(r.outs), r.outs, ret.known)
<1>1. r.ret \in Types \cup Leaves /\ r.outs \in Seq(Field)
  BY DEF Reply
<1>2. Right(ret, r.ret \in Dynamic)
  <2>1. CASE none
    <3>1. r.ret \notin Dynamic
      BY <1>1, <2>1, ScalarBounded, DynamicTypes, LeavesApart
    <3>2. Right(Answer(FALSE, m), r.ret \in Dynamic)
      BY <3>1, RightBounded
    <3> QED
      BY <2>1, <3>2
  <2>2. CASE ~none
    <3>1. Right(IsDynamicWireSize(r.ret, m), r.ret \in Dynamic)
      BY <1>1, WalkRight
    <3> QED
      BY <2>2, <3>1
  <2> QED
    BY <2>1, <2>2
<1>3. MethodReplyIsUnsupported(r, m) = IF ret.yes THEN ret ELSE outs
  BY DEF MethodReplyIsUnsupported
<1> HIDE DEF ret, none
<1>4. Checked(r.outs) \in SUBSET DOMAIN r.outs
  BY DEF Checked
<1>5. Right(outs, \E k \in Checked(r.outs) : r.outs[k].type \in Dynamic)
  BY <1>1, <1>2, <1>4, OutputsRight DEF Right
<1>6. Asked(r) \cap Dynamic # {} <=>
        r.ret \in Dynamic \/ \E k \in Checked(r.outs) : r.outs[k].type \in Dynamic
  BY DEF Asked
<1> HIDE DEF outs
<1> QED
  BY <1>2, <1>3, <1>5, <1>6 DEF Right

---------------------------------------------------------------------------
(* The invariant: the registry stays what it was read as, and what is      *)
(* stored or was answered is true of it.                                   *)

IInv ==
  /\ RegOK
  /\ memo \in Sound
  /\ \/ asked = <<"nothing">>
     \/ \E t \in Types, b \in BOOLEAN :
          asked = <<"type", t, b>> /\ (b <=> t \in Dynamic)
     \/ \E r \in Replies, b \in BOOLEAN :
          asked = <<"reply", r, b>> /\ (b <=> Asked(r) \cap Dynamic # {})

LEMMA SameFields ==
  ASSUME reg' = reg
  PROVE  /\ \A t : FieldSet(t)' = FieldSet(t)
         /\ Enclosing' = Enclosing /\ ByValue' = ByValue
         /\ \A f : Unbounded(f)' <=> Unbounded(f)
<1>1. \A t : FieldSet(t)' = FieldSet(t)
  BY DEF FieldSet, Fields, Is
<1>2. \A t : Enclosed(t)' = Enclosed(t) /\ HeldByValue(t)' = HeldByValue(t)
  BY <1>1 DEF Enclosed, HeldByValue, Is, Encloses
<1>3. Enclosing' = Enclosing /\ ByValue' = ByValue
  BY <1>2 DEF Enclosing, ByValue
<1>4. \A f : Unbounded(f)' <=> Unbounded(f)
  BY DEF Unbounded, IsStringType, Is
<1> QED
  BY <1>1, <1>3, <1>4

LEMMA SameTypes ==
  ASSUME reg' = reg
  PROVE  Dynamic' = Dynamic
<1> DEFINE X == {t \in Types : reg[t].manual \/ \E f \in FieldSet(t) : Unbounded(f)}
<1>1. Enclosing' = Enclosing
  BY SameFields
<1>2. X' = X
  BY SameFields
<1>3. Dynamic = Leading(Enclosing, OnCycle(Enclosing) \cup X)
  BY DEF Dynamic
<1>4. Dynamic' = Leading(Enclosing', OnCycle(Enclosing') \cup X')
  BY DEF Dynamic
<1> HIDE DEF X
<1> QED
  BY <1>1, <1>2, <1>3, <1>4

LEMMA SameRegistry ==
  ASSUME RegOK, reg' = reg
  PROVE  RegOK' /\ Sound' = Sound
<1>1. ByValue' = ByValue /\ \A t : FieldSet(t)' = FieldSet(t)
  BY SameFields
<1>2. Declarable'
  BY <1>1 DEF RegOK, Declarable, Is, IsInline, IsStruct
<1>3. RegOK'
  BY <1>2 DEF RegOK
<1>4. Dynamic' = Dynamic
  BY SameTypes
<1>5. Sound' = Sound
  BY <1>4 DEF Sound
<1> QED
  BY <1>3, <1>5

LEMMA InitIInv == Init => IInv
<1> SUFFICES ASSUME Init PROVE IInv
  OBVIOUS
<1>1. reg \in [Types -> Definitions] /\ Declarable
  BY DEF Init, Definitions
<1>2. memo \in Sound
  BY DEF Init, Sound, Memo
<1> QED
  BY <1>1, <1>2 DEF Init, IInv, RegOK

LEMMA NextIInv == IInv /\ [Next]_vars => IInv'
<1> SUFFICES ASSUME IInv, [Next]_vars PROVE IInv'
  OBVIOUS
<1>1. reg' = reg
  BY DEF Next, AskType, AskReply, vars
<1>2. RegOK' /\ Sound' = Sound /\ Dynamic' = Dynamic
  BY <1>1, SameRegistry, SameTypes DEF IInv
<1>3. ASSUME NEW t \in Types, AskType(t) PROVE IInv'
  <2> DEFINE r == IsDynamicWireSize(t, memo)
  <2>1. Right(r, t \in Dynamic)
    BY WalkRight DEF IInv
  <2>2. memo' = r.known /\ asked' = <<"type", t, r.yes>>
    BY <1>3 DEF AskType
  <2> HIDE DEF r
  <2>3. r.yes \in BOOLEAN /\ r.known \in Sound /\ (r.yes <=> t \in Dynamic)
    BY <2>1 DEF Right, Answers
  <2> QED
    BY <1>2, <2>2, <2>3 DEF IInv
<1>4. ASSUME NEW r \in Replies, AskReply(r) PROVE IInv'
  <2> DEFINE v == MethodReplyIsUnsupported(r, memo)
  <2>1. Right(v, Asked(r) \cap Dynamic # {})
    BY ReplyRight, DefinitionsType DEF IInv
  <2>2. memo' = v.known /\ asked' = <<"reply", r, v.yes>>
    BY <1>4 DEF AskReply
  <2> HIDE DEF v
  <2>3. v.yes \in BOOLEAN /\ v.known \in Sound /\ (v.yes <=> Asked(r) \cap Dynamic # {})
    BY <2>1 DEF Right, Answers
  <2>4. Asked(r)' = Asked(r)
    BY <1>1 DEF Asked, Checked, IsBlob, IsStringType, Is
  <2> QED
    BY <1>2, <2>2, <2>3, <2>4 DEF IInv
<1>5. CASE UNCHANGED vars
  <2>1. memo' = memo /\ asked' = asked
    BY <1>5 DEF vars
  <2>2. \A r : Asked(r)' = Asked(r)
    BY <1>1 DEF Asked, Checked, IsBlob, IsStringType, Is
  <2> QED
    BY <1>2, <2>1, <2>2 DEF IInv
<1> QED
  BY <1>3, <1>4, <1>5 DEF Next

LEMMA InvariantHolds == Spec => []IInv
  BY InitIInv, NextIInv, PTL DEF Spec

(* is_dynamic_wire_size answers for a type what is true of it, whatever    *)
(* was asked before and whatever cycles the registry has.                  *)
THEOREM AnswersAreRight == Spec => []AnswersRight
<1>1. IInv => AnswersRight
  <2> SUFFICES ASSUME IInv PROVE AnswersRight
    OBVIOUS
  <2>1. TypeOK
    BY DEF IInv, RegOK, Sound, TypeOK
  <2>2. \A t \in Types : memo[t] # Absent => memo[t] = (t \in Dynamic)
    <3> SUFFICES ASSUME NEW t \in Types, memo[t] # Absent PROVE memo[t] = (t \in Dynamic)
      OBVIOUS
    <3>1. memo[t] \in BOOLEAN /\ (memo[t] <=> t \in Dynamic)
      BY DEF IInv, Sound, Memo
    <3> QED
      BY <3>1
  <2>3. asked[1] = "type" => asked[3] = (asked[2] \in Dynamic)
    BY DEF IInv
  <2> QED
    BY <2>1, <2>2, <2>3 DEF AnswersRight
<1> QED
  BY <1>1, InvariantHolds, PTL

(* method_reply_is_unsupported refuses a reply exactly when something it   *)
(* returns by value has no bound.                                          *)
THEOREM RepliesAreRight == Spec => []RepliesRight
<1>1. IInv => RepliesRight
  <2> SUFFICES ASSUME IInv, asked[1] = "reply"
               PROVE  asked[3] = (Asked(asked[2]) \cap Dynamic # {})
    BY DEF RepliesRight, Asked
  <2> QED
    BY DEF IInv
<1> QED
  BY <1>1, InvariantHolds, PTL

---------------------------------------------------------------------------
(* The walk for object ids *)

Found == Answers(SUBSET Types)

HandleTests(walk, t) ==
  [k \in DOMAIN Fields(t) |->
     [s \in SUBSET Types |-> HoldsHandle(walk, Fields(t)[k], s)]]

AnyHandle(walk, t, visited) == AnyOf(Len(Fields(t)), HandleTests(walk, t), visited)

HandleStep(walk, n, t, visited) ==
  IF n = 0 THEN Answer(FALSE, visited)
  ELSE IF reg[t].manual THEN Answer(TRUE, visited)
  ELSE IF t \in visited THEN Answer(FALSE, visited)
  ELSE AnyHandle(walk, t, visited \cup {t})

LEMMA HandleTestsTyped ==
  ASSUME RegOK, NEW t \in Types, NEW walk \in [Types -> [SUBSET Types -> Found]]
  PROVE  HandleTests(walk, t) \in [1 .. Len(Fields(t)) -> [SUBSET Types -> Found]]
<1>1. DOMAIN Fields(t) = 1 .. Len(Fields(t))
  BY RegTypes
<1>2. ASSUME NEW k \in DOMAIN Fields(t), NEW s \in SUBSET Types
      PROVE  HoldsHandle(walk, Fields(t)[k], s) \in Found
  <2>1. \A b \in BOOLEAN : Answer(b, s) \in Found
    BY AnswerParts DEF Found
  <2> QED
    BY <2>1 DEF HoldsHandle, IsStruct, Is
<1> QED
  BY <1>1, <1>2 DEF HandleTests

LEMMA HandleStepTyped ==
  ASSUME RegOK, NEW t \in Types, NEW walk \in [Types -> [SUBSET Types -> Found]],
         NEW n, NEW visited \in SUBSET Types
  PROVE  HandleStep(walk, n, t, visited) \in Found
<1>1. \A b \in BOOLEAN : Answer(b, visited) \in Found
  BY AnswerParts DEF Found
<1>2. AnyHandle(walk, t, visited \cup {t}) \in Found
  <2> DEFINE m == Len(Fields(t))
             test == HandleTests(walk, t)
             start == visited \cup {t}
  <2>1. m \in Nat /\ test \in [1 .. m -> [SUBSET Types -> Answers(SUBSET Types)]]
    BY RegTypes, HandleTestsTyped DEF Found
  <2>2. start \in SUBSET Types
    OBVIOUS
  <2> HIDE DEF m, test, start
  <2>3. PICK U \in [0 .. m -> Answers(SUBSET Types)] :
          Rounds(U, m, test, start) /\ AnyOf(m, test, start) = U[m]
    BY <2>1, <2>2, AnyOfRounds
  <2>4. m \in 0 .. m
    BY <2>1
  <2> QED
    BY <2>3, <2>4 DEF AnyHandle, Found, m, test, start
<1> QED
  BY <1>1, <1>2 DEF HandleStep

LEMMA HandleWalkIs ==
  ASSUME RegOK
  PROVE  /\ HandleWalk \in [0 .. Cardinality(Types) + 1 -> [Types -> [SUBSET Types -> Found]]]
         /\ \A n \in 0 .. Cardinality(Types) + 1 : \A t \in Types : \A v \in SUBSET Types :
              HandleWalk[n][t][v] = HandleStep(HandleWalk[n - 1], n, t, v)
<1> DEFINE L == Cardinality(Types) + 1
           S == [Types -> [SUBSET Types -> Found]]
           Body(g, n) == [t \in Types |-> [visited \in SUBSET Types |->
              IF n = 0 THEN Answer(FALSE, visited)
              ELSE IF reg[t].manual THEN Answer(TRUE, visited)
              ELSE IF t \in visited THEN Answer(FALSE, visited)
              ELSE AnyOf(Len(Fields(t)),
                         [k \in DOMAIN Fields(t) |->
                            [s \in SUBSET Types |->
                               HoldsHandle(g[n - 1], Fields(t)[k], s)]],
                         visited \cup {t})]]
           Solves(g) == g = [n \in 0 .. L |-> Body(g, n)]
           first == [t \in Types |-> [v \in SUBSET Types |-> Answer(FALSE, v)]]
           step == [p \in S \X Nat |->
                      [t \in Types |-> [v \in SUBSET Types |-> HandleStep(p[1], 1, t, v)]]]
<1>1. L \in Nat
  BY TypesFinite
<1>2. first \in S
  BY AnswerParts DEF Found
<1>3. step \in [S \X Nat -> S]
  <2>1. \A p \in S \X Nat : p[1] \in S
    OBVIOUS
  <2>2. \A p \in S \X Nat : \A t \in Types : \A v \in SUBSET Types :
          HandleStep(p[1], 1, t, v) \in Found
    BY <2>1, HandleStepTyped
  <2> QED
    BY <2>2
<1>4. PICK g \in [0 .. L -> S] : RecursiveUpto(g, L, first, step)
  <2> HIDE DEF first, step, S, L
  <2> QED
    BY <1>1, <1>2, <1>3, UptoRecursion
<1>5. ASSUME NEW n \in 0 .. L PROVE g[n] = Body(g, n)
  <2>1. CASE n = 0
    <3>1. g[n] = first
      <4> HIDE DEF first, step, S, L
      <4> QED
        BY <1>4, <2>1 DEF RecursiveUpto
    <3> QED
      BY <2>1, <3>1
  <2>2. CASE n # 0
    <3>1. n - 1 \in Nat /\ n - 1 \in 0 .. L
      BY <1>1, <2>2
    <3>2. g[n] = step[<<g[n - 1], n - 1>>]
      <4> HIDE DEF first, step, S, L
      <4> QED
        BY <1>4, <2>2 DEF RecursiveUpto
    <3>3. <<g[n - 1], n - 1>> \in S \X Nat
      <4> HIDE DEF S, L
      <4> QED
        BY <1>4, <3>1
    <3>4. g[n] = [t \in Types |-> [v \in SUBSET Types |-> HandleStep(g[n - 1], 1, t, v)]]
      <4> HIDE DEF S
      <4> QED
        BY <3>2, <3>3
    <3> QED
      BY <2>2, <3>4 DEF HandleStep, AnyHandle, HandleTests
  <2> QED
    BY <2>1, <2>2
<1>6. Solves(g)
  <2>1. g = [n \in 0 .. L |-> g[n]]
    <3> HIDE DEF S, L
    <3> QED
      BY <1>4
  <2> HIDE DEF Body, L
  <2> QED
    BY <1>5, <2>1
<1>7. HandleWalk = CHOOSE h : Solves(h)
  BY DEF HandleWalk
<1>8. Solves(HandleWalk)
  <2> HIDE DEF Solves
  <2> QED
    BY <1>6, <1>7, Zenon
<1>9. ASSUME NEW n \in 0 .. L PROVE HandleWalk[n] = Body(HandleWalk, n)
  <2> HIDE DEF Body, L
  <2> QED
    BY <1>8
<1>10. ASSUME NEW n \in 0 .. L, NEW t \in Types, NEW v \in SUBSET Types
       PROVE  HandleWalk[n][t][v] = HandleStep(HandleWalk[n - 1], n, t, v)
  <2>1. HandleWalk[n][t][v] = Body(HandleWalk, n)[t][v]
    <3> HIDE DEF Body
    <3> QED
      BY <1>9
  <2>2. Body(HandleWalk, n)[t][v] = HandleStep(HandleWalk[n - 1], n, t, v)
    BY DEF HandleStep, AnyHandle, HandleTests
  <2> HIDE DEF Body
  <2> QED
    BY <2>1, <2>2
<1>11. \A n \in 0 .. L : HandleWalk[n] \in S
  <2> DEFINE D == {n \in 0 .. L : HandleWalk[n] \in S}
  <2>1. 0 \in D
    <3>1. 0 \in 0 .. L
      BY <1>1
    <3>2. HandleWalk[0] = first
      <4>1. HandleWalk[0] = Body(HandleWalk, 0)
        <5> HIDE DEF Body, L
        <5> QED
          BY <1>9, <3>1
      <4>2. Body(HandleWalk, 0) = first
        OBVIOUS
      <4> HIDE DEF Body, first
      <4> QED
        BY <4>1, <4>2
    <3> HIDE DEF first, S
    <3> QED
      BY <1>2, <3>1, <3>2
  <2>2. \A n \in 1 .. L : n - 1 \in D => n \in D
    <3> SUFFICES ASSUME NEW n \in 1 .. L, HandleWalk[n - 1] \in S
                 PROVE  n \in 0 .. L /\ HandleWalk[n] \in S
      OBVIOUS
    <3>1. n \in 0 .. L
      BY <1>1
    <3>2. \A t \in Types : \A v \in SUBSET Types : HandleWalk[n][t][v] \in Found
      <4> SUFFICES ASSUME NEW t \in Types, NEW v \in SUBSET Types
                   PROVE  HandleWalk[n][t][v] \in Found
        OBVIOUS
      <4>1. HandleStep(HandleWalk[n - 1], n, t, v) \in Found
        BY HandleStepTyped
      <4> QED
        BY <1>10, <3>1, <4>1
    <3>3. HandleWalk[n] = [t \in Types |-> [v \in SUBSET Types |-> HandleWalk[n][t][v]]]
      <4>1. HandleWalk[n] = Body(HandleWalk, n)
        BY <1>9, <3>1
      <4> QED
        BY <4>1
    <3> QED
      BY <3>1, <3>2, <3>3
  <2>3. 0 .. L \subseteq D
    <3> HIDE DEF D, L
    <3> QED
      BY <1>1, <2>1, <2>2, UptoInduction
  <2> HIDE DEF S
  <2> QED
    BY <2>3
<1>12. HandleWalk = [n \in 0 .. L |-> HandleWalk[n]]
  <2> HIDE DEF Body
  <2> QED
    BY <1>8
<1>13. HandleWalk \in [0 .. L -> S]
  <2> HIDE DEF S
  <2> QED
    BY <1>11, <1>12
<1> QED
  BY <1>10, <1>13

(* What holds ids does so itself or refers to what does. *)
LEMMA HoldsIdsIs ==
  ASSUME NEW t \in Types
  PROVE  /\ HoldsIds \in SUBSET Types
         /\ Closed(Referring, HoldsIds)
         /\ t \in HoldsIds <=> \/ reg[t].manual \/ Is(t, "interface")
                               \/ \E f \in FieldSet(t) : f.handle
                               \/ \E u \in Referred(t) : u \in HoldsIds
<1> DEFINE X == {s \in Types : \/ reg[s].manual
                               \/ Is(s, "interface")
                               \/ \E f \in FieldSet(s) : f.handle}
<1>1. X \in SUBSET Types /\ HoldsIds = Leading(Referring, X)
  BY DEF HoldsIds
<1>2. \A u : u \in Referred(t) <=> <<t, u>> \in Referring
  BY DEF Referring, Referred
<1>3. t \in X <=> reg[t].manual \/ Is(t, "interface") \/ \E f \in FieldSet(t) : f.handle
  OBVIOUS
<1> HIDE DEF X
<1>4. X \subseteq HoldsIds /\ HoldsIds \in SUBSET Types /\ Closed(Referring, HoldsIds)
  BY <1>1, LeadingIs, LeadingClosed
<1>5. (\E u \in Referred(t) : u \in HoldsIds) => t \in HoldsIds
  BY <1>2, <1>4 DEF Closed
<1>6. ASSUME t \in HoldsIds
      PROVE  t \in X \/ \E u \in Referred(t) : u \in HoldsIds
  BY <1>1, <1>2, <1>6, LeadingStep
<1> QED
  BY <1>3, <1>4, <1>5, <1>6

(* The walk goes into the type of f, or stops at an id. *)
Passed(f, known) ==
  /\ ~f.handle /\ ~Is(f.type, "interface")
  /\ IsStruct(f) => f.type \in known

(* A struct without ids of its own, all of whose structs were met. *)
Clean(t, known) ==
  /\ Is(t, "struct") /\ ~reg[t].manual
  /\ \A f \in FieldSet(t) : Passed(f, known)

Met(visited, known) ==
  /\ visited \subseteq known
  /\ \A s \in known \ visited : Clean(s, known)

FoundRight(a, t, visited) ==
  /\ a \in Found
  /\ a.yes => t \in HoldsIds
  /\ ~a.yes => Met(visited, a.known) /\ t \in a.known

LEMMA MetOn ==
  ASSUME NEW V, NEW W, NEW K, Met(V, W), Met(W, K)
  PROVE  Met(V, K)
<1>1. ASSUME NEW s \in K \ V PROVE Clean(s, K)
  <2>1. CASE s \in W
    BY <1>1, <2>1 DEF Met, Clean, Passed
  <2>2. CASE s \notin W
    BY <1>1, <2>2 DEF Met
  <2> QED
    BY <2>1, <2>2
<1> QED
  BY <1>1 DEF Met

LEMMA HoldsByField ==
  ASSUME RegOK, NEW t \in Types, NEW f \in FieldSet(t),
         \/ f.handle
         \/ f.type \in HoldsIds
         \/ Is(f.type, "interface")
  PROVE  t \in HoldsIds
<1>1. HoldsIds \in SUBSET Types
  BY HoldsIdsIs
<1>2. f.type \in HoldsIds => f.type \in Referred(t)
  BY <1>1 DEF Referred
<1>3. Is(f.type, "interface") => f.type \in HoldsIds
  BY HoldsIdsIs DEF Is
<1> QED
  BY <1>2, <1>3, HoldsIdsIs

LEMMA HandleFieldRight ==
  ASSUME RegOK, NEW t \in Types, NEW f \in FieldSet(t), f \in Field,
         NEW walk \in [Types -> [SUBSET Types -> Found]], NEW s \in SUBSET Types,
         \A u \in Types : Is(u, "struct") => FoundRight(walk[u][s], u, s)
  PROVE  /\ HoldsHandle(walk, f, s) \in Found
         /\ HoldsHandle(walk, f, s).yes => t \in HoldsIds
         /\ ~HoldsHandle(walk, f, s).yes =>
              /\ Met(s, HoldsHandle(walk, f, s).known)
              /\ Passed(f, HoldsHandle(walk, f, s).known)
<1> DEFINE a == HoldsHandle(walk, f, s)
<1>1. /\ Answer(FALSE, s) \in Found /\ Answer(FALSE, s).yes = FALSE /\ Answer(FALSE, s).known = s
      /\ Answer(TRUE, s) \in Found /\ Answer(TRUE, s).yes = TRUE
  BY AnswerParts DEF Found
<1>2. CASE f.handle \/ Is(f.type, "interface")
  <2>1. a = Answer(TRUE, s)
    BY <1>2 DEF HoldsHandle
  <2>2. t \in HoldsIds
    BY <1>2, HoldsByField
  <2> HIDE DEF a
  <2> QED
    BY <1>1, <2>1, <2>2 DEF a
<1>3. CASE ~f.handle /\ ~Is(f.type, "interface") /\ IsStruct(f)
  <2>1. a = walk[f.type][s]
    BY <1>3 DEF HoldsHandle
  <2>2. f.type \in Types /\ Is(f.type, "struct")
    BY <1>3 DEF IsStruct, Is
  <2>3. FoundRight(a, f.type, s)
    BY <2>1, <2>2
  <2>4. f.type \in HoldsIds => t \in HoldsIds
    BY HoldsByField
  <2> HIDE DEF a
  <2> QED
    BY <1>3, <2>3, <2>4 DEF FoundRight, Passed, a
<1>4. CASE ~f.handle /\ ~Is(f.type, "interface") /\ ~IsStruct(f)
  <2>1. a = Answer(FALSE, s)
    BY <1>4 DEF HoldsHandle
  <2>2. Met(s, s) /\ Passed(f, s)
    BY <1>4 DEF Met, Passed
  <2> HIDE DEF a
  <2> QED
    BY <1>1, <2>1, <2>2 DEF a
<1> QED
  BY <1>2, <1>3, <1>4

(* The loop over the fields of t, met for the first time. *)
LEMMA HandleStructRight ==
  ASSUME RegOK, NEW t \in Types, Is(t, "struct"), ~reg[t].manual,
         NEW walk \in [Types -> [SUBSET Types -> Found]], NEW visited \in SUBSET Types,
         \A u \in Types : \A s \in SUBSET Types :
           Is(u, "struct") /\ visited \cup {t} \subseteq s => FoundRight(walk[u][s], u, s)
  PROVE  FoundRight(AnyHandle(walk, t, visited \cup {t}), t, visited)
<1> DEFINE n == Len(Fields(t))
           test == HandleTests(walk, t)
           start == visited \cup {t}
           Kept(a, k) == /\ a.yes => t \in HoldsIds
                         /\ ~a.yes => /\ Met(start, a.known)
                                      /\ \A j \in 1 .. k : Passed(Fields(t)[j], a.known)
           Inv == [k \in 0 .. n |-> {a \in Found : Kept(a, k)}]
<1>1. n \in Nat /\ DOMAIN Fields(t) = 1 .. n /\ \A k \in 1 .. n : Fields(t)[k] \in Field
  BY RegTypes
<1>2. test \in [1 .. n -> [SUBSET Types -> Answers(SUBSET Types)]] /\ start \in SUBSET Types
  BY HandleTestsTyped DEF Found
<1>3. ASSUME NEW k \in 1 .. n, NEW s \in SUBSET Types, start \subseteq s
      PROVE  /\ test[k][s] \in Found
             /\ test[k][s].yes => t \in HoldsIds
             /\ ~test[k][s].yes => /\ Met(s, test[k][s].known)
                                   /\ Passed(Fields(t)[k], test[k][s].known)
  <2>1. Fields(t)[k] \in FieldSet(t) /\ Fields(t)[k] \in Field
    BY <1>1 DEF FieldSet
  <2>2. test[k][s] = HoldsHandle(walk, Fields(t)[k], s)
    BY <1>1 DEF HandleTests
  <2>3. \A u \in Types : Is(u, "struct") => FoundRight(walk[u][s], u, s)
    BY <1>3
  <2> DEFINE f == Fields(t)[k]
             h == HoldsHandle(walk, f, s)
  <2>4. /\ h \in Found
        /\ h.yes => t \in HoldsIds
        /\ ~h.yes => Met(s, h.known) /\ Passed(f, h.known)
    <3>1. f \in FieldSet(t) /\ f \in Field
      BY <2>1
    <3> HIDE DEF f
    <3> QED
      BY <2>3, <3>1, HandleFieldRight
  <2>5. test[k][s] = h
    BY <2>2
  <2> HIDE DEF test, h
  <2> QED
    BY <2>4, <2>5
<1> HIDE DEF n, test, start
<1>4. Answer(FALSE, start) \in Inv[0]
  <2>1. 0 \in 0 .. n /\ 1 .. 0 = {}
    BY <1>1
  <2>2. Met(start, start)
    BY DEF Met
  <2>3. Answer(FALSE, start) \in Found /\ Answer(FALSE, start).yes = FALSE
        /\ Answer(FALSE, start).known = start
    BY <1>2, AnswerParts DEF Found
  <2> QED
    BY <2>1, <2>2, <2>3
<1>5. ASSUME NEW k \in 1 .. n, NEW a \in Answers(SUBSET Types), a \in Inv[k - 1]
      PROVE  (IF a.yes THEN a ELSE test[k][a.known]) \in Inv[k]
  <2>1. k - 1 \in 0 .. n /\ k \in 0 .. n /\ \A j : j \in 1 .. k <=> j \in 1 .. k - 1 \/ j = k
    BY <1>1
  <2>2. a \in Found /\ Kept(a, k - 1)
    BY <1>5, <2>1
  <2>3. CASE a.yes
    <3>1. Kept(a, k)
      BY <2>2, <2>3
    <3> HIDE DEF Kept
    <3> QED
      BY <2>1, <2>2, <2>3, <3>1
  <2>4. CASE ~a.yes
    <3> DEFINE b == test[k][a.known]
    <3>1. a.known \in SUBSET Types /\ start \subseteq a.known /\ Met(start, a.known)
      BY <2>2, <2>4 DEF Met, Found, Answers
    <3>2. /\ b \in Found
          /\ b.yes => t \in HoldsIds
          /\ ~b.yes => Met(a.known, b.known) /\ Passed(Fields(t)[k], b.known)
      BY <1>3, <3>1
    <3> HIDE DEF b
    <3>3. ~b.yes => Met(start, b.known)
      BY <3>1, <3>2, MetOn
    <3>4. ASSUME ~b.yes, NEW j \in 1 .. k PROVE Passed(Fields(t)[j], b.known)
      <4>1. CASE j = k
        BY <3>2, <3>4, <4>1
      <4>2. CASE j \in 1 .. k - 1
        BY <2>2, <2>4, <3>2, <3>4, <4>2 DEF Met, Passed
      <4> QED
        BY <2>1, <4>1, <4>2
    <3>5. Kept(b, k)
      BY <3>2, <3>3, <3>4
    <3> HIDE DEF Kept
    <3>6. b \in Inv[k]
      BY <2>1, <3>2, <3>5
    <3> QED
      BY <2>4, <3>6 DEF b
  <2> QED
    BY <2>3, <2>4
<1> DEFINE r == AnyOf(n, test, start)
<1>6. r \in Inv[n]
  <2> HIDE DEF Inv
  <2> QED
    BY <1>1, <1>2, <1>4, <1>5, AnyOfKeeps
<1>7. n \in 0 .. n /\ DOMAIN Fields(t) = 1 .. n
  BY <1>1
<1> HIDE DEF r
<1>8. r \in Found /\ Kept(r, n)
  BY <1>6, <1>7
<1>9. ~r.yes => Met(visited, r.known) /\ t \in r.known
  <2> SUFFICES ASSUME ~r.yes PROVE Met(visited, r.known) /\ t \in r.known
    OBVIOUS
  <2>1. Met(start, r.known) /\ \A j \in 1 .. n : Passed(Fields(t)[j], r.known)
    BY <1>8
  <2>2. Clean(t, r.known)
    BY <1>7, <2>1 DEF Clean, FieldSet
  <2>3. \A s \in r.known \ visited : s \in r.known \ start \/ s = t
    BY DEF start
  <2> QED
    BY <2>1, <2>2, <2>3 DEF Met, start
<1>10. FoundRight(r, t, visited)
  BY <1>8, <1>9 DEF FoundRight
<1> QED
  BY <1>10 DEF r, n, test, start, AnyHandle

(* The walk within its frames: each goes into a struct not yet met. *)
LEMMA HandleWalkRight ==
  ASSUME RegOK
  PROVE  \A n \in 0 .. Cardinality(Types) + 1 : \A t \in Types : \A v \in SUBSET Types :
           Is(t, "struct") /\ Cardinality(Types \ v) < n => FoundRight(HandleWalk[n][t][v], t, v)
<1> DEFINE L == Cardinality(Types) + 1
           Reach(n) == \A t \in Types : \A v \in SUBSET Types :
             Is(t, "struct") /\ Cardinality(Types \ v) < n => FoundRight(HandleWalk[n][t][v], t, v)
           D == {n \in 0 .. L : Reach(n)}
<1>1. L \in Nat
  BY TypesFinite
<1>2. \A v \in SUBSET Types : IsFiniteSet(Types \ v) /\ Cardinality(Types \ v) \in Nat
  BY TypesFinite, FS_Subset, FS_CardinalityType
<1>3. 0 \in D
  BY <1>1, <1>2
<1>4. ASSUME NEW n \in 1 .. L, n - 1 \in D PROVE n \in D
  <2>0. n \in 0 .. L /\ Reach(n - 1)
    <3> HIDE DEF L, Reach
    <3> QED
      BY <1>1, <1>4
  <2> SUFFICES ASSUME NEW t \in Types, NEW v \in SUBSET Types,
                      Is(t, "struct"), Cardinality(Types \ v) < n
               PROVE  FoundRight(HandleWalk[n][t][v], t, v)
    BY <2>0
  <2>1. n \in Nat /\ n # 0 /\ n \in 0 .. L /\ n - 1 \in 0 .. L
    BY <1>1
  <2> DEFINE walk == HandleWalk[n - 1]
  <2>2. /\ walk \in [Types -> [SUBSET Types -> Found]]
        /\ HandleWalk[n][t][v] = HandleStep(walk, n, t, v)
    BY <2>1, HandleWalkIs
  <2>3. Answer(FALSE, v) \in Found /\ Answer(FALSE, v).yes = FALSE /\ Answer(FALSE, v).known = v
        /\ Answer(TRUE, v) \in Found /\ Answer(TRUE, v).yes = TRUE
    BY AnswerParts DEF Found
  <2>4. CASE reg[t].manual
    <3>1. HandleStep(walk, n, t, v) = Answer(TRUE, v)
      BY <2>1, <2>4 DEF HandleStep
    <3>2. t \in HoldsIds
      BY <2>4, HoldsIdsIs
    <3> QED
      BY <2>1, <2>2, <2>3, <3>1, <3>2 DEF FoundRight
  <2>5. CASE ~reg[t].manual /\ t \in v
    <3>1. HandleStep(walk, n, t, v) = Answer(FALSE, v)
      BY <2>1, <2>5 DEF HandleStep
    <3> QED
      BY <2>1, <2>2, <2>3, <2>5, <3>1 DEF FoundRight, Met
  <2>6. CASE ~reg[t].manual /\ t \notin v
    <3>1. HandleStep(walk, n, t, v) = AnyHandle(walk, t, v \cup {t})
      BY <2>1, <2>6 DEF HandleStep
    <3>2. ASSUME NEW u \in Types, NEW s \in SUBSET Types, Is(u, "struct"), v \cup {t} \subseteq s
          PROVE  FoundRight(walk[u][s], u, s)
      <4>1. Types \ s \subseteq (Types \ v) \ {t}
        BY <3>2
      <4>2. Cardinality((Types \ v) \ {t}) = Cardinality(Types \ v) - 1
        BY <1>2, <2>6, FS_RemoveElement
      <4>3. IsFiniteSet((Types \ v) \ {t})
        BY <1>2, FS_RemoveElement
      <4>4. Cardinality(Types \ s) <= Cardinality((Types \ v) \ {t})
        BY <4>1, <4>3, FS_Subset
      <4>5. Cardinality(Types \ s) \in Nat /\ Cardinality(Types \ v) \in Nat
        BY <1>2
      <4>6. Cardinality(Types \ s) < n - 1
        BY <2>1, <4>2, <4>4, <4>5
      <4> QED
        BY <2>0, <3>2, <4>6
    <3> HIDE DEF walk
    <3>3. FoundRight(AnyHandle(walk, t, v \cup {t}), t, v)
      BY <2>2, <2>6, <3>2, HandleStructRight
    <3> QED
      BY <2>1, <2>2, <3>1, <3>3
  <2> QED
    BY <2>4, <2>5, <2>6
<1>5. 0 .. L \subseteq D
  <2> HIDE DEF D, L
  <2> QED
    BY <1>1, <1>3, <1>4, UptoInduction
<1> HIDE DEF L
<1> QED
  BY <1>5 DEF L

(* Where no alias leads to ids, the structs met without finding one have   *)
(* none: what holds ids is outside of a set that no edge leaves.           *)
LEMMA MetHasNone ==
  ASSUME RegOK, Usual(HoldsIds), NEW known \in SUBSET Types, Met({}, known)
  PROVE  known \cap HoldsIds = {}
<1> DEFINE X == {s \in Types : \/ reg[s].manual
                               \/ Is(s, "interface")
                               \/ \E f \in FieldSet(s) : f.handle}
           S == HoldsIds \ known
<1>1. \A s \in known : Clean(s, known)
  BY DEF Met
<1>2. HoldsIds = Leading(Referring, X) /\ X \in SUBSET Types
  BY DEF HoldsIds
<1>3. HoldsIds \in SUBSET Types /\ Closed(Referring, HoldsIds) /\ X \subseteq HoldsIds
  BY <1>2, LeadingIs, LeadingClosed
<1>4. X \cap known = {}
  BY <1>1 DEF Clean, Passed, Is
<1> HIDE DEF X
<1>5. Closed(Referring, S)
  <2> SUFFICES ASSUME NEW v \in Types, NEW u \in S, <<v, u>> \in Referring, v \in known
               PROVE  FALSE
    BY <1>3 DEF Closed
  <2>1. u \in HoldsIds /\ u \in Types /\ u \in Referred(v) /\ u \notin known
    BY <1>3 DEF Referring
  <2>2. Clean(v, known)
    BY <1>1
  <2>3. PICK f \in FieldSet(v) : f.type = u
    BY <2>1, <2>2 DEF Referred, Clean, Is
  <2>4. ~Is(u, "interface") /\ ~Is(u, "struct")
    BY <2>1, <2>2, <2>3 DEF Clean, Passed, IsStruct
  <2>5. ~Is(u, "alias")
    <3> SUFFICES ASSUME Is(u, "alias") PROVE FALSE
      OBVIOUS
    <3>1. reg[u].target \notin HoldsIds
      BY <2>1 DEF Usual
    <3>2. FieldSet(u) = {} /\ ~reg[u].manual
      BY <2>1, <2>4 DEF FieldSet, Fields, RegOK, Declarable
    <3>3. \E w \in Referred(u) : w \in HoldsIds
      BY <2>1, <2>4, <3>2, HoldsIdsIs
    <3> QED
      BY <3>1, <3>2, <3>3 DEF Referred
  <2>6. FieldSet(u) = {} /\ ~reg[u].manual /\ Referred(u) = {}
    BY <2>1, <2>4, <2>5 DEF FieldSet, Fields, RegOK, Declarable, Referred
  <2> QED
    BY <2>1, <2>4, <2>6, HoldsIdsIs
<1>6. S \in SUBSET Types /\ X \subseteq S
  BY <1>3, <1>4
<1>7. HoldsIds \subseteq S
  <2> HIDE DEF S
  <2> QED
    BY <1>2, <1>5, <1>6, LeadingIs
<1> QED
  BY <1>7

LEMMA WalkFinds ==
  ASSUME RegOK, Usual(HoldsIds)
  PROVE  HandleWalkFinds(HoldsIds)
<1> DEFINE L == Cardinality(Types) + 1
<1> SUFFICES ASSUME NEW t \in Types, Is(t, "struct")
             PROVE  TypeMightContainHandle(t) = (t \in HoldsIds)
  BY DEF HandleWalkFinds
<1>1. L \in 0 .. L /\ Types \ {} = Types /\ Cardinality(Types) < L /\ {} \in SUBSET Types
  BY TypesFinite
<1> DEFINE r == HandleWalk[L][t][{}]
<1>2. FoundRight(r, t, {})
  BY <1>1, HandleWalkRight
<1>3. TypeMightContainHandle(t) = r.yes
  BY DEF TypeMightContainHandle
<1> HIDE DEF r
<1>4. r.yes \in BOOLEAN /\ r.known \in SUBSET Types
  BY <1>2 DEF FoundRight, Found, Answers
<1>5. ~r.yes => t \notin HoldsIds
  BY <1>2, <1>4, MetHasNone DEF FoundRight
<1>6. r.yes <=> t \in HoldsIds
  BY <1>2, <1>5 DEF FoundRight
<1> QED
  BY <1>3, <1>4, <1>6

(* Every element is visited, branch by branch of the pass. *)
LEMMA FieldReplaced ==
  ASSUME RegOK, Usual(HoldsIds), NEW t \in Types, NEW f \in FieldSet(t),
         f.handle \/ f.type \in HoldsIds
  PROVE  ReplaceHandleField(f) = Elements(f)
<1> DEFINE reaches == IsInline(f) \/ (IsStruct(f) /\ TypeMightContainHandle(f.type))
           replaced == CASE f.handle -> IF f.ind = 2 THEN Elements(f) ELSE {"first"}
                         [] ~f.handle /\ f.ind >= 1 /\ Is(f.type, "interface") -> {"first"}
                         [] ~f.handle /\ f.ind = 0 /\ reaches -> {"first"}
                         [] ~f.handle /\ f.ind >= 1 /\ reaches ->
                              IF f.ind = 1 \/ f.count # "none" THEN Elements(f) ELSE {}
                         [] OTHER -> {}
<1>1. ReplaceHandleField(f) = replaced
  BY DEF ReplaceHandleField
<1>2. f \in Field /\ f.ind \in 0 .. 2 /\ f.handle \in BOOLEAN
  <2>1. f \in Field
    BY RegTypes DEF FieldSet
  <2> QED
    BY <2>1 DEF Field
<1>3. /\ f.ind = 0 /\ f.count # "none" => f.type \notin HoldsIds
      /\ f.ind = 2 /\ f.count = "none" => f.type \notin HoldsIds
      /\ f.handle /\ f.count # "none" => f.ind = 2
  BY DEF Usual
<1>4. f.count = "none" => Elements(f) = {"first"}
  BY DEF Elements
<1>5. CASE f.handle
  <2>1. replaced = IF f.ind = 2 THEN Elements(f) ELSE {"first"}
    BY <1>5, Zenon
  <2> QED
    BY <1>1, <1>3, <1>4, <1>5, <2>1
<1>6. CASE ~f.handle
  <2>1. f.type \in HoldsIds /\ f.type \in Types /\ HoldsIds \in SUBSET Types
    BY <1>6, HoldsIdsIs
  <2>2. Is(f.type, "interface") \/ Is(f.type, "struct")
    <3> SUFFICES ASSUME ~Is(f.type, "interface"), ~Is(f.type, "struct") PROVE FALSE
      OBVIOUS
    <3>1. FieldSet(f.type) = {} /\ ~reg[f.type].manual
      BY <2>1 DEF FieldSet, Fields, RegOK, Declarable
    <3>2. PICK u \in Referred(f.type) : u \in HoldsIds
      BY <2>1, <3>1, HoldsIdsIs
    <3>3. Is(f.type, "alias") /\ reg[f.type].target = u
      BY <3>1, <3>2 DEF Referred
    <3> QED
      BY <2>1, <3>2, <3>3 DEF Usual
  <2>3. CASE Is(f.type, "interface")
    <3>1. f.ind = 1 /\ f.count = "none"
      BY <1>6, <2>3 DEF RegOK, Declarable
    <3>2. f.ind >= 1 /\ f.ind # 0
      BY <3>1
    <3>3. ~IsStruct(f) /\ ~IsInline(f)
      BY <2>3 DEF IsStruct, IsInline, Is
    <3>4. replaced = {"first"}
      BY <1>6, <2>3, <3>2, <3>3, Zenon
    <3> QED
      BY <1>1, <1>4, <3>1, <3>4
  <2>4. CASE Is(f.type, "struct") /\ ~Is(f.type, "interface")
    <3>1. TypeMightContainHandle(f.type)
      BY <2>1, <2>4, WalkFinds DEF HandleWalkFinds
    <3>2. reaches
      BY <2>4, <3>1 DEF IsStruct
    <3> HIDE DEF reaches
    <3>3. CASE f.ind = 0
      <4>1. ~(f.ind >= 1)
        BY <3>3
      <4>2. replaced = {"first"}
        BY <1>6, <3>2, <3>3, <4>1, Zenon
      <4> QED
        BY <1>1, <1>3, <1>4, <2>1, <3>3, <4>2
    <3>4. CASE f.ind # 0
      <4>1. f.ind >= 1 /\ (f.ind = 1 \/ f.ind = 2)
        BY <1>2, <3>4
      <4>2. replaced = IF f.ind = 1 \/ f.count # "none" THEN Elements(f) ELSE {}
        BY <1>6, <2>4, <3>2, <3>4, <4>1, Zenon
      <4> HIDE DEF replaced
      <4> QED
        BY <1>1, <1>3, <2>1, <4>1, <4>2
    <3> QED
      BY <3>3, <3>4
  <2>5. ~(Is(f.type, "interface") /\ Is(f.type, "struct"))
    BY DEF Is
  <2> QED
    BY <2>2, <2>3, <2>4, <2>5
<1> QED
  BY <1>2, <1>5, <1>6

(* _type_might_contain_handle finds every struct that holds object ids, at *)
(* any depth and through self-references, and the generated pass visits    *)
(* each element that holds some.                                           *)
THEOREM EveryIdIsReplaced == Spec => []EveryIdReplaced
<1>1. IInv => EveryIdReplaced
  <2> SUFFICES ASSUME RegOK, Usual(HoldsIds)
               PROVE  /\ HandleWalkFinds(HoldsIds)
                      /\ \A t \in Types : \A f \in FieldSet(t) :
                           (f.handle \/ f.type \in HoldsIds) =>
                             ReplaceHandleField(f) = Elements(f)
    BY DEF IInv, EveryIdReplaced
  <2> QED
    BY WalkFinds, FieldReplaced
<1> QED
  BY <1>1, InvariantHolds, PTL
=============================================================================
