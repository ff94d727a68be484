----------------------------- MODULE Inductions -----------------------------
(***************************************************************************)
(* Induction and recursion with sets and functions where the library has   *)
(* operators.  NatInduction of the library takes a predicate P(_), which no *)
(* prover used here can instantiate; the same facts about the SET of what  *)
(* satisfies P are first-order, and a leaf may cite them.  They rest on the *)
(* library's theorem that finite sets are well founded by inclusion.       *)
(***************************************************************************)
EXTENDS SequencesExt, FiniteSetTheorems, SequenceTheorems, WellFoundedInduction,
        TLAPS

(* A non-empty set of naturals has a least element.                        *)
LEMMA LeastNatural ==
  ASSUME NEW T, T \subseteq Nat, T # {}
  PROVE  \E m \in T : \A n \in T : m <= n
<1> DEFINE Upto(n) == 0 .. n
           U == {Upto(n) : n \in T}
<1>1. \A n \in Nat : Upto(n) \subseteq Nat /\ IsFiniteSet(Upto(n))
  BY FS_Interval
<1>2. \A m, n \in Nat : n < m => Upto(n) \subseteq Upto(m) /\ Upto(n) # Upto(m)
  <2> TAKE m, n \in Nat
  <2> HAVE n < m
  <2>1. m \in Upto(m) /\ m \notin Upto(n)
    OBVIOUS
  <2> QED
    BY <2>1
<1> HIDE DEF Upto
<1>3. U # {} /\ U \subseteq FiniteSubsetsOf(Nat)
  BY <1>1, Zenon DEF FiniteSubsetsOf
<1>4. \E x \in U : \A y \in U : ~(<<y, x>> \in StrictSubsetOrdering(Nat))
  <2> HIDE DEF U
  <2> QED
    BY <1>3, FS_StrictSubsetOrderingWellFounded, WFMin
<1>5. PICK m \in T : \A n \in T : ~(<<Upto(n), Upto(m)>> \in StrictSubsetOrdering(Nat))
  BY <1>4
<1>6. ASSUME NEW n \in T, n < m PROVE FALSE
  <2>1. Upto(n) \subseteq Upto(m) /\ Upto(n) # Upto(m)
    BY <1>2, <1>6
  <2>2. <<Upto(n), Upto(m)>> \in (SUBSET Nat) \X (SUBSET Nat)
    BY <1>1
  <2>3. <<Upto(n), Upto(m)>> \in StrictSubsetOrdering(Nat)
    BY <2>1, <2>2, Zenon DEF StrictSubsetOrdering
  <2> QED
    BY <1>5, <2>3
<1> QED
  BY <1>6

(* A set with 0 and every successor is all of Nat: to show P(n) for all n, *)
(* take the set of the n with P(n).                                        *)
LEMMA NatSetInduction ==
  ASSUME NEW S, 0 \in S, \A n \in Nat : n \in S => n + 1 \in S
  PROVE  Nat \subseteq S
<1> SUFFICES ASSUME NEW n \in Nat \ S PROVE FALSE
  OBVIOUS
<1>1. PICK m \in Nat \ S : \A k \in Nat \ S : m <= k
  <2>1. Nat \ S \subseteq Nat /\ Nat \ S # {}
    OBVIOUS
  <2> QED
    BY <2>1, LeastNatural
<1>2. m # 0
  OBVIOUS
<1>3. m - 1 \in Nat /\ m - 1 \in S
  BY <1>1, <1>2
<1> QED
  BY <1>3

(* The same for 0 .. n. *)
LEMMA UptoInduction ==
  ASSUME NEW n \in Nat, NEW S, 0 \in S, \A k \in 1 .. n : k - 1 \in S => k \in S
  PROVE  0 .. n \subseteq S
<1> DEFINE D == {k \in Nat : k <= n => k \in S}
<1>1. 0 \in D
  OBVIOUS
<1>2. ASSUME NEW k \in Nat, k \in D PROVE k + 1 \in D
  <2> SUFFICES ASSUME k + 1 <= n PROVE k + 1 \in S
    OBVIOUS
  <2> DEFINE q == k + 1
  <2>1. q \in 1 .. n /\ q - 1 = k /\ k \in S
    BY <1>2
  <2> HIDE DEF q
  <2>2. q \in S
    BY <2>1
  <2> QED
    BY <2>2 DEF q
<1>3. Nat \subseteq D
  <2> HIDE DEF D
  <2> QED
    BY <1>1, <1>2, NatSetInduction
<1> QED
  BY <1>3

(* A family of sets with the empty one, closed under adding elements of F, *)
(* has the finite set F.                                                   *)
LEMMA FiniteSetInduction ==
  ASSUME NEW F, IsFiniteSet(F), NEW P, {} \in P,
         \A T \in SUBSET F : \A x \in F \ T : T \in P => T \cup {x} \in P
  PROVE  F \in P
<1> SUFFICES ASSUME F \notin P PROVE FALSE
  OBVIOUS
<1> DEFINE B == {T \in SUBSET F : T \notin P}
<1>1. B # {} /\ B \subseteq FiniteSubsetsOf(F)
  BY FS_FiniteSubsetsOfFinite
<1>2. PICK T \in B : \A U \in B : ~(<<U, T>> \in StrictSubsetOrdering(F))
  <2> HIDE DEF B
  <2> QED
    BY <1>1, FS_StrictSubsetOrderingWellFounded, WFMin
<1>3. PICK x : x \in T
  OBVIOUS
<1> DEFINE R == T \ {x}
<1>4. R \in SUBSET F /\ R \in P
  <2>1. R \in SUBSET F /\ R # T /\ R \subseteq T
    BY <1>3
  <2>2. <<R, T>> \in StrictSubsetOrdering(F)
    <3>1. <<R, T>> \in (SUBSET F) \X (SUBSET F)
      BY <2>1
    <3> QED
      BY <2>1, <3>1, Zenon DEF StrictSubsetOrdering
  <2> QED
    BY <1>2, <2>1, <2>2
<1>5. T = R \cup {x} /\ x \in F \ R
  BY <1>3
<1> QED
  BY <1>4, <1>5

LEMMA IntervalsEqual ==
  ASSUME NEW a \in Nat, NEW b \in Nat, NEW D, D = 1 .. a, D = 1 .. b
  PROVE  a = b
<1>1. CASE a < b
  <2>1. b \in 1 .. b /\ b \notin 1 .. a
    BY <1>1
  <2> QED
    BY <2>1
<1>2. CASE b < a
  <2>1. a \in 1 .. a /\ a \notin 1 .. b
    BY <1>2
  <2> QED
    BY <2>1
<1> QED
  BY <1>1, <1>2

LEMMA FunctionIsSeq ==
  ASSUME NEW S, NEW n \in Nat, NEW f \in [1 .. n -> S]
  PROVE  f \in Seq(S) /\ Len(f) = n
<1>1. f \in Seq(S)
  BY SeqDef, Zenon
<1>2. Len(f) \in Nat /\ DOMAIN f = 1 .. Len(f) /\ DOMAIN f = 1 .. n
  BY <1>1, LenProperties
<1> QED
  BY <1>1, <1>2, IntervalsEqual, Zenon


(* A function on Nat may be defined by its first value and a step.         *)
Recursive(f, c, step) ==
  f[0] = c /\ \A n \in Nat : f[n + 1] = step[<<f[n], n>>]

LEMMA NatRecursion ==
  ASSUME NEW S, NEW c \in S, NEW step \in [S \X Nat -> S]
  PROVE  \E f \in [Nat -> S] : Recursive(f, c, step)
<1> DEFINE Solves(g, n) == /\ g \in [0 .. n -> S] /\ g[0] = c
                           /\ \A k \in 0 .. n : k # n => g[k + 1] = step[<<g[k], k>>]
           D == {n \in Nat : \E g : Solves(g, n)}
<1>1. Nat \subseteq D
  <2>1. 0 \in D
    <3>1. Solves([k \in 0 .. 0 |-> c], 0)
      OBVIOUS
    <3> QED
      BY <3>1
  <2>2. ASSUME NEW n \in Nat, n \in D PROVE n + 1 \in D
    <3>1. PICK g : Solves(g, n)
      BY <2>2
    <3> DEFINE h == [k \in 0 .. n + 1 |-> IF k = n + 1 THEN step[<<g[n], n>>] ELSE g[k]]
    <3>2. g[n] \in S /\ step[<<g[n], n>>] \in S
      BY <3>1
    <3>3. h \in [0 .. n + 1 -> S] /\ h[0] = c
      BY <3>1, <3>2
    <3>4. ASSUME NEW k \in 0 .. n + 1, k # n + 1 PROVE h[k + 1] = step[<<h[k], k>>]
      <4>1. CASE k = n
        <5>1. h[k + 1] = step[<<g[n], n>>] /\ h[k] = g[n]
          BY <4>1
        <5> QED
          BY <4>1, <5>1
      <4>2. CASE k # n
        <5>1. k \in 0 .. n /\ h[k + 1] = g[k + 1] /\ h[k] = g[k]
          BY <3>4, <4>2
        <5> QED
          BY <3>1, <4>2, <5>1
      <4> QED
        BY <4>1, <4>2
    <3>5. Solves(h, n + 1)
      BY <3>3, <3>4
    <3> HIDE DEF h, Solves
    <3> QED
      BY <3>5
  <2> HIDE DEF D
  <2> QED
    BY <2>1, <2>2, NatSetInduction
<1>2. \A m \in Nat : \A g, h : \A n \in Nat :
        Solves(g, m) /\ Solves(h, n) /\ m <= n => g[m] = h[m]
  <2> DEFINE E == {m \in Nat : \A g, h : \A n \in Nat :
                     Solves(g, m) /\ Solves(h, n) /\ m <= n => g[m] = h[m]}
  <2>1. 0 \in E
    OBVIOUS
  <2>2. ASSUME NEW m \in Nat, m \in E PROVE m + 1 \in E
    <3> SUFFICES ASSUME NEW g, NEW h, NEW n \in Nat, Solves(g, m + 1), Solves(h, n), m + 1 <= n
                 PROVE  g[m + 1] = h[m + 1]
      OBVIOUS
    <3> DEFINE r == [k \in 0 .. m |-> g[k]]
    <3>1. Solves(r, m)
      OBVIOUS
    <3>2. r[m] = h[m]
      <4>1. m <= n
        OBVIOUS
      <4> HIDE DEF Solves, r
      <4> QED
        BY <2>2, <3>1, <4>1
    <3>3. g[m + 1] = step[<<g[m], m>>] /\ h[m + 1] = step[<<h[m], m>>]
      OBVIOUS
    <3> QED
      BY <3>2, <3>3
  <2>3. Nat \subseteq E
    <3> HIDE DEF E
    <3> QED
      BY <2>1, <2>2, NatSetInduction
  <2> QED
    BY <2>3
<1> DEFINE G(n) == CHOOSE g : Solves(g, n)
           f == [n \in Nat |-> G(n)[n]]
<1>3. \A n \in Nat : Solves(G(n), n)
  <2> TAKE n \in Nat
  <2>1. \E g : Solves(g, n)
    BY <1>1
  <2> QED
    BY <2>1, Zenon
<1> HIDE DEF G
<1>4. f \in [Nat -> S] /\ f[0] = c
  BY <1>3
<1>5. ASSUME NEW n \in Nat PROVE f[n + 1] = step[<<f[n], n>>]
  <2>1. Solves(G(n), n) /\ Solves(G(n + 1), n + 1)
    BY <1>3
  <2>2. G(n)[n] = G(n + 1)[n]
    <3>1. n + 1 \in Nat /\ n <= n + 1
      OBVIOUS
    <3> HIDE DEF Solves
    <3> QED
      BY <1>2, <2>1, <3>1
  <2>3. G(n + 1)[n + 1] = step[<<G(n + 1)[n], n>>]
    BY <2>1
  <2> QED
    BY <2>2, <2>3
<1>6. Recursive(f, c, step)
  BY <1>4, <1>5 DEF Recursive
<1> QED
  BY <1>4, <1>6

(* The same for a function on 0 .. n. *)
RecursiveUpto(g, n, c, step) ==
  g = [k \in 0 .. n |-> IF k = 0 THEN c ELSE step[<<g[k - 1], k - 1>>]]

LEMMA UptoRecursion ==
  ASSUME NEW n \in Nat, NEW S, NEW c \in S, NEW step \in [S \X Nat -> S]
  PROVE  \E g \in [0 .. n -> S] : RecursiveUpto(g, n, c, step)
<1>1. PICK f \in [Nat -> S] : Recursive(f, c, step)
  BY NatRecursion
<1> DEFINE g == [k \in 0 .. n |-> f[k]]
<1>2. g \in [0 .. n -> S]
  OBVIOUS
<1>3. ASSUME NEW k \in 0 .. n
      PROVE  g[k] = IF k = 0 THEN c ELSE step[<<g[k - 1], k - 1>>]
  <2>1. CASE k = 0
    BY <1>1, <2>1 DEF Recursive
  <2>2. CASE k # 0
    <3>1. k - 1 \in Nat /\ k - 1 \in 0 .. n /\ k - 1 + 1 = k
      BY <2>2
    <3>2. f[k - 1 + 1] = step[<<f[k - 1], k - 1>>]
      BY <1>1, <3>1 DEF Recursive
    <3>3. g[k] = f[k] /\ g[k - 1] = f[k - 1]
      BY <3>1
    <3> HIDE DEF g
    <3> QED
      BY <2>2, <3>1, <3>2, <3>3
  <2> QED
    BY <2>1, <2>2
<1>4. g = [k \in 0 .. n |-> IF k = 0 THEN c ELSE step[<<g[k - 1], k - 1>>]]
  <2>1. g = [k \in 0 .. n |-> g[k]]
    OBVIOUS
  <2> HIDE DEF g
  <2> QED
    BY <1>3, <2>1
<1> HIDE DEF g
<1> QED
  BY <1>2, <1>4 DEF RecursiveUpto

---------------------------------------------------------------------------
(* Sums: prefix sums, and FoldLeft with an addition, which takes the       *)
(* greatest position off the set of those it has still to add.             *)

Sums(it, n, w) ==
  it = [x \in SUBSET (1 .. n) |->
          IF x = {} THEN 0 ELSE it[x \ {Max(x)}] + w[Max(x)]]

Numbers(w, n) == \A k \in 1 .. n : w[k] \in Nat

(* T is the running total of w[1] .. w[n].                                 *)
Running(T, w, n) == T[0] = 0 /\ \A k \in 1 .. n : T[k] = T[k - 1] + w[k]

LEMMA PrefixSums ==
  ASSUME NEW n \in Nat, NEW w, Numbers(w, n)
  PROVE  \E T \in [Nat -> Nat] : Running(T, w, n)
<1> DEFINE step == [p \in Nat \X Nat |->
                      IF p[2] + 1 \in 1 .. n THEN p[1] + w[p[2] + 1] ELSE p[1]]
<1>1. step \in [Nat \X Nat -> Nat]
  BY DEF Numbers
<1>2. PICK T \in [Nat -> Nat] : T[0] = 0 /\ \A k \in Nat : T[k + 1] = step[<<T[k], k>>]
  <2>1. 0 \in Nat
    OBVIOUS
  <2> HIDE DEF step
  <2>2. \E T \in [Nat -> Nat] : Recursive(T, 0, step)
    BY <1>1, <2>1, NatRecursion
  <2> QED
    BY <2>2 DEF Recursive
<1>3. ASSUME NEW k \in 1 .. n PROVE T[k] = T[k - 1] + w[k]
  <2>1. k - 1 \in Nat /\ k - 1 + 1 = k /\ <<T[k - 1], k - 1>> \in Nat \X Nat
    OBVIOUS
  <2>2. T[k] = step[<<T[k - 1], k - 1>>]
    <3> HIDE DEF step
    <3>1. T[k - 1 + 1] = step[<<T[k - 1], k - 1>>]
      BY <1>2, <2>1
    <3> QED
      BY <2>1, <3>1
  <2> QED
    BY <2>1, <2>2
<1> QED
  BY <1>2, <1>3 DEF Running

LEMMA MaxOfSubset ==
  ASSUME NEW n \in Nat, NEW S \in SUBSET (1 .. n), S # {}
  PROVE  Max(S) \in S /\ \A y \in S : y <= Max(S)
<1>1. \E x \in S : \A y \in S : x >= y
  <2> DEFINE U == {n - x : x \in S}
  <2>1. U \subseteq Nat /\ U # {}
    <3>1. \A x \in S : n - x \in Nat
      OBVIOUS
    <3> QED
      BY <3>1
  <2>2. PICK m \in U : \A u \in U : m <= u
    <3> HIDE DEF U
    <3> QED
      BY <2>1, LeastNatural
  <2>3. PICK x \in S : m = n - x
    OBVIOUS
  <2>4. \A y \in S : n - x <= n - y
    BY <2>2, <2>3
  <2> QED
    BY <2>4
<1> DEFINE Greatest(x) == \A y \in S : x >= y
<1>2. Max(S) = CHOOSE x \in S : Greatest(x)
  BY DEF Max
<1>3. Max(S) \in S /\ Greatest(Max(S))
  <2> HIDE DEF Greatest
  <2>1. \E x \in S : Greatest(x)
    BY <1>1 DEF Greatest
  <2> QED
    BY <1>2, <2>1, Zenon
<1> QED
  BY <1>3

LEMMA FoldExists ==
  ASSUME NEW n \in Nat, NEW w
  PROVE  \E it : Sums(it, n, w)
<1> DEFINE Body(it, x) == IF x = {} THEN 0 ELSE it[x \ {Max(x)}] + w[Max(x)]
           Solves(it, m) == it = [x \in SUBSET (1 .. m) |-> Body(it, x)]
           D == {m \in Nat : \E it : Solves(it, m)}
<1>1. 0 \in D
  <2>1. Solves([x \in SUBSET (1 .. 0) |-> 0], 0)
    <3>1. 1 .. 0 = {}
      OBVIOUS
    <3>2. SUBSET (1 .. 0) = {{}}
      BY <3>1
    <3> QED
      BY <3>2
  <2> QED
    BY <2>1
<1>2. ASSUME NEW m \in Nat, m \in D PROVE m + 1 \in D
  <2>1. PICK g : Solves(g, m)
    BY <1>2
  <2> DEFINE h == [x \in SUBSET (1 .. m + 1) |->
                     IF m + 1 \in x THEN g[x \ {m + 1}] + w[m + 1] ELSE g[x]]
  <2>2. ASSUME NEW x \in SUBSET (1 .. m + 1) PROVE h[x] = Body(h, x)
    <3>1. CASE m + 1 \in x
      <4>1. Max(x) = m + 1
        <5>1. Max(x) \in x /\ \A y \in x : y <= Max(x)
          <6>1. m + 1 \in Nat /\ x # {}
            BY <3>1
          <6> QED
            BY <6>1, MaxOfSubset
        <5>2. Max(x) \in 1 .. m + 1 /\ m + 1 <= Max(x)
          BY <3>1, <5>1
        <5> QED
          BY <5>2
      <4>2. x \ {m + 1} \in SUBSET (1 .. m + 1) /\ m + 1 \notin x \ {m + 1}
        OBVIOUS
      <4>3. h[x \ {m + 1}] = g[x \ {m + 1}]
        BY <4>2
      <4>4. h[x] = g[x \ {m + 1}] + w[m + 1]
        BY <3>1
      <4> HIDE DEF h
      <4> QED
        BY <3>1, <4>1, <4>3, <4>4
    <3>2. CASE m + 1 \notin x /\ x # {}
      <4>1. x \in SUBSET (1 .. m)
        BY <3>2
      <4>2. x \ {Max(x)} \in SUBSET (1 .. m + 1) /\ m + 1 \notin x \ {Max(x)}
        BY <3>2
      <4>3. h[x] = g[x] /\ h[x \ {Max(x)}] = g[x \ {Max(x)}]
        BY <3>2, <4>2
      <4>4. g[x] = g[x \ {Max(x)}] + w[Max(x)]
        BY <2>1, <3>2, <4>1
      <4> HIDE DEF h
      <4> QED
        BY <3>2, <4>3, <4>4
    <3>3. CASE x = {}
      <4>1. x \in SUBSET (1 .. m) /\ m + 1 \notin x
        BY <3>3
      <4>2. g[x] = 0
        BY <2>1, <3>3, <4>1
      <4>3. h[x] = g[x]
        BY <4>1
      <4> HIDE DEF h
      <4> QED
        BY <3>3, <4>2, <4>3
    <3> QED
      BY <3>1, <3>2, <3>3
  <2>3. Solves(h, m + 1)
    <3>1. h = [x \in SUBSET (1 .. m + 1) |-> h[x]]
      OBVIOUS
    <3> HIDE DEF h, Body
    <3> QED
      BY <2>2, <3>1
  <2> HIDE DEF h, Solves
  <2> QED
    BY <2>3
<1>3. Nat \subseteq D
  <2> HIDE DEF D
  <2> QED
    BY <1>1, <1>2, NatSetInduction
<1>4. PICK it : Solves(it, n)
  BY <1>3
<1>5. Sums(it, n, w)
  BY <1>4 DEF Sums
<1> QED
  BY <1>5

LEMMA FoldSums ==
  ASSUME NEW n \in Nat, NEW w, NEW it, Sums(it, n, w), NEW T, Running(T, w, n)
  PROVE  it[1 .. n] = T[n]
<1> DEFINE D == {m \in Nat : m <= n => it[1 .. m] = T[m]}
<1>1. 0 \in D
  <2>1. 1 .. 0 = {} /\ 1 .. 0 \in SUBSET (1 .. n)
    OBVIOUS
  <2>2. it[1 .. 0] = 0
    BY <2>1 DEF Sums
  <2> QED
    BY <2>2 DEF Running
<1>2. ASSUME NEW m \in Nat, m \in D PROVE m + 1 \in D
  <2> SUFFICES ASSUME m + 1 <= n PROVE it[1 .. m + 1] = T[m + 1]
    OBVIOUS
  <2>1. 1 .. m + 1 \in SUBSET (1 .. n) /\ 1 .. m + 1 # {} /\ m + 1 \in 1 .. m + 1
    <3>1. m + 1 \in 1 .. m + 1 /\ \A y \in 1 .. m + 1 : y \in 1 .. n
      OBVIOUS
    <3> QED
      BY <3>1
  <2>2. Max(1 .. m + 1) = m + 1
    <3>1. Max(1 .. m + 1) \in 1 .. m + 1 /\ m + 1 <= Max(1 .. m + 1)
      BY <2>1, MaxOfSubset
    <3> QED
      BY <3>1
  <2>3. (1 .. m + 1) \ {m + 1} = 1 .. m
    OBVIOUS
  <2>4. it[1 .. m + 1] = it[1 .. m] + w[m + 1]
    <3> DEFINE upto == 1 .. m + 1
    <3>1. \A x \in SUBSET (1 .. n) : x # {} => it[x] = it[x \ {Max(x)}] + w[Max(x)]
      BY DEF Sums
    <3>2. it[upto] = it[upto \ {Max(upto)}] + w[Max(upto)]
      <4> HIDE DEF upto
      <4> QED
        BY <2>1, <3>1 DEF upto
    <3> QED
      BY <2>2, <2>3, <3>2
  <2>5. it[1 .. m] = T[m] /\ T[m + 1] = T[m] + w[m + 1]
    BY <1>2 DEF Running
  <2> QED
    BY <2>4, <2>5
<1>3. Nat \subseteq D
  <2> HIDE DEF D
  <2> QED
    BY <1>1, <1>2, NatSetInduction
<1> QED
  BY <1>3


---------------------------------------------------------------------------
(* Recursive functions f over 0 .. n whose f[k] adds e[k] to f[k - 1]:     *)
(* e[k] a sequence that is appended, or a number.                          *)

(* The provers take an equality with s \o t apart; Cat keeps it whole.       *)
Cat(s, t) == s \o t

Joins(c, s, t) ==
  /\ Len(s) \in Nat /\ Len(t) \in Nat
  /\ Len(c) = Len(s) + Len(t)
  /\ \A j \in 1 .. Len(s) : c[j] = s[j]
  /\ \A j \in 1 .. Len(t) : c[Len(s) + j] = t[j]

LEMMA CatProperties ==
  ASSUME NEW S, NEW s \in Seq(S), NEW t \in Seq(S)
  PROVE  Cat(s, t) \in Seq(S) /\ Joins(Cat(s, t), s, t)
  BY ConcatProperties, LenProperties DEF Cat, Joins

Chain(f, e, n, S) ==
  /\ e \in [1 .. n -> Seq(S)]
  /\ f = [k \in 0 .. n |-> IF k = 0 THEN <<>> ELSE Cat(f[k - 1], e[k])]

Adds(f, e, n) ==
  /\ e \in [1 .. n -> Nat]
  /\ f = [k \in 0 .. n |-> IF k = 0 THEN 0 ELSE f[k - 1] + e[k]]

LEMMA ChainExists ==
  ASSUME NEW S, NEW n \in Nat, NEW e \in [1 .. n -> Seq(S)]
  PROVE  \E f : Chain(f, e, n, S)
<1> DEFINE step == [p \in Seq(S) \X Nat |->
                      IF p[2] + 1 \in 1 .. n THEN Cat(p[1], e[p[2] + 1]) ELSE p[1]]
<1>1. step \in [Seq(S) \X Nat -> Seq(S)]
  <2>1. ASSUME NEW p \in Seq(S) \X Nat, p[2] + 1 \in 1 .. n
        PROVE  Cat(p[1], e[p[2] + 1]) \in Seq(S)
    <3>1. p[1] \in Seq(S) /\ e[p[2] + 1] \in Seq(S)
      BY <2>1
    <3> QED
      BY <3>1, CatProperties
  <2>2. \A p \in Seq(S) \X Nat : p[1] \in Seq(S)
    OBVIOUS
  <2> QED
    BY <2>1, <2>2
<1>2. PICK g \in [Nat -> Seq(S)] : Recursive(g, <<>>, step)
  <2>1. <<>> \in Seq(S)
    OBVIOUS
  <2> HIDE DEF step
  <2> QED
    BY <1>1, <2>1, NatRecursion
<1> DEFINE f == [k \in 0 .. n |-> g[k]]
<1>3. f[0] = <<>>
  BY <1>2 DEF Recursive
<1>4. ASSUME NEW k \in 0 .. n, k # 0 PROVE f[k] = Cat(f[k - 1], e[k])
  <2>1. k - 1 \in Nat /\ k - 1 + 1 = k /\ k \in 1 .. n /\ k - 1 \in 0 .. n
    BY <1>4
  <2>2. g[k] = step[<<g[k - 1], k - 1>>]
    <3> HIDE DEF step
    <3>1. g[k - 1 + 1] = step[<<g[k - 1], k - 1>>]
      BY <1>2, <2>1 DEF Recursive
    <3> QED
      BY <2>1, <3>1
  <2>3. <<g[k - 1], k - 1>> \in Seq(S) \X Nat
    BY <2>1
  <2>4. step[<<g[k - 1], k - 1>>] = Cat(g[k - 1], e[k])
    BY <2>1, <2>3
  <2> QED
    BY <2>1, <2>2, <2>4
<1>5. Chain(f, e, n, S)
  <2>1. f = [k \in 0 .. n |-> f[k]]
    OBVIOUS
  <2> HIDE DEF f
  <2> QED
    BY <1>3, <1>4, <2>1 DEF Chain
<1> QED
  BY <1>5

(* What such an f is: each value continues the one before it.              *)
Appends(f, e, n, S) ==
  /\ e \in [1 .. n -> Seq(S)] /\ f \in [0 .. n -> Seq(S)]
  /\ f[0] = <<>>
  /\ \A k \in 1 .. n : f[k] = Cat(f[k - 1], e[k])

LEMMA ChainAppends ==
  ASSUME NEW S, NEW n \in Nat, NEW e, NEW f, Chain(f, e, n, S)
  PROVE  Appends(f, e, n, S)
<1>1. \A k \in 0 .. n : f[k] = IF k = 0 THEN <<>> ELSE Cat(f[k - 1], e[k])
  BY DEF Chain
<1>2. f[0] = <<>> /\ \A k \in 1 .. n : f[k] = Cat(f[k - 1], e[k])
  <2>1. 0 \in 0 .. n /\ \A k \in 1 .. n : k \in 0 .. n /\ k # 0
    OBVIOUS
  <2> QED
    BY <1>1, <2>1, Zenon
<1> DEFINE D == {k \in 0 .. n : f[k] \in Seq(S)}
<1>3. 0 \in D
  <2>1. <<>> \in Seq(S)
    OBVIOUS
  <2>2. f[0] \in Seq(S)
    BY <1>2, <2>1, Zenon
  <2> QED
    BY <2>2
<1>4. ASSUME NEW k \in 1 .. n, k - 1 \in D PROVE k \in D
  <2>1. f[k - 1] \in Seq(S) /\ e[k] \in Seq(S) /\ k \in 0 .. n
    BY <1>4 DEF Chain
  <2>2. Cat(f[k - 1], e[k]) \in Seq(S)
    BY <2>1, CatProperties
  <2>3. f[k] \in Seq(S)
    BY <1>2, <2>2, Zenon
  <2> QED
    BY <2>1, <2>3
<1>5. 0 .. n \subseteq D
  <2> HIDE DEF D
  <2> QED
    BY <1>3, <1>4, UptoInduction
<1>6. \A k \in 0 .. n : f[k] \in Seq(S)
  BY <1>5
<1>7. f = [k \in 0 .. n |-> f[k]]
  BY DEF Chain
<1>8. f \in [0 .. n -> Seq(S)]
  BY <1>6, <1>7
<1>9. e \in [1 .. n -> Seq(S)]
  BY DEF Chain
<1> QED
  BY <1>2, <1>8, <1>9, Zenon DEF Appends

(* What the k-th addition put stays where it was put.                      *)
Keeps(f, e, k, n) ==
  /\ Len(f[k - 1]) \in Nat /\ Len(e[k]) \in Nat /\ Len(f[k]) \in Nat
  /\ Len(f[k]) = Len(f[k - 1]) + Len(e[k])
  /\ Len(f[k]) <= Len(f[n])
  /\ \A j \in 1 .. Len(e[k]) : f[n][Len(f[k - 1]) + j] = e[k][j]

(* The places of a prefix, and of what follows it, lie in the whole.      *)
LEMMA SumBounds ==
  ASSUME NEW a \in Nat, NEW b \in Nat, NEW c, c = a + b
  PROVE  c \in Nat /\ a <= c /\ \A j \in 1 .. b : a + j \in 1 .. c
  OBVIOUS

LEMMA PrefixWithin ==
  ASSUME NEW a \in Nat, NEW b \in Nat, a <= b, NEW c \in Nat, b <= c
  PROVE  a <= c /\ \A j \in 1 .. a : j \in 1 .. b
  OBVIOUS

LEMMA AppendsKeeps ==
  ASSUME NEW S, NEW n \in Nat, NEW e, NEW f, Appends(f, e, n, S)
  PROVE  \A k \in 1 .. n : Keeps(f, e, k, n)
<1>1. \A m \in 0 .. n : f[m] \in Seq(S)
  BY DEF Appends
<1>2. \A m \in 1 .. n : e[m] \in Seq(S)
  BY DEF Appends
<1>3. \A m \in 1 .. n : f[m] = Cat(f[m - 1], e[m])
  BY Zenon DEF Appends
<1> DEFINE Grows(m) == /\ Len(f[m]) \in Nat /\ Len(f[m - 1]) \in Nat /\ Len(e[m]) \in Nat
                       /\ Len(f[m]) = Len(f[m - 1]) + Len(e[m])
                       /\ \A j \in 1 .. Len(f[m - 1]) : f[m][j] = f[m - 1][j]
                       /\ \A j \in 1 .. Len(e[m]) : f[m][Len(f[m - 1]) + j] = e[m][j]
<1>4. ASSUME NEW m \in 1 .. n PROVE Grows(m)
  <2>1. m - 1 \in 0 .. n /\ m \in 0 .. n
    OBVIOUS
  <2>2. f[m - 1] \in Seq(S) /\ e[m] \in Seq(S) /\ f[m] \in Seq(S)
    BY <1>1, <1>2, <2>1, Zenon
  <2>3. Len(f[m]) \in Nat
    BY <2>2, LenProperties, Zenon
  <2>4. Joins(Cat(f[m - 1], e[m]), f[m - 1], e[m])
    BY <2>2, CatProperties, Zenon
  <2>5. Joins(f[m], f[m - 1], e[m])
    BY <1>3, <2>4, Zenon
  <2> QED
    BY <2>3, <2>5, Zenon DEF Joins
<1> HIDE DEF Grows
<1> DEFINE Kept(k, m) == /\ Len(f[k]) <= Len(f[m])
                         /\ \A j \in 1 .. Len(f[k]) : f[m][j] = f[k][j]
           D == {m \in 0 .. n : \A k \in 0 .. m : Kept(k, m)}
<1>5. \A k \in 0 .. n : Len(f[k]) \in Nat /\ Kept(k, k)
  <2> TAKE k \in 0 .. n
  <2>1. Len(f[k]) \in Nat
    BY <1>1, LenProperties, Zenon
  <2> QED
    BY <2>1
<1>6. 0 \in D
  <2>1. \A k \in 0 .. 0 : k = 0 /\ k \in 0 .. n
    OBVIOUS
  <2> HIDE DEF Kept
  <2> QED
    BY <1>5, <2>1
<1>7. ASSUME NEW m \in 1 .. n, m - 1 \in D PROVE m \in D
  <2> SUFFICES ASSUME NEW k \in 0 .. m PROVE Kept(k, m)
    OBVIOUS
  <2>1. m \in 0 .. n /\ m - 1 \in 0 .. n /\ k \in 0 .. n
    OBVIOUS
  <2>2. CASE k = m
    BY <1>5, <2>1, <2>2, Zenon
  <2>3. CASE k # m
    <3>1. k \in 0 .. m - 1
      BY <2>3
    <3>2. Kept(k, m - 1)
      BY <1>7, <3>1
    <3>3. Len(f[m - 1]) \in Nat /\ Len(f[m]) \in Nat /\ Len(f[m - 1]) <= Len(f[m])
      BY <1>4, SumBounds, Zenon DEF Grows
    <3>4. Len(f[k]) \in Nat
      BY <1>5, <2>1, Zenon
    <3>5. Len(f[k]) <= Len(f[m]) /\ \A j \in 1 .. Len(f[k]) : j \in 1 .. Len(f[m - 1])
      BY <3>2, <3>3, <3>4, PrefixWithin, Zenon
    <3>6. \A j \in 1 .. Len(f[k]) : f[m][j] = f[k][j]
      BY <1>4, <3>2, <3>5, Zenon DEF Grows
    <3> QED
      BY <3>5, <3>6, Zenon
  <2> QED
    BY <2>2, <2>3
<1>8. 0 .. n \subseteq D
  <2> HIDE DEF D
  <2> QED
    BY <1>6, <1>7, UptoInduction
<1>9. \A k \in 0 .. n : Kept(k, n)
  <2>1. n \in 0 .. n
    OBVIOUS
  <2> HIDE DEF Kept
  <2> QED
    BY <1>8, <2>1
<1> SUFFICES ASSUME NEW k \in 1 .. n PROVE Keeps(f, e, k, n)
  OBVIOUS
<1>10. k \in 0 .. n
  OBVIOUS
<1>11. Kept(k, n) /\ Grows(k)
  BY <1>4, <1>9, <1>10, Zenon
<1>12. \A j \in 1 .. Len(e[k]) : Len(f[k - 1]) + j \in 1 .. Len(f[k])
  BY <1>11, SumBounds, Zenon DEF Grows
<1>13. \A j \in 1 .. Len(e[k]) : f[n][Len(f[k - 1]) + j] = e[k][j]
  BY <1>11, <1>12, Zenon DEF Grows
<1> QED
  BY <1>11, <1>13, Zenon DEF Keeps, Grows

LEMMA AddsExists ==
  ASSUME NEW n \in Nat, NEW e \in [1 .. n -> Nat]
  PROVE  \E f : Adds(f, e, n)
<1>1. PICK T \in [Nat -> Nat] : T[0] = 0 /\ \A k \in 1 .. n : T[k] = T[k - 1] + e[k]
  <2>1. Numbers(e, n)
    BY DEF Numbers
  <2>2. \E T \in [Nat -> Nat] : Running(T, e, n)
    BY <2>1, PrefixSums
  <2> QED
    BY <2>2 DEF Running
<1> DEFINE f == [k \in 0 .. n |-> T[k]]
<1>2. \A k \in 0 .. n : f[k] = IF k = 0 THEN 0 ELSE f[k - 1] + e[k]
  BY <1>1
<1>3. Adds(f, e, n)
  <2>1. f = [k \in 0 .. n |-> f[k]]
    OBVIOUS
  <2> HIDE DEF f
  <2> QED
    BY <1>2, <2>1 DEF Adds
<1> QED
  BY <1>3

(* What such an f is: the running total.                                   *)
Totals(f, e, n) ==
  /\ e \in [1 .. n -> Nat] /\ f \in [0 .. n -> Nat]
  /\ f[0] = 0
  /\ \A k \in 1 .. n : f[k] = f[k - 1] + e[k]

LEMMA AddsTotals ==
  ASSUME NEW n \in Nat, NEW e, NEW f, Adds(f, e, n)
  PROVE  Totals(f, e, n)
<1>1. \A k \in 0 .. n : f[k] = IF k = 0 THEN 0 ELSE f[k - 1] + e[k]
  BY DEF Adds
<1>2. f[0] = 0 /\ \A k \in 1 .. n : f[k] = f[k - 1] + e[k]
  BY <1>1
<1> DEFINE D == {k \in 0 .. n : f[k] \in Nat}
<1>3. 0 \in D
  BY <1>2
<1>4. ASSUME NEW k \in 1 .. n, k - 1 \in D PROVE k \in D
  <2>1. f[k - 1] \in Nat /\ e[k] \in Nat /\ k \in 0 .. n
    BY <1>4 DEF Adds
  <2> QED
    BY <1>2, <2>1
<1>5. 0 .. n \subseteq D
  <2> HIDE DEF D
  <2> QED
    BY <1>3, <1>4, UptoInduction
<1>6. \A k \in 0 .. n : f[k] \in Nat
  BY <1>5
<1>7. f = [k \in 0 .. n |-> f[k]]
  BY DEF Adds
<1>8. f \in [0 .. n -> Nat] /\ e \in [1 .. n -> Nat]
  BY <1>6, <1>7 DEF Adds
<1> QED
  BY <1>2, <1>8 DEF Totals

---------------------------------------------------------------------------
(* t is the sum of w[1] .. w[n].                                           *)
IsTotal(t, w, n) ==
  /\ Numbers(w, n)
  /\ \E T \in [0 .. n -> Nat] : Running(T, w, n) /\ t = T[n]

LEMMA FoldTotal ==
  ASSUME NEW n \in Nat, NEW w, Numbers(w, n), NEW it, Sums(it, n, w)
  PROVE  IsTotal(it[1 .. n], w, n)
<1>1. PICK T \in [Nat -> Nat] : Running(T, w, n)
  BY PrefixSums
<1>2. it[1 .. n] = T[n]
  BY <1>1, FoldSums
<1> DEFINE R == [k \in 0 .. n |-> T[k]]
<1>3. R \in [0 .. n -> Nat] /\ Running(R, w, n)
  BY <1>1 DEF Running
<1>4. it[1 .. n] = R[n]
  BY <1>2
<1> HIDE DEF R
<1> QED
  BY <1>3, <1>4 DEF IsTotal

(* x is the n numbers of w followed by the m of v.                         *)
Follows(x, w, n, v, m) ==
  /\ \A k \in 1 .. n : x[k] = w[k]
  /\ \A k \in 1 .. m : x[n + k] = v[k]

(* The sum of n numbers followed by m others.                              *)
LEMMA TotalJoin ==
  ASSUME NEW n \in Nat, NEW m \in Nat, NEW w, NEW v, NEW x, NEW t, NEW u, NEW s,
         IsTotal(t, w, n), IsTotal(u, v, m), IsTotal(s, x, n + m), Follows(x, w, n, v, m)
  PROVE  t \in Nat /\ u \in Nat /\ s = t + u
<1>1. PICK T \in [0 .. n -> Nat] :
        T[0] = 0 /\ (\A k \in 1 .. n : T[k] = T[k - 1] + w[k]) /\ t = T[n]
  BY DEF IsTotal, Running
<1>2. PICK U \in [0 .. m -> Nat] :
        U[0] = 0 /\ (\A k \in 1 .. m : U[k] = U[k - 1] + v[k]) /\ u = U[m]
  BY DEF IsTotal, Running
<1>3. PICK R \in [0 .. n + m -> Nat] :
        R[0] = 0 /\ (\A k \in 1 .. n + m : R[k] = R[k - 1] + x[k]) /\ s = R[n + m]
  BY DEF IsTotal, Running
<1> DEFINE D == {k \in 0 .. n : R[k] = T[k]}
           E == {k \in 0 .. m : R[n + k] = T[n] + U[k]}
<1>4. 0 .. n \subseteq D
  <2>1. 0 \in D
    BY <1>1, <1>3
  <2>2. ASSUME NEW k \in 1 .. n, k - 1 \in D PROVE k \in D
    <3>1. k \in 1 .. n + m /\ R[k - 1] = T[k - 1]
      BY <2>2
    <3>2. x[k] = w[k]
      BY DEF Follows
    <3> QED
      BY <1>1, <1>3, <3>1, <3>2
  <2> HIDE DEF D
  <2> QED
    BY <2>1, <2>2, UptoInduction
<1>5. R[n] = T[n]
  BY <1>4
<1>6. 0 .. m \subseteq E
  <2>1. 0 \in E
    BY <1>1, <1>2, <1>5
  <2>2. ASSUME NEW k \in 1 .. m, k - 1 \in E PROVE k \in E
    <3> DEFINE q == n + k
    <3>1. q \in 1 .. n + m /\ q - 1 = n + (k - 1) /\ R[q - 1] = T[n] + U[k - 1]
      BY <2>2
    <3> HIDE DEF q
    <3>2. R[q] = R[q - 1] + x[q]
      BY <1>3, <3>1
    <3>3. x[q] = v[k]
      BY DEF q, Follows
    <3>4. U[k] = U[k - 1] + v[k]
      BY <1>2
    <3>5. v[k] \in Nat
      BY DEF IsTotal, Numbers
    <3>6. U[k - 1] \in Nat /\ T[n] \in Nat
      BY <1>1, <1>2
    <3>7. R[q] = T[n] + U[k]
      <4> DEFINE a == v[k]
                 b == U[k - 1]
                 c == T[n]
      <4>1. a \in Nat /\ b \in Nat /\ c \in Nat /\ R[q] = (c + b) + a /\ U[k] = b + a
        BY <3>1, <3>2, <3>3, <3>4, <3>5, <3>6, Zenon
      <4>2. (c + b) + a = c + (b + a)
        <5> HIDE DEF a, b, c
        <5> QED
          BY <4>1
      <4> QED
        BY <4>1, <4>2, Zenon
    <3>8. k \in 0 .. m
      OBVIOUS
    <3> QED
      BY <3>7, <3>8 DEF q
  <2> HIDE DEF E
  <2> QED
    BY <2>1, <2>2, UptoInduction
<1>7. R[n + m] = T[n] + U[m]
  BY <1>6
<1> QED
  BY <1>1, <1>2, <1>3, <1>7

(* The sum of n numbers of at most c.                                      *)
LEMMA TotalBound ==
  ASSUME NEW n \in Nat, NEW w, NEW t, IsTotal(t, w, n), NEW c \in Nat,
         \A k \in 1 .. n : w[k] <= c
  PROVE  t \in Nat /\ t <= n * c
<1>1. PICK T \in [0 .. n -> Nat] :
        T[0] = 0 /\ (\A k \in 1 .. n : T[k] = T[k - 1] + w[k]) /\ t = T[n]
  BY DEF IsTotal, Running
<1> DEFINE D == {k \in 0 .. n : T[k] <= k * c}
<1>2. 0 \in D
  BY <1>1
<1>3. ASSUME NEW k \in 1 .. n, k - 1 \in D PROVE k \in D
  <2>1. T[k - 1] <= (k - 1) * c /\ w[k] <= c /\ w[k] \in Nat /\ T[k] = T[k - 1] + w[k]
    BY <1>1, <1>3 DEF IsTotal, Numbers
  <2>2. k * c = (k - 1) * c + c
    OBVIOUS
  <2>3. T[k - 1] \in Nat /\ (k - 1) * c \in Nat
    BY <1>1
  <2> QED
    BY <2>1, <2>2, <2>3
<1>4. 0 .. n \subseteq D
  <2> HIDE DEF D
  <2> QED
    BY <1>2, <1>3, UptoInduction
<1> QED
  BY <1>1, <1>4

LEMMA TotalOne ==
  ASSUME NEW w, NEW t, IsTotal(t, w, 1)
  PROVE  t = w[1]
  BY DEF IsTotal, Running, Numbers

LEMMA TotalNone ==
  ASSUME NEW w, NEW t, IsTotal(t, w, 0)
  PROVE  t = 0
  BY DEF IsTotal, Running

(* Equal numbers have equal sums.                                          *)
Agree(w, v, n) == \A k \in 1 .. n : w[k] = v[k]

LEMMA TotalSame ==
  ASSUME NEW n \in Nat, NEW w, NEW v, NEW t, NEW u, IsTotal(t, w, n), IsTotal(u, v, n), Agree(w, v, n)
  PROVE  t \in Nat /\ t = u
<1>1. PICK T \in [0 .. n -> Nat] :
        T[0] = 0 /\ (\A k \in 1 .. n : T[k] = T[k - 1] + w[k]) /\ t = T[n]
  BY DEF IsTotal, Running
<1>2. PICK U \in [0 .. n -> Nat] :
        U[0] = 0 /\ (\A k \in 1 .. n : U[k] = U[k - 1] + v[k]) /\ u = U[n]
  BY DEF IsTotal, Running
<1> DEFINE D == {k \in 0 .. n : T[k] = U[k]}
<1>3. 0 \in D
  BY <1>1, <1>2
<1>4. ASSUME NEW k \in 1 .. n, k - 1 \in D PROVE k \in D
  <2>1. T[k - 1] = U[k - 1] /\ T[k] = T[k - 1] + w[k] /\ U[k] = U[k - 1] + v[k] /\ w[k] = v[k]
    BY <1>1, <1>2, <1>4 DEF Agree
  <2> QED
    BY <2>1
<1>5. 0 .. n \subseteq D
  <2> HIDE DEF D
  <2> QED
    BY <1>3, <1>4, UptoInduction
<1> QED
  BY <1>1, <1>2, <1>5

-----------------------------------------------------------------------------
(* A flattened sequence of sequences has the elements of its parts.        *)

FlattenOf(e, n, f) == f = [k \in 1 .. n |-> IF k = 1 THEN e[k] ELSE f[k - 1] \o e[k]]

LEMMA FlattenExists ==
  ASSUME NEW S, NEW n \in Nat, NEW e \in [1 .. n -> Seq(S)]
  PROVE  \E f : FlattenOf(e, n, f)
<1>1. PICK g : Chain(g, e, n, S)
  BY ChainExists
<1>2. Appends(g, e, n, S)
  BY <1>1, ChainAppends
<1>3. \A k \in 1 .. n : g[k] = g[k - 1] \o e[k] /\ e[k] \in Seq(S)
  BY <1>2, Zenon DEF Appends, Cat
<1>4. 1 \in 1 .. n => g[1] = e[1]
  <2> SUFFICES ASSUME 1 \in 1 .. n PROVE g[1] = e[1]
    OBVIOUS
  <2>1. g[1] = g[0] \o e[1] /\ e[1] \in Seq(S)
    BY <1>3
  <2>2. g[0] = <<>>
    BY <1>2, Zenon DEF Appends
  <2>3. <<>> \o e[1] = e[1]
    BY <2>1, ConcatEmptySeq
  <2> QED
    BY <2>1, <2>2, <2>3, Zenon
<1> DEFINE f == [k \in 1 .. n |-> g[k]]
<1>5. ASSUME NEW k \in 1 .. n
      PROVE  f[k] = IF k = 1 THEN e[k] ELSE f[k - 1] \o e[k]
  <2>1. CASE k = 1
    BY <1>4, <2>1
  <2>2. CASE k # 1
    <3>1. k - 1 \in 1 .. n
      BY <2>2
    <3>2. f[k] = g[k] /\ f[k - 1] = g[k - 1]
      BY <3>1, Zenon
    <3> QED
      BY <1>3, <2>2, <3>2, Zenon
  <2> QED
    BY <2>1, <2>2
<1>6. f = [k \in 1 .. n |-> f[k]]
  OBVIOUS
<1>7. FlattenOf(e, n, f)
  <2> HIDE DEF f
  <2> QED
    BY <1>5, <1>6, Zenon DEF FlattenOf
<1> QED
  BY <1>7

KeepsAll(t, e) ==
  \A k \in DOMAIN e : \A j \in DOMAIN e[k] : \E x \in DOMAIN t : t[x] = e[k][j]

LEMMA FlattenComplete ==
  ASSUME NEW S, NEW n, NEW e, n \in Nat, e \in [1 .. n -> Seq(S)]
  PROVE  KeepsAll(FlattenSeq(e), e)
<1> SUFFICES ASSUME NEW k \in 1 .. n, NEW j \in DOMAIN e[k]
             PROVE  \E x \in DOMAIN FlattenSeq(e) : FlattenSeq(e)[x] = e[k][j]
  BY Zenon DEF KeepsAll
<1>1. PICK g : Chain(g, e, n, S)
  BY ChainExists
<1>2. Appends(g, e, n, S)
  BY <1>1, ChainAppends
<1> DEFINE f == CHOOSE f : FlattenOf(e, n, f)
<1>3. FlattenOf(e, n, f)
  BY FlattenExists, Zenon
<1>4. Len(e) = n /\ n # 0
  <2>1. e \in Seq(Seq(S))
    BY FunctionIsSeq
  <2>2. DOMAIN e = 1 .. n /\ DOMAIN e = 1 .. Len(e) /\ Len(e) \in Nat
    BY <2>1, LenProperties
  <2> QED
    BY <2>2, IntervalsEqual
<1>5. FlattenSeq(e) = f[n]
  BY <1>4, Zenon DEF FlattenSeq, FlattenOf
<1> HIDE DEF f
<1> DEFINE D == {m \in 0 .. n : m # 0 => f[m] = g[m]}
<1>6. 0 .. n \subseteq D
  <2>1. 0 \in D
    OBVIOUS
  <2>2. ASSUME NEW m \in 1 .. n, m - 1 \in D PROVE m \in D
    <3>1. g[m] = g[m - 1] \o e[m] /\ e[m] \in Seq(S)
      BY <1>2, Zenon DEF Appends, Cat
    <3>2. f[m] = IF m = 1 THEN e[m] ELSE f[m - 1] \o e[m]
      BY <1>3, Zenon DEF FlattenOf
    <3>3. CASE m = 1
      <4>1. g[m - 1] = <<>>
        <5>1. m - 1 = 0
          BY <3>3
        <5> QED
          BY <1>2, <5>1, Zenon DEF Appends
      <4>2. <<>> \o e[m] = e[m]
        BY <3>1, ConcatEmptySeq
      <4>3. f[m] = g[m]
        BY <3>1, <3>2, <3>3, <4>1, <4>2, Zenon
      <4> QED
        BY <4>3
    <3>4. CASE m # 1
      <4>1. m - 1 # 0
        BY <3>4
      <4>2. f[m] = g[m]
        BY <2>2, <3>1, <3>2, <3>4, <4>1, Zenon
      <4> QED
        BY <4>2
    <3> QED
      BY <3>3, <3>4
  <2> HIDE DEF D
  <2> QED
    BY <2>1, <2>2, UptoInduction
<1>7. f[n] = g[n]
  BY <1>4, <1>6
<1>8. Keeps(g, e, k, n)
  BY <1>2, AppendsKeeps
<1>9. g[n] \in Seq(S) /\ e[k] \in Seq(S)
  BY <1>2 DEF Appends
<1>10. j \in 1 .. Len(e[k]) /\ DOMAIN g[n] = 1 .. Len(g[n]) /\ Len(g[n]) \in Nat
  BY <1>9, LenProperties
<1>11. Len(g[k - 1]) + j \in 1 .. Len(g[n]) /\ g[n][Len(g[k - 1]) + j] = e[k][j]
  <2> DEFINE a == Len(g[k - 1])
             b == Len(e[k])
             c == Len(g[k])
             d == Len(g[n])
  <2>1. a \in Nat /\ b \in Nat /\ c \in Nat /\ c = a + b /\ c <= d
    BY <1>8, Zenon DEF Keeps
  <2>2. g[n][a + j] = e[k][j]
    BY <1>8, <1>10, Zenon DEF Keeps
  <2>3. d \in Nat /\ j \in 1 .. b
    BY <1>10
  <2> HIDE DEF a, b, c, d
  <2>4. a + j \in 1 .. d
    BY <2>1, <2>3
  <2> QED
    BY <2>2, <2>4 DEF a, d
<1>12. Len(g[k - 1]) + j \in DOMAIN FlattenSeq(e)
       /\ FlattenSeq(e)[Len(g[k - 1]) + j] = e[k][j]
  BY <1>5, <1>7, <1>10, <1>11, Zenon
<1> QED
  BY <1>12

-----------------------------------------------------------------------------
(* Parents: from every element of A a chain of parents p that leaves A.     *)

Founded(A, p) == \A S \in SUBSET A : S # {} => \E i \in S : p[i] \notin S

(* What holds of every element whose parent it holds of, holds of all.      *)
LEMMA ParentInduction ==
  ASSUME NEW A, NEW p, Founded(A, p), NEW D,
         \A i \in A : (p[i] \in A => p[i] \in D) => i \in D
  PROVE  A \subseteq D
<1> SUFFICES ASSUME A \ D # {} PROVE FALSE
  OBVIOUS
<1>1. PICK i \in A \ D : p[i] \notin A \ D
  BY DEF Founded
<1> QED
  BY <1>1

(* A function is defined by what it is of an element, from what it is of    *)
(* the parent: step says how, init stands for a parent outside A.           *)
ByParent(f, A, p, init, step) ==
  \A i \in A : f[i] = step[<<i, IF p[i] \in A THEN f[p[i]] ELSE init>>]

LEMMA ParentRecursion ==
  ASSUME NEW A, NEW p, Founded(A, p), NEW V, NEW init \in V, NEW step \in [A \X V -> V]
  PROVE  \E f \in [A -> V] : ByParent(f, A, p, init, step)
<1> DEFINE Up(C) == C \subseteq A /\ \A i \in C : p[i] \in A => p[i] \in C
           Rule(g, i) == g[i] = step[<<i, IF p[i] \in A THEN g[p[i]] ELSE init>>]
           Solves(C, g) == Up(C) /\ g \in [C -> V] /\ \A i \in C : Rule(g, i)
           Covered(i) == \E C : \E g : Solves(C, g) /\ i \in C
<1>1. ASSUME NEW C, NEW g, NEW D, NEW h, Solves(C, g), Solves(D, h)
      PROVE  \A i \in C \cap D : g[i] = h[i]
  <2> DEFINE S == {i \in C \cap D : g[i] # h[i]}
  <2> SUFFICES ASSUME S # {} PROVE FALSE
    OBVIOUS
  <2>1. S \subseteq A
    BY <1>1
  <2>2. PICK i \in S : p[i] \notin S
    <3> HIDE DEF S
    <3> QED
      BY <2>1 DEF Founded
  <2>3. p[i] \in A => g[p[i]] = h[p[i]]
    BY <1>1, <2>2
  <2>4. g[i] = step[<<i, IF p[i] \in A THEN g[p[i]] ELSE init>>]
        /\ h[i] = step[<<i, IF p[i] \in A THEN h[p[i]] ELSE init>>]
    BY <1>1
  <2>5. g[i] = h[i]
    BY <2>3, <2>4
  <2> QED
    BY <2>5
<1>2. \A i \in A : Covered(i)
  <2> DEFINE D == {i \in A : Covered(i)}
  <2>1. ASSUME NEW i \in A, p[i] \in A => p[i] \in D PROVE Covered(i)
    <3>1. CASE p[i] \notin A
      <4> DEFINE g == [j \in {i} |-> step[<<i, init>>]]
      <4>1. Solves({i}, g)
        <5>1. Up({i})
          BY <3>1
        <5>2. g \in [{i} -> V] /\ g[i] = step[<<i, init>>]
          OBVIOUS
        <5> HIDE DEF g
        <5>3. \A j \in {i} : Rule(g, j)
          BY <3>1, <5>2
        <5> HIDE DEF Up, Rule
        <5> QED
          BY <5>1, <5>2, <5>3
      <4> HIDE DEF Solves, g
      <4> QED
        BY <4>1
    <3>2. CASE p[i] \in A
      <4>1. PICK C, g : Solves(C, g) /\ p[i] \in C
        <5> HIDE DEF Solves
        <5> QED
          BY <2>1, <3>2
      <4>2. CASE i \in C
        <5> HIDE DEF Solves
        <5> QED
          BY <4>1, <4>2
      <4>3. CASE i \notin C
        <5> DEFINE B == C \cup {i}
                   v == step[<<i, g[p[i]]>>]
                   h == [j \in B |-> IF j = i THEN v ELSE g[j]]
        <5>1. Up(B)
          BY <4>1
        <5>2. v \in V
          BY <4>1
        <5> HIDE DEF v
        <5>3. h \in [B -> V]
          BY <4>1, <5>2
        <5>4. h[i] = v /\ \A j \in C : h[j] = g[j]
          BY <4>3
        <5> HIDE DEF h, B
        <5>5. Rule(h, i)
          BY <3>2, <4>1, <5>4 DEF v
        <5>6. \A j \in C : Rule(h, j)
          <6> TAKE j \in C
          <6>1. p[j] \in A => h[p[j]] = g[p[j]]
            BY <4>1, <5>4
          <6>2. g[j] = step[<<j, IF p[j] \in A THEN g[p[j]] ELSE init>>]
            BY <4>1
          <6> QED
            BY <5>4, <6>1, <6>2
        <5> HIDE DEF Rule, Up
        <5>7. Solves(B, h) /\ i \in B
          BY <5>1, <5>3, <5>5, <5>6 DEF B
        <5> HIDE DEF Solves
        <5> QED
          BY <5>7
      <4> QED
        BY <4>2, <4>3
    <3> QED
      BY <3>1, <3>2
  <2> HIDE DEF Covered
  <2>2. \A i \in A : (p[i] \in A => p[i] \in D) => i \in D
    BY <2>1
  <2>3. A \subseteq D
    <3> HIDE DEF D
    <3> QED
      BY <2>2, ParentInduction
  <2> QED
    BY <2>3
<1> DEFINE Value(i, v) == \E C : \E g : Solves(C, g) /\ i \in C /\ v = g[i]
           f == [i \in A |-> CHOOSE v : Value(i, v)]
<1>3. ASSUME NEW C, NEW g, Solves(C, g), NEW i \in C PROVE i \in A /\ f[i] = g[i] /\ g[i] \in V
  <2>1. i \in A /\ g[i] \in V
    BY <1>3
  <2>2. Value(i, g[i])
    BY <1>3, Zenon
  <2>3. \A v : Value(i, v) => v = g[i]
    <3> SUFFICES ASSUME NEW D, NEW h, Solves(D, h), i \in D PROVE h[i] = g[i]
      BY Zenon
    <3>1. \A j \in C \cap D : g[j] = h[j]
      <4> HIDE DEF Solves
      <4> QED
        BY <1>1, <1>3
    <3> QED
      BY <1>3, <3>1
  <2> HIDE DEF Value
  <2>4. (CHOOSE v : Value(i, v)) = g[i]
    BY <2>2, <2>3
  <2> QED
    BY <2>1, <2>4
<1> HIDE DEF f
<1>4. ASSUME NEW i \in A PROVE f[i] \in V /\ Rule(f, i)
  <2>1. PICK C, g : Solves(C, g) /\ i \in C
    <3> HIDE DEF Solves
    <3> QED
      BY <1>2
  <2>2. \A j \in C : f[j] = g[j] /\ g[j] \in V
    <3> HIDE DEF Solves
    <3> QED
      BY <1>3, <2>1
  <2>3. p[i] \in A => p[i] \in C
    BY <2>1
  <2>4. g[i] = step[<<i, IF p[i] \in A THEN g[p[i]] ELSE init>>]
    BY <2>1
  <2> QED
    BY <2>1, <2>2, <2>3, <2>4
<1>5. f \in [A -> V]
  BY <1>4 DEF f
<1> QED
  BY <1>4, <1>5 DEF ByParent

(* Flattening one sequence more appends it.                                *)
LEMMA FlattenAgree ==
  ASSUME NEW n \in Nat, NEW m \in Nat, n <= m, NEW e, NEW d, NEW f, NEW g,
         FlattenOf(e, n, f), FlattenOf(d, m, g), Agree(e, d, n)
  PROVE  \A k \in 1 .. n : f[k] = g[k]
<1> DEFINE D == {k \in 0 .. n : k # 0 => f[k] = g[k]}
<1>1. \A k \in 1 .. n : f[k] = IF k = 1 THEN e[k] ELSE f[k - 1] \o e[k]
  BY DEF FlattenOf
<1>2. \A k \in 1 .. m : g[k] = IF k = 1 THEN d[k] ELSE g[k - 1] \o d[k]
  BY DEF FlattenOf
<1>3. \A k \in 1 .. n : k \in 1 .. m /\ e[k] = d[k]
  BY DEF Agree
<1>4. ASSUME NEW k \in 1 .. n, k - 1 \in D PROVE k \in D
  <2>1. k # 1 => f[k - 1] = g[k - 1]
    BY <1>4
  <2>2. f[k] = g[k]
    <3>1. CASE k = 1
      BY <1>1, <1>2, <1>3, <3>1, Zenon
    <3>2. CASE k # 1
      <4>1. f[k] = f[k - 1] \o e[k]
        BY <1>1, <3>2, Zenon
      <4>2. g[k] = g[k - 1] \o d[k]
        BY <1>2, <1>3, <3>2, Zenon
      <4> QED
        BY <1>3, <2>1, <3>2, <4>1, <4>2, Zenon
    <3> QED
      BY <3>1, <3>2
  <2> QED
    BY <2>2
<1>5. 0 \in D
  OBVIOUS
<1>6. 0 .. n \subseteq D
  <2> HIDE DEF D
  <2> QED
    BY <1>4, <1>5, UptoInduction
<1> QED
  BY <1>6

LEMMA FlattenIs ==
  ASSUME NEW S, NEW e \in Seq(Seq(S)), Len(e) # 0
  PROVE  \E f : FlattenOf(e, Len(e), f) /\ FlattenSeq(e) = f[Len(e)]
<1>1. Len(e) \in Nat /\ e \in [1 .. Len(e) -> Seq(S)]
  BY LenProperties
<1> DEFINE n == Len(e)
           f == CHOOSE f : FlattenOf(e, n, f)
<1>2. FlattenOf(e, n, f)
  <2>1. \E h : FlattenOf(e, n, h)
    BY <1>1, FlattenExists
  <2> QED
    BY <2>1, Zenon
<1>3. FlattenSeq(e) = f[n]
  BY Zenon DEF FlattenSeq, FlattenOf
<1> QED
  BY <1>2, <1>3

LEMMA FlattenTyped ==
  ASSUME NEW S, NEW e \in Seq(Seq(S))
  PROVE  FlattenSeq(e) \in Seq(S)
<1> DEFINE n == Len(e)
<1>1. n \in Nat /\ \A k \in 1 .. n : e[k] \in Seq(S)
  BY LenProperties
<1>2. CASE n = 0
  <2>1. FlattenSeq(e) = e /\ e = <<>>
    BY <1>2, EmptySeq DEF FlattenSeq
  <2> QED
    BY <2>1, EmptySeq
<1>3. CASE n # 0
  <2>1. PICK f : FlattenOf(e, n, f) /\ FlattenSeq(e) = f[n]
    BY <1>3, FlattenIs
  <2> HIDE DEF n
  <2>2. \A k \in 1 .. n : f[k] = IF k = 1 THEN e[k] ELSE f[k - 1] \o e[k]
    BY <2>1 DEF FlattenOf
  <2> DEFINE D == {k \in 0 .. n : k # 0 => f[k] \in Seq(S)}
  <2>3. 0 .. n \subseteq D
    <3>1. ASSUME NEW k \in 1 .. n, k - 1 \in D PROVE k \in D
      <4>1. CASE k = 1
        BY <1>1, <2>2, <4>1
      <4>2. CASE k # 1
        <5>1. k - 1 # 0 /\ e[k] \in Seq(S)
          BY <1>1, <4>2
        <5>2. f[k - 1] \in Seq(S)
          BY <3>1, <5>1
        <5>3. f[k] = f[k - 1] \o e[k]
          BY <2>2, <4>2, Zenon
        <5>4. f[k - 1] \o e[k] \in Seq(S)
          BY <5>1, <5>2, ConcatProperties
        <5>5. f[k] \in Seq(S)
          BY <5>3, <5>4, Zenon
        <5> QED
          BY <5>5
      <4> QED
        BY <4>1, <4>2
    <3>2. 0 \in D
      BY <1>1
    <3> HIDE DEF D
    <3> QED
      BY <1>1, <3>1, <3>2, UptoInduction
  <2>4. n \in 0 .. n
    BY <1>1
  <2> QED
    BY <1>3, <2>1, <2>3, <2>4
<1> QED
  BY <1>2, <1>3

LEMMA FlattenAppend ==
  ASSUME NEW S, NEW e \in Seq(Seq(S)), NEW x \in Seq(S)
  PROVE  FlattenSeq(Append(e, x)) = Cat(FlattenSeq(e), x)
<1> DEFINE n == Len(e)
           d == Append(e, x)
<1>1. n \in Nat /\ DOMAIN e = 1 .. n
  BY LenProperties
<1> DEFINE q == n + 1
<1>2. /\ d \in Seq(Seq(S)) /\ Len(d) = q
      /\ (\A k \in 1 .. n : d[k] = e[k]) /\ d[q] = x
  BY AppendProperties
<1>3. q # 0 /\ q \in Nat /\ n <= q /\ q \in 1 .. q /\ q - 1 = n /\ (q = 1 <=> n = 0)
  BY <1>1
<1> HIDE DEF d, q
<1>4. PICK g : FlattenOf(d, q, g) /\ FlattenSeq(d) = g[q]
  BY <1>2, <1>3, FlattenIs
<1>5. g[q] = IF q = 1 THEN d[q] ELSE g[q - 1] \o d[q]
  <2>1. \A k \in 1 .. q : g[k] = IF k = 1 THEN d[k] ELSE g[k - 1] \o d[k]
    BY <1>4 DEF FlattenOf
  <2> QED
    BY <1>3, <2>1, Zenon
<1>7. CASE n = 0
  <2>1. FlattenSeq(e) = e /\ e = <<>>
    BY <1>7, EmptySeq DEF FlattenSeq
  <2>2. <<>> \o x = x
    BY ConcatEmptySeq
  <2>3. FlattenSeq(d) = x
    BY <1>2, <1>3, <1>4, <1>5, <1>7, Zenon
  <2> QED
    BY <2>1, <2>2, <2>3, Zenon DEF Cat, d
<1>8. CASE n # 0
  <2>1. PICK f : FlattenOf(e, n, f) /\ FlattenSeq(e) = f[n]
    BY <1>8, FlattenIs
  <2>2. Agree(e, d, n)
    BY <1>2 DEF Agree
  <2> HIDE DEF n
  <2>3. \A k \in 1 .. n : f[k] = g[k]
    BY <1>1, <1>3, <1>4, <2>1, <2>2, FlattenAgree
  <2>4. n \in 1 .. n
    BY <1>1, <1>8
  <2>5. f[n] = g[n]
    BY <2>3, <2>4
  <2>6. FlattenSeq(d) = g[n] \o x
    BY <1>2, <1>3, <1>4, <1>5, <1>8, Zenon
  <2> QED
    BY <2>1, <2>5, <2>6, Zenon DEF Cat, d
<1> QED
  BY <1>7, <1>8

-----------------------------------------------------------------------------
(* The sequences SetToSeqs makes of a finite set have each element once.   *)

Lists(s, S) ==
  /\ s \in Seq(S)
  /\ DOMAIN s = 1 .. Len(s) /\ Len(s) \in Nat
  /\ \A j, k \in DOMAIN s : s[j] = s[k] => j = k
  /\ \A x \in S : \E k \in DOMAIN s : s[k] = x

LEMMA SetToSeqsList ==
  ASSUME NEW S, IsFiniteSet(S), NEW s \in SetToSeqs(S)
  PROVE  Lists(s, S)
<1> DEFINE n == Cardinality(S)
<1>1. n \in Nat
  BY FS_CardinalityType
<1>2. s \in [1 .. n -> S] /\ \A j, k \in 1 .. n : j # k => s[j] # s[k]
  BY Zenon DEF SetToSeqs
<1>3. s \in Seq(S) /\ Len(s) = n /\ DOMAIN s = 1 .. n
  BY <1>1, <1>2, FunctionIsSeq
<1>4. s \in Surjection(1 .. n, S)
  <2>1. s \in Injection(1 .. n, S)
    BY <1>2, Zenon DEF Injection, IsInjective
  <2>2. IsFiniteSet(1 .. n) /\ Cardinality(1 .. n) = n
    <3>1. 1 \in Int /\ n \in Int /\ (IF 1 > n THEN 0 ELSE n - 1 + 1) = n
      BY <1>1
    <3> HIDE DEF n
    <3> QED
      BY <3>1, FS_Interval
  <2> QED
    BY <2>1, <2>2, FS_Injection
<1>5. \A x \in S : \E k \in 1 .. n : s[k] = x
  BY <1>4, Zenon DEF Surjection
<1> QED
  BY <1>1, <1>2, <1>3, <1>5, Zenon DEF Lists

(* A finite set can be put in the order of a relation that is transitive    *)
(* and holds of two elements one way only.                                 *)
Orders(R, S) ==
  /\ \A x, y \in S : x # y => <<x, y>> \in R \/ <<y, x>> \in R
  /\ \A x, y \in S : <<x, y>> \in R => <<y, x>> \notin R
  /\ \A x, y, z \in S : <<x, y>> \in R /\ <<y, z>> \in R => <<x, z>> \in R

LEMMA SortedExists ==
  ASSUME NEW S, IsFiniteSet(S), NEW R, Orders(R, S)
  PROVE  \E s \in SetToSeqs(S) : \A k, l \in DOMAIN s : k < l => <<s[k], s[l]>> \in R
<1> DEFINE n == Cardinality(S)
           Below(x) == {y \in S : <<y, x>> \in R}
           c == [x \in S |-> Cardinality(Below(x)) + 1]
<1>1. n \in Nat
  BY FS_CardinalityType
<1>2. ASSUME NEW x \in S PROVE c[x] \in 1 .. n /\ IsFiniteSet(Below(x)) /\ Cardinality(Below(x)) \in Nat
  <2>1. Below(x) \in SUBSET (S \ {x})
    BY DEF Orders
  <2>2. IsFiniteSet(S \ {x}) /\ Cardinality(S \ {x}) = n - 1
    BY FS_RemoveElement
  <2>3. IsFiniteSet(Below(x)) /\ Cardinality(Below(x)) <= n - 1
    <3> HIDE DEF Below, n
    <3> QED
      BY <2>1, <2>2, FS_Subset
  <2>4. Cardinality(Below(x)) \in Nat
    BY <2>3, FS_CardinalityType
  <2>5. c[x] = Cardinality(Below(x)) + 1
    OBVIOUS
  <2> HIDE DEF c, n, Below
  <2> QED
    BY <1>1, <2>3, <2>4, <2>5
<1>3. ASSUME NEW x \in S, NEW y \in S, <<x, y>> \in R PROVE c[x] < c[y]
  <2>1. Below(x) \in SUBSET Below(y) /\ x \in Below(y) /\ x \notin Below(x)
    BY <1>3 DEF Orders
  <2>2. IsFiniteSet(Below(y)) /\ Cardinality(Below(y)) \in Nat /\ Cardinality(Below(x)) \in Nat
    BY <1>2
  <2>3. /\ Cardinality(Below(x)) <= Cardinality(Below(y))
        /\ Cardinality(Below(x)) # Cardinality(Below(y))
    <3> HIDE DEF Below
    <3> QED
      BY <2>1, <2>2, FS_Subset
  <2>4. c[x] = Cardinality(Below(x)) + 1 /\ c[y] = Cardinality(Below(y)) + 1
    OBVIOUS
  <2> HIDE DEF c, Below
  <2> QED
    BY <2>2, <2>3, <2>4
<1> HIDE DEF c
<1>4. \A x, y \in S : c[x] = c[y] => x = y
  <2> SUFFICES ASSUME NEW x \in S, NEW y \in S, c[x] = c[y], x # y PROVE FALSE
    OBVIOUS
  <2>1. c[x] \in 1 .. n /\ c[y] \in 1 .. n /\ (c[x] < c[y] \/ c[y] < c[x])
    BY <1>2, <1>3 DEF Orders
  <2> QED
    BY <2>1
<1>5. c \in Surjection(S, 1 .. n)
  <2>1. c \in Injection(S, 1 .. n)
    <3>1. c \in [S -> 1 .. n]
      BY <1>2 DEF c
    <3> QED
      BY <1>4, <3>1, Zenon DEF Injection, IsInjective
  <2>2. IsFiniteSet(1 .. n) /\ Cardinality(1 .. n) = n
    <3>1. 1 \in Int /\ n \in Int /\ (IF 1 > n THEN 0 ELSE n - 1 + 1) = n
      BY <1>1
    <3> HIDE DEF n
    <3> QED
      BY <3>1, FS_Interval
  <2> QED
    BY <2>1, <2>2, FS_Injection
<1>6. \A k \in 1 .. n : \E x \in S : c[x] = k
  BY <1>5, Zenon DEF Surjection
<1> DEFINE s == [k \in 1 .. n |-> CHOOSE x \in S : c[x] = k]
<1>7. \A k \in 1 .. n : s[k] \in S /\ c[s[k]] = k
  BY <1>6
<1>8. s \in [1 .. n -> S] /\ DOMAIN s = 1 .. n
  BY <1>7
<1> HIDE DEF s
<1>9. s \in SetToSeqs(S)
  <2>1. \A j, k \in 1 .. n : j # k => s[j] # s[k]
    BY <1>7
  <2> QED
    BY <1>8, <2>1, Zenon DEF SetToSeqs
<1>10. ASSUME NEW k \in 1 .. n, NEW l \in 1 .. n, k < l PROVE <<s[k], s[l]>> \in R
  <2> SUFFICES ASSUME <<s[k], s[l]>> \notin R PROVE FALSE
    OBVIOUS
  <2>1. s[k] \in S /\ s[l] \in S /\ c[s[k]] = k /\ c[s[l]] = l
    BY <1>7
  <2>2. s[k] # s[l]
    BY <1>10, <2>1
  <2>3. <<s[l], s[k]>> \in R
    BY <2>1, <2>2 DEF Orders
  <2>4. l < k
    BY <1>3, <2>1, <2>3
  <2> QED
    BY <1>10, <2>4
<1> QED
  BY <1>8, <1>9, <1>10, Zenon

---------------------------------------------------------------------------
(* Sums over finite sets.  g adds up w: w[e] less without e.               *)
Additive(g, K, w) ==
  /\ \A x \in SUBSET K : g[x] \in Nat
  /\ g[{}] = 0
  /\ \A x \in SUBSET K : \A e \in x : g[x] = g[x \ {e}] + w[e]

(* t is the sum of w over K. *)
IsSum(t, K, w) == \E g : Additive(g, K, w) /\ t = g[K]

Weights(w, K) == \A e \in K : w[e] \in Nat

LEMMA SumExists ==
  ASSUME NEW K, IsFiniteSet(K), NEW w, Weights(w, K)
  PROVE  \E g : Additive(g, K, w)
<1> DEFINE P == {S \in SUBSET K : \E g : Additive(g, S, w)}
<1>1. {} \in P
  <2> DEFINE g == [x \in {{}} |-> 0]
  <2>1. Additive(g, {}, w)
    BY DEF Additive
  <2> QED
    BY <2>1
<1>2. ASSUME NEW S \in SUBSET K, NEW e \in K \ S, S \in P PROVE S \cup {e} \in P
  <2>1. PICK g : Additive(g, S, w)
    BY <1>2
  <2> DEFINE R == S \cup {e}
             h == [x \in SUBSET R |-> IF e \in x THEN g[x \ {e}] + w[e] ELSE g[x]]
  <2>2. w[e] \in Nat
    BY DEF Weights
  <2>3. \A x \in SUBSET R : x \ {e} \in SUBSET S /\ (e \notin x => x \in SUBSET S)
    OBVIOUS
  <2>4. \A x \in SUBSET S : g[x] \in Nat
    BY <2>1, Zenon DEF Additive
  <2>5. \A x \in SUBSET R : h[x] \in Nat
    <3> TAKE x \in SUBSET R
    <3>1. g[x \ {e}] \in Nat /\ (e \notin x => g[x] \in Nat)
      BY <2>3, <2>4
    <3> QED
      BY <2>2, <3>1
  <2>6. h[{}] = 0
    BY <2>1 DEF Additive
  <2>7. ASSUME NEW x \in SUBSET R, NEW d \in x PROVE h[x] = h[x \ {d}] + w[d]
    <3>1. x \ {d} \in SUBSET R
      OBVIOUS
    <3>2. CASE d = e
      <4>1. e \notin x \ {d}
        BY <3>2
      <4>2. h[x \ {d}] = g[x \ {d}]
        BY <3>1, <4>1
      <4> QED
        BY <3>2, <4>2
    <3>3. CASE d # e /\ e \in x
      <4> DEFINE y == x \ {e}
                 z == y \ {d}
      <4>1. y \in SUBSET S /\ d \in y /\ z \in SUBSET S /\ e \in x \ {d} /\ (x \ {d}) \ {e} = z
        BY <2>3, <3>3
      <4>2. h[x] = g[y] + w[e]
        BY <3>3
      <4>3. h[x \ {d}] = g[z] + w[e]
        <5>1. h[x \ {d}] = g[(x \ {d}) \ {e}] + w[e]
          BY <3>1, <4>1
        <5> QED
          BY <4>1, <5>1
      <4> HIDE DEF h, y, z
      <4>4. g[y] = g[z] + w[d]
        BY <2>1, <4>1 DEF Additive, z
      <4>5. g[z] \in Nat /\ g[y] \in Nat
        BY <2>4, <4>1
      <4>6. w[d] \in Nat
        <5>1. d \in K
          BY <4>1
        <5> QED
          BY <5>1 DEF Weights
      <4> QED
        BY <2>2, <4>2, <4>3, <4>4, <4>5, <4>6
    <3>4. CASE e \notin x
      <4>1. x \in SUBSET S /\ e \notin x \ {d}
        BY <2>3, <3>4
      <4>2. h[x] = g[x] /\ h[x \ {d}] = g[x \ {d}]
        BY <3>1, <3>4, <4>1
      <4> HIDE DEF h
      <4> QED
        BY <2>1, <4>1, <4>2 DEF Additive
    <3> QED
      BY <3>2, <3>3, <3>4
  <2>8. Additive(h, R, w)
    <3> HIDE DEF h
    <3> QED
      BY <2>5, <2>6, <2>7 DEF Additive
  <2> HIDE DEF h
  <2> QED
    BY <2>8
<1> HIDE DEF P
<1>3. K \in P
  BY <1>1, <1>2, FiniteSetInduction
<1> QED
  BY <1>3 DEF P

(* A sum does not depend on how it was added up. *)
LEMMA SumUnique ==
  ASSUME NEW K, IsFiniteSet(K), NEW w, NEW v, \A e \in K : w[e] = v[e],
         NEW g, Additive(g, K, w), NEW h, Additive(h, K, v)
  PROVE  \A x \in SUBSET K : g[x] = h[x]
<1> SUFFICES ASSUME NEW X \in SUBSET K PROVE g[X] = h[X]
  OBVIOUS
<1> DEFINE P == {S \in SUBSET X : g[S] = h[S]}
<1>1. {} \in P
  BY DEF Additive
<1>2. ASSUME NEW S \in SUBSET X, NEW e \in X \ S, S \in P PROVE S \cup {e} \in P
  <2>1. S \cup {e} \in SUBSET K /\ e \in S \cup {e} /\ (S \cup {e}) \ {e} = S /\ e \in K
    OBVIOUS
  <2>2. g[S \cup {e}] = g[S] + w[e] /\ h[S \cup {e}] = h[S] + v[e]
    BY <2>1 DEF Additive
  <2> QED
    BY <1>2, <2>1, <2>2
<1> HIDE DEF P
<1>3. IsFiniteSet(X)
  BY FS_Subset
<1>4. X \in P
  BY <1>1, <1>2, <1>3, FiniteSetInduction
<1> QED
  BY <1>4 DEF P

LEMMA SumSame ==
  ASSUME NEW K, IsFiniteSet(K), NEW w, NEW v, \A e \in K : w[e] = v[e],
         NEW t, IsSum(t, K, w), NEW u, IsSum(u, K, v)
  PROVE  t = u
<1>1. PICK g : Additive(g, K, w) /\ t = g[K]
  BY DEF IsSum
<1>2. PICK h : Additive(h, K, v) /\ u = h[K]
  BY DEF IsSum
<1>3. \A x \in SUBSET K : g[x] = h[x]
  BY <1>1, <1>2, SumUnique
<1> QED
  BY <1>1, <1>2, <1>3

(* What SumFunction computes: it takes any element off what it has still   *)
(* to add.                                                                 *)
AddsAny(it, K, w) ==
  it = [x \in SUBSET K |->
          IF x = {} THEN 0
          ELSE w[CHOOSE e \in x : TRUE] + it[x \ {CHOOSE e \in x : TRUE}]]

LEMMA AddsAnySum ==
  ASSUME NEW K, IsFiniteSet(K), NEW w, Weights(w, K)
  PROVE  /\ \E it : AddsAny(it, K, w)
         /\ \A it : AddsAny(it, K, w) => IsSum(it[K], K, w)
<1> DEFINE AddsUp(x) == CHOOSE e \in x : TRUE
<1>1. \A x \in SUBSET K : x # {} => AddsUp(x) \in x
  OBVIOUS
<1> HIDE DEF AddsUp
<1>2. PICK g : Additive(g, K, w)
  BY SumExists
<1> DEFINE f == [x \in SUBSET K |-> g[x]]
           Step(it, x) == IF x = {} THEN 0 ELSE w[AddsUp(x)] + it[x \ {AddsUp(x)}]
<1>3. ASSUME NEW x \in SUBSET K PROVE f[x] = Step(f, x)
  <2>1. CASE x = {}
    BY <1>2, <2>1 DEF Additive
  <2>2. CASE x # {}
    <3>1. AddsUp(x) \in x /\ x \ {AddsUp(x)} \in SUBSET K
      BY <1>1, <2>2
    <3>2. g[x] = w[AddsUp(x)] + g[x \ {AddsUp(x)}]
      <4>1. g[x] = g[x \ {AddsUp(x)}] + w[AddsUp(x)] /\ g[x \ {AddsUp(x)}] \in Nat /\ w[AddsUp(x)] \in Nat
        BY <1>2, <3>1 DEF Additive, Weights
      <4> QED
        BY <4>1
    <3> QED
      BY <2>2, <3>1, <3>2
  <2> QED
    BY <2>1, <2>2
<1>4. f = [x \in SUBSET K |-> Step(f, x)]
  <2>1. f = [x \in SUBSET K |-> f[x]]
    OBVIOUS
  <2> HIDE DEF f, Step
  <2> QED
    BY <1>3, <2>1
<1>5. \A it : AddsAny(it, K, w) <=> it = [x \in SUBSET K |-> Step(it, x)]
  BY DEF AddsAny, AddsUp
<1>6. \E it : AddsAny(it, K, w)
  <2> HIDE DEF f, Step
  <2> QED
    BY <1>4, <1>5
<1>7. ASSUME NEW it, AddsAny(it, K, w) PROVE IsSum(it[K], K, w)
  <2>1. it = [x \in SUBSET K |-> Step(it, x)]
    BY <1>5, <1>7
  <2>2. \A x \in SUBSET K : it[x] = Step(it, x)
    <3> HIDE DEF Step
    <3> QED
      BY <2>1
  <2> DEFINE P == {n \in Nat : \A x \in SUBSET K : Cardinality(x) = n => it[x] = g[x]}
  <2>3. 0 \in P
    <3> SUFFICES ASSUME NEW x \in SUBSET K, Cardinality(x) = 0 PROVE it[x] = g[x]
      OBVIOUS
    <3>1. x = {}
      BY FS_Subset, FS_EmptySet
    <3> QED
      BY <1>2, <2>2, <3>1 DEF Additive
  <2>4. ASSUME NEW n \in Nat, n \in P PROVE n + 1 \in P
    <3> SUFFICES ASSUME NEW x \in SUBSET K, Cardinality(x) = n + 1 PROVE it[x] = g[x]
      OBVIOUS
    <3>1. IsFiniteSet(x) /\ x # {}
      BY FS_Subset, FS_EmptySet
    <3>2. AddsUp(x) \in x
      BY <1>1, <3>1
    <3>3. x \ {AddsUp(x)} \in SUBSET K /\ Cardinality(x \ {AddsUp(x)}) = n
      <4>1. Cardinality(x \ {AddsUp(x)}) = Cardinality(x) - 1
        BY <3>1, <3>2, FS_RemoveElement
      <4> QED
        BY <4>1
    <3>4. it[x \ {AddsUp(x)}] = g[x \ {AddsUp(x)}]
      BY <2>4, <3>3
    <3>5. it[x] = w[AddsUp(x)] + it[x \ {AddsUp(x)}]
      BY <2>2, <3>1
    <3>6. g[x] = g[x \ {AddsUp(x)}] + w[AddsUp(x)] /\ g[x \ {AddsUp(x)}] \in Nat /\ w[AddsUp(x)] \in Nat
      BY <1>2, <3>2, <3>3 DEF Additive, Weights
    <3> QED
      BY <3>4, <3>5, <3>6
  <2>5. Nat \subseteq P
    <3> HIDE DEF P
    <3> QED
      BY <2>3, <2>4, NatSetInduction
  <2>6. it[K] = g[K]
    <3>1. Cardinality(K) \in Nat
      BY FS_CardinalityType
    <3> QED
      BY <2>5, <3>1
  <2> QED
    BY <1>2, <2>6 DEF IsSum
<1> QED
  BY <1>6, <1>7

(* SumFunction adds up its argument. *)
LEMMA SumFunctionSum ==
  ASSUME NEW w, IsFiniteSet(DOMAIN w), Weights(w, DOMAIN w)
  PROVE  IsSum(SumFunction(w), DOMAIN w, w)
<1> DEFINE K == DOMAIN w
           Fold(it) == it = [x \in SUBSET K |->
                               IF x = {} THEN 0
                               ELSE w[CHOOSE e \in x : TRUE] + it[x \ {CHOOSE e \in x : TRUE}]]
           its == CHOOSE it : Fold(it)
<1>1. SumFunction(w) = its[K]
  BY DEF SumFunction, SumFunctionOnSet, FoldFunctionOnSet, MapThenFoldSet
<1>2. \A it : Fold(it) <=> AddsAny(it, K, w)
  BY DEF AddsAny
<1> HIDE DEF Fold
<1>3. \E it : Fold(it)
  BY <1>2, AddsAnySum
<1>4. Fold(its)
  BY <1>3
<1>5. AddsAny(its, K, w)
  BY <1>2, <1>4
<1> HIDE DEF its
<1>6. IsSum(its[K], K, w)
  BY <1>5, AddsAnySum
<1> QED
  BY <1>1, <1>6

LEMMA SumNone ==
  ASSUME NEW t, NEW w, IsSum(t, {}, w)
  PROVE  t = 0
  BY DEF IsSum, Additive

(* One element more. *)
LEMMA SumMore ==
  ASSUME NEW K, IsFiniteSet(K), NEW e, e \notin K, NEW w, NEW v,
         \A d \in K : w[d] = v[d],
         NEW t, IsSum(t, K, w), NEW u, IsSum(u, K \cup {e}, v)
  PROVE  t \in Nat /\ u = t + v[e]
<1>1. PICK g : Additive(g, K, w) /\ t = g[K]
  BY DEF IsSum
<1>2. PICK h : Additive(h, K \cup {e}, v) /\ u = h[K \cup {e}]
  BY DEF IsSum
<1>3. Additive(h, K, v)
  BY <1>2 DEF Additive
<1>4. g[K] = h[K]
  BY <1>1, <1>3, SumUnique
<1>5. h[K \cup {e}] = h[(K \cup {e}) \ {e}] + v[e]
  BY <1>2 DEF Additive
<1>6. (K \cup {e}) \ {e} = K
  OBVIOUS
<1>7. g[K] \in Nat
  BY <1>1 DEF Additive
<1> QED
  BY <1>1, <1>2, <1>4, <1>5, <1>6, <1>7

(* Elements that each have their own, heavier one in another set.          *)
LEMMA SumBelow ==
  ASSUME NEW K, IsFiniteSet(K), NEW w, Weights(w, K), NEW t, IsSum(t, K, w),
         NEW L, IsFiniteSet(L), NEW v, Weights(v, L), NEW u, IsSum(u, L, v),
         NEW f, \A e \in K : f[e] \in L /\ w[e] <= v[f[e]],
         \A d, e \in K : f[d] = f[e] => d = e
  PROVE  t <= u
<1>1. PICK g : Additive(g, K, w) /\ t = g[K]
  BY DEF IsSum
<1>2. PICK h : Additive(h, L, v) /\ u = h[L]
  BY DEF IsSum
<1> DEFINE P == {S \in SUBSET K : \A M \in SUBSET L : (\A e \in S : f[e] \in M) => g[S] <= h[M]}
<1>3. {} \in P
  BY <1>1, <1>2 DEF Additive
<1>4. ASSUME NEW S \in SUBSET K, NEW e \in K \ S, S \in P PROVE S \cup {e} \in P
  <2> SUFFICES ASSUME NEW M \in SUBSET L, \A d \in S \cup {e} : f[d] \in M
               PROVE  g[S \cup {e}] <= h[M]
    OBVIOUS
  <2>1. f[e] \in M /\ M \ {f[e]} \in SUBSET L /\ \A d \in S : f[d] \in M \ {f[e]}
    OBVIOUS
  <2>2. g[S] <= h[M \ {f[e]}]
    BY <1>4, <2>1
  <2>3. g[S \cup {e}] = g[S] + w[e]
    <3>1. S \cup {e} \in SUBSET K /\ e \in S \cup {e} /\ (S \cup {e}) \ {e} = S
      OBVIOUS
    <3> QED
      BY <1>1, <3>1 DEF Additive
  <2>4. h[M] = h[M \ {f[e]}] + v[f[e]]
    BY <1>2, <2>1 DEF Additive
  <2>5. g[S] \in Nat /\ h[M \ {f[e]}] \in Nat
    BY <1>1, <1>2, <2>1 DEF Additive
  <2>6. w[e] \in Nat /\ v[f[e]] \in Nat /\ w[e] <= v[f[e]]
    BY DEF Weights
  <2> QED
    BY <2>2, <2>3, <2>4, <2>5, <2>6
<1> HIDE DEF P
<1>5. K \in P
  BY <1>3, <1>4, FiniteSetInduction
<1> QED
  BY <1>1, <1>2, <1>5 DEF P

(* T runs through 1 .. n and adds up w over the elements of L it meets.    *)
LEMMA SumUpto ==
  ASSUME NEW n \in Nat, NEW L \in SUBSET (1 .. n), NEW w, Weights(w, L), NEW T, T[0] = 0,
         \A m \in 1 .. n : /\ m \in L => T[m] = T[m - 1] + w[m]
                           /\ m \notin L => T[m] = T[m - 1]
  PROVE  \A m \in 0 .. n : IsSum(T[m], {k \in L : k <= m}, w)
<1>1. IsFiniteSet(L)
  <2>1. IsFiniteSet(1 .. n)
    BY FS_Interval
  <2> QED
    BY <2>1, FS_Subset
<1>2. PICK g : Additive(g, L, w)
  BY <1>1, SumExists
<1> DEFINE Upto(m) == {k \in L : k <= m}
           D == {m \in 0 .. n : T[m] = g[Upto(m)]}
<1>3. \A k \in L : k \in Nat /\ ~(k <= 0) /\ \A m \in 1 .. n : k <= m <=> k <= m - 1 \/ k = m
  <2> SUFFICES ASSUME NEW k \in L PROVE k \in 1 .. n
    OBVIOUS
  <2> QED
    OBVIOUS
<1>4. \A m \in 1 .. n : ~(m <= m - 1)
  OBVIOUS
<1>5. 0 \in D
  <2>1. Upto(0) = {}
    BY <1>3
  <2>2. g[Upto(0)] = 0
    BY <1>2, <2>1 DEF Additive
  <2> QED
    BY <2>2
<1>6. ASSUME NEW m \in 1 .. n, m - 1 \in D PROVE m \in D
  <2>1. T[m - 1] = g[Upto(m - 1)]
    BY <1>6
  <2>2. CASE m \in L
    <3>1. Upto(m) \in SUBSET L /\ m \in Upto(m) /\ Upto(m) \ {m} = Upto(m - 1)
      <4>1. m <= m
        OBVIOUS
      <4> QED
        BY <1>3, <1>4, <2>2, <4>1, Zenon
    <3> HIDE DEF Upto
    <3>2. g[Upto(m)] = g[Upto(m - 1)] + w[m]
      BY <1>2, <3>1 DEF Additive
    <3> QED
      BY <2>1, <2>2, <3>2
  <2>3. CASE m \notin L
    <3>1. Upto(m) = Upto(m - 1)
      <4>1. \A k \in L : k <= m <=> k <= m - 1
        BY <1>3, <2>3
      <4> QED
        BY <4>1
    <3> HIDE DEF Upto
    <3> QED
      BY <2>1, <2>3, <3>1
  <2> QED
    BY <2>2, <2>3
<1>7. 0 .. n \subseteq D
  <2> HIDE DEF D
  <2> QED
    BY <1>5, <1>6, UptoInduction
<1> SUFFICES ASSUME NEW m \in 0 .. n PROVE IsSum(T[m], Upto(m), w)
  OBVIOUS
<1>8. T[m] = g[Upto(m)]
  BY <1>7
<1>9. Additive(g, Upto(m), w)
  <2>1. Upto(m) \subseteq L
    OBVIOUS
  <2> HIDE DEF Upto
  <2> QED
    BY <1>2, <2>1 DEF Additive
<1> HIDE DEF Upto
<1> QED
  BY <1>8, <1>9 DEF IsSum

(* A set in two parts. *)
LEMMA SumParts ==
  ASSUME NEW M, IsFiniteSet(M), NEW K \in SUBSET M, NEW w, Weights(w, M),
         NEW t, IsSum(t, K, w), NEW u, IsSum(u, M \ K, w), NEW s, IsSum(s, M, w)
  PROVE  t \in Nat /\ u \in Nat /\ s = t + u
<1> DEFINE L == M \ K
<1>1. /\ IsFiniteSet(K) /\ IsFiniteSet(L) /\ K \cup L = M /\ K \cap L = {}
      /\ Weights(w, L) /\ IsSum(u, L, w) /\ IsSum(s, K \cup L, w)
  <2>1. K \cup L = M /\ L \in SUBSET M
    OBVIOUS
  <2> QED
    BY <2>1, FS_Subset DEF Weights
<1> HIDE DEF L
<1>2. PICK g : Additive(g, K, w) /\ t = g[K]
  BY DEF IsSum
<1>3. PICK h : Additive(h, L, w) /\ u = h[L]
  BY <1>1 DEF IsSum
<1>4. PICK r : Additive(r, K \cup L, w) /\ s = r[K \cup L]
  BY <1>1 DEF IsSum
<1>5. Additive(r, K, w)
  BY <1>4 DEF Additive
<1>6. g[K] = r[K]
  BY <1>1, <1>2, <1>5, SumUnique
<1> DEFINE P == {S \in SUBSET L : r[K \cup S] = r[K] + h[S]}
<1>7. {} \in P
  <2>1. K \cup {} = K /\ K \in SUBSET (K \cup L)
    OBVIOUS
  <2>2. r[K] \in Nat /\ h[{}] = 0
    BY <1>3, <1>4, <2>1, Zenon DEF Additive
  <2> QED
    BY <2>1, <2>2
<1>8. ASSUME NEW S \in SUBSET L, NEW e \in L \ S, S \in P PROVE S \cup {e} \in P
  <2> DEFINE X == K \cup (S \cup {e})
  <2>1. X \in SUBSET (K \cup L) /\ e \in X /\ X \ {e} = K \cup S
    BY <1>1
  <2>2. r[X] = r[K \cup S] + w[e]
    <3> HIDE DEF X
    <3> QED
      BY <1>4, <2>1 DEF Additive
  <2>3. h[S \cup {e}] = h[S] + w[e]
    <3>1. S \cup {e} \in SUBSET L /\ e \in S \cup {e} /\ (S \cup {e}) \ {e} = S
      OBVIOUS
    <3> QED
      BY <1>3, <3>1 DEF Additive
  <2>4. r[K] \in Nat /\ h[S] \in Nat /\ r[X] \in Nat /\ h[S \cup {e}] \in Nat
    BY <1>3, <1>4 DEF Additive
  <2>5. r[K \cup S] = r[K] + h[S]
    BY <1>8
  <2> DEFINE a == r[K]
             b == h[S]
             c == h[S \cup {e}]
             d == r[X]
             p == w[e]
  <2>6. d = a + b + p /\ c = b + p /\ a \in Nat /\ b \in Nat /\ p \in Nat
    BY <1>1, <2>2, <2>3, <2>4, <2>5 DEF Weights
  <2>7. d = a + c
    <3> HIDE DEF a, b, c, d, p
    <3> QED
      BY <2>6
  <2> QED
    BY <2>7
<1> HIDE DEF P
<1>9. L \in P
  BY <1>1, <1>7, <1>8, FiniteSetInduction
<1>10. r[K \cup L] = r[K] + h[L]
  BY <1>9 DEF P
<1>11. g[K] \in Nat /\ h[L] \in Nat
  BY <1>2, <1>3 DEF Additive
<1> QED
  BY <1>2, <1>3, <1>4, <1>6, <1>10, <1>11
=============================================================================
