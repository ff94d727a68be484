--------------------------- MODULE PssCodecProofs ---------------------------
(***************************************************************************)
(* The codec of a pipeline state stream, for any record types, payload      *)
(* sizes, ABIs and streams: the guest sends what the application packed by  *)
(* the documented layout or refuses it, the host's decoder stays in the    *)
(* block it allocated, and Direct3D sees the records in the host's layout. *)
(***************************************************************************)
EXTENDS PssCodec, Inductions, FunctionTheorems

(* Rounding up to 4 or 8 answers the next multiple, and commutes with      *)
(* adding one.                                                             *)
LEMMA AlignUpRounds ==
  ASSUME NEW v \in Nat, NEW a \in {4, 8}
  PROVE  /\ AlignUp(v, a) \in Nat
         /\ AlignUp(v, a) >= v
         /\ AlignUp(v, a) % a = 0
<1>1. CASE a = 4
  BY <1>1, Z3 DEF AlignUp
<1>2. CASE a = 8
  BY <1>2, Z3 DEF AlignUp
<1> QED
  BY <1>1, <1>2

LEMMA AlignUpShifts ==
  ASSUME NEW v \in Nat, NEW at \in Nat, NEW a \in {4, 8}, at % a = 0
  PROVE  AlignUp(at + v, a) = at + AlignUp(v, a)
<1>1. CASE a = 4
  BY <1>1, Z3 DEF AlignUp
<1>2. CASE a = 8
  BY <1>2, Z3 DEF AlignUp
<1> QED
  BY <1>1, <1>2

LEMMA Products ==
  ASSUME NEW a \in Nat, NEW b \in Nat
  PROVE  a * b \in Nat /\ (a + 1) * b = a * b + b
OBVIOUS

LEMMA AbiFacts ==
  ASSUME NEW abi \in Abi, NEW t \in Type
  PROVE  /\ abi.ptr \in {4, 8}
         /\ abi.size[t] \in Nat
         /\ abi.align[t] \in {4, 8}
         /\ \A at \in Nat : at % abi.ptr = 0 => at % abi.align[t] = 0
<1>1. /\ abi.ptr \in {4, 8}
      /\ abi.size \in [Type -> Nat \ {0}]
      /\ abi.align \in [Type -> {4, abi.ptr}]
  BY AbisAreSound
<1>2. abi.align[t] \in {4, abi.ptr} /\ abi.size[t] \in Nat \ {0}
  BY <1>1
<1>3. \A at \in Nat : at % 8 = 0 => at % 4 = 0
  BY Z3
<1> QED
  BY <1>1, <1>2, <1>3

(* Layout answers offsets, the next record's aligned like a pointer; and a *)
(* record takes as much room wherever it starts.                           *)
LEMMA LayoutFacts ==
  ASSUME NEW abi \in Abi, NEW t \in Type, NEW at \in Nat
  PROVE  /\ Layout(abi, t, at).payload \in Nat
         /\ Layout(abi, t, at).next \in Nat
         /\ at % abi.ptr = 0 =>
              /\ Layout(abi, t, at).next % abi.ptr = 0
              /\ Layout(abi, t, at).next = at + RecordSize(abi, t)
<1> DEFINE p(x) == AlignUp(x + TagSize, abi.align[t])
           n(x) == AlignUp(p(x) + abi.size[t], abi.ptr)
<1>1. \A x \in Nat : p(x) \in Nat /\ n(x) \in Nat /\ n(x) % abi.ptr = 0
  <2> TAKE x \in Nat
  <2>1. x + TagSize \in Nat
    BY DEF TagSize
  <2> HIDE DEF TagSize
  <2>2. abi.align[t] \in {4, 8} /\ abi.ptr \in {4, 8} /\ abi.size[t] \in Nat
    BY AbiFacts
  <2>3. p(x) \in Nat
    BY <2>1, <2>2, AlignUpRounds
  <2>4. p(x) + abi.size[t] \in Nat
    BY <2>2, <2>3
  <2> HIDE DEF p
  <2>5. n(x) \in Nat /\ n(x) % abi.ptr = 0
    BY <2>2, <2>4, AlignUpRounds
  <2> QED
    BY <2>3, <2>5
<1>2. ASSUME at % abi.ptr = 0 PROVE n(at) = at + n(0)
  <2>1. TagSize \in Nat /\ 0 + TagSize = TagSize
    BY DEF TagSize
  <2>2. /\ abi.align[t] \in {4, 8} /\ abi.ptr \in {4, 8} /\ abi.size[t] \in Nat
        /\ at % abi.align[t] = 0
    BY <1>2, AbiFacts
  <2>3. p(at) = at + p(0)
    <3>1. AlignUp(at + TagSize, abi.align[t]) = at + AlignUp(TagSize, abi.align[t])
      BY <2>1, <2>2, AlignUpShifts
    <3> QED
      BY <2>1, <3>1
  <2>4. p(0) \in Nat
    BY <1>1
  <2> HIDE DEF p
  <2>5. p(at) + abi.size[t] = at + (p(0) + abi.size[t]) /\ p(0) + abi.size[t] \in Nat
    BY <2>2, <2>3, <2>4
  <2>6. AlignUp(at + (p(0) + abi.size[t]), abi.ptr) = at + AlignUp(p(0) + abi.size[t], abi.ptr)
    BY <1>2, <2>2, <2>5, AlignUpShifts
  <2> QED
    BY <2>5, <2>6
<1>3. /\ Layout(abi, t, at).payload = p(at)
      /\ Layout(abi, t, at).next = n(at)
      /\ RecordSize(abi, t) = n(0)
  BY DEF Layout, RecordSize
<1> HIDE DEF p, n
<1> QED
  BY <1>1, <1>2, <1>3

LEMMA MaxRecordSizeBounds ==
  ASSUME NEW abi \in Abi
  PROVE  /\ MaxRecordSize(abi) \in Nat
         /\ \A t \in Type : RecordSize(abi, t) <= MaxRecordSize(abi)
<1> DEFINE Sizes == {RecordSize(abi, t) : t \in Type}
           Largest(m) == \A t \in Type : RecordSize(abi, t) <= m
<1>1. \E m \in Sizes : Largest(m)
  <2>1. PICK t \in Type : \A u \in Type : RecordSize(abi, u) <= RecordSize(abi, t)
    BY OneIsLargest
  <2> QED
    BY <2>1
<1>2. MaxRecordSize(abi) = CHOOSE m \in Sizes : Largest(m)
  BY DEF MaxRecordSize
<1>3. MaxRecordSize(abi) \in Sizes /\ Largest(MaxRecordSize(abi))
  <2> HIDE DEF Sizes, Largest
  <2> QED
    BY <1>1, <1>2
<1>4. \A t \in Type : RecordSize(abi, t) \in Nat
  BY LayoutFacts DEF RecordSize
<1> QED
  BY <1>3, <1>4

---------------------------------------------------------------------------
(* The C layout of a stream.                                               *)

(* Wherever it starts, npt_pss_next's record has the C layout of a type    *)
(* and its payload, aligned like a pointer.                                *)
LEMMA RecordFacts ==
  ASSUME NEW abi \in Abi, NEW t \in Type
  PROVE  /\ CRecord(abi, t).end \in Nat /\ CRecord(abi, t).size \in Nat
         /\ TagSize < CRecord(abi, t).end /\ CRecord(abi, t).end <= CRecord(abi, t).size
         /\ CRecord(abi, t).size % abi.ptr = 0
         /\ \A at \in Nat : at % abi.ptr = 0 =>
              /\ Layout(abi, t, at).end = at + CRecord(abi, t).end
              /\ Layout(abi, t, at).next = at + CRecord(abi, t).size
              /\ at < Layout(abi, t, at).payload
              /\ Layout(abi, t, at).payload < at + CRecord(abi, t).size
<1> DEFINE al == abi.align[t]
           sz == abi.size[t]
           p == AlignUp(TagSize, al)
           n == AlignUp(p + sz, abi.ptr)
<1>1. abi.ptr \in {4, 8} /\ sz \in Nat /\ al \in {4, 8}
  BY AbiFacts
<1>2. sz # 0 /\ al \in {4, abi.ptr}
  BY AbisAreSound
<1>3. TagSize \in Nat /\ TagSize > 0
  BY DEF TagSize
<1>4. p \in Nat /\ p >= TagSize
  BY <1>1, <1>3, AlignUpRounds
<1>5. CRecord(abi, t).end = p + sz /\ CRecord(abi, t).size = n
  <2>1. (IF al > abi.ptr THEN al ELSE abi.ptr) = abi.ptr
    <3> HIDE DEF al
    <3> QED
      BY <1>1, <1>2
  <2> HIDE DEF p, n
  <2> QED
    BY <2>1 DEF CRecord, p, n
<1>6. n \in Nat /\ n >= p + sz /\ n % abi.ptr = 0
  <2>1. p + sz \in Nat
    BY <1>1, <1>4
  <2> HIDE DEF p, sz
  <2> QED
    BY <1>1, <2>1, AlignUpRounds
<1>7. ASSUME NEW at \in Nat, at % abi.ptr = 0
      PROVE  /\ Layout(abi, t, at).payload = at + p
             /\ Layout(abi, t, at).end = at + (p + sz)
             /\ Layout(abi, t, at).next = at + n
  <2>1. at % al = 0
    BY <1>7, AbiFacts
  <2>2. AlignUp(at + TagSize, al) = at + p
    BY <1>1, <1>3, <2>1, AlignUpShifts
  <2>3. AlignUp(at + (p + sz), abi.ptr) = at + n
    <3>1. p + sz \in Nat
      BY <1>1, <1>4
    <3> HIDE DEF p, sz
    <3> QED
      BY <1>1, <1>7, <3>1, AlignUpShifts
  <2>4. (at + p) + sz = at + (p + sz)
    BY <1>1, <1>4
  <2>5. /\ Layout(abi, t, at).payload = AlignUp(at + TagSize, al)
        /\ Layout(abi, t, at).end = AlignUp(at + TagSize, al) + sz
        /\ Layout(abi, t, at).next = AlignUp(AlignUp(at + TagSize, al) + sz, abi.ptr)
    BY DEF Layout
  <2> HIDE DEF p, n, al, sz
  <2> QED
    BY <2>2, <2>3, <2>4, <2>5
<1> HIDE DEF p, n, sz
<1> QED
  BY <1>1, <1>2, <1>3, <1>4, <1>5, <1>6, <1>7

LEMMA CSizeFacts ==
  ASSUME NEW abi \in Abi, NEW t
  PROVE  CSize(abi, t) \in Nat /\ CSize(abi, t) > 0 /\ CSize(abi, t) % abi.ptr = 0
<1>1. abi.ptr \in {4, 8}
  BY AbisAreSound
<1>2. CASE t \in Type
  <2>1. CSize(abi, t) = CRecord(abi, t).size
    BY <1>2 DEF CSize
  <2> QED
    BY <1>2, <2>1, RecordFacts DEF TagSize
<1>3. CASE t \notin Type
  BY <1>1, <1>3 DEF CSize
<1> QED
  BY <1>2, <1>3

LEMMA AlignedSum ==
  ASSUME NEW a \in {4, 8}, NEW x \in Nat, NEW y \in Nat, x % a = 0, y % a = 0
  PROVE  (x + y) % a = 0
<1>1. CASE a = 4
  BY <1>1, Z3
<1>2. CASE a = 8
  BY <1>2, Z3
<1> QED
  BY <1>1, <1>2

(* Running sums that grow are strictly increasing.                         *)
Begins(S, abi, types) ==
  /\ S[0] = 0
  /\ \A k \in 0 .. Len(types) : S[k] \in Nat /\ S[k] % abi.ptr = 0
  /\ \A k \in 1 .. Len(types) : S[k] = S[k - 1] + CSize(abi, types[k])
  /\ \A j, k \in 0 .. Len(types) : j < k => S[j] < S[k]

LEMMA StartsBegin ==
  ASSUME NEW abi \in Abi, NEW X, NEW types \in Seq(X)
  PROVE  Begins(Starts(abi, types), abi, types)
<1> DEFINE n == Len(types)
           S == Starts(abi, types)
           Builds(f) == f = [k \in 0 .. n |-> IF k = 0 THEN 0 ELSE f[k - 1] + CSize(abi, types[k])]
           e == [k \in 1 .. n |-> CSize(abi, types[k])]
<1>1. n \in Nat
  OBVIOUS
<1>2. e \in [1 .. n -> Nat]
  BY CSizeFacts
<1>3. \E f : Adds(f, e, n)
  <2> HIDE DEF n, e
  <2> QED
    BY <1>1, <1>2, AddsExists
<1>4. ASSUME NEW f PROVE Builds(f) <=> Adds(f, e, n)
  <2>1. [k \in 0 .. n |-> IF k = 0 THEN 0 ELSE f[k - 1] + CSize(abi, types[k])]
        = [k \in 0 .. n |-> IF k = 0 THEN 0 ELSE f[k - 1] + e[k]]
    <3> HIDE DEF n
    <3>1. \A k \in 0 .. n : k # 0 => k \in 1 .. n
      BY <1>1
    <3>2. \A k \in 1 .. n : e[k] = CSize(abi, types[k])
      OBVIOUS
    <3> HIDE DEF e
    <3> QED
      BY <3>1, <3>2
  <2> HIDE DEF e, n
  <2> QED
    BY <1>2, <2>1, Zenon DEF Adds
<1>5. S = CHOOSE f : Builds(f)
  BY DEF Starts
<1>6. Builds(S)
  <2> HIDE DEF Builds, S
  <2>1. \E f : Builds(f)
    BY <1>3, <1>4, Zenon
  <2> QED
    BY <1>5, <2>1, Zenon
<1>7. Totals(S, e, n)
  <2> HIDE DEF Builds, S, n, e
  <2>1. Adds(S, e, n)
    BY <1>4, <1>6, Zenon
  <2> QED
    BY <1>1, <2>1, AddsTotals, Zenon
<1>8. \A k \in 1 .. n : e[k] = CSize(abi, types[k])
  OBVIOUS
<1> HIDE DEF S, e, Builds
<1>9. /\ S[0] = 0
      /\ \A k \in 0 .. n : S[k] \in Nat
      /\ \A k \in 1 .. n : S[k] = S[k - 1] + CSize(abi, types[k])
  BY <1>7, <1>8 DEF Totals
<1> HIDE DEF n
<1>10. \A k \in 0 .. n : S[k] % abi.ptr = 0
  <2> DEFINE D == {k \in 0 .. n : S[k] % abi.ptr = 0}
  <2>1. abi.ptr \in {4, 8}
    BY AbisAreSound
  <2>2. 0 \in D
    BY <1>1, <1>9, <2>1
  <2>3. ASSUME NEW k \in 1 .. n, k - 1 \in D PROVE k \in D
    <3>1. S[k - 1] \in Nat /\ S[k - 1] % abi.ptr = 0 /\ k \in 0 .. n
      BY <1>9, <2>3
    <3>2. CSize(abi, types[k]) \in Nat /\ CSize(abi, types[k]) % abi.ptr = 0
      BY CSizeFacts
    <3>3. (S[k - 1] + CSize(abi, types[k])) % abi.ptr = 0
      BY <2>1, <3>1, <3>2, AlignedSum
    <3> QED
      BY <1>9, <3>1, <3>3
  <2>4. 0 .. n \subseteq D
    <3> HIDE DEF D
    <3> QED
      BY <1>1, <2>2, <2>3, UptoInduction
  <2> QED
    BY <2>4
<1>11. \A j, k \in 0 .. n : j < k => S[j] < S[k]
  <2> TAKE j \in 0 .. n
  <2> DEFINE D == {k \in 0 .. n : j < k => S[j] < S[k]}
  <2>1. 0 \in D
    BY <1>1
  <2>2. ASSUME NEW k \in 1 .. n, k - 1 \in D PROVE k \in D
    <3>1. /\ k \in 0 .. n /\ k - 1 \in 0 .. n
          /\ S[j] \in Nat /\ S[k - 1] \in Nat
          /\ S[k] = S[k - 1] + CSize(abi, types[k])
      BY <1>1, <1>9
    <3>2. CSize(abi, types[k]) \in Nat /\ CSize(abi, types[k]) > 0
      BY CSizeFacts
    <3>3. S[k - 1] < S[k]
      BY <3>1, <3>2
    <3>4. j < k - 1 => S[j] < S[k - 1]
      BY <2>2
    <3>5. j < k => S[j] < S[k]
      <4> SUFFICES ASSUME j < k PROVE S[j] < S[k]
        OBVIOUS
      <4>1. CASE j = k - 1
        BY <3>3, <4>1
      <4>2. CASE j # k - 1
        <5>1. j < k - 1
          BY <4>2
        <5>2. S[j] < S[k - 1]
          BY <3>4, <5>1
        <5> QED
          BY <3>1, <3>2, <5>2
      <4> QED
        BY <4>1, <4>2
    <3> QED
      BY <3>1, <3>5
  <2>3. 0 .. n \subseteq D
    <3> HIDE DEF D
    <3> QED
      BY <1>1, <2>1, <2>2, UptoInduction
  <2> QED
    BY <2>3
<1> QED
  BY <1>9, <1>10, <1>11 DEF Begins, S, n

LEMMA PackedTags ==
  ASSUME NEW abi \in Abi, NEW X, NEW types \in Seq(X), NEW n, NEW base
  PROVE  \A k \in 1 .. Len(types) :
           TagAt(Packed(abi, types, n, base), Starts(abi, types)[k - 1]) = types[k]
<1> DEFINE S == Starts(abi, types)
           N == Len(types)
           At(k) == S[k - 1]
           tag == [at \in {At(k) : k \in DOMAIN types} |->
                     types[CHOOSE k \in DOMAIN types : At(k) = at]]
<1>1. Begins(S, abi, types)
  BY StartsBegin
<1>2. N \in Nat /\ DOMAIN types = 1 .. N
  BY LenProperties
<1>3. Packed(abi, types, n, base).tag = tag
  BY DEF Packed
<1> HIDE DEF S
<1>4. ASSUME NEW j \in 1 .. N, NEW k \in 1 .. N, At(j) = At(k) PROVE j = k
  <2>1. /\ j - 1 \in 0 .. N /\ k - 1 \in 0 .. N
        /\ S[j - 1] \in Nat /\ S[j - 1] = S[k - 1]
        /\ j - 1 < k - 1 => S[j - 1] < S[k - 1]
        /\ k - 1 < j - 1 => S[k - 1] < S[j - 1]
    BY <1>1, <1>2, <1>4 DEF Begins
  <2>2. ~(j - 1 < k - 1) /\ ~(k - 1 < j - 1)
    BY <2>1
  <2> HIDE DEF N
  <2> QED
    BY <1>2, <2>2
<1> HIDE DEF N, At
<1>5. ASSUME NEW k \in 1 .. N PROVE At(k) \in DOMAIN tag /\ tag[At(k)] = types[k]
  <2> DEFINE c == CHOOSE j \in DOMAIN types : At(j) = At(k)
  <2>1. At(k) \in {At(j) : j \in DOMAIN types}
    BY <1>2
  <2>2. tag[At(k)] = types[c]
    BY <2>1
  <2>3. c \in DOMAIN types /\ At(c) = At(k)
    BY <1>2
  <2>4. c = k
    <3> HIDE DEF c
    <3> QED
      BY <1>2, <1>4, <2>3
  <2> QED
    BY <2>1, <2>2, <2>4
<1>6. \A k \in 1 .. N : TagAt(Packed(abi, types, n, base), At(k)) = types[k]
  <2> HIDE DEF tag
  <2> QED
    BY <1>3, <1>5, Zenon DEF TagAt
<1> QED
  BY <1>6, Zenon DEF At, N, S

---------------------------------------------------------------------------
(* A walk of the application's stream s by the ABI g.                      *)

Typed(s) == s.types \in Seq(Type \cup {"unknown"})
IsApp(g, s) ==
  /\ s = Packed(g, s.types, s.size, s.base)
  /\ s.size \in Nat /\ s.size <= Starts(g, s.types)[Len(s.types)]
  /\ s.base \in {"null", "aligned", "unaligned"}

Pos(g, s, k) == Starts(g, s.types)[k]
EndsAt(g, s, k) == AtEnd(s, Pos(g, s, k))
FitsAt(g, s, k) == Fits(g, s, Pos(g, s, k))
HasAt(g, s, k) == ~EndsAt(g, s, k) /\ FitsAt(g, s, k)

\* The walk may get to record k + 1, ends there, is refused there.
Walked(g, s, k) == k \in 0 .. Len(s.types) /\ \A j \in 0 .. k - 1 : HasAt(g, s, j)
Good(g, s, k) == Walked(g, s, k) /\ EndsAt(g, s, k)
Bad(g, s, k) == Walked(g, s, k) /\ ~EndsAt(g, s, k) /\ ~FitsAt(g, s, k)

LEMMA AppFacts ==
  ASSUME NEW g \in Abi, NEW s, Typed(s), IsApp(g, s)
  PROVE  /\ Len(s.types) \in Nat
         /\ DOMAIN s.types = 1 .. Len(s.types)
         /\ Begins(Starts(g, s.types), g, s.types)
         /\ \A k \in 1 .. Len(s.types) : TagAt(s, Pos(g, s, k - 1)) = s.types[k]
<1>1. s.types \in Seq(Type \cup {"unknown"})
  BY DEF Typed
<1>2. s = Packed(g, s.types, s.size, s.base)
  BY DEF IsApp
<1>3. \A k \in 1 .. Len(s.types) :
        TagAt(Packed(g, s.types, s.size, s.base), Starts(g, s.types)[k - 1]) = s.types[k]
  BY <1>1, PackedTags
<1>4. \A k \in 1 .. Len(s.types) : TagAt(s, Starts(g, s.types)[k - 1]) = s.types[k]
  BY <1>2, <1>3, Zenon
<1>5. Begins(Starts(g, s.types), g, s.types)
  BY <1>1, StartsBegin
<1>6. Len(s.types) \in Nat /\ DOMAIN s.types = 1 .. Len(s.types)
  BY <1>1, LenProperties
<1> QED
  BY <1>4, <1>5, <1>6, Zenon DEF Pos

\* What is known of the record after the first k.
Record(g, s, k) ==
  /\ k + 1 \in 1 .. Len(s.types)
  /\ s.types[k + 1] \in Type
  /\ TagAt(s, Pos(g, s, k)) = s.types[k + 1]
  /\ Layout(g, s.types[k + 1], Pos(g, s, k)).next = Pos(g, s, k + 1)
  /\ Layout(g, s.types[k + 1], Pos(g, s, k)).end = Pos(g, s, k) + CRecord(g, s.types[k + 1]).end
  /\ Pos(g, s, k) \in Nat
  /\ Pos(g, s, k + 1) = Pos(g, s, k) + CRecord(g, s.types[k + 1]).size

LEMMA RecordThere ==
  ASSUME NEW g \in Abi, NEW s, Typed(s), IsApp(g, s),
         NEW k \in 0 .. Len(s.types), k # Len(s.types), s.types[k + 1] \in Type
  PROVE  Record(g, s, k)
<1> DEFINE S == Starts(g, s.types)
           j == k + 1
           t == s.types[j]
<1>1. /\ Len(s.types) \in Nat
      /\ Begins(S, g, s.types)
      /\ \A i \in 1 .. Len(s.types) : TagAt(s, Pos(g, s, i - 1)) = s.types[i]
  BY AppFacts
<1>2. j \in 1 .. Len(s.types) /\ j - 1 = k
  BY <1>1
<1> HIDE DEF S
<1>3. /\ S[k] \in Nat /\ S[k] % g.ptr = 0
      /\ S[j] = S[k] + CSize(g, t)
      /\ TagAt(s, Pos(g, s, k)) = t
  <2> HIDE DEF j
  <2> QED
    BY <1>1, <1>2 DEF Begins
<1>4. t \in Type /\ CSize(g, t) = CRecord(g, t).size
  BY DEF CSize
<1>5. Layout(g, t, S[k]).end = S[k] + CRecord(g, t).end /\ Layout(g, t, S[k]).next = S[k] + CRecord(g, t).size
  <2> HIDE DEF t
  <2> QED
    BY <1>3, <1>4, RecordFacts
<1> HIDE DEF t, j
<1>6. /\ j \in 1 .. Len(s.types) /\ t \in Type /\ TagAt(s, Pos(g, s, k)) = t
      /\ Layout(g, t, Pos(g, s, k)).next = Pos(g, s, j)
      /\ Layout(g, t, Pos(g, s, k)).end = Pos(g, s, k) + CRecord(g, t).end
      /\ Pos(g, s, k) \in Nat
      /\ Pos(g, s, j) = Pos(g, s, k) + CRecord(g, t).size
  BY <1>2, <1>3, <1>4, <1>5, Zenon DEF Pos, S
<1> QED
  BY <1>6, Zenon DEF Record, t, j

\* A record the walk finds is the application's next.
LEMMA RecordFound ==
  ASSUME NEW g \in Abi, NEW s, Typed(s), IsApp(g, s), NEW k, Walked(g, s, k), HasAt(g, s, k)
  PROVE  Record(g, s, k) /\ Walked(g, s, k + 1) /\ s.base = "aligned"
         /\ Pos(g, s, k) + CRecord(g, s.types[k + 1]).end <= s.size
<1> DEFINE n == Len(s.types)
           S == Starts(g, s.types)
<1>1. /\ n \in Nat
      /\ Begins(S, g, s.types)
      /\ \A i \in 1 .. n : TagAt(s, Pos(g, s, i - 1)) = s.types[i]
  BY AppFacts
<1>2. /\ k \in 0 .. n /\ s.size \in Nat /\ s.size <= S[n]
      /\ \A i \in 0 .. k - 1 : HasAt(g, s, i)
  BY DEF IsApp, Walked
<1>3. ~(s.base = "null" \/ S[k] >= s.size)
  BY Zenon DEF HasAt, EndsAt, AtEnd, Pos
<1>4. s.base = "aligned" /\ TagAt(s, Pos(g, s, k)) \in Type
      /\ Layout(g, TagAt(s, Pos(g, s, k)), Pos(g, s, k)).end <= s.size
  BY Zenon DEF HasAt, FitsAt, Fits
<1>5. k # n
  <2> SUFFICES ASSUME k = n PROVE FALSE
    OBVIOUS
  <2>1. S[n] \in Nat
    <3> HIDE DEF S, n
    <3> QED
      BY <1>1, <1>2 DEF Begins, n
  <2> HIDE DEF S, n
  <2>2. s.size <= S[k]
    BY <1>2
  <2> QED
    BY <1>2, <1>3, <2>1, <2>2
<1>6. s.types[k + 1] \in Type
  <2>1. k + 1 \in 1 .. n /\ (k + 1) - 1 = k
    BY <1>1, <1>2, <1>5
  <2>2. TagAt(s, Pos(g, s, (k + 1) - 1)) = s.types[k + 1]
    BY <1>1, <2>1
  <2> QED
    BY <1>4, <2>1, <2>2
<1>7. Record(g, s, k)
  BY <1>2, <1>5, <1>6, RecordThere
<1>8. Walked(g, s, k + 1)
  <2>1. k + 1 \in 0 .. n
    BY <1>1, <1>2, <1>5
  <2>2. \A i \in 0 .. (k + 1) - 1 : i = k \/ i \in 0 .. k - 1
    BY <1>1, <1>2
  <2>3. \A i \in 0 .. (k + 1) - 1 : HasAt(g, s, i)
    BY <1>2, <2>2, Zenon
  <2> QED
    BY <2>1, <2>3, Zenon DEF Walked
<1>9. Pos(g, s, k) + CRecord(g, s.types[k + 1]).end <= s.size
  BY <1>4, <1>7, Zenon DEF Record
<1> QED
  BY <1>4, <1>7, <1>8, <1>9

\* A walk has one end.
LEMMA OneEnd ==
  ASSUME NEW g, NEW s, NEW j, NEW k, Good(g, s, j), Good(g, s, k) \/ Bad(g, s, k), Len(s.types) \in Nat
  PROVE  j = k /\ Good(g, s, k)
<1>1. Walked(g, s, j) /\ Walked(g, s, k) /\ ~HasAt(g, s, j) /\ ~HasAt(g, s, k)
  BY Zenon DEF Good, Bad, HasAt
<1>2. /\ j \in 0 .. Len(s.types) /\ k \in 0 .. Len(s.types)
      /\ j \notin 0 .. k - 1 /\ k \notin 0 .. j - 1
  BY <1>1, Zenon DEF Walked
<1>3. j = k
  BY <1>2
<1> QED
  BY <1>3, Zenon DEF Good, Bad

\* A walk that ends goes over what the application means.
LEMMA GoodMeans ==
  ASSUME guest \in Abi, Typed(app), IsApp(guest, app), NEW k, Good(guest, app, k)
  PROVE  Means(SubSeq(app.types, 1, k))
<1> DEFINE n == Len(app.types)
           S == Starts(guest, app.types)
<1>1. n \in Nat /\ Begins(S, guest, app.types)
  BY AppFacts
<1>2. /\ k \in 0 .. n
      /\ \A i \in 0 .. k - 1 : HasAt(guest, app, i)
      /\ app.base = "null" \/ S[k] >= app.size
  BY Zenon DEF Good, Walked, EndsAt, AtEnd, Pos
<1>3. app.size \in Nat /\ app.base \in {"null", "aligned", "unaligned"}
  BY DEF IsApp
<1>4. \A i \in 0 .. k - 1 : /\ Record(guest, app, i) /\ app.base = "aligned"
                            /\ Pos(guest, app, i) + CRecord(guest, app.types[i + 1]).end <= app.size
  <2> TAKE i \in 0 .. k - 1
  <2>1. i \in 0 .. n /\ \A j \in 0 .. i - 1 : j \in 0 .. k - 1
    BY <1>1, <1>2
  <2>2. Walked(guest, app, i)
    BY <1>2, <2>1, Zenon DEF Walked
  <2> QED
    BY <1>2, <2>2, RecordFound
<1>5. CASE k = 0
  <2>1. SubSeq(app.types, 1, k) = <<>>
    BY <1>5 DEF Typed
  <2>2. S[0] = 0
    <3> HIDE DEF S
    <3> QED
      BY <1>1 DEF Begins
  <2>3. app.base # "null" => app.size = 0
    <3> HIDE DEF S
    <3> QED
      BY <1>2, <1>3, <1>5, <2>2
  <2>4. app.base = "aligned" => Complete(k)
    BY <1>1, <1>5, <2>3 DEF Complete
  <2> QED
    BY <1>2, <1>3, <1>5, <2>1, <2>3, <2>4, Zenon DEF Means
<1>6. CASE k # 0
  <2> DEFINE i == k - 1
             t == app.types[k]
             C == CRecord(guest, t)
  <2>1. i \in 0 .. k - 1 /\ i + 1 = k
    BY <1>1, <1>2, <1>6
  <2>2. /\ app.base = "aligned"
        /\ Record(guest, app, i)
        /\ Pos(guest, app, i) + CRecord(guest, app.types[i + 1]).end <= app.size
    <3> HIDE DEF i
    <3> QED
      BY <1>4, <2>1
  <2>3. S[i] + C.end <= app.size
    BY <2>1, <2>2, Zenon DEF Pos
  <2>4. S[k] = S[i] + C.size /\ S[k] >= app.size
    BY <1>2, <2>1, <2>2, Zenon DEF Pos, Record
  <2>5. S[i] \in Nat /\ t \in Type
    BY <2>1, <2>2, Zenon DEF Record, Pos
  <2>6. C.size \in Nat
    BY <2>5, RecordFacts
  <2>7. \A j \in 1 .. k : app.types[j] \in Type
    <3> TAKE j \in 1 .. k
    <3>1. j - 1 \in 0 .. k - 1 /\ (j - 1) + 1 = j
      BY <1>1, <1>2
    <3>2. Record(guest, app, j - 1)
      BY <1>4, <3>1
    <3> QED
      BY <3>1, <3>2, Zenon DEF Record
  <2>8. app.size <= S[i] + C.size
    <3> HIDE DEF C, i, S
    <3> QED
      BY <1>3, <2>4, <2>5, <2>6
  <2>9. k <= n
    BY <1>1, <1>2
  <2>10. Complete(k)
    BY <1>6, <2>2, <2>3, <2>7, <2>8, <2>9, Zenon DEF Complete
  <2> QED
    BY <1>2, <2>10, Zenon DEF Means
<1> QED
  BY <1>5, <1>6

\* One that is refused, over no stream the application could mean.
LEMMA BadMeansNothing ==
  ASSUME guest \in Abi, Typed(app), IsApp(guest, app), NEW k, Bad(guest, app, k)
  PROVE  ~\E m \in 0 .. Len(app.types) : Means(SubSeq(app.types, 1, m))
<1> DEFINE n == Len(app.types)
           S == Starts(guest, app.types)
           C(j) == CRecord(guest, app.types[j])
<1>1. n \in Nat /\ Begins(S, guest, app.types)
  BY AppFacts
<1>2. /\ k \in 0 .. n
      /\ app.base # "null" /\ ~(S[k] >= app.size)
      /\ ~Fits(guest, app, S[k])
  BY Zenon DEF Bad, Walked, EndsAt, FitsAt, AtEnd, Pos
<1>3. app.size \in Nat
  BY DEF IsApp
<1> HIDE DEF S
<1>4. S[k] \in Nat /\ S[k] < app.size /\ app.size # 0
  <2>1. S[k] \in Nat
    BY <1>1, <1>2 DEF Begins
  <2> HIDE DEF n
  <2> QED
    BY <1>2, <1>3, <2>1
<1> SUFFICES ASSUME NEW c \in 0 .. n, Complete(c) PROVE FALSE
  <2>1. ASSUME NEW m \in 0 .. n, Means(SubSeq(app.types, 1, m)) PROVE \E c \in 0 .. n : Complete(c)
    BY <1>2, <1>4, <2>1, Zenon DEF Means
  <2> QED
    BY <2>1
<1>5. /\ app.base = "aligned"
      /\ \A j \in 1 .. c : app.types[j] \in Type
  BY DEF Complete
<1>6. c # 0
  BY <1>4 DEF Complete
<1>7. S[c - 1] + C(c).end <= app.size /\ app.size <= S[c - 1] + C(c).size
  BY <1>6, Zenon DEF Complete, S
<1>8. \A j \in 1 .. c : /\ S[j - 1] \in Nat /\ S[j] \in Nat /\ j \in 0 .. n /\ j - 1 \in 0 .. n
                        /\ S[j] = S[j - 1] + C(j).size
                        /\ C(j).end \in Nat /\ C(j).size \in Nat /\ C(j).end <= C(j).size
  <2> TAKE j \in 1 .. c
  <2>1. j \in 1 .. n /\ j \in 0 .. n /\ j - 1 \in 0 .. n
    BY <1>1
  <2>2. app.types[j] \in Type
    BY <1>5
  <2>3. CSize(guest, app.types[j]) = C(j).size
    BY <2>2 DEF CSize
  <2>4. /\ S[j - 1] \in Nat /\ S[j] \in Nat
        /\ S[j] = S[j - 1] + CSize(guest, app.types[j])
    BY <1>1, <2>1 DEF Begins
  <2>5. C(j).end \in Nat /\ C(j).size \in Nat /\ C(j).end <= C(j).size
    BY <2>2, RecordFacts
  <2> QED
    BY <2>1, <2>3, <2>4, <2>5
<1>9. \A i, j \in 0 .. n : i < j => S[i] < S[j]
  BY <1>1 DEF Begins
<1> HIDE DEF C, n
<1>10. k < c
  <2>1. S[k] < S[c]
    BY <1>3, <1>4, <1>6, <1>7, <1>8
  <2>2. S[c] \in Nat
    BY <1>6, <1>8
  <2>3. ~(c < k) /\ c # k
    BY <1>2, <1>4, <1>9, <2>1, <2>2
  <2> QED
    BY <1>1, <1>2, <2>3
<1> DEFINE j == k + 1
<1>11. j \in 1 .. c /\ j - 1 = k
  BY <1>1, <1>2, <1>10
<1>12. Record(guest, app, k)
  <2>1. k # n /\ app.types[k + 1] \in Type
    BY <1>1, <1>2, <1>5, <1>10, <1>11
  <2> QED
    BY <1>2, <2>1, RecordThere DEF n
<1>13. S[k] + C(j).end <= app.size
  <2> HIDE DEF j
  <2>1. CASE j = c
    BY <1>7, <1>11, <2>1
  <2>2. CASE j # c
    <3>1. j < c /\ c - 1 \in 0 .. n
      BY <1>1, <1>11, <2>2
    <3>2. j = c - 1 \/ S[j] < S[c - 1]
      BY <1>8, <1>9, <1>11, <3>1
    <3>3. S[j] <= S[c - 1] /\ c \in 1 .. c
      BY <1>1, <1>6, <1>8, <1>11, <3>2
    <3>4. /\ S[j] = S[k] + C(j).size /\ C(j).end \in Nat /\ C(j).size \in Nat /\ C(j).end <= C(j).size
          /\ S[c - 1] \in Nat /\ C(c).end \in Nat
      BY <1>8, <1>11, <3>3
    <3> QED
      BY <1>3, <1>4, <1>7, <3>3, <3>4
  <2> QED
    BY <2>1, <2>2
<1>14. /\ TagAt(app, S[k]) = app.types[j] /\ app.types[j] \in Type
       /\ Layout(guest, app.types[j], S[k]).end = S[k] + C(j).end
  BY <1>12, Zenon DEF Record, Pos, S, C, j
<1>15. S[k] + TagSize <= app.size
  <2>1. TagSize < C(j).end /\ C(j).end \in Nat /\ TagSize \in Nat
    BY <1>14, RecordFacts DEF C, TagSize
  <2> HIDE DEF j
  <2> QED
    BY <1>3, <1>4, <1>13, <2>1
<1>16. Fits(guest, app, S[k])
  BY <1>5, <1>13, <1>14, <1>15, Zenon DEF Fits
<1> QED
  BY <1>2, <1>16

---------------------------------------------------------------------------
(* The bytes of the records on the wire.                                   *)

LEMMA SentFacts ==
  ASSUME NEW t \in Seq(Type)
  PROVE  /\ SentBytes(t)[0] = 0
         /\ \A k \in 0 .. Len(t) : SentBytes(t)[k] \in Nat
         /\ \A k \in 1 .. Len(t) : SentBytes(t)[k] = SentBytes(t)[k - 1] + (TagSize + WireSize[t[k]])
<1> DEFINE n == Len(t)
           S == SentBytes(t)
           Builds(f) == f = [k \in 0 .. n |-> IF k = 0 THEN 0 ELSE f[k - 1] + (TagSize + WireSize[t[k]])]
           e == [k \in 1 .. n |-> TagSize + WireSize[t[k]]]
<1>1. n \in Nat
  OBVIOUS
<1>2. e \in [1 .. n -> Nat]
  BY WireSizeType DEF TagSize
<1>3. \E f : Adds(f, e, n)
  <2> HIDE DEF n, e
  <2> QED
    BY <1>1, <1>2, AddsExists
<1>4. ASSUME NEW f PROVE Builds(f) <=> Adds(f, e, n)
  <2>1. [k \in 0 .. n |-> IF k = 0 THEN 0 ELSE f[k - 1] + (TagSize + WireSize[t[k]])]
        = [k \in 0 .. n |-> IF k = 0 THEN 0 ELSE f[k - 1] + e[k]]
    <3> HIDE DEF n
    <3>1. \A k \in 0 .. n : k # 0 => k \in 1 .. n
      BY <1>1
    <3>2. \A k \in 1 .. n : e[k] = TagSize + WireSize[t[k]]
      OBVIOUS
    <3> HIDE DEF e
    <3> QED
      BY <3>1, <3>2
  <2> HIDE DEF e, n
  <2> QED
    BY <1>2, <2>1, Zenon DEF Adds
<1>5. S = CHOOSE f : Builds(f)
  BY DEF SentBytes
<1>6. Builds(S)
  <2> HIDE DEF Builds, S
  <2>1. \E f : Builds(f)
    BY <1>3, <1>4, Zenon
  <2> QED
    BY <1>5, <2>1, Zenon
<1>7. Totals(S, e, n)
  <2> HIDE DEF Builds, S, n, e
  <2>1. Adds(S, e, n)
    BY <1>4, <1>6, Zenon
  <2> QED
    BY <1>1, <2>1, AddsTotals, Zenon
<1>8. \A k \in 1 .. n : e[k] = TagSize + WireSize[t[k]]
  OBVIOUS
<1> HIDE DEF S, e, Builds, n
<1>9. /\ S[0] = 0
      /\ \A k \in 0 .. n : S[k] \in Nat
      /\ \A k \in 1 .. n : S[k] = S[k - 1] + (TagSize + WireSize[t[k]])
  BY <1>7, <1>8 DEF Totals
<1> QED
  BY <1>9, Zenon DEF S, n

\* One more record is its tag and its payload more.
LEMMA SentGrows ==
  ASSUME NEW t \in Seq(Type), NEW x \in Type
  PROVE  /\ Append(t, x) \in Seq(Type) /\ Len(Append(t, x)) = Len(t) + 1
         /\ SentBytes(Append(t, x))[Len(t) + 1] = SentBytes(t)[Len(t)] + TagSize + WireSize[x]
         /\ SentBytes(t)[Len(t)] \in Nat
<1> DEFINE u == Append(t, x)
           n == Len(t)
           T == SentBytes(t)
           U == SentBytes(u)
<1>1. u \in Seq(Type) /\ Len(u) = n + 1 /\ n \in Nat /\ u[n + 1] = x /\ \A k \in 1 .. n : u[k] = t[k]
  OBVIOUS
<1> HIDE DEF u
<1>2. /\ T[0] = 0 /\ \A k \in 0 .. n : T[k] \in Nat
      /\ \A k \in 1 .. n : T[k] = T[k - 1] + (TagSize + WireSize[t[k]])
  BY SentFacts
<1>3. /\ U[0] = 0 /\ \A k \in 0 .. n + 1 : U[k] \in Nat
      /\ \A k \in 1 .. n + 1 : U[k] = U[k - 1] + (TagSize + WireSize[u[k]])
  BY <1>1, SentFacts
<1> HIDE DEF n, T, U
<1> DEFINE D == {k \in 0 .. n : U[k] = T[k]}
<1>4. 0 \in D
  BY <1>1, <1>2, <1>3
<1>5. ASSUME NEW k \in 1 .. n, k - 1 \in D PROVE k \in D
  <2>1. U[k - 1] = T[k - 1] /\ u[k] = t[k] /\ k \in 1 .. n + 1 /\ k \in 0 .. n
    BY <1>1, <1>5
  <2>2. U[k] = U[k - 1] + (TagSize + WireSize[u[k]]) /\ T[k] = T[k - 1] + (TagSize + WireSize[t[k]])
    BY <1>2, <1>3, <2>1
  <2> QED
    BY <2>1, <2>2
<1>6. 0 .. n \subseteq D
  <2> HIDE DEF D
  <2> QED
    BY <1>1, <1>4, <1>5, UptoInduction
<1>7. U[n] = T[n] /\ T[n] \in Nat
  <2>1. n \in D /\ n \in 0 .. n
    <3> HIDE DEF D
    <3> QED
      BY <1>1, <1>6
  <2> QED
    BY <1>2, <2>1
<1>8. U[n + 1] = U[n] + (TagSize + WireSize[x])
  <2>1. n + 1 \in 1 .. n + 1 /\ (n + 1) - 1 = n
    BY <1>1
  <2>2. U[n + 1] = U[(n + 1) - 1] + (TagSize + WireSize[u[n + 1]])
    BY <1>3, <2>1
  <2> QED
    BY <1>1, <2>1, <2>2
<1>9. WireSize[x] \in Nat /\ TagSize \in Nat
  BY WireSizeType DEF TagSize
<1>10. U[n + 1] = T[n] + TagSize + WireSize[x]
  BY <1>7, <1>8, <1>9
<1> QED
  BY <1>1, <1>7, <1>10, Zenon DEF u, n, T, U

---------------------------------------------------------------------------
(* The records before the walk's k + 1st, and the bytes they need.         *)
Prefix(s, k) == SubSeq(s.types, 1, k)
Sent(s, k) == CountSize + SentBytes(Prefix(s, k))[k]

LEMMA PrefixFacts ==
  ASSUME NEW g \in Abi, NEW s, Typed(s), IsApp(g, s), NEW k, Walked(g, s, k)
  PROVE  Prefix(s, k) \in Seq(Type) /\ Len(Prefix(s, k)) = k /\ k \in Nat
         /\ Sent(s, k) \in Nat
<1>1. Len(s.types) \in Nat
  BY AppFacts
<1>2. /\ k \in 0 .. Len(s.types)
      /\ \A i \in 0 .. k - 1 : HasAt(g, s, i)
  BY Zenon DEF Walked
<1>3. \A j \in 1 .. k : s.types[j] \in Type
  <2> TAKE j \in 1 .. k
  <2> DEFINE i == j - 1
  <2>1. i \in 0 .. k - 1 /\ i \in 0 .. Len(s.types) /\ i + 1 = j /\ \A m \in 0 .. i - 1 : m \in 0 .. k - 1
    BY <1>1, <1>2
  <2> HIDE DEF i
  <2>2. Walked(g, s, i)
    BY <1>2, <2>1, Zenon DEF Walked
  <2>3. Record(g, s, i)
    BY <1>2, <2>1, <2>2, RecordFound
  <2> QED
    BY <2>1, <2>3, Zenon DEF Record
<1>4. Prefix(s, k) = [j \in 1 .. k |-> s.types[j]]
  BY <1>1, <1>2 DEF Prefix, Typed
<1>5. k \in Nat
  BY <1>1, <1>2
<1>6. Prefix(s, k) \in Seq(Type) /\ Len(Prefix(s, k)) = k
  <2>1. Prefix(s, k) \in [1 .. k -> Type]
    BY <1>3, <1>4
  <2> HIDE DEF Prefix
  <2>2. Prefix(s, k) \in Seq(Type)
    BY <1>5, <2>1, FunctionIsSeq
  <2>3. DOMAIN Prefix(s, k) = 1 .. k
    BY <2>1
  <2>4. Len(Prefix(s, k)) \in Nat /\ DOMAIN Prefix(s, k) = 1 .. Len(Prefix(s, k))
    BY <2>2, LenProperties
  <2>5. Len(Prefix(s, k)) = k
    BY <1>5, <2>3, <2>4, IntervalsEqual
  <2> QED
    BY <2>2, <2>5
<1>7. SentBytes(Prefix(s, k))[k] \in Nat
  <2>1. k \in 0 .. Len(Prefix(s, k))
    BY <1>5, <1>6
  <2> QED
    BY <1>6, <2>1, SentFacts
<1>8. Sent(s, k) \in Nat
  <2> HIDE DEF Prefix
  <2> QED
    BY <1>7 DEF Sent, CountSize
<1> QED
  BY <1>5, <1>6, <1>8

LEMMA PrefixGrows ==
  ASSUME NEW g \in Abi, NEW s, Typed(s), IsApp(g, s), NEW k, Walked(g, s, k), HasAt(g, s, k)
  PROVE  /\ TagAt(s, Pos(g, s, k)) \in Type
         /\ Prefix(s, k + 1) = Append(Prefix(s, k), TagAt(s, Pos(g, s, k)))
         /\ Sent(s, k + 1) = Sent(s, k) + TagSize + WireSize[TagAt(s, Pos(g, s, k))]
<1> DEFINE x == TagAt(s, Pos(g, s, k))
<1>1. x \in Type /\ x = s.types[k + 1] /\ k + 1 \in 1 .. Len(s.types) /\ Walked(g, s, k + 1)
  <2>1. Record(g, s, k) /\ Walked(g, s, k + 1)
    BY RecordFound
  <2> QED
    BY <2>1, Zenon DEF Record
<1>2. Prefix(s, k) \in Seq(Type) /\ Len(Prefix(s, k)) = k /\ k \in Nat
  BY PrefixFacts
<1>3. Prefix(s, k + 1) = Append(Prefix(s, k), x)
  <2>1. Len(s.types) \in Nat /\ s.types \in Seq(Type \cup {"unknown"})
    BY AppFacts DEF Typed
  <2> DEFINE p == SubSeq(s.types, 1, k)
             q == SubSeq(s.types, 1, k + 1)
  <2>2. p = [j \in 1 .. k |-> s.types[j]] /\ q = [j \in 1 .. k + 1 |-> s.types[j]]
    BY <1>1, <1>2, <2>1
  <2>3. Len(p) = k
    BY <1>2 DEF Prefix
  <2> HIDE DEF p, q, x
  <2>4. p \in Seq(Type) /\ q \in Seq(Type) /\ Len(q) = k + 1
    <3>1. Prefix(s, k + 1) \in Seq(Type) /\ Len(Prefix(s, k + 1)) = k + 1
      BY <1>1, PrefixFacts
    <3> QED
      BY <1>2, <3>1, Zenon DEF Prefix, p, q
  <2>5. /\ Append(p, x) \in Seq(Type) /\ Len(Append(p, x)) = k + 1
        /\ \A j \in 1 .. k + 1 : q[j] = Append(p, x)[j]
    <3>1. /\ Append(p, x) \in Seq(Type) /\ Len(Append(p, x)) = k + 1
          /\ \A j \in 1 .. k : Append(p, x)[j] = p[j]
          /\ Append(p, x)[k + 1] = x
      BY <1>1, <2>3, <2>4, AppendProperties
    <3>2. (\A j \in 1 .. k : p[j] = s.types[j]) /\ (\A j \in 1 .. k + 1 : q[j] = s.types[j])
      BY <2>2
    <3>3. k \in Nat /\ x = s.types[k + 1]
      BY <1>1, <1>2
    <3>4. \A j \in 1 .. k + 1 : j = k + 1 \/ j \in 1 .. k
      BY <3>3
    <3> QED
      BY <3>1, <3>2, <3>3, <3>4
  <2>6. q = Append(p, x)
    BY <2>4, <2>5, SeqEqual
  <2> QED
    BY <2>6, Zenon DEF Prefix, p, q
<1>4. SentBytes(Append(Prefix(s, k), x))[k + 1] = SentBytes(Prefix(s, k))[k] + TagSize + WireSize[x]
      /\ SentBytes(Prefix(s, k))[k] \in Nat
  <2> DEFINE t == Prefix(s, k)
  <2>1. t \in Seq(Type) /\ Len(t) = k /\ x \in Type
    BY <1>1, <1>2
  <2> HIDE DEF x, t
  <2>2. /\ SentBytes(Append(t, x))[Len(t) + 1] = SentBytes(t)[Len(t)] + TagSize + WireSize[x]
        /\ SentBytes(t)[Len(t)] \in Nat
    BY <2>1, SentGrows
  <2> QED
    BY <2>1, <2>2, Zenon DEF t
<1>5. Sent(s, k + 1) = Sent(s, k) + TagSize + WireSize[x]
  <2>1. WireSize[x] \in Nat /\ TagSize \in Nat /\ CountSize \in Nat
    BY <1>1, WireSizeType DEF TagSize, CountSize
  <2> DEFINE b == SentBytes(Prefix(s, k))[k]
             c == SentBytes(Prefix(s, k + 1))[k + 1]
             w == WireSize[x]
  <2>2. c = b + TagSize + w /\ b \in Nat
    BY <1>3, <1>4, Zenon
  <2>3. Sent(s, k + 1) = CountSize + c /\ Sent(s, k) = CountSize + b
    BY Zenon DEF Sent
  <2> HIDE DEF b, c, w, x
  <2>4. w \in Nat
    BY <2>1 DEF w
  <2>5. CountSize + (b + TagSize + w) = (CountSize + b) + TagSize + w
    BY <2>1, <2>2, <2>4
  <2> QED
    BY <2>2, <2>3, <2>5, Zenon DEF w
<1> QED
  BY <1>1, <1>3, <1>5

---------------------------------------------------------------------------
(* The guest's three walks go over the same records, and agree where they  *)
(* end.                                                                    *)

AppInv == guest \in Abi /\ host \in Abi /\ Typed(app) /\ IsApp(guest, app)

\* The walk under way has got to a record, and has what it goes for of those
\* before.
WalkInv ==
  /\ phase = "size" =>
       \E k : Walked(guest, app, k) /\ off = Pos(guest, app, k) /\ size = Sent(app, k)
  /\ phase = "count" =>
       \E k : Walked(guest, app, k) /\ off = Pos(guest, app, k) /\ count = k
  /\ phase = "encode" =>
       \E k : Walked(guest, app, k) /\ off = Pos(guest, app, k) /\ wire = Prefix(app, k)

SizeInv ==
  phase # "size" => \/ \E k : Good(guest, app, k) /\ size = Sent(app, k)
                    \/ size = 0 /\ \E k : Bad(guest, app, k)

CountInv ==
  /\ phase = "size" => count = 0
  /\ phase \in {"encode", "allocate"} => Good(guest, app, count)

Whole == \E k : Good(guest, app, k) /\ wire = Prefix(app, k)

WireInv ==
  /\ phase \in {"size", "count"} => wire = <<"none">>
  /\ phase = "allocate" => wire = Prefix(app, count)
  /\ phase \in {"allocate", "decode", "replace", "done"} => Whole
  /\ phase = "refused" => Whole \/ (wire = <<"none">> /\ \E k : Bad(guest, app, k))

GuestInv ==
  /\ AppInv /\ WalkInv /\ SizeInv /\ CountInv /\ WireInv
  /\ phase \in {"size", "count", "encode", "allocate", "decode", "replace", "done", "refused"}
  /\ fatal \in BOOLEAN

LEMMA WalkStarts ==
  ASSUME AppInv
  PROVE  Walked(guest, app, 0) /\ Pos(guest, app, 0) = 0 /\ Prefix(app, 0) = <<>>
         /\ Sent(app, 0) = CountSize
<1>1. guest \in Abi /\ Typed(app) /\ IsApp(guest, app)
  BY DEF AppInv
<1>2. Begins(Starts(guest, app.types), guest, app.types) /\ Len(app.types) \in Nat
  BY <1>1, AppFacts
<1>3. Walked(guest, app, 0)
  <2>1. 0 \in 0 .. Len(app.types) /\ 0 .. 0 - 1 = {}
    BY <1>2
  <2> QED
    BY <2>1, Zenon DEF Walked
<1>4. Pos(guest, app, 0) = 0
  BY <1>2, Zenon DEF Pos, Begins
<1>5. Prefix(app, 0) \in Seq(Type) /\ Len(Prefix(app, 0)) = 0
  BY <1>1, <1>3, PrefixFacts
<1>6. Prefix(app, 0) = <<>>
  <2> HIDE DEF Prefix
  <2> QED
    BY <1>5, EmptySeq
<1>7. Sent(app, 0) = CountSize
  <2>1. SentBytes(Prefix(app, 0))[0] = 0
    BY <1>5, SentFacts
  <2> QED
    BY <2>1 DEF Sent, CountSize
<1> QED
  BY <1>3, <1>4, <1>6, <1>7

LEMMA InitGuest ==
  ASSUME Init PROVE GuestInv
<1>1. PICK types \in Streams, base \in {"null", "aligned", "unaligned"} :
        \E n \in 0 .. Starts(guest, types)[Len(types)] : app = Packed(guest, types, n, base)
  BY Zenon DEF Init
<1>2. PICK n \in 0 .. Starts(guest, types)[Len(types)] : app = Packed(guest, types, n, base)
  BY <1>1
<1>3. types \in Seq(Type \cup {"unknown"}) /\ guest \in Abi /\ host \in Abi
  BY StreamsType DEF Init
<1>4. app.types = types /\ app.size = n /\ app.base = base
  BY <1>2 DEF Packed
<1>5. Begins(Starts(guest, types), guest, types) /\ Len(types) \in Nat
  BY <1>3, StartsBegin
<1>6. Starts(guest, types)[Len(types)] \in Nat /\ Starts(guest, types)[0] = 0
  BY <1>5 DEF Begins
<1>7. n \in Nat /\ n <= Starts(guest, types)[Len(types)]
  <2> DEFINE end == Starts(guest, types)[Len(types)]
  <2>1. end \in Nat /\ n \in 0 .. end
    BY <1>6
  <2> HIDE DEF end
  <2> QED
    BY <2>1 DEF end
<1>8. Typed(app) /\ IsApp(guest, app)
  BY <1>2, <1>3, <1>4, <1>7, Zenon DEF Typed, IsApp
<1>9. /\ phase = "size" /\ off = 0 /\ size = CountSize /\ count = 0 /\ wire = <<"none">>
       /\ fatal = FALSE
  BY Zenon DEF Init
<1>10. AppInv
  BY <1>3, <1>8, Zenon DEF AppInv
<1>11. Walked(guest, app, 0) /\ Pos(guest, app, 0) = 0 /\ Sent(app, 0) = CountSize
  BY <1>10, WalkStarts
<1>12. WalkInv
  <2>1. Walked(guest, app, 0) /\ off = Pos(guest, app, 0) /\ size = Sent(app, 0)
    BY <1>11, <1>9
  <2> QED
    BY <1>9, <2>1 DEF WalkInv
<1>13. SizeInv /\ CountInv /\ WireInv
  BY <1>9 DEF SizeInv, CountInv, WireInv
<1> QED
  BY <1>9, <1>10, <1>12, <1>13 DEF GuestInv

\* Where the walk is, its record is the next one, and its end the walk's.
LEMMA WalkStep ==
  ASSUME AppInv, NEW k, Walked(guest, app, k), off = Pos(guest, app, k)
  PROVE  /\ HasNext(guest, app) =>
              /\ Walked(guest, app, k + 1) /\ NextOff(guest, app) = Pos(guest, app, k + 1)
              /\ TagAt(app, off) \in Type
              /\ Prefix(app, k + 1) = Append(Prefix(app, k), TagAt(app, off))
              /\ Sent(app, k + 1) = Sent(app, k) + TagSize + WireSize[TagAt(app, off)]
         /\ ~HasNext(guest, app) /\ Malformed(guest, app) => Bad(guest, app, k)
         /\ ~HasNext(guest, app) /\ ~Malformed(guest, app) => Good(guest, app, k)
<1>1. /\ HasNext(guest, app) <=> HasAt(guest, app, k)
      /\ Malformed(guest, app) <=> ~EndsAt(guest, app, k) /\ ~FitsAt(guest, app, k)
  BY Zenon DEF HasNext, Malformed, HasAt, EndsAt, FitsAt
<1>2. ASSUME HasNext(guest, app)
      PROVE  /\ Walked(guest, app, k + 1) /\ NextOff(guest, app) = Pos(guest, app, k + 1)
             /\ TagAt(app, off) \in Type
             /\ Prefix(app, k + 1) = Append(Prefix(app, k), TagAt(app, off))
             /\ Sent(app, k + 1) = Sent(app, k) + TagSize + WireSize[TagAt(app, off)]
  <2>1. HasAt(guest, app, k) /\ guest \in Abi /\ Typed(app) /\ IsApp(guest, app)
    BY <1>1, <1>2, Zenon DEF AppInv
  <2>2. Record(guest, app, k) /\ Walked(guest, app, k + 1)
    BY <2>1, RecordFound
  <2>3. NextOff(guest, app) = Pos(guest, app, k + 1)
    BY <2>2, Zenon DEF NextOff, Record
  <2>4. /\ TagAt(app, Pos(guest, app, k)) \in Type
        /\ Prefix(app, k + 1) = Append(Prefix(app, k), TagAt(app, Pos(guest, app, k)))
        /\ Sent(app, k + 1) = Sent(app, k) + TagSize + WireSize[TagAt(app, Pos(guest, app, k))]
    BY <2>1, PrefixGrows
  <2> QED
    BY <2>2, <2>3, <2>4, Zenon
<1>3. ~HasNext(guest, app) /\ Malformed(guest, app) => Bad(guest, app, k)
  BY <1>1, Zenon DEF Bad
<1>4. ~HasNext(guest, app) /\ ~Malformed(guest, app) => Good(guest, app, k)
  BY <1>1, Zenon DEF Good, HasAt
<1> QED
  BY <1>2, <1>3, <1>4

LEMMA AppKept ==
  ASSUME AppInv, guest' = guest, host' = host, app' = app
  PROVE  AppInv'
BY Zenon DEF AppInv

LEMMA SizeRecordGuest ==
  ASSUME GuestInv, SizeRecord PROVE GuestInv'
<1>1. /\ phase = "size" /\ HasNext(guest, app)
      /\ size' = size + TagSize + WireSize[TagAt(app, off)] /\ off' = NextOff(guest, app)
      /\ guest' = guest /\ host' = host /\ app' = app /\ phase' = phase /\ count' = count
      /\ wire' = wire /\ fatal' = fatal
  BY DEF SizeRecord
<1>2. AppInv /\ WalkInv /\ SizeInv /\ CountInv /\ WireInv /\ fatal \in BOOLEAN
  BY DEF GuestInv
<1>3. PICK k : Walked(guest, app, k) /\ off = Pos(guest, app, k) /\ size = Sent(app, k)
  BY <1>1, <1>2 DEF WalkInv
<1>4. /\ Walked(guest, app, k + 1) /\ NextOff(guest, app) = Pos(guest, app, k + 1)
      /\ Sent(app, k + 1) = Sent(app, k) + TagSize + WireSize[TagAt(app, off)]
  BY <1>1, <1>2, <1>3, WalkStep
<1>5. AppInv'
  BY <1>1, <1>2, AppKept
<1>6. WalkInv'
  <2>1. Walked(guest', app', k + 1) /\ off' = Pos(guest', app', k + 1) /\ size' = Sent(app', k + 1)
    BY <1>1, <1>3, <1>4, Zenon
  <2> QED
    BY <1>1, <2>1 DEF WalkInv
<1>7. SizeInv' /\ CountInv' /\ WireInv'
  BY <1>1, <1>2 DEF SizeInv, CountInv, WireInv
<1> QED
  BY <1>1, <1>2, <1>5, <1>6, <1>7 DEF GuestInv

LEMMA SizeEndGuest ==
  ASSUME GuestInv, SizeEnd PROVE GuestInv'
<1>1. /\ phase = "size" /\ ~HasNext(guest, app) /\ phase' = "count" /\ off' = 0
      /\ guest' = guest /\ host' = host /\ app' = app /\ count' = count
      /\ wire' = wire /\ fatal' = fatal
      /\ Malformed(guest, app) => size' = 0
      /\ ~Malformed(guest, app) => size' = size
  BY Zenon DEF SizeEnd
<1>2. AppInv /\ WalkInv /\ SizeInv /\ CountInv /\ WireInv /\ fatal \in BOOLEAN
  BY DEF GuestInv
<1>3. PICK k : Walked(guest, app, k) /\ off = Pos(guest, app, k) /\ size = Sent(app, k)
  BY <1>1, <1>2 DEF WalkInv
<1>4. /\ Malformed(guest, app) => Bad(guest, app, k)
      /\ ~Malformed(guest, app) => Good(guest, app, k)
  BY <1>1, <1>2, <1>3, WalkStep
<1>5. AppInv'
  BY <1>1, <1>2, AppKept
<1>6. count = 0 /\ wire = <<"none">>
  BY <1>1, <1>2 DEF CountInv, WireInv
<1>7. WalkInv'
  <2>1. Walked(guest, app, 0) /\ Pos(guest, app, 0) = 0
    BY <1>2, WalkStarts
  <2>2. Walked(guest', app', 0) /\ off' = Pos(guest', app', 0) /\ count' = 0
    BY <1>1, <1>6, <2>1, Zenon
  <2> QED
    BY <1>1, <2>2 DEF WalkInv
<1>8. SizeInv'
  <2>1. CASE Malformed(guest, app)
    <3>1. size' = 0 /\ Bad(guest', app', k)
      BY <1>1, <1>4, <2>1, Zenon
    <3> QED
      BY <3>1 DEF SizeInv
  <2>2. CASE ~Malformed(guest, app)
    <3>1. Good(guest', app', k) /\ size' = Sent(app', k)
      BY <1>1, <1>3, <1>4, <2>2, Zenon
    <3> QED
      BY <3>1 DEF SizeInv
  <2> QED
    BY <2>1, <2>2
<1>9. CountInv' /\ WireInv'
  BY <1>1, <1>6 DEF CountInv, WireInv
<1> QED
  BY <1>1, <1>2, <1>5, <1>7, <1>8, <1>9 DEF GuestInv

LEMMA SizeKept ==
  ASSUME SizeInv, phase # "size", guest' = guest, app' = app, size' = size
  PROVE  SizeInv'
<1>1. \/ \E k : Good(guest, app, k) /\ size = Sent(app, k)
      \/ size = 0 /\ \E k : Bad(guest, app, k)
  BY DEF SizeInv
<1>2. \/ \E k : Good(guest', app', k) /\ size' = Sent(app', k)
      \/ size' = 0 /\ \E k : Bad(guest', app', k)
  BY <1>1, Zenon
<1> QED
  BY <1>2 DEF SizeInv

LEMMA CountRecordGuest ==
  ASSUME GuestInv, CountRecord PROVE GuestInv'
<1>1. /\ phase = "count" /\ HasNext(guest, app)
      /\ count' = count + 1 /\ off' = NextOff(guest, app)
      /\ guest' = guest /\ host' = host /\ app' = app /\ phase' = phase /\ size' = size
      /\ wire' = wire /\ fatal' = fatal
  BY DEF CountRecord
<1>2. AppInv /\ WalkInv /\ SizeInv /\ CountInv /\ WireInv /\ fatal \in BOOLEAN
  BY DEF GuestInv
<1>3. PICK k : Walked(guest, app, k) /\ off = Pos(guest, app, k) /\ count = k
  BY <1>1, <1>2 DEF WalkInv
<1>4. Walked(guest, app, k + 1) /\ NextOff(guest, app) = Pos(guest, app, k + 1)
  BY <1>1, <1>2, <1>3, WalkStep
<1>5. AppInv'
  BY <1>1, <1>2, AppKept
<1>6. WalkInv'
  <2>1. Walked(guest', app', k + 1) /\ off' = Pos(guest', app', k + 1) /\ count' = k + 1
    BY <1>1, <1>3, <1>4, Zenon
  <2> QED
    BY <1>1, <2>1 DEF WalkInv
<1>7. SizeInv'
  BY <1>1, <1>2, SizeKept
<1>8. CountInv' /\ WireInv'
  BY <1>1, <1>2 DEF CountInv, WireInv
<1> QED
  BY <1>1, <1>2, <1>5, <1>6, <1>7, <1>8 DEF GuestInv

LEMMA CountEndGuest ==
  ASSUME GuestInv, CountEnd PROVE GuestInv'
<1>1. /\ phase = "count" /\ ~HasNext(guest, app)
      /\ guest' = guest /\ host' = host /\ app' = app /\ count' = count /\ size' = size
      /\ Malformed(guest, app) => phase' = "refused" /\ fatal' = TRUE /\ wire' = wire
      /\ ~Malformed(guest, app) => phase' = "encode" /\ off' = 0 /\ wire' = <<>> /\ fatal' = fatal
  BY Zenon DEF CountEnd
<1>2. AppInv /\ WalkInv /\ SizeInv /\ CountInv /\ WireInv /\ fatal \in BOOLEAN
  BY DEF GuestInv
<1>3. PICK k : Walked(guest, app, k) /\ off = Pos(guest, app, k) /\ count = k
  BY <1>1, <1>2 DEF WalkInv
<1>4. /\ Malformed(guest, app) => Bad(guest, app, k)
      /\ ~Malformed(guest, app) => Good(guest, app, k)
  BY <1>1, <1>2, <1>3, WalkStep
<1>5. AppInv'
  BY <1>1, <1>2, AppKept
<1>6. SizeInv'
  BY <1>1, <1>2, SizeKept
<1>7. CASE Malformed(guest, app)
  <2>1. wire' = <<"none">> /\ Bad(guest', app', k) /\ phase' = "refused" /\ fatal' = TRUE
    <3>1. wire = <<"none">>
      BY <1>1, <1>2 DEF WireInv
    <3> QED
      BY <1>1, <1>4, <1>7, <3>1, Zenon
  <2>2. WalkInv' /\ CountInv'
    BY <2>1 DEF WalkInv, CountInv
  <2>3. WireInv'
    BY <2>1 DEF WireInv
  <2> QED
    BY <1>5, <1>6, <2>1, <2>2, <2>3 DEF GuestInv
<1>8. CASE ~Malformed(guest, app)
  <2>1. /\ phase' = "encode" /\ off' = 0 /\ wire' = <<>> /\ fatal' = fatal
        /\ Good(guest', app', count')
    BY <1>1, <1>3, <1>4, <1>8, Zenon
  <2>2. WalkInv'
    <3>1. Walked(guest, app, 0) /\ Pos(guest, app, 0) = 0 /\ Prefix(app, 0) = <<>>
      BY <1>2, WalkStarts
    <3>2. Walked(guest', app', 0) /\ off' = Pos(guest', app', 0) /\ wire' = Prefix(app', 0)
      BY <1>1, <2>1, <3>1, Zenon
    <3> QED
      BY <2>1, <3>2 DEF WalkInv
  <2>3. CountInv' /\ WireInv'
    BY <2>1 DEF CountInv, WireInv
  <2> QED
    BY <1>2, <1>5, <1>6, <2>1, <2>2, <2>3 DEF GuestInv
<1> QED
  BY <1>7, <1>8

LEMMA EncodeRecordGuest ==
  ASSUME GuestInv, EncodeRecord PROVE GuestInv'
<1>1. /\ phase = "encode" /\ HasNext(guest, app)
      /\ wire' = Append(wire, TagAt(app, off)) /\ off' = NextOff(guest, app)
      /\ guest' = guest /\ host' = host /\ app' = app /\ phase' = phase /\ size' = size
      /\ count' = count /\ fatal' = fatal
  BY DEF EncodeRecord
<1>2. AppInv /\ WalkInv /\ SizeInv /\ CountInv /\ WireInv /\ fatal \in BOOLEAN
  BY DEF GuestInv
<1>3. PICK k : Walked(guest, app, k) /\ off = Pos(guest, app, k) /\ wire = Prefix(app, k)
  BY <1>1, <1>2 DEF WalkInv
<1>4. /\ Walked(guest, app, k + 1) /\ NextOff(guest, app) = Pos(guest, app, k + 1)
      /\ Prefix(app, k + 1) = Append(Prefix(app, k), TagAt(app, off))
  BY <1>1, <1>2, <1>3, WalkStep
<1>5. AppInv'
  BY <1>1, <1>2, AppKept
<1>6. WalkInv'
  <2>1. Walked(guest', app', k + 1) /\ off' = Pos(guest', app', k + 1) /\ wire' = Prefix(app', k + 1)
    BY <1>1, <1>3, <1>4, Zenon
  <2> QED
    BY <1>1, <2>1 DEF WalkInv
<1>7. SizeInv'
  BY <1>1, <1>2, SizeKept
<1>8. CountInv'
  <2>1. Good(guest', app', count')
    BY <1>1, <1>2, Zenon DEF CountInv
  <2> QED
    BY <1>1, <2>1 DEF CountInv
<1>9. WireInv'
  BY <1>1 DEF WireInv
<1> QED
  BY <1>1, <1>2, <1>5, <1>6, <1>7, <1>8, <1>9 DEF GuestInv

LEMMA EncodeEndGuest ==
  ASSUME GuestInv, EncodeEnd PROVE GuestInv'
<1>1. /\ phase = "encode" /\ ~HasNext(guest, app) /\ phase' = "allocate"
      /\ guest' = guest /\ host' = host /\ app' = app /\ size' = size
      /\ count' = count /\ fatal' = fatal /\ wire' = wire
  BY DEF EncodeEnd
<1>2. AppInv /\ WalkInv /\ SizeInv /\ CountInv /\ WireInv /\ fatal \in BOOLEAN
  BY DEF GuestInv
<1>3. PICK k : Walked(guest, app, k) /\ off = Pos(guest, app, k) /\ wire = Prefix(app, k)
  BY <1>1, <1>2 DEF WalkInv
<1>4. Good(guest, app, k) \/ Bad(guest, app, k)
  BY <1>1, <1>2, <1>3, WalkStep
<1>5. k = count
  <2>1. Good(guest, app, count) /\ Len(app.types) \in Nat
    BY <1>1, <1>2, AppFacts DEF CountInv, AppInv
  <2> QED
    BY <1>4, <2>1, OneEnd
<1>6. AppInv'
  BY <1>1, <1>2, AppKept
<1>7. SizeInv'
  BY <1>1, <1>2, SizeKept
<1>8. Good(guest', app', count') /\ wire' = Prefix(app', count')
  BY <1>1, <1>2, <1>3, <1>5, Zenon DEF CountInv
<1>9. CountInv' /\ WireInv'
  BY <1>1, <1>8 DEF CountInv, WireInv, Whole
<1>10. WalkInv'
  BY <1>1 DEF WalkInv
<1> QED
  BY <1>1, <1>2, <1>6, <1>7, <1>9, <1>10 DEF GuestInv

\* The host sends nothing back.
LEMMA HostStepGuest ==
  ASSUME GuestInv, AllocateStream \/ DecodeRecord \/ DecodeEnd \/ ReplaceRecord \/ ReplaceEnd
  PROVE  GuestInv'
<1>1. /\ phase \in {"allocate", "decode", "replace"}
      /\ phase' \in {"decode", "replace", "done", "refused"}
      /\ guest' = guest /\ host' = host /\ app' = app /\ size' = size /\ wire' = wire
      /\ fatal' \in {fatal, TRUE}
  BY DEF AllocateStream, DecodeRecord, DecodeEnd, ReplaceRecord, ReplaceEnd
<1>2. AppInv /\ SizeInv /\ WireInv /\ fatal \in BOOLEAN
  BY DEF GuestInv
<1>3. AppInv'
  BY <1>1, <1>2, AppKept
<1>4. SizeInv'
  BY <1>1, <1>2, SizeKept
<1>5. WalkInv' /\ CountInv'
  BY <1>1 DEF WalkInv, CountInv
<1>6. Whole'
  <2>1. PICK k : Good(guest, app, k) /\ wire = Prefix(app, k)
    BY <1>1, <1>2 DEF WireInv, Whole
  <2>2. Good(guest', app', k) /\ wire' = Prefix(app', k)
    BY <1>1, <2>1, Zenon
  <2> QED
    BY <2>2 DEF Whole
<1>7. WireInv'
  <2>1. phase' \notin {"size", "count"} /\ phase' # "allocate"
    BY <1>1
  <2> QED
    BY <1>6, <2>1, Zenon DEF WireInv
<1> QED
  BY <1>1, <1>2, <1>3, <1>4, <1>5, <1>7 DEF GuestInv

LEMMA StutterGuest ==
  ASSUME GuestInv, UNCHANGED vars PROVE GuestInv'
<1>1. /\ phase' = phase /\ off' = off /\ count' = count
      /\ guest' = guest /\ host' = host /\ app' = app /\ size' = size /\ wire' = wire
      /\ fatal' = fatal
  BY DEF vars
<1> QED
  BY <1>1, Zenon DEF GuestInv, AppInv, WalkInv, SizeInv, CountInv, WireInv, Whole

LEMMA NextGuest ==
  ASSUME GuestInv, [Next]_vars PROVE GuestInv'
BY SizeRecordGuest, SizeEndGuest, CountRecordGuest, CountEndGuest, EncodeRecordGuest,
   EncodeEndGuest, HostStepGuest, StutterGuest, Zenon DEF Next

---------------------------------------------------------------------------
(* The host lays the records it decodes out as its own ABI has them.       *)

\* Where the payload of record j is.
Pay(h, w, j) == Layout(h, w[j], Starts(h, w)[j - 1]).payload
RootsOf(h, w, k) == {Pay(h, w, j) : j \in {i \in 1 .. k : w[i] = Root}}

\* The first k records are where they belong.
Laid(h, w, tag, r, k) ==
  /\ \A j \in 1 .. k : /\ Starts(h, w)[j - 1] \in DOMAIN tag
                       /\ tag[Starts(h, w)[j - 1]] = w[j]
  /\ DOMAIN r = RootsOf(h, w, k)

Replaced(h, w, r, k) == \A j \in 1 .. k : w[j] = Root => r[Pay(h, w, j)] = "object"

DecodeInv ==
  phase = "decode" =>
    \E k \in 0 .. Len(wire) :
      /\ count = Len(wire) - k
      /\ off = Starts(host, wire)[k]
      /\ Laid(host, wire, stream.tag, roots, k)

ReplaceInv ==
  phase = "replace" =>
    /\ stream.base = "aligned" /\ stream.size = Starts(host, wire)[Len(wire)]
    /\ Laid(host, wire, stream.tag, roots, Len(wire))
    /\ \E k \in 0 .. Len(wire) : off = Starts(host, wire)[k] /\ Replaced(host, wire, roots, k)

DoneInv ==
  phase = "done" =>
    /\ stream.size = Starts(host, wire)[Len(wire)]
    /\ Laid(host, wire, stream.tag, roots, Len(wire))
    /\ Replaced(host, wire, roots, Len(wire))

FreshInv ==
  phase \in {"size", "count", "encode", "allocate"} => stream.size = 0 /\ roots = <<>>

\* A stream is a record, a root signature an id or an object.
StreamInv ==
  /\ stream = [base |-> stream.base, size |-> stream.size, tag |-> stream.tag]
  /\ \A p \in DOMAIN roots : roots[p] \in {"id", "object"}

HostInv == StreamInv /\ FreshInv /\ DecodeInv /\ ReplaceInv /\ DoneInv

LEMMA WireFacts ==
  ASSUME GuestInv, phase \in {"allocate", "decode", "replace", "done"}
  PROVE  wire \in Seq(Type) /\ Len(wire) \in Nat /\ DOMAIN wire = 1 .. Len(wire) /\ host \in Abi
         /\ (phase = "allocate" => Len(wire) = count)
<1>1. AppInv /\ WireInv /\ CountInv
  BY DEF GuestInv
<1>2. guest \in Abi /\ host \in Abi /\ Typed(app) /\ IsApp(guest, app)
  BY <1>1 DEF AppInv
<1>3. PICK k : Good(guest, app, k) /\ wire = Prefix(app, k)
  BY <1>1 DEF WireInv, Whole
<1>4. wire \in Seq(Type)
  <2>1. Walked(guest, app, k)
    BY <1>3, Zenon DEF Good
  <2>2. Prefix(app, k) \in Seq(Type)
    BY <1>2, <2>1, PrefixFacts
  <2> QED
    BY <1>3, <2>2
<1>5. phase = "allocate" => Len(wire) = count
  <2> SUFFICES ASSUME phase = "allocate" PROVE Len(wire) = count
    OBVIOUS
  <2>1. wire = Prefix(app, count) /\ Good(guest, app, count)
    BY <1>1 DEF WireInv, CountInv
  <2>2. Walked(guest, app, count)
    BY <2>1, Zenon DEF Good
  <2>3. Len(Prefix(app, count)) = count
    BY <1>2, <2>2, PrefixFacts
  <2> QED
    BY <2>1, <2>3
<1> QED
  BY <1>2, <1>4, <1>5, LenProperties

\* Record k + 1 of the host's.
HostRecord(h, w, k) ==
  LET t == w[k + 1]  at == Starts(h, w)[k]
  IN /\ k + 1 \in 1 .. Len(w) /\ t \in Type
     /\ at \in Nat /\ Starts(h, w)[k + 1] \in Nat
     /\ Layout(h, t, at).next = Starts(h, w)[k + 1]
     /\ Layout(h, t, at).end <= Starts(h, w)[k + 1] /\ Layout(h, t, at).end \in Nat
     /\ at + TagSize <= Layout(h, t, at).end
     /\ Pay(h, w, k + 1) = Layout(h, t, at).payload
     /\ at < Pay(h, w, k + 1) /\ Pay(h, w, k + 1) < Starts(h, w)[k + 1]
     /\ Pay(h, w, k + 1) \in Nat

LEMMA HostRecords ==
  ASSUME NEW h \in Abi, NEW w \in Seq(Type), NEW k \in 0 .. Len(w), k # Len(w)
  PROVE  HostRecord(h, w, k)
<1> DEFINE S == Starts(h, w)
           j == k + 1
           t == w[j]
           C == CRecord(h, t)
<1>1. Len(w) \in Nat /\ Begins(S, h, w)
  BY StartsBegin
<1>2. j \in 1 .. Len(w) /\ j - 1 = k /\ t \in Type
  BY <1>1
<1> HIDE DEF S
<1>3. /\ S[k] \in Nat /\ S[k] % h.ptr = 0 /\ S[j] \in Nat
      /\ S[j] = S[k] + CSize(h, t)
  <2>1. j \in 0 .. Len(w)
    BY <1>1, <1>2
  <2> HIDE DEF j
  <2> QED
    BY <1>1, <1>2, <2>1 DEF Begins
<1>4. CSize(h, t) = C.size
  BY <1>2 DEF CSize
<1>5. /\ Layout(h, t, S[k]).end = S[k] + C.end
      /\ Layout(h, t, S[k]).next = S[k] + C.size
      /\ S[k] < Layout(h, t, S[k]).payload
      /\ Layout(h, t, S[k]).payload < S[k] + C.size
      /\ C.end \in Nat /\ C.size \in Nat /\ TagSize < C.end /\ C.end <= C.size
  <2> HIDE DEF t
  <2> QED
    BY <1>2, <1>3, RecordFacts
<1>6. Layout(h, t, S[k]).payload \in Nat
  <2> HIDE DEF t
  <2> QED
    BY <1>2, <1>3, LayoutFacts
<1>7. Pay(h, w, j) = Layout(h, t, S[k]).payload
  BY <1>2, Zenon DEF Pay, S
<1> HIDE DEF t, j, C
<1>8. /\ Layout(h, t, S[k]).next = S[j] /\ Layout(h, t, S[k]).end \in Nat
      /\ Layout(h, t, S[k]).end <= S[j]
      /\ S[k] + TagSize <= Layout(h, t, S[k]).end
  BY <1>3, <1>4, <1>5 DEF TagSize
<1>9. S[k] < Pay(h, w, j) /\ Pay(h, w, j) < S[j] /\ Pay(h, w, j) \in Nat
  BY <1>3, <1>4, <1>5, <1>6, <1>7
<1> QED
  BY <1>2, <1>3, <1>7, <1>8, <1>9, Zenon DEF HostRecord, S, t, j

\* No two payloads are in one place.
LEMMA PaysDiffer ==
  ASSUME NEW h \in Abi, NEW w \in Seq(Type), NEW i \in 1 .. Len(w), NEW j \in 1 .. Len(w),
         Pay(h, w, i) = Pay(h, w, j)
  PROVE  i = j
<1> DEFINE S == Starts(h, w)
           n == Len(w)
<1>1. n \in Nat /\ Begins(S, h, w)
  BY StartsBegin
<1>2. ASSUME NEW a \in 1 .. n
      PROVE  S[a - 1] < Pay(h, w, a) /\ Pay(h, w, a) < S[a] /\ Pay(h, w, a) \in Nat
             /\ S[a - 1] \in Nat /\ S[a] \in Nat
  <2> DEFINE b == a - 1
  <2>1. b \in 0 .. n /\ b # n /\ b + 1 = a
    BY <1>1
  <2> HIDE DEF b
  <2>2. HostRecord(h, w, b)
    BY <2>1, HostRecords
  <2>3. S[b] < Pay(h, w, b + 1) /\ Pay(h, w, b + 1) < S[b + 1] /\ Pay(h, w, b + 1) \in Nat
        /\ S[b] \in Nat /\ S[b + 1] \in Nat
    BY <2>2, Zenon DEF HostRecord
  <2> QED
    BY <2>1, <2>3 DEF b
<1> HIDE DEF S
<1>3. ASSUME NEW a \in 1 .. n, NEW b \in 1 .. n, a < b PROVE Pay(h, w, a) # Pay(h, w, b)
  <2>1. a \in 0 .. n /\ b - 1 \in 0 .. n
    BY <1>1
  <2>2. a = b - 1 \/ S[a] < S[b - 1]
    <3>1. a = b - 1 \/ a < b - 1
      BY <1>1, <1>3
    <3> QED
      BY <1>1, <2>1, <3>1 DEF Begins
  <2> HIDE DEF n
  <2>3. Pay(h, w, a) < S[a] /\ S[b - 1] < Pay(h, w, b)
        /\ Pay(h, w, a) \in Nat /\ Pay(h, w, b) \in Nat /\ S[a] \in Nat /\ S[b - 1] \in Nat
    BY <1>2
  <2>4. S[a] <= S[b - 1]
    BY <2>2, <2>3
  <2> QED
    BY <2>3, <2>4
<1> HIDE DEF n
<1>4. i \in 1 .. n /\ j \in 1 .. n
  BY DEF n
<1>5. ~(i < j) /\ ~(j < i)
  BY <1>3, <1>4
<1> QED
  BY <1>1, <1>4, <1>5

LEMMA RootsGrow ==
  ASSUME NEW h, NEW w, NEW k \in Nat
  PROVE  RootsOf(h, w, 0) = {} /\
         RootsOf(h, w, k + 1) = IF w[k + 1] = Root THEN RootsOf(h, w, k) \cup {Pay(h, w, k + 1)}
                                ELSE RootsOf(h, w, k)
<1>1. 1 .. 0 = {} /\ 1 .. k + 1 = (1 .. k) \cup {k + 1}
  OBVIOUS
<1> QED
  BY <1>1, Zenon DEF RootsOf

LEMMA RootsCounted ==
  ASSUME NEW h \in Abi, NEW w \in Seq(Type)
  PROVE  Cardinality(RootsOf(h, w, Len(w))) = Cardinality({k \in DOMAIN w : w[k] = Root})
<1> DEFINE K == {i \in 1 .. Len(w) : w[i] = Root}
           T == {Pay(h, w, j) : j \in K}
           f == [j \in K |-> Pay(h, w, j)]
<1>1. Len(w) \in Nat /\ DOMAIN w = 1 .. Len(w)
  BY LenProperties
<1>2. IsFiniteSet(K)
  <2>1. IsFiniteSet(1 .. Len(w)) /\ K \subseteq 1 .. Len(w)
    BY <1>1, FS_Interval
  <2> HIDE DEF K
  <2> QED
    BY <2>1, FS_Subset
<1>3. \A a, b \in K : Pay(h, w, a) = Pay(h, w, b) => a = b
  BY PaysDiffer
<1> HIDE DEF K
<1>4. f \in Bijection(K, T)
  <2>1. f \in [K -> T]
    OBVIOUS
  <2>2. \A a, b \in K : f[a] = f[b] => a = b
    BY <1>3
  <2>3. \A t \in T : \E a \in K : f[a] = t
    OBVIOUS
  <2> HIDE DEF f, T
  <2> QED
    BY <2>1, <2>2, <2>3, Fun_IsBij
<1>5. Cardinality(T) = Cardinality(K)
  <2> HIDE DEF T, f
  <2>1. ExistsBijection(K, T)
    BY <1>4, Zenon DEF ExistsBijection
  <2> QED
    BY <1>2, <2>1, FS_Bijection
<1>6. RootsOf(h, w, Len(w)) = T
  BY DEF RootsOf, K
<1>7. {k \in DOMAIN w : w[k] = Root} = K
  BY <1>1 DEF K
<1> QED
  BY <1>5, <1>6, <1>7, Zenon

LEMMA InitHost ==
  ASSUME Init PROVE HostInv
<1>1. phase = "size" /\ stream = [base |-> "null", size |-> 0, tag |-> <<>>] /\ roots = <<>>
  BY Zenon DEF Init
<1>2. stream.size = 0 /\ stream = [base |-> stream.base, size |-> stream.size, tag |-> stream.tag]
  BY <1>1
<1>3. DOMAIN roots = {}
  BY <1>1
<1> QED
  BY <1>1, <1>2, <1>3 DEF HostInv, StreamInv, FreshInv, DecodeInv, ReplaceInv, DoneInv

\* While the guest walks, the host has nothing.
LEMMA GuestStepHost ==
  ASSUME HostInv, SizeRecord \/ SizeEnd \/ CountRecord \/ CountEnd \/ EncodeRecord \/ EncodeEnd
  PROVE  HostInv'
<1>1. /\ phase \in {"size", "count", "encode"}
      /\ phase' \in {"size", "count", "encode", "allocate", "refused"}
      /\ stream' = stream /\ roots' = roots
  BY DEF SizeRecord, SizeEnd, CountRecord, CountEnd, EncodeRecord, EncodeEnd
<1>2. StreamInv /\ FreshInv
  BY DEF HostInv
<1>3. StreamInv'
  BY <1>1, <1>2, Zenon DEF StreamInv
<1>4. FreshInv'
  BY <1>1, <1>2 DEF FreshInv
<1> QED
  BY <1>1, <1>3, <1>4 DEF HostInv, DecodeInv, ReplaceInv, DoneInv

LEMMA AllocateHost ==
  ASSUME GuestInv, HostInv, AllocateStream PROVE HostInv'
<1>1. /\ phase = "allocate" /\ off' = 0 /\ count' = count /\ host' = host /\ wire' = wire
      /\ stream' = stream /\ roots' = roots
      /\ phase' \in {"done", "decode", "refused"} /\ (phase' = "done" => count = 0)
  BY DEF AllocateStream
<1>2. /\ wire \in Seq(Type) /\ Len(wire) = count /\ host \in Abi /\ count \in Nat
  BY <1>1, WireFacts
<1>3. StreamInv /\ stream.size = 0 /\ roots = <<>>
  BY <1>1 DEF HostInv, FreshInv
<1>4. Begins(Starts(host, wire), host, wire)
  BY <1>2, StartsBegin
<1>5. Starts(host, wire)[0] = 0
  BY <1>4, Zenon DEF Begins
<1>6. Laid(host, wire, stream.tag, roots, 0) /\ Replaced(host, wire, roots, 0)
  <2>1. 1 .. 0 = {} /\ DOMAIN roots = {} /\ 0 \in Nat
    BY <1>3
  <2>2. RootsOf(host, wire, 0) = {}
    BY <2>1, RootsGrow, Zenon
  <2> QED
    BY <2>1, <2>2, Zenon DEF Laid, Replaced
<1>7. StreamInv'
  BY <1>1, <1>3, Zenon DEF StreamInv
<1>8. DecodeInv'
  <2>1. 0 \in 0 .. Len(wire) /\ count = Len(wire) - 0
    BY <1>2
  <2>2. /\ 0 \in 0 .. Len(wire') /\ count' = Len(wire') - 0
        /\ off' = Starts(host', wire')[0]
        /\ Laid(host', wire', stream'.tag, roots', 0)
    BY <1>1, <1>5, <1>6, <2>1, Zenon
  <2> QED
    BY <2>2 DEF DecodeInv
<1>9. DoneInv'
  <2> SUFFICES ASSUME phase' = "done" PROVE DoneInv'
    BY DEF DoneInv
  <2>1. Len(wire) = 0
    BY <1>1, <1>2
  <2>2. /\ stream'.size = Starts(host', wire')[Len(wire')]
        /\ Laid(host', wire', stream'.tag, roots', Len(wire'))
        /\ Replaced(host', wire', roots', Len(wire'))
    BY <1>1, <1>3, <1>5, <1>6, <2>1, Zenon
  <2> QED
    BY <2>2, Zenon DEF DoneInv
<1> QED
  BY <1>1, <1>7, <1>8, <1>9 DEF HostInv, FreshInv, ReplaceInv

\* A decoded record goes where the host's layout has it.
LEMMA DecodeRecordHost ==
  ASSUME GuestInv, HostInv, DecodeRecord PROVE HostInv'
<1>1. /\ phase = "decode" /\ count > 0 /\ count' = count - 1 /\ host' = host /\ wire' = wire
  BY DEF DecodeRecord
<1>2. /\ wire \in Seq(Type) /\ Len(wire) \in Nat /\ DOMAIN wire = 1 .. Len(wire) /\ host \in Abi
  BY <1>1, WireFacts
<1>3. StreamInv
  BY DEF HostInv
<1>4. PICK k \in 0 .. Len(wire) :
        /\ count = Len(wire) - k
        /\ off = Starts(host, wire)[k]
        /\ Laid(host, wire, stream.tag, roots, k)
  BY <1>1 DEF HostInv, DecodeInv
<1>5. /\ k # Len(wire) /\ k \in Nat /\ k + 1 \in 1 .. Len(wire) /\ k + 1 \in 0 .. Len(wire)
      /\ count' = Len(wire) - (k + 1) /\ Arrived = k
  <2> DEFINE n == Len(wire)
  <2>1. n \in Nat /\ k \in 0 .. n /\ count = n - k /\ count > 0 /\ count' = count - 1
    BY <1>1, <1>2, <1>4
  <2>2. Arrived = n - count
    BY DEF Arrived
  <2> HIDE DEF n
  <2>3. /\ k # n /\ k \in Nat /\ k + 1 \in 1 .. n /\ k + 1 \in 0 .. n
        /\ count' = n - (k + 1) /\ Arrived = k
    BY <2>1, <2>2
  <2> QED
    BY <2>3 DEF n
<1>6. HostRecord(host, wire, k)
  BY <1>2, <1>4, <1>5, HostRecords
<1> DEFINE S == Starts(host, wire)
           t == wire[k + 1]
           rec == Layout(host, t, S[k])
<1>7. NextType = t /\ t \in Type
  BY <1>2, <1>5, <1>6, Zenon DEF NextType, HostRecord
<1>8. /\ stream' = [stream EXCEPT !.tag = [at \in DOMAIN @ \cup {off} |->
                                            IF at = off THEN t ELSE @[at]]]
      /\ roots' = IF t = Root
                  THEN [at \in DOMAIN roots \cup {rec.payload} |->
                          IF at = rec.payload THEN "id" ELSE roots[at]]
                  ELSE roots
      /\ off' = rec.next /\ phase' = phase
  BY <1>4, <1>7, Zenon DEF DecodeRecord
<1> DEFINE tag == [at \in DOMAIN stream.tag \cup {off} |-> IF at = off THEN t ELSE stream.tag[at]]
<1>9. stream' = [base |-> stream.base, size |-> stream.size, tag |-> tag]
  <2>1. stream = [base |-> stream.base, size |-> stream.size, tag |-> stream.tag]
    BY <1>3 DEF StreamInv
  <2>2. stream' = [stream EXCEPT !.tag = tag]
    BY <1>8
  <2> HIDE DEF tag
  <2> QED
    BY <2>1, <2>2
<1>10. stream'.tag = tag /\ stream'.base = stream.base /\ stream'.size = stream.size
  <2> HIDE DEF tag
  <2> QED
    BY <1>9
<1>11. off' = S[k + 1] /\ Pay(host, wire, k + 1) = rec.payload
  BY <1>6, <1>8, Zenon DEF HostRecord
<1>12. \A j \in 1 .. k + 1 : S[j - 1] \in DOMAIN tag /\ tag[S[j - 1]] = wire[j]
  <2>1. Begins(S, host, wire)
    BY <1>2, StartsBegin
  <2>2. \A j \in 1 .. k : S[j - 1] \in DOMAIN stream.tag /\ stream.tag[S[j - 1]] = wire[j]
    BY <1>4, Zenon DEF Laid
  <2>3. off = S[k]
    BY <1>4
  <2> HIDE DEF S, t
  <2>4. ASSUME NEW j \in 1 .. k PROVE S[j - 1] \in DOMAIN tag /\ tag[S[j - 1]] = wire[j]
    <3>1. j - 1 \in 0 .. Len(wire) /\ k \in 0 .. Len(wire) /\ j - 1 < k
      <4> DEFINE n == Len(wire)
      <4>1. n \in Nat /\ k \in 0 .. n
        BY <1>2
      <4> HIDE DEF n
      <4>2. j - 1 \in 0 .. n /\ j - 1 < k
        BY <4>1
      <4> QED
        BY <4>1, <4>2 DEF n
    <3>2. S[j - 1] < S[k] /\ S[j - 1] \in Nat /\ S[k] \in Nat
      BY <2>1, <3>1 DEF Begins
    <3>3. S[j - 1] # off
      BY <2>3, <3>2
    <3> QED
      BY <2>2, <3>3
  <2>5. (k + 1) - 1 = k /\ S[k] \in DOMAIN tag /\ tag[S[k]] = wire[k + 1]
    BY <1>5, <2>3 DEF t
  <2> HIDE DEF tag
  <2>6. \A j \in 1 .. k + 1 : j = k + 1 \/ j \in 1 .. k
    BY <1>5
  <2> QED
    BY <2>4, <2>5, <2>6
<1>13. DOMAIN roots' = RootsOf(host, wire, k + 1)
  <2>1. DOMAIN roots = RootsOf(host, wire, k)
    BY <1>4, Zenon DEF Laid
  <2>2. RootsOf(host, wire, k + 1) = IF t = Root THEN RootsOf(host, wire, k) \cup {Pay(host, wire, k + 1)}
                                     ELSE RootsOf(host, wire, k)
    BY <1>5, RootsGrow
  <2> HIDE DEF t, rec
  <2>3. CASE t = Root
    BY <1>8, <1>11, <2>1, <2>2, <2>3
  <2>4. CASE t # Root
    BY <1>8, <2>1, <2>2, <2>4
  <2> QED
    BY <2>3, <2>4
<1>14. \A p \in DOMAIN roots' : roots'[p] \in {"id", "object"}
  <2>1. \A p \in DOMAIN roots : roots[p] \in {"id", "object"}
    BY <1>3 DEF StreamInv
  <2> HIDE DEF t, rec
  <2>2. CASE t = Root
    BY <1>8, <2>1, <2>2
  <2>3. CASE t # Root
    BY <1>8, <2>1, <2>3
  <2> QED
    BY <2>2, <2>3
<1>15. StreamInv'
  <2> HIDE DEF tag
  <2> QED
    BY <1>9, <1>10, <1>14 DEF StreamInv
<1>16. DecodeInv'
  <2>1. Laid(host, wire, tag, roots', k + 1)
    BY <1>12, <1>13, Zenon DEF Laid
  <2>2. /\ k + 1 \in 0 .. Len(wire') /\ count' = Len(wire') - (k + 1)
        /\ off' = Starts(host', wire')[k + 1]
        /\ Laid(host', wire', stream'.tag, roots', k + 1)
    <3> HIDE DEF tag
    <3> QED
      BY <1>1, <1>5, <1>10, <1>11, <2>1, Zenon
  <2> HIDE DEF tag, S, t, rec
  <2>3. \E i \in 0 .. Len(wire') :
          /\ count' = Len(wire') - i
          /\ off' = Starts(host', wire')[i]
          /\ Laid(host', wire', stream'.tag, roots', i)
    BY <2>2, Zenon
  <2> QED
    BY <2>3, Zenon DEF DecodeInv
<1>17. phase' = "decode"
  BY <1>1, <1>8
<1> QED
  BY <1>15, <1>16, <1>17 DEF HostInv, FreshInv, ReplaceInv, DoneInv

LEMMA DecodeEndHost ==
  ASSUME GuestInv, HostInv, DecodeEnd PROVE HostInv'
<1>1. /\ phase = "decode" /\ count = 0 /\ host' = host /\ wire' = wire /\ roots' = roots
      /\ stream' = [stream EXCEPT !.base = "aligned", !.size = off]
      /\ phase' = "replace" /\ off' = 0
  BY DEF DecodeEnd
<1>2. /\ wire \in Seq(Type) /\ Len(wire) \in Nat /\ host \in Abi
  BY <1>1, WireFacts
<1>3. StreamInv
  BY DEF HostInv
<1>4. PICK k \in 0 .. Len(wire) :
        /\ count = Len(wire) - k
        /\ off = Starts(host, wire)[k]
        /\ Laid(host, wire, stream.tag, roots, k)
  BY <1>1 DEF HostInv, DecodeInv
<1>5. k = Len(wire)
  BY <1>1, <1>2, <1>4
<1>6. stream' = [base |-> "aligned", size |-> off, tag |-> stream.tag]
  BY <1>1, <1>3 DEF StreamInv
<1>7. stream'.base = "aligned" /\ stream'.size = off /\ stream'.tag = stream.tag
  BY <1>6
<1>8. StreamInv'
  BY <1>1, <1>3, <1>6, <1>7, Zenon DEF StreamInv
<1>9. Starts(host, wire)[0] = 0
  <2>1. Begins(Starts(host, wire), host, wire)
    BY <1>2, StartsBegin
  <2> QED
    BY <2>1, Zenon DEF Begins
<1>10. Replaced(host, wire, roots, 0)
  <2>1. 1 .. 0 = {}
    OBVIOUS
  <2> QED
    BY <2>1, Zenon DEF Replaced
<1>11. ReplaceInv'
  <2>1. /\ stream'.base = "aligned" /\ stream'.size = Starts(host', wire')[Len(wire')]
        /\ Laid(host', wire', stream'.tag, roots', Len(wire'))
        /\ off' = Starts(host', wire')[0] /\ Replaced(host', wire', roots', 0)
    BY <1>1, <1>4, <1>5, <1>7, <1>9, <1>10, Zenon
  <2>2. 0 \in 0 .. Len(wire')
    BY <1>1, <1>2
  <2> QED
    BY <2>1, <2>2, Zenon DEF ReplaceInv
<1> QED
  BY <1>1, <1>8, <1>11 DEF HostInv, FreshInv, DecodeInv, DoneInv

\* npt_pss_next finds each record the host laid out, and their end.
LEMMA HostFinds ==
  ASSUME NEW h \in Abi, NEW w \in Seq(Type), NEW s, NEW r, NEW k \in 0 .. Len(w),
         s.base = "aligned", s.size = Starts(h, w)[Len(w)], Laid(h, w, s.tag, r, Len(w)),
         off = Starts(h, w)[k]
  PROVE  /\ HasNext(h, s) <=> k # Len(w)
         /\ k # Len(w) => TagAt(s, off) = w[k + 1] /\ NextOff(h, s) = Starts(h, w)[k + 1]
<1> DEFINE S == Starts(h, w)
           n == Len(w)
           t == w[k + 1]
<1>1. n \in Nat /\ Begins(S, h, w)
  BY StartsBegin
<1>2. CASE k = n
  <2>1. S[n] \in Nat
    <3>1. n \in 0 .. n
      BY <1>1
    <3> HIDE DEF S
    <3> QED
      BY <1>1, <3>1 DEF Begins
  <2>2. off >= s.size
    <3> HIDE DEF S, n
    <3> QED
      BY <1>2, <2>1 DEF S, n
  <2>3. ~HasNext(h, s)
    BY <2>2, Zenon DEF HasNext, AtEnd
  <2> QED
    BY <1>2, <2>3
<1>3. CASE k # n
  <2>1. HostRecord(h, w, k)
    BY <1>3, HostRecords
  <2>2. /\ k + 1 \in 1 .. n /\ t \in Type /\ S[k] \in Nat /\ S[k + 1] \in Nat
        /\ Layout(h, t, S[k]).next = S[k + 1]
        /\ Layout(h, t, S[k]).end <= S[k + 1] /\ Layout(h, t, S[k]).end \in Nat
        /\ S[k] + TagSize <= Layout(h, t, S[k]).end
    BY <2>1, Zenon DEF HostRecord
  <2>3. TagAt(s, S[k]) = t
    <3>1. S[(k + 1) - 1] \in DOMAIN s.tag /\ s.tag[S[(k + 1) - 1]] = t
      BY <2>2, Zenon DEF Laid
    <3>2. (k + 1) - 1 = k
      BY <1>1
    <3> QED
      BY <3>1, <3>2, Zenon DEF TagAt
  <2> HIDE DEF S, t
  <2>4. S[k + 1] <= S[n] /\ S[n] \in Nat /\ S[k] < S[n]
    <3>1. k + 1 \in 0 .. n /\ n \in 0 .. n /\ (k + 1 = n \/ k + 1 < n) /\ k < n
      BY <1>1, <1>3, <2>2
    <3>2. \A i, j \in 0 .. n : i < j => S[i] < S[j]
      BY <1>1, Zenon DEF Begins
    <3>3. S[n] \in Nat
      BY <1>1, <3>1 DEF Begins
    <3>4. S[k] < S[n] /\ (k + 1 = n \/ S[k + 1] < S[n])
      BY <3>1, <3>2
    <3> HIDE DEF n
    <3> QED
      BY <2>2, <3>3, <3>4
  <2>5. s.size = S[n] /\ off = S[k]
    BY DEF S
  <2> HIDE DEF n
  <2>6. ~(off >= s.size)
    BY <2>2, <2>4, <2>5
  <2>7. off + TagSize <= s.size /\ Layout(h, t, off).end <= s.size
    BY <2>2, <2>4, <2>5 DEF TagSize
  <2>8. TagAt(s, off) = t /\ Layout(h, t, off).next = S[k + 1]
    BY <2>2, <2>3, <2>5
  <2>9. HasNext(h, s)
    <3>1. s.base # "null"
      OBVIOUS
    <3> QED
      BY <2>2, <2>6, <2>7, <2>8, <3>1, Zenon DEF HasNext, AtEnd, Fits
  <2>10. NextOff(h, s) = S[k + 1]
    BY <2>8, Zenon DEF NextOff
  <2> QED
    BY <1>3, <2>8, <2>9, <2>10 DEF S, t, n
<1> QED
  BY <1>2, <1>3 DEF n

LEMMA ReplaceRecordHost ==
  ASSUME GuestInv, HostInv, ReplaceRecord PROVE HostInv'
<1>1. /\ phase = "replace" /\ HasNext(host, stream)
      /\ host' = host /\ wire' = wire /\ stream' = stream /\ phase' = phase
      /\ off' = NextOff(host, stream)
      /\ roots' = IF TagAt(stream, off) = Root
                  THEN [roots EXCEPT ![Layout(host, TagAt(stream, off), off).payload] = "object"]
                  ELSE roots
  BY Zenon DEF ReplaceRecord
<1>2. wire \in Seq(Type) /\ Len(wire) \in Nat /\ host \in Abi
  BY <1>1, WireFacts
<1>3. StreamInv
  BY DEF HostInv
<1>4. /\ stream.base = "aligned" /\ stream.size = Starts(host, wire)[Len(wire)]
      /\ Laid(host, wire, stream.tag, roots, Len(wire))
  BY <1>1 DEF HostInv, ReplaceInv
<1>5. PICK k \in 0 .. Len(wire) : off = Starts(host, wire)[k] /\ Replaced(host, wire, roots, k)
  BY <1>1 DEF HostInv, ReplaceInv
<1>6. k # Len(wire) /\ TagAt(stream, off) = wire[k + 1] /\ off' = Starts(host, wire)[k + 1]
  <2>1. /\ HasNext(host, stream) <=> k # Len(wire)
        /\ k # Len(wire) => /\ TagAt(stream, off) = wire[k + 1]
                            /\ NextOff(host, stream) = Starts(host, wire)[k + 1]
    BY <1>2, <1>4, <1>5, HostFinds
  <2> QED
    BY <1>1, <2>1, Zenon
<1>7. HostRecord(host, wire, k)
  BY <1>2, <1>6, HostRecords
<1> DEFINE at == Pay(host, wire, k + 1)
<1>8. k + 1 \in 1 .. Len(wire) /\ Layout(host, wire[k + 1], off).payload = at
  BY <1>5, <1>7, Zenon DEF HostRecord
<1>9. roots' = IF wire[k + 1] = Root THEN [roots EXCEPT ![at] = "object"] ELSE roots
  BY <1>1, <1>6, <1>8, Zenon
<1>10. k \in Nat /\ k + 1 \in 0 .. Len(wire) /\ \A j \in 1 .. k + 1 : j = k + 1 \/ j \in 1 .. k
  <2> DEFINE n == Len(wire)
  <2>1. n \in Nat /\ k \in 0 .. n /\ k + 1 \in 1 .. n
    BY <1>2, <1>8
  <2> HIDE DEF n
  <2> QED
    BY <2>1 DEF n
<1>11. DOMAIN roots = RootsOf(host, wire, Len(wire))
  BY <1>4, Zenon DEF Laid
<1>12. \A j \in 1 .. Len(wire) : wire[j] = Root => Pay(host, wire, j) \in DOMAIN roots
  BY <1>11, Zenon DEF RootsOf
<1> HIDE DEF at
<1>13. /\ DOMAIN roots' = DOMAIN roots
       /\ \A p \in DOMAIN roots : roots'[p] \in {roots[p], "object"}
       /\ wire[k + 1] = Root => roots'[at] = "object"
  <2>1. CASE wire[k + 1] = Root
    <3>1. at \in DOMAIN roots
      BY <1>8, <1>12, <2>1 DEF at
    <3> QED
      BY <1>9, <2>1, <3>1
  <2>2. CASE wire[k + 1] # Root
    BY <1>9, <2>2
  <2> QED
    BY <2>1, <2>2
<1>14. Laid(host, wire, stream.tag, roots', Len(wire))
  BY <1>4, <1>13, Zenon DEF Laid
<1>15. Replaced(host, wire, roots', k + 1)
  <2> SUFFICES ASSUME NEW j \in 1 .. k + 1, wire[j] = Root
               PROVE  roots'[Pay(host, wire, j)] = "object"
    BY Zenon DEF Replaced
  <2>1. CASE j = k + 1
    <3>1. wire[k + 1] = Root
      BY <2>1
    <3>2. roots'[at] = "object"
      BY <1>13, <3>1
    <3>3. at = Pay(host, wire, j)
      BY <2>1 DEF at
    <3> QED
      BY <3>2, <3>3
  <2>2. CASE j \in 1 .. k
    <3>1. roots[Pay(host, wire, j)] = "object"
      BY <1>5, <2>2, Zenon DEF Replaced
    <3>2. j \in 1 .. Len(wire)
      <4> DEFINE n == Len(wire)
      <4>1. n \in Nat /\ k \in 0 .. n /\ j \in 1 .. k
        BY <1>2, <2>2
      <4> HIDE DEF n
      <4>2. j \in 1 .. n
        BY <4>1
      <4> QED
        BY <4>2 DEF n
    <3>3. Pay(host, wire, j) \in DOMAIN roots
      BY <1>12, <3>2
    <3> QED
      BY <1>13, <3>1, <3>3
  <2> QED
    BY <1>10, <2>1, <2>2
<1>16. ReplaceInv'
  <2>1. /\ stream'.base = "aligned" /\ stream'.size = Starts(host', wire')[Len(wire')]
        /\ Laid(host', wire', stream'.tag, roots', Len(wire'))
        /\ off' = Starts(host', wire')[k + 1] /\ Replaced(host', wire', roots', k + 1)
        /\ k + 1 \in 0 .. Len(wire')
    BY <1>1, <1>4, <1>6, <1>10, <1>14, <1>15, Zenon
  <2>2. \E i \in 0 .. Len(wire') : off' = Starts(host', wire')[i] /\ Replaced(host', wire', roots', i)
    BY <2>1, Zenon
  <2> QED
    BY <2>1, <2>2, Zenon DEF ReplaceInv
<1>17. StreamInv'
  <2>1. \A p \in DOMAIN roots' : roots'[p] \in {"id", "object"}
    BY <1>3, <1>13 DEF StreamInv
  <2>2. stream' = [base |-> stream'.base, size |-> stream'.size, tag |-> stream'.tag]
    BY <1>1, <1>3, Zenon DEF StreamInv
  <2> QED
    BY <2>1, <2>2, Zenon DEF StreamInv
<1> QED
  BY <1>1, <1>16, <1>17 DEF HostInv, FreshInv, DecodeInv, DoneInv

LEMMA ReplaceEndHost ==
  ASSUME GuestInv, HostInv, ReplaceEnd PROVE HostInv'
<1>1. /\ phase = "replace" /\ ~HasNext(host, stream) /\ phase' = "done"
      /\ host' = host /\ wire' = wire /\ stream' = stream /\ roots' = roots
  BY DEF ReplaceEnd
<1>2. wire \in Seq(Type) /\ Len(wire) \in Nat /\ host \in Abi
  BY <1>1, WireFacts
<1>3. StreamInv
  BY DEF HostInv
<1>4. /\ stream.base = "aligned" /\ stream.size = Starts(host, wire)[Len(wire)]
      /\ Laid(host, wire, stream.tag, roots, Len(wire))
  BY <1>1 DEF HostInv, ReplaceInv
<1>5. PICK k \in 0 .. Len(wire) : off = Starts(host, wire)[k] /\ Replaced(host, wire, roots, k)
  BY <1>1 DEF HostInv, ReplaceInv
<1>6. k = Len(wire)
  <2>1. HasNext(host, stream) <=> k # Len(wire)
    BY <1>2, <1>4, <1>5, HostFinds
  <2> QED
    BY <1>1, <2>1
<1>7. DoneInv'
  <2>1. /\ stream'.size = Starts(host', wire')[Len(wire')]
        /\ Laid(host', wire', stream'.tag, roots', Len(wire'))
        /\ Replaced(host', wire', roots', Len(wire'))
    BY <1>1, <1>4, <1>5, <1>6, Zenon
  <2> QED
    BY <2>1, Zenon DEF DoneInv
<1>8. StreamInv'
  BY <1>1, <1>3, Zenon DEF StreamInv
<1> QED
  BY <1>1, <1>7, <1>8 DEF HostInv, FreshInv, DecodeInv, ReplaceInv

LEMMA StutterHost ==
  ASSUME HostInv, UNCHANGED vars PROVE HostInv'
<1>1. /\ phase' = phase /\ off' = off /\ count' = count /\ host' = host /\ wire' = wire
      /\ stream' = stream /\ roots' = roots
  BY DEF vars
<1> QED
  BY <1>1, Zenon DEF HostInv, StreamInv, FreshInv, DecodeInv, ReplaceInv, DoneInv

LEMMA NextHost ==
  ASSUME GuestInv, HostInv, [Next]_vars PROVE HostInv'
BY GuestStepHost, AllocateHost, DecodeRecordHost, DecodeEndHost, ReplaceRecordHost,
   ReplaceEndHost, StutterHost, Zenon DEF Next

---------------------------------------------------------------------------
(* While it decodes, the host stands at a record's start, with room ahead  *)
(* for as many largest records as it has still to decode.                  *)
IInv ==
  /\ guest \in Abi /\ host \in Abi
  /\ off \in Nat /\ count \in Nat /\ room \in Nat
  /\ phase = "decode" =>
       /\ off % host.ptr = 0
       /\ off + count * MaxRecordSize(host) <= room

LEMMA NextOffType ==
  ASSUME NEW abi \in Abi, NEW s, off \in Nat, HasNext(abi, s)
  PROVE  NextOff(abi, s) \in Nat
<1>1. TagAt(s, off) \in Type
  BY DEF HasNext, Fits
<1> QED
  BY <1>1, LayoutFacts DEF NextOff

LEMMA InitEstablishes ==
  ASSUME Init PROVE IInv
BY DEF Init, IInv, CountSize

LEMMA DecodeKeeps ==
  ASSUME IInv, DecodeRecord PROVE IInv'
<1> DEFINE max == MaxRecordSize(host)
<1>1. /\ guest' = guest /\ host' = host /\ room' = room
      /\ count' = count - 1 /\ count > 0 /\ phase = "decode"
  BY DEF DecodeRecord
<1>2. count' \in Nat /\ host \in Abi /\ off \in Nat
  BY <1>1 DEF IInv
<1>3. CASE NextType \notin Type
  BY <1>1, <1>2, <1>3 DEF IInv, DecodeRecord
<1>4. CASE NextType \in Type
  <2>1. off' = Layout(host, NextType, off).next /\ phase' = phase
    BY <1>4 DEF DecodeRecord
  <2>2. off % host.ptr = 0 /\ off + count * max <= room
    BY <1>1 DEF IInv
  <2>3. /\ off' \in Nat
        /\ off' % host.ptr = 0
        /\ off' = off + RecordSize(host, NextType)
    BY <1>2, <1>4, <2>1, <2>2, LayoutFacts
  <2>4. max \in Nat /\ RecordSize(host, NextType) <= max
    BY <1>2, <1>4, MaxRecordSizeBounds
  <2>5. RecordSize(host, NextType) \in Nat
    BY <1>2, <1>4, LayoutFacts DEF RecordSize
  <2> HIDE DEF max
  <2>6. count * max = count' * max + max
    <3>1. count \in Nat /\ count = count' + 1
      BY <1>1 DEF IInv
    <3> QED
      BY <1>2, <2>4, <3>1, Products
  <2>7. count' * max \in Nat
    BY <1>2, <2>4, Products
  <2>8. off' + count' * max <= room
    <3>1. room \in Nat
      BY DEF IInv
    <3> QED
      BY <1>2, <2>2, <2>3, <2>4, <2>5, <2>6, <2>7, <3>1
  <2>9. max = MaxRecordSize(host)'
    BY <1>1 DEF max, MaxRecordSize, RecordSize, Layout
  <2> QED
    BY <1>1, <1>2, <2>1, <2>3, <2>8, <2>9 DEF IInv
<1> QED
  BY <1>3, <1>4

LEMMA NextKeeps ==
  ASSUME IInv, [Next]_vars PROVE IInv'
<1>1. ASSUME SizeRecord \/ CountRecord \/ EncodeRecord PROVE IInv'
  <2>1. /\ guest' = guest /\ host' = host /\ room' = room /\ phase' = phase
        /\ off' = NextOff(guest, app) /\ HasNext(guest, app)
        /\ count' \in {count, count + 1} /\ phase # "decode"
    BY <1>1 DEF SizeRecord, CountRecord, EncodeRecord
  <2>2. off' \in Nat
    BY <2>1, NextOffType DEF IInv
  <2> QED
    BY <2>1, <2>2 DEF IInv
<1>2. ASSUME SizeEnd \/ CountEnd \/ EncodeEnd \/ DecodeEnd PROVE IInv'
  <2>1. /\ guest' = guest /\ host' = host /\ room' = room /\ count' = count
        /\ phase' # "decode" /\ off' \in {off, 0}
    BY <1>2 DEF SizeEnd, CountEnd, EncodeEnd, DecodeEnd
  <2> QED
    BY <2>1 DEF IInv
<1>3. ASSUME AllocateStream PROVE IInv'
  <2>1. guest' = guest /\ host' = host /\ count' = count /\ off' = 0
    BY <1>3 DEF AllocateStream
  <2>2. host \in Abi /\ count \in Nat /\ MaxRecordSize(host) \in Nat
    BY MaxRecordSizeBounds DEF IInv
  <2>3. CASE phase' = "decode"
    <3>1. room' = count * MaxRecordSize(host)
      BY <1>3, <2>3 DEF AllocateStream, RoomFor
    <3>2. 0 % host.ptr = 0
      <4>1. host.ptr \in {4, 8}
        BY <2>2, AbisAreSound
      <4> QED
        BY <4>1
    <3>3. MaxRecordSize(host)' = MaxRecordSize(host)
      BY <2>1 DEF MaxRecordSize, RecordSize, Layout
    <3>4. count * MaxRecordSize(host) \in Nat
      BY <2>2
    <3>5. 0 + count * MaxRecordSize(host) <= room'
      BY <3>1, <3>4
    <3> QED
      BY <2>1, <2>2, <3>1, <3>2, <3>3, <3>4, <3>5 DEF IInv
  <2>4. CASE phase' # "decode"
    <3>1. room' = room
      BY <1>3, <2>4 DEF AllocateStream
    <3> QED
      BY <2>1, <2>4, <3>1 DEF IInv
  <2> QED
    BY <2>3, <2>4
<1>4. ASSUME ReplaceRecord PROVE IInv'
  <2>1. /\ guest' = guest /\ host' = host /\ room' = room /\ phase' = phase
        /\ off' = NextOff(host, stream) /\ HasNext(host, stream)
        /\ count' = count /\ phase # "decode"
    BY <1>4 DEF ReplaceRecord
  <2>2. off' \in Nat
    BY <2>1, NextOffType DEF IInv
  <2> QED
    BY <2>1, <2>2 DEF IInv
<1>5. ASSUME ReplaceEnd \/ UNCHANGED vars PROVE IInv'
  <2>1. CASE ReplaceEnd
    BY <2>1 DEF ReplaceEnd, IInv
  <2>2. CASE UNCHANGED vars
    <3>1. MaxRecordSize(host)' = MaxRecordSize(host)
      BY <2>2 DEF vars, MaxRecordSize, RecordSize, Layout
    <3> QED
      BY <2>2, <3>1 DEF vars, IInv
  <2> QED
    BY <1>5, <2>1, <2>2
<1> QED
  BY <1>1, <1>2, <1>3, <1>4, <1>5, DecodeKeeps DEF Next

(* The decoder never writes past its block, for all streams, ABIs and      *)
(* record types whose payloads are aligned like an int or a pointer.       *)
THEOREM DecoderStaysInBlock == Spec => []DecoderInBounds
<1>1. Init => IInv
  BY InitEstablishes
<1>2. IInv /\ [Next]_vars => IInv'
  BY NextKeeps
<1>3. IInv => DecoderInBounds
  <2> SUFFICES ASSUME IInv, phase = "decode" PROVE off <= room
    BY DEF DecoderInBounds
  <2>1. host \in Abi /\ off \in Nat /\ count \in Nat /\ room \in Nat
    BY DEF IInv
  <2>2. MaxRecordSize(host) \in Nat
    BY <2>1, MaxRecordSizeBounds
  <2>3. count * MaxRecordSize(host) \in Nat
    BY <2>1, <2>2
  <2> QED
    BY <2>1, <2>3 DEF IInv
<1> QED
  BY <1>1, <1>2, <1>3, PTL DEF Spec

(* The types of the variables. *)
LEMMA TypesHold ==
  ASSUME IInv, GuestInv, HostInv PROVE TypeOK
<1>1. off \in Nat /\ count \in Nat /\ room \in Nat
  BY DEF IInv
<1>2. guest \in Abi /\ host \in Abi /\ Typed(app) /\ IsApp(guest, app)
  BY DEF GuestInv, AppInv
<1>3. \A at \in DOMAIN roots : roots[at] \in {"id", "object"}
  BY DEF HostInv, StreamInv
<1>4. size \in Nat
  <2>1. (\E k : Walked(guest, app, k) /\ size = Sent(app, k)) \/ size = 0
    <3>1. CASE phase = "size"
      BY <3>1, Zenon DEF GuestInv, WalkInv
    <3>2. CASE phase # "size"
      BY <3>2, Zenon DEF GuestInv, SizeInv, Good
    <3> QED
      BY <3>1, <3>2
  <2>2. \A k : Walked(guest, app, k) => Sent(app, k) \in Nat
    BY <1>2, PrefixFacts
  <2> QED
    BY <2>1, <2>2
<1>5. wire = <<"none">> \/ wire \in Seq(Type)
  <2>1. wire = <<"none">> \/ \E k : Walked(guest, app, k) /\ wire = Prefix(app, k)
    BY Zenon DEF GuestInv, WalkInv, WireInv, Whole, Good
  <2>2. \A k : Walked(guest, app, k) => Prefix(app, k) \in Seq(Type)
    BY <1>2, PrefixFacts
  <2> QED
    BY <2>1, <2>2, Zenon
<1> QED
  BY <1>1, <1>2, <1>3, <1>4, <1>5, Zenon DEF GuestInv, TypeOK

LEMMA InvHolds == Spec => [](IInv /\ GuestInv /\ HostInv)
<1>1. Init => IInv /\ GuestInv /\ HostInv
  BY InitEstablishes, InitGuest, InitHost
<1>2. IInv /\ GuestInv /\ HostInv /\ [Next]_vars => (IInv /\ GuestInv /\ HostInv)'
  BY NextKeeps, NextGuest, NextHost
<1> QED
  BY <1>1, <1>2, PTL DEF Spec

LEMMA SentAsMeantHolds ==
  ASSUME IInv, GuestInv, HostInv PROVE SentAsMeant
<1>1. TypeOK
  BY TypesHold
<1>2. guest \in Abi /\ Typed(app) /\ IsApp(guest, app) /\ SizeInv /\ WireInv
  BY DEF GuestInv, AppInv
<1>3. Len(app.types) \in Nat
  BY <1>2, AppFacts
<1>4. ASSUME phase \in {"allocate", "decode", "replace", "done"}
      PROVE  Means(wire) /\ size = CountSize + SentBytes(wire)[Len(wire)]
  <2>1. PICK k : Good(guest, app, k) /\ wire = Prefix(app, k)
    BY <1>2, <1>4 DEF WireInv, Whole
  <2>2. Means(wire)
    <3>1. Means(SubSeq(app.types, 1, k))
      BY <1>2, <2>1, GoodMeans
    <3> QED
      BY <2>1, <3>1, Zenon DEF Prefix
  <2>3. Len(wire) = k
    <3>1. Walked(guest, app, k)
      BY <2>1, Zenon DEF Good
    <3>2. Len(Prefix(app, k)) = k
      BY <1>2, <3>1, PrefixFacts
    <3> QED
      BY <2>1, <3>2
  <2>4. size = Sent(app, k)
    <3>1. PICK j : (Good(guest, app, j) /\ size = Sent(app, j)) \/ Bad(guest, app, j)
      BY <1>2, <1>4 DEF SizeInv
    <3>2. k = j /\ Good(guest, app, j)
      BY <1>3, <2>1, <3>1, OneEnd, Zenon
    <3>3. ~Bad(guest, app, j)
      BY <3>2, Zenon DEF Good, Bad
    <3> QED
      BY <3>1, <3>2, <3>3
  <2>5. size = CountSize + SentBytes(wire)[Len(wire)]
    BY <2>1, <2>3, <2>4, Zenon DEF Sent
  <2> QED
    BY <2>2, <2>5
<1>5. ASSUME phase = "refused", wire = <<"none">>
      PROVE  size = 0 /\ ~\E k \in 0 .. Len(app.types) : Means(SubSeq(app.types, 1, k))
  <2>1. ~Whole
    <3> SUFFICES ASSUME NEW k, Good(guest, app, k), wire = Prefix(app, k) PROVE FALSE
      BY Zenon DEF Whole
    <3>1. Walked(guest, app, k)
      BY Zenon DEF Good
    <3>2. <<"none">> \in Seq(Type)
      <4>1. Prefix(app, k) \in Seq(Type)
        BY <1>2, <3>1, PrefixFacts
      <4> QED
        BY <1>5, <4>1, Zenon
    <3>3. <<"none">>[1] \in Type
      BY <3>2
    <3> QED
      BY <3>3, NamesType
  <2>2. PICK k : Bad(guest, app, k)
    BY <1>2, <1>5, <2>1 DEF WireInv
  <2>3. ~\E m \in 0 .. Len(app.types) : Means(SubSeq(app.types, 1, m))
    BY <1>2, <2>2, BadMeansNothing
  <2>4. size = 0
    <3> SUFFICES ASSUME NEW j, Good(guest, app, j) PROVE FALSE
      BY <1>2, <1>5 DEF SizeInv
    <3>1. j = k /\ Good(guest, app, k)
      BY <1>3, <2>2, OneEnd, Zenon
    <3> QED
      BY <2>2, <3>1, Zenon DEF Good, Bad
  <2> QED
    BY <2>3, <2>4
<1> QED
  BY <1>1, <1>4, <1>5 DEF SentAsMeant

LEMMA StreamArrivesHolds ==
  ASSUME GuestInv, HostInv PROVE StreamArrives
<1> SUFFICES ASSUME phase = "done" PROVE StreamArrives
  BY Zenon DEF StreamArrives
<1> DEFINE at == Starts(host, wire)
<1>1. wire \in Seq(Type) /\ DOMAIN wire = 1 .. Len(wire) /\ host \in Abi
  BY WireFacts
<1>2. /\ stream.size = at[Len(wire)]
      /\ Laid(host, wire, stream.tag, roots, Len(wire)) /\ Replaced(host, wire, roots, Len(wire))
  BY DEF HostInv, DoneInv
<1>3. \A k \in DOMAIN wire : TagAt(stream, at[k - 1]) = wire[k]
  BY <1>1, <1>2, Zenon DEF Laid, TagAt
<1>4. DOMAIN roots = RootsOf(host, wire, Len(wire))
  BY <1>2, Zenon DEF Laid
<1>5. \A p \in DOMAIN roots : roots[p] = "object"
  BY <1>2, <1>4, Zenon DEF RootsOf, Replaced
<1>6. Cardinality(DOMAIN roots) = Cardinality({k \in DOMAIN wire : wire[k] = Root})
  BY <1>1, <1>4, RootsCounted
<1> QED
  BY <1>2, <1>3, <1>5, <1>6, Zenon DEF StreamArrives

(* The guest sends the records the documented layout has in the            *)
(* application's bytes, in the room it counted, and refuses, sized 0, any   *)
(* stream that has no such reading, whatever the types, sizes and ABI.     *)
THEOREM EncoderReadsTheLayout == Spec => []SentAsMeant
<1>1. IInv /\ GuestInv /\ HostInv => SentAsMeant
  BY SentAsMeantHolds
<1> QED
  BY <1>1, InvHolds, PTL

(* What the host gives to Direct3D is laid out by its own ABI, records and *)
(* root signatures of the application's, all of them objects by then.      *)
THEOREM HostLaysOutTheSame == Spec => []StreamArrives
<1>1. GuestInv /\ HostInv => StreamArrives
  BY StreamArrivesHolds
<1> QED
  BY <1>1, InvHolds, PTL

=============================================================================
