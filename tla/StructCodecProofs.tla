-------------------------- MODULE StructCodecProofs --------------------------
(***************************************************************************)
(* Theorems about StructCodec, for all structs and values.                 *)
(*                                                                         *)
(* Sent[k] is what the live ones of the first k fields put into the        *)
(* stream.  The invariant IInv says that the encoder has written Sent up   *)
(* to its field, that the decoder stands behind Sent up to its field, and  *)
(* that what it has stored for a live field is what was sent; the fields   *)
(* that conditions and counts name are among those, so the decoder finds   *)
(* the same fields live.  The sizes are sums over fields (Inductions).     *)
(***************************************************************************)
EXTENDS StructCodec, Inductions

-----------------------------------------------------------------------------
(* The inductive invariant *)

Live(k) == Holds(val, k)

Parts == [k \in 1 .. Len(struct) |-> IF Live(k) THEN Encoded(val, k) ELSE <<>>]

Sent[k \in 0 .. Len(struct)] ==
  IF k = 0 THEN <<>> ELSE Cat(Sent[k - 1], Parts[k])

Passed(k) == step \in {"check", "done"} \/ (step = "decode" /\ k < i)

StepInv ==
  /\ step \in {"idle", "size", "encode", "decode", "check", "done"}
  /\ fatal = FALSE

IdleInv ==
  step = "idle" => struct = <<>> /\ i = 1 /\ at = 1 /\ out = <<>> /\ cnt = <<>> /\ has = <<>>

CallInv ==
  step # "idle" =>
    /\ struct \in Structs /\ val \in Values(struct) /\ i \in 1 .. Len(struct)
    /\ out \in [Cells(struct) -> Contents]
    /\ cnt \in [Fields -> 0 .. MaxCount] /\ has \in [Fields -> {-1, 0, 1}]

SizeInv ==
  IF step \in {"idle", "size"} THEN size = 0 /\ reserved = 0
  ELSE size = Bytes(Sent[Len(struct)]) /\ reserved = MaxModeSize

StreamInv ==
  /\ step \in {"idle", "size"} => i = 1 /\ stream = <<>>
  /\ step = "encode" => stream = Sent[i - 1]
  /\ Written => stream = Sent[Len(struct)]

ReaderInv ==
  /\ step \in {"size", "encode"} => at = 1
  /\ step = "decode" => at = Len(Sent[i - 1]) + 1
  /\ step \in {"check", "done"} => at = Len(stream) + 1

StoredInv ==
  step # "idle" =>
    \A k \in Fields : Live(k) /\ Passed(k) => At(out, k) = At(val, k)

(* What the decoder notes of an array: its length, and whether it arrived. *)
Noted(k) ==
  IF F(k).kind = "array" /\ Live(k) /\ Passed(k)
  THEN IF At(val, k) = Null THEN has[k] = 0
       ELSE has[k] = 1 /\ cnt[k] = CountExpr(val, k)
  ELSE has[k] = -1

ArraysInv == step # "idle" => \A k \in Fields : Noted(k)

IInv == StepInv /\ IdleInv /\ CallInv /\ SizeInv /\ StreamInv /\ ReaderInv /\ StoredInv /\ ArraysInv

-----------------------------------------------------------------------------
(* Tokens and their sizes *)

Token == [is : {"count", "uint", "color"}, v : 0 .. (MaxCount + 1)]

LEMMA TokenSizes ==
  ASSUME NEW t
  PROVE  /\ t.is = "count" => TokenSize(t) = 8
         /\ t.is = "color" => TokenSize(t) = 16
         /\ t.is = "uint" => TokenSize(t) = 4
<1>1. CASE t.is = "count"
  BY <1>1, Zenon DEF TokenSize, Word
<1>2. CASE t.is = "color"
  BY <1>2, Zenon DEF TokenSize, Word
<1>3. CASE t.is = "uint"
  <2>1. t.is # "count" /\ t.is # "color"
    BY <1>3
  <2> QED
    BY <1>3, <2>1, Zenon DEF TokenSize, Word
<1> QED
  BY <1>1, <1>2, <1>3

LEMMA TokenSizeType ==
  ASSUME NEW t \in Token
  PROVE  TokenSize(t) \in Nat
<1>1. t.is \in {"count", "uint", "color"}
  BY DEF Token
<1>2. TokenSize(t) \in {4, 8, 16}
  BY <1>1, TokenSizes
<1> QED
  BY <1>2

TokenSizesOf(ts) == [k \in 1 .. Len(ts) |-> TokenSize(ts[k])]

(* Bytes adds up the sizes of the tokens. *)
LEMMA BytesTotal ==
  ASSUME NEW ts \in Seq(Token)
  PROVE  IsTotal(Bytes(ts), TokenSizesOf(ts), Len(ts))
<1> DEFINE n == Len(ts)
           w == TokenSizesOf(ts)
           Fold(it) == it = [x \in SUBSET DOMAIN ts |->
                          IF x = {} THEN 0
                          ELSE it[x \ {Max(x)}] + TokenSize(ts[Max(x)])]
<1>1. n \in Nat /\ DOMAIN ts = 1 .. n /\ \A k \in 1 .. n : w[k] = TokenSize(ts[k]) /\ w[k] \in Nat
  BY TokenSizeType, LenProperties DEF TokenSizesOf
<1> Numbers(w, n)
  BY <1>1 DEF Numbers
<1>2. \A it : Fold(it) <=> Sums(it, n, w)
  <2> TAKE it
  <2>1. ASSUME NEW x \in SUBSET (1 .. n), x # {} PROVE w[Max(x)] = TokenSize(ts[Max(x)])
    <3>1. Max(x) \in x
      BY <1>1, <2>1, MaxOfSubset
    <3> QED
      BY <1>1, <3>1
  <2>2. [x \in SUBSET DOMAIN ts |->
           IF x = {} THEN 0 ELSE it[x \ {Max(x)}] + TokenSize(ts[Max(x)])]
        = [x \in SUBSET (1 .. n) |->
           IF x = {} THEN 0 ELSE it[x \ {Max(x)}] + w[Max(x)]]
    BY <1>1, <2>1
  <2> QED
    BY <2>2 DEF Sums
<1>3. Bytes(ts) = (CHOOSE it : Fold(it))[DOMAIN ts]
  BY DEF Bytes, FoldLeft, MapThenFoldSet
<1>4. \E it : Sums(it, n, w)
  BY <1>1, FoldExists
<1>5. Sums(CHOOSE it : Fold(it), n, w)
  <2> HIDE DEF Fold, n, w
  <2> QED
    BY <1>2, <1>4
<1> DEFINE its == CHOOSE it : Fold(it)
<1>6. IsTotal(its[1 .. n], w, n)
  <2> HIDE DEF its, w, n
  <2> QED
    BY <1>1, <1>5, FoldTotal DEF its
<1> QED
  BY <1>1, <1>3, <1>6

LEMMA BytesNone == Bytes(<<>>) = 0
<1>1. <<>> \in Seq(Token) /\ Len(<<>>) = 0
  OBVIOUS
<1>2. IsTotal(Bytes(<<>>), TokenSizesOf(<<>>), 0)
  BY <1>1, BytesTotal
<1> QED
  BY <1>2, TotalNone

LEMMA BytesOne ==
  ASSUME NEW t \in Token
  PROVE  <<t>> \in Seq(Token) /\ Len(<<t>>) = 1 /\ Bytes(<<t>>) = TokenSize(t)
<1>1. <<t>> \in Seq(Token) /\ Len(<<t>>) = 1 /\ <<t>>[1] = t
  OBVIOUS
<1>2. IsTotal(Bytes(<<t>>), TokenSizesOf(<<t>>), 1)
  BY <1>1, BytesTotal
<1>3. TokenSizesOf(<<t>>)[1] = TokenSize(t)
  BY <1>1 DEF TokenSizesOf
<1>4. Bytes(<<t>>) = TokenSizesOf(<<t>>)[1]
  BY <1>2, TotalOne, Zenon
<1> QED
  BY <1>1, <1>3, <1>4, Zenon

LEMMA BytesJoin ==
  ASSUME NEW s \in Seq(Token), NEW t \in Seq(Token)
  PROVE  Bytes(s) \in Nat /\ Bytes(t) \in Nat /\ Bytes(Cat(s, t)) = Bytes(s) + Bytes(t)
<1> DEFINE c == Cat(s, t)
<1>1. c \in Seq(Token) /\ Joins(c, s, t)
  BY CatProperties
<1> HIDE DEF c
<1>2. Len(s) \in Nat /\ Len(t) \in Nat /\ Len(c) = Len(s) + Len(t)
  BY <1>1 DEF Joins
<1>3. /\ IsTotal(Bytes(s), TokenSizesOf(s), Len(s)) /\ IsTotal(Bytes(t), TokenSizesOf(t), Len(t))
      /\ IsTotal(Bytes(c), TokenSizesOf(c), Len(s) + Len(t))
  BY <1>1, <1>2, BytesTotal
<1>4. \A k \in 1 .. Len(s) : TokenSizesOf(c)[k] = TokenSizesOf(s)[k]
  <2> TAKE k \in 1 .. Len(s)
  <2>1. k \in 1 .. Len(c)
    BY <1>2
  <2>2. c[k] = s[k]
    BY <1>1 DEF Joins
  <2> QED
    BY <2>1, <2>2, Zenon DEF TokenSizesOf
<1>5. \A k \in 1 .. Len(t) : TokenSizesOf(c)[Len(s) + k] = TokenSizesOf(t)[k]
  <2> TAKE k \in 1 .. Len(t)
  <2>1. Len(s) + k \in 1 .. Len(c)
    BY <1>2
  <2>2. c[Len(s) + k] = t[k]
    BY <1>1 DEF Joins
  <2> QED
    BY <2>1, <2>2, Zenon DEF TokenSizesOf
<1>6. Follows(TokenSizesOf(c), TokenSizesOf(s), Len(s), TokenSizesOf(t), Len(t))
  BY <1>4, <1>5, Zenon DEF Follows
<1>7. Bytes(s) \in Nat /\ Bytes(t) \in Nat /\ Bytes(c) = Bytes(s) + Bytes(t)
  BY <1>2, <1>3, <1>6, TotalJoin
<1> QED
  BY <1>7 DEF c

(* Words are four bytes each. *)
LEMMA WordsFacts ==
  ASSUME NEW s \in Seq(0 .. MaxCount)
  PROVE  /\ Len(s) \in Nat /\ Words(s) \in Seq(Token) /\ Len(Words(s)) = Len(s)
         /\ \A j \in 1 .. Len(s) : Words(s)[j] = [is |-> "uint", v |-> s[j]]
         /\ Bytes(Words(s)) = 4 * Len(s)
<1> DEFINE n == Len(s)
           ws == Words(s)
<1>1. n \in Nat /\ DOMAIN s = 1 .. n /\ \A j \in 1 .. n : s[j] \in 0 .. MaxCount
  BY LenProperties
<1>2. ws = [j \in 1 .. n |-> [is |-> "uint", v |-> s[j]]]
  BY <1>1 DEF Words, Word
<1>3. \A j \in 1 .. n : s[j] \in 0 .. (MaxCount + 1)
  BY <1>1, MaxCountType
<1>4. ws \in [1 .. n -> Token]
  BY <1>2, <1>3 DEF Token
<1> HIDE DEF ws
<1>5. ws \in Seq(Token) /\ Len(ws) = n
  BY <1>1, <1>4, FunctionIsSeq
<1>6. IsTotal(Bytes(ws), TokenSizesOf(ws), n)
  BY <1>5, BytesTotal
<1>7. \A j \in 1 .. n : TokenSizesOf(ws)[j] = 4
  <2> TAKE j \in 1 .. n
  <2>1. ws[j].is = "uint"
    BY <1>2
  <2> QED
    BY <1>5, <2>1, TokenSizes DEF TokenSizesOf
<1>8. PICK T \in [0 .. n -> Nat] :
        T[0] = 0 /\ (\A k \in 1 .. n : T[k] = T[k - 1] + TokenSizesOf(ws)[k]) /\ Bytes(ws) = T[n]
  BY <1>6 DEF IsTotal, Running
<1> DEFINE D == {k \in 0 .. n : T[k] = 4 * k}
<1>9. 0 .. n \subseteq D
  <2>1. 0 \in D
    BY <1>1, <1>8
  <2>2. ASSUME NEW k \in 1 .. n, k - 1 \in D PROVE k \in D
    <3>1. T[k] = T[k - 1] + 4
      BY <1>7, <1>8
    <3> QED
      BY <2>2, <3>1
  <2> HIDE DEF D
  <2> QED
    BY <1>1, <2>1, <2>2, UptoInduction
<1>10. n \in D
  BY <1>1, <1>9
<1> QED
  BY <1>1, <1>2, <1>5, <1>8, <1>10 DEF ws

-----------------------------------------------------------------------------
(* Structs and values *)

LEMMA StructFacts ==
  ASSUME struct \in Structs
  PROVE  /\ Len(struct) \in Nat \ {0} /\ Fields = 1 .. Len(struct)
         /\ \A k \in Fields : F(k) \in Field
         /\ WellFormed(struct)
<1>1. struct \in Seq(Field) /\ struct # <<>>
  BY StructsType DEF WellFormed
<1>2. Len(struct) \in Nat /\ DOMAIN struct = 1 .. Len(struct) /\ struct \in [1 .. Len(struct) -> Field]
  BY <1>1, LenProperties
<1>3. Len(struct) # 0
  BY <1>1, EmptySeq
<1> QED
  BY <1>2, <1>3, StructsType DEF Fields, F

LEMMA CellIn ==
  ASSUME struct \in Structs, NEW k \in Fields
  PROVE  /\ Cell(struct, k) \in Fields /\ Cell(struct, k) \in Cells(struct)
         /\ F(k).union = 0 => Cell(struct, k) = k
<1>1. CASE F(k).union = 0
  BY <1>1 DEF Cell, Cells, F, Fields
<1>2. CASE F(k).union # 0
  <2> DEFINE A == Arms(struct, struct[k].union)
  <2>1. A \subseteq Nat /\ A \subseteq Fields /\ k \in A
    BY StructFacts DEF Arms, Fields
  <2> HIDE DEF A
  <2>2. \E m \in A : \A l \in A : m <= l
    BY <2>1, LeastNatural
  <2>3. (CHOOSE m \in A : \A l \in A : m <= l) \in A
    BY <2>2
  <2>4. Cell(struct, k) \in A
    BY <1>2, <2>3 DEF Cell, F, A
  <2> QED
    BY <1>2, <2>1, <2>4 DEF Cells, Fields
<1> QED
  BY <1>1, <1>2

(* What a cell may hold, as a sequence. *)
LEMMA StoredFacts ==
  ASSUME NEW n \in 0 .. MaxCount
  PROVE  /\ <<n>> \in Stored /\ <<n>> # Null /\ <<n>> \in Seq(0 .. MaxCount)
         /\ [j \in 1 .. n |-> j] \in Stored /\ [j \in 1 .. n |-> j] # Null
         /\ [j \in 1 .. n |-> j] \in Seq(0 .. MaxCount) /\ Len([j \in 1 .. n |-> j]) = n
<1>1. <<n>> \in Stored /\ [j \in 1 .. n |-> j] \in Stored
  BY DEF Stored
<1>2. <<n>> # Null /\ [j \in 1 .. n |-> j] # Null
  BY <1>1, NullType
<1>3. n \in Nat /\ [j \in 1 .. n |-> j] \in [1 .. n -> 0 .. MaxCount]
  BY MaxCountType
<1>4. [j \in 1 .. n |-> j] \in Seq(0 .. MaxCount) /\ Len([j \in 1 .. n |-> j]) = n
  BY <1>3, FunctionIsSeq
<1> QED
  BY <1>1, <1>2, <1>4

LEMMA ContentsFacts ==
  ASSUME NEW c \in Contents, c # Null
  PROVE  c \in Seq(0 .. MaxCount)
<1>1. c \in Stored
  BY DEF Contents
<1>2. \E n \in 0 .. MaxCount : c = <<n>> \/ c = [j \in 1 .. n |-> j]
  BY <1>1 DEF Stored
<1> QED
  BY <1>2, StoredFacts

LEMMA ScalarFacts ==
  ASSUME NEW c \in Contents, Scalar(c)
  PROVE  c # Null /\ \E n \in 0 .. MaxCount : c = <<n>>
<1>1. c # Null /\ Len(c) = 1
  BY DEF Scalar
<1>2. c \in Seq(0 .. MaxCount)
  BY <1>1, ContentsFacts
<1>3. c \in [1 .. 1 -> 0 .. MaxCount]
  BY <1>1, <1>2, LenProperties
<1>4. c[1] \in 0 .. MaxCount /\ c = <<c[1]>>
  BY <1>3
<1> QED
  BY <1>1, <1>4

LEMMA ValueFacts ==
  ASSUME struct \in Structs, val \in Values(struct)
  PROVE  /\ \A c \in Cells(struct) : val[c] \in Contents
         /\ \A k \in Fields : Plain(struct, k) => \E n \in 0 .. MaxCount : val[k] = <<n>>
         /\ \A k \in Fields : Live(k) => Fits(struct, val, k)
<1>1. /\ val \in [Cells(struct) -> Contents]
      /\ \A k \in Fields : Plain(struct, k) => Scalar(val[k])
      /\ \A k \in Fields : HoldsIn(struct, val, struct[k].condition) => Fits(struct, val, k)
  BY DEF Values, Fields
<1>2. ASSUME NEW k \in Fields, Plain(struct, k) PROVE \E n \in 0 .. MaxCount : val[k] = <<n>>
  <2>1. F(k).union = 0
    BY <1>2 DEF Plain, F
  <2>2. k \in Cells(struct)
    BY <2>1, CellIn
  <2> QED
    BY <1>1, <1>2, <2>2, ScalarFacts
<1> QED
  BY <1>1, <1>2 DEF Live, Holds, F

(* Conditions by kind. *)
LEMMA HoldsCases ==
  ASSUME struct \in Structs, NEW v, NEW k \in Fields
  PROVE  /\ F(k).condition.is \in {"always", "never", "when"}
         /\ F(k).condition.is = "always" => Holds(v, k)
         /\ F(k).condition.is = "never" => ~Holds(v, k)
         /\ F(k).condition.is = "when" =>
              (Holds(v, k) <=> \A t \in F(k).condition.tests :
                                 \E x \in t.values : v[Cell(struct, t.field)] = <<x>>)
<1>1. F(k).condition \in Condition
  BY StructFacts DEF Field
<1>2. F(k).condition.is \in {"always", "never", "when"}
  BY <1>1 DEF Condition
<1> DEFINE c == F(k).condition
<1>3. CASE c.is = "always"
  BY <1>2, <1>3 DEF Holds, HoldsIn
<1>4. CASE c.is = "never"
  BY <1>2, <1>4 DEF Holds, HoldsIn
<1>5. CASE c.is = "when"
  BY <1>2, <1>5 DEF Holds, HoldsIn
<1> QED
  BY <1>2, <1>3, <1>4, <1>5

(* The plain fields that counts and conditions name. *)
LEMMA PlainFacts ==
  ASSUME struct \in Structs, NEW k \in Fields, Plain(struct, k)
  PROVE  Live(k) /\ Cell(struct, k) = k /\ F(k).kind = "uint"
<1>1. F(k).union = 0 /\ F(k).kind = "uint" /\ F(k).condition.is = "always"
  BY DEF Plain, F
<1> QED
  BY <1>1, CellIn, HoldsCases DEF Live

Scalars == {"uint", "bits", "color"}

LEMMA KindFacts ==
  ASSUME struct \in Structs, NEW k \in Fields
  PROVE  F(k).kind \in Scalars \/ F(k).kind = "pointer" \/ F(k).kind = "array"
  BY StructFacts DEF Field, Scalars

LEMMA CountFacts ==
  ASSUME struct \in Structs, val \in Values(struct), NEW k \in Fields, F(k).kind = "array"
  PROVE  /\ F(k).count \in Fields /\ Plain(struct, F(k).count)
         /\ CountExpr(val, k) \in 0 .. MaxCount
<1> DEFINE c == F(k).count
<1>1. c \in Fields /\ Plain(struct, c)
  BY StructFacts DEF WellFormed, F, Fields
<1>2. At(val, c) = val[c]
  BY <1>1, PlainFacts DEF At
<1>3. PICK n \in 0 .. MaxCount : val[c] = <<n>>
  BY <1>1, ValueFacts
<1>4. CountExpr(val, k) = n
  BY <1>2, <1>3 DEF CountExpr
<1> QED
  BY <1>1, <1>4

(* What a caller may have stored for a live field. *)
LEMMA LiveFacts ==
  ASSUME struct \in Structs, val \in Values(struct), NEW k \in Fields, Live(k)
  PROVE  /\ At(val, k) \in Contents
         /\ F(k).kind \in Scalars =>
              At(val, k) # Null /\ \E x \in 0 .. MaxCount : At(val, k) = <<x>>
         /\ F(k).kind = "pointer" =>
              \/ At(val, k) = Null /\ F(k).optional
              \/ At(val, k) # Null /\ At(val, k) = <<1>>
         /\ F(k).kind = "array" =>
              \/ At(val, k) = Null /\ (F(k).optional \/ CountExpr(val, k) = 0)
              \/ At(val, k) # Null /\ At(val, k) = [j \in 1 .. CountExpr(val, k) |-> j]
<1> DEFINE c == At(val, k)
<1>1. c \in Contents /\ Fits(struct, val, k)
  BY CellIn, ValueFacts DEF At
<1>2. CASE F(k).kind \in Scalars
  <2>1. Scalar(c)
    BY <1>1, <1>2 DEF Fits, At, F, Scalars
  <2>2. F(k).kind # "pointer" /\ F(k).kind # "array"
    BY <1>2 DEF Scalars
  <2> QED
    BY <1>1, <2>1, <2>2, ScalarFacts
<1>3. CASE F(k).kind = "pointer"
  <2>1. IF c = Null THEN F(k).optional ELSE c = <<1>>
    BY <1>1, <1>3 DEF Fits, At, F
  <2> QED
    BY <1>1, <1>3, <2>1 DEF Scalars
<1>4. CASE F(k).kind = "array"
  <2>1. LET n == val[Cell(struct, struct[k].count)][1]
        IN  IF c = Null THEN F(k).optional \/ n = 0 ELSE c = [j \in 1 .. n |-> j]
    BY <1>1, <1>4 DEF Fits, At, F
  <2>2. CountExpr(val, k) = val[Cell(struct, struct[k].count)][1]
    BY DEF CountExpr, At, F
  <2>3. IF c = Null THEN F(k).optional \/ CountExpr(val, k) = 0
        ELSE c = [j \in 1 .. CountExpr(val, k) |-> j]
    BY <2>1, <2>2
  <2> QED
    BY <1>1, <1>4, <2>3 DEF Scalars
<1> QED
  BY <1>2, <1>3, <1>4, KindFacts

-----------------------------------------------------------------------------
(* What a live field puts into the stream *)

Tag(k) == IF F(k).kind = "color" THEN "color" ELSE Word

WordOf(x) == [is |-> Word, v |-> x]

EncodesWords(e, head, s) ==
  /\ Len(e) = 1 + Len(s) /\ e[1] = head
  /\ \A j \in 1 .. Len(s) : e[1 + j] = WordOf(s[j])

Encoding(e, k) ==
  /\ e \in Seq(Token) /\ Len(e) \in Nat \ {0} /\ Bytes(e) = SizeofField(val, k)
  /\ F(k).kind \in Scalars => Len(e) = 1 /\ e[1] = [is |-> Tag(k), v |-> At(val, k)[1]]
  /\ F(k).kind \notin Scalars /\ At(val, k) = Null => Len(e) = 1 /\ e[1] = Count(0)
  /\ F(k).kind = "pointer" /\ At(val, k) # Null => EncodesWords(e, Count(1), At(val, k))
  /\ F(k).kind = "array" /\ At(val, k) # Null =>
       EncodesWords(e, Count(WireCount(CountExpr(val, k))), At(val, k))

LEMMA HeadThenWords ==
  ASSUME NEW t \in Token, NEW s \in Seq(0 .. MaxCount)
  PROVE  /\ <<t>> \o Words(s) \in Seq(Token) /\ EncodesWords(<<t>> \o Words(s), t, s)
         /\ Bytes(<<t>> \o Words(s)) = TokenSize(t) + 4 * Len(s)
<1> DEFINE ws == Words(s)
           h == <<t>>
           e == Cat(h, ws)
<1>1. /\ h \in Seq(Token) /\ Len(h) = 1 /\ Bytes(h) = TokenSize(t) /\ h[1] = t
      /\ ws \in Seq(Token) /\ Len(ws) = Len(s) /\ Bytes(ws) = 4 * Len(s)
      /\ \A j \in 1 .. Len(s) : ws[j] = WordOf(s[j])
  BY BytesOne, WordsFacts DEF WordOf, Word
<1> HIDE DEF h, ws
<1>2. e \in Seq(Token) /\ Joins(e, h, ws) /\ Bytes(e) = Bytes(h) + Bytes(ws)
  BY <1>1, CatProperties, BytesJoin
<1>3. EncodesWords(e, t, s)
  <2>1. 1 \in 1 .. Len(h)
    BY <1>1
  <2>2. e[1] = t
    BY <1>1, <1>2, <2>1 DEF Joins
  <2>3. \A j \in 1 .. Len(s) : e[1 + j] = WordOf(s[j])
    BY <1>1, <1>2 DEF Joins
  <2>4. Len(e) = 1 + Len(s)
    BY <1>1, <1>2 DEF Joins
  <2> HIDE DEF e
  <2> QED
    BY <2>2, <2>3, <2>4, Zenon DEF EncodesWords
<1>4. e = <<t>> \o Words(s)
  BY DEF Cat, h, ws
<1> HIDE DEF e
<1> QED
  BY <1>1, <1>2, <1>3, <1>4

LEMMA CountTokens ==
  ASSUME NEW n \in 0 .. MaxCount
  PROVE  /\ Count(n) \in Token /\ TokenSize(Count(n)) = 8
         /\ Count(1) \in Token /\ TokenSize(Count(1)) = 8
         /\ WireCount(n) # 0 /\ WireLength(WireCount(n)) = n
         /\ Count(WireCount(n)) \in Token /\ TokenSize(Count(WireCount(n))) = 8
<1>1. \A m \in 0 .. (MaxCount + 1) : Count(m) \in Token /\ Count(m).is = "count"
  BY DEF Count, Token
<1>2. WireCount(n) \in 0 .. (MaxCount + 1) /\ WireCount(n) # 0 /\ WireLength(WireCount(n)) = n
  BY MaxCountType DEF WireCount, WireLength, PresentZero
<1>3. n \in 0 .. (MaxCount + 1) /\ 1 \in 0 .. (MaxCount + 1)
  BY MaxCountType
<1> QED
  BY <1>1, <1>2, <1>3, TokenSizes

LEMMA SubSeqWhole ==
  ASSUME NEW n \in Nat, NEW S, NEW s \in Seq(S), Len(s) = n
  PROVE  SubSeq(s, 1, n) = s
<1>1. /\ SubSeq(s, 1, n) \in Seq(S) /\ Len(SubSeq(s, 1, n)) = n
      /\ \A j \in 1 .. n : SubSeq(s, 1, n)[j] = s[1 + j - 1]
  <2>1. n = 0 \/ (1 \in 1 .. Len(s) /\ n \in 1 .. Len(s))
    OBVIOUS
  <2> QED
    BY <2>1, SubSeqProperties, LenProperties
<1>2. \A j \in 1 .. n : SubSeq(s, 1, n)[j] = s[j]
  BY <1>1
<1> QED
  BY <1>1, <1>2, SeqEqual

LEMMA EncodedScalar ==
  ASSUME struct \in Structs, val \in Values(struct), NEW k \in Fields, Live(k),
         F(k).kind \in Scalars
  PROVE  Encoding(Encoded(val, k), k)
<1> DEFINE e == Encoded(val, k)
           c == At(val, k)
<1>1. PICK x \in 0 .. MaxCount : c = <<x>>
  BY LiveFacts
<1>2. c \in Seq(0 .. MaxCount) /\ Len(c) = 1 /\ c[1] = x /\ x \in 0 .. (MaxCount + 1)
  BY <1>1, MaxCountType
<1>3. CASE F(k).kind = "color"
  <2> DEFINE t == [is |-> "color", v |-> x]
  <2>1. e = <<t>> /\ Tag(k) = "color"
    BY <1>2, <1>3 DEF Encoded, Tag
  <2>2. t \in Token /\ t.is = "color"
    BY <1>2 DEF Token
  <2>3. SizeofField(val, k) = 16
    BY <1>3 DEF SizeofField
  <2> HIDE DEF t
  <2>4. e \in Seq(Token) /\ Len(e) = 1 /\ e[1] = t /\ Bytes(e) = SizeofField(val, k)
    BY <2>1, <2>2, <2>3, BytesOne, TokenSizes
  <2> HIDE DEF e
  <2> QED
    BY <1>2, <1>3, <2>1, <2>4 DEF e, t, Encoding, Scalars
<1>4. CASE F(k).kind \in {"uint", "bits"}
  <2>1. e = Words(c) /\ Tag(k) = "uint" /\ SizeofField(val, k) = 4
    BY <1>4 DEF Encoded, Tag, Word, SizeofField
  <2>2. 1 \in 1 .. Len(c)
    BY <1>2
  <2>3. e \in Seq(Token) /\ Len(e) = 1 /\ Bytes(e) = 4 /\ e[1] = [is |-> "uint", v |-> x]
    BY <1>2, <2>1, <2>2, WordsFacts
  <2> HIDE DEF e
  <2> QED
    BY <1>2, <1>4, <2>1, <2>3 DEF e, Encoding, Scalars
<1> QED
  BY <1>3, <1>4 DEF Scalars

LEMMA EncodedPointer ==
  ASSUME struct \in Structs, val \in Values(struct), NEW k \in Fields, Live(k),
         F(k).kind = "pointer"
  PROVE  Encoding(Encoded(val, k), k)
<1> DEFINE e == Encoded(val, k)
           c == At(val, k)
<1>0. 0 \in 0 .. MaxCount
  BY MaxCountType
<1>1. CASE c = Null
  <2>1. e = <<Count(0)>> /\ SizeofField(val, k) = 8
    BY <1>1 DEF Encoded, SizeofField
  <2>2. e \in Seq(Token) /\ Len(e) = 1 /\ e[1] = Count(0) /\ Bytes(e) = 8
    BY <1>0, <2>1, BytesOne, CountTokens
  <2> HIDE DEF e
  <2> QED
    BY <1>1, <2>1, <2>2 DEF e, Encoding, Scalars
<1>2. CASE c # Null
  <2>1. c = <<1>>
    BY <1>2, LiveFacts
  <2>2. c \in Seq(0 .. MaxCount) /\ Len(c) = 1
    BY <2>1, MaxCountType
  <2>3. e = <<Count(1)>> \o Words(c) /\ SizeofField(val, k) = 12
    BY <1>2 DEF Encoded, SizeofField
  <2> DEFINE h == Count(1)
  <2>4. h \in Token /\ TokenSize(h) = 8
    BY <1>0, CountTokens
  <2> HIDE DEF c, e, h
  <2>5. e = <<h>> \o Words(c)
    BY <2>3 DEF c, e, h
  <2>6. e \in Seq(Token) /\ EncodesWords(e, h, c) /\ Bytes(e) = 8 + 4 * Len(c)
    BY <2>2, <2>4, <2>5, HeadThenWords
  <2>7. Len(e) = 2 /\ Bytes(e) = 12
    BY <2>2, <2>6 DEF EncodesWords
  <2> QED
    BY <1>2, <2>3, <2>6, <2>7 DEF Encoding, Scalars, c, e, h
<1> QED
  BY <1>1, <1>2

LEMMA EncodedArray ==
  ASSUME struct \in Structs, val \in Values(struct), NEW k \in Fields, Live(k),
         F(k).kind = "array"
  PROVE  Encoding(Encoded(val, k), k)
<1> DEFINE e == Encoded(val, k)
           c == At(val, k)
           n == CountExpr(val, k)
<1>0. 0 \in 0 .. MaxCount /\ n \in 0 .. MaxCount /\ n \in Nat
  BY MaxCountType, CountFacts
<1>1. CASE c = Null
  <2>1. e = <<Count(0)>> /\ SizeofField(val, k) = 8
    BY <1>1 DEF Encoded, SizeofField
  <2>2. e \in Seq(Token) /\ Len(e) = 1 /\ e[1] = Count(0) /\ Bytes(e) = 8
    BY <1>0, <2>1, BytesOne, CountTokens
  <2> HIDE DEF e
  <2> QED
    BY <1>1, <2>1, <2>2 DEF e, Encoding, Scalars
<1>2. CASE c # Null
  <2>1. c = [j \in 1 .. n |-> j]
    BY <1>2, LiveFacts
  <2> HIDE DEF c, n
  <2>2. c \in Seq(0 .. MaxCount) /\ Len(c) = n
    BY <1>0, <2>1, StoredFacts
  <2> DEFINE h == Count(WireCount(n))
  <2>3. SubSeq(c, 1, n) = c
    BY <1>0, <2>2, SubSeqWhole
  <2>4. e = <<h>> \o Words(SubSeq(c, 1, n)) /\ SizeofField(val, k) = 8 + 4 * n
    BY <1>2 DEF Encoded, SizeofField, c, n
  <2>5. e = <<h>> \o Words(c)
    BY <2>3, <2>4
  <2>6. h \in Token /\ TokenSize(h) = 8
    BY <1>0, CountTokens
  <2> HIDE DEF e, h
  <2>7. e \in Seq(Token) /\ EncodesWords(e, h, c) /\ Bytes(e) = 8 + 4 * n
    BY <2>2, <2>5, <2>6, HeadThenWords
  <2>8. Len(e) \in Nat \ {0}
    BY <1>0, <2>2, <2>7 DEF EncodesWords
  <2> QED
    BY <1>2, <2>4, <2>7, <2>8 DEF Encoding, Scalars, c, e, h, n
<1> QED
  BY <1>1, <1>2

LEMMA EncodedFacts ==
  ASSUME struct \in Structs, val \in Values(struct), NEW k \in Fields, Live(k)
  PROVE  Encoding(Encoded(val, k), k)
  BY KindFacts, EncodedScalar, EncodedPointer, EncodedArray

-----------------------------------------------------------------------------
(* The stream, and the sizes as sums *)

LEMMA SentBuilt ==
  ASSUME struct \in Structs, val \in Values(struct)
  PROVE  Appends(Sent, Parts, Len(struct), Token)
<1> DEFINE n == Len(struct)
           Builds(f) == f = [k \in 0 .. n |-> IF k = 0 THEN <<>> ELSE Cat(f[k - 1], Parts[k])]
<1>1. n \in Nat /\ Fields = 1 .. n
  BY StructFacts
<1>2. Parts \in [1 .. n -> Seq(Token)]
  <2>1. ASSUME NEW k \in 1 .. n
        PROVE  (IF Live(k) THEN Encoded(val, k) ELSE <<>>) \in Seq(Token)
    <3>1. CASE Live(k)
      BY <1>1, <3>1, EncodedFacts DEF Encoding
    <3>2. CASE ~Live(k)
      BY <3>2
    <3> QED
      BY <3>1, <3>2
  <2> QED
    BY <2>1 DEF Parts
<1>3. \E f : Chain(f, Parts, n, Token)
  <2> HIDE DEF n
  <2> QED
    BY <1>1, <1>2, ChainExists
<1>4. \E f : Builds(f)
  BY <1>3 DEF Chain
<1>5. Sent = CHOOSE f : Builds(f)
  BY DEF Sent
<1>6. Builds(Sent)
  <2> HIDE DEF Builds
  <2> QED
    BY <1>4, <1>5, Zenon
<1>7. Chain(Sent, Parts, n, Token)
  BY <1>2, <1>6, Zenon DEF Chain
<1> QED
  BY <1>1, <1>7, ChainAppends, Zenon

(* What each field adds. *)
LEMMA SentSteps ==
  ASSUME struct \in Structs, val \in Values(struct)
  PROVE  /\ Sent[0] = <<>>
         /\ \A m \in 0 .. Len(struct) :
              Sent[m] \in Seq(Token) /\ Len(Sent[m]) \in Nat /\ Bytes(Sent[m]) \in Nat
         /\ \A k \in Fields :
              /\ k \in 0 .. Len(struct) /\ k - 1 \in 0 .. Len(struct)
              /\ Sent[k] = Cat(Sent[k - 1], Parts[k])
              /\ Parts[k] = IF Live(k) THEN Encoded(val, k) ELSE <<>>
              /\ Keeps(Sent, Parts, k, Len(struct))
              /\ Bytes(Sent[k]) = Bytes(Sent[k - 1]) + IF Live(k) THEN SizeofField(val, k) ELSE 0
<1> DEFINE n == Len(struct)
<1>1. n \in Nat /\ Fields = 1 .. n
  BY StructFacts
<1>2. Appends(Sent, Parts, n, Token)
  BY SentBuilt
<1>3. \A k \in 1 .. n : Keeps(Sent, Parts, k, n)
  BY <1>1, <1>2, AppendsKeeps
<1>4. Sent[0] = <<>> /\ \A k \in 1 .. n : Sent[k] = Cat(Sent[k - 1], Parts[k])
  BY <1>2, Zenon DEF Appends
<1>5. \A m \in 0 .. n : Sent[m] \in Seq(Token)
  BY <1>2 DEF Appends
<1>6. \A m \in 0 .. n : Len(Sent[m]) \in Nat /\ Bytes(Sent[m]) \in Nat
  BY <1>5, LenProperties, BytesJoin
<1>7. ASSUME NEW k \in 1 .. n
      PROVE  /\ Parts[k] = IF Live(k) THEN Encoded(val, k) ELSE <<>>
             /\ Bytes(Sent[k]) = Bytes(Sent[k - 1]) + IF Live(k) THEN SizeofField(val, k) ELSE 0
  <2>1. Parts[k] = IF Live(k) THEN Encoded(val, k) ELSE <<>>
    BY DEF Parts
  <2>2. k - 1 \in 0 .. n /\ Parts[k] \in Seq(Token)
    BY <1>2 DEF Appends
  <2>3. Bytes(Sent[k]) = Bytes(Sent[k - 1]) + Bytes(Parts[k])
    BY <1>4, <1>5, <2>2, BytesJoin, Zenon
  <2>4. CASE Live(k)
    <3>1. Bytes(Parts[k]) = SizeofField(val, k)
      BY <1>1, <2>1, <2>4, EncodedFacts DEF Encoding
    <3> QED
      BY <2>1, <2>3, <2>4, <3>1
  <2>5. CASE ~Live(k)
    <3>1. Bytes(Parts[k]) = 0
      BY <2>1, <2>5, BytesNone
    <3> QED
      BY <2>1, <2>3, <2>5, <3>1
  <2> QED
    BY <2>4, <2>5
<1>8. \A k \in 1 .. n : k \in 0 .. n /\ k - 1 \in 0 .. n
  BY <1>1
<1> QED
  BY <1>1, <1>3, <1>4, <1>5, <1>6, <1>7, <1>8, Zenon

LiveFields == {k \in Fields : Live(k)}

LEMMA FieldsFinite ==
  ASSUME struct \in Structs
  PROVE  IsFiniteSet(Fields) /\ \A K \in SUBSET Fields : IsFiniteSet(K)
<1>1. Fields = 1 .. Len(struct) /\ Len(struct) \in Nat
  BY StructFacts
<1>2. IsFiniteSet(1 .. Len(struct))
  BY <1>1, FS_Interval
<1> QED
  BY <1>1, <1>2, FS_Subset

LEMMA NormalSizeIs ==
  ASSUME struct \in Structs, val \in Values(struct)
  PROVE  NormalSize(val) = Bytes(Sent[Len(struct)])
<1> DEFINE n == Len(struct)
           w == [k \in LiveFields |-> SizeofField(val, k)]
           T == [m \in 0 .. n |-> Bytes(Sent[m])]
<1>1. n \in Nat /\ Fields = 1 .. n /\ LiveFields \in SUBSET (1 .. n) /\ IsFiniteSet(LiveFields)
  <2>1. LiveFields \in SUBSET Fields
    BY DEF LiveFields
  <2> QED
    BY <2>1, StructFacts, FieldsFinite
<1>2. Weights(w, LiveFields)
  <2>1. \A k \in LiveFields : Encoding(Encoded(val, k), k)
    BY EncodedFacts DEF LiveFields
  <2>2. \A k \in LiveFields : SizeofField(val, k) \in Nat
    <3> TAKE k \in LiveFields
    <3>1. Encoded(val, k) \in Seq(Token) /\ Bytes(Encoded(val, k)) = SizeofField(val, k)
      BY <2>1 DEF Encoding
    <3>2. Bytes(Encoded(val, k)) \in Nat
      BY <3>1, BytesJoin
    <3> QED
      BY <3>1, <3>2
  <2> QED
    BY <2>2 DEF Weights
<1>3. T[0] = 0
  <2>1. 0 \in 0 .. n
    BY <1>1
  <2> QED
    BY <2>1, SentSteps, BytesNone
<1>4. \A m \in 1 .. n : /\ m \in LiveFields => T[m] = T[m - 1] + w[m]
                        /\ m \notin LiveFields => T[m] = T[m - 1]
  <2> TAKE m \in 1 .. n
  <2>1. m \in 0 .. n /\ m - 1 \in 0 .. n /\ m \in Fields
    BY <1>1
  <2>2. T[m] = Bytes(Sent[m]) /\ T[m - 1] = Bytes(Sent[m - 1]) /\ Bytes(Sent[m - 1]) \in Nat
    BY <2>1, SentSteps
  <2>3. Bytes(Sent[m]) = Bytes(Sent[m - 1]) + IF Live(m) THEN SizeofField(val, m) ELSE 0
    BY <2>1, SentSteps
  <2>4. m \in LiveFields <=> Live(m)
    BY <2>1 DEF LiveFields
  <2>5. m \in LiveFields => w[m] = SizeofField(val, m)
    OBVIOUS
  <2> HIDE DEF T, n, w
  <2> QED
    BY <2>2, <2>3, <2>4, <2>5
<1> HIDE DEF T, n
<1>5. IsSum(T[n], {k \in LiveFields : k <= n}, w)
  <2>1. n \in 0 .. n
    BY <1>1
  <2>2. \A m \in 0 .. n : IsSum(T[m], {k \in LiveFields : k <= m}, w)
    <3> HIDE DEF w
    <3> QED
      BY <1>1, <1>2, <1>3, <1>4, SumUpto
  <2> QED
    BY <2>1, <2>2
<1>6. {k \in LiveFields : k <= n} = LiveFields
  <2>1. \A k \in LiveFields : k \in 1 .. n
    BY <1>1
  <2>2. \A k \in LiveFields : k <= n
    BY <1>1, <2>1
  <2> QED
    BY <2>2
<1>7. SumFunction(w) = T[n]
  <2>1. DOMAIN w = LiveFields
    OBVIOUS
  <2> HIDE DEF w
  <2>2. IsSum(SumFunction(w), LiveFields, w)
    BY <1>1, <1>2, <2>1, SumFunctionSum
  <2>3. IsSum(T[n], LiveFields, w)
    BY <1>5, <1>6
  <2> QED
    BY <1>1, <2>2, <2>3, SumSame
<1>8. NormalSize(val) = SumFunction(w)
  BY DEF NormalSize, LiveFields, Live, Sizes
<1>9. T[n] = Bytes(Sent[n])
  BY <1>1 DEF T
<1> QED
  BY <1>7, <1>8, <1>9 DEF n

LEMMA PositionIs ==
  ASSUME struct \in Structs, val \in Values(struct), NEW p \in 0 .. Len(struct)
  PROVE  LET sent == {k \in 1 .. p : Encodes(val, k)}
         IN  Len(Sent[p]) = SumFunction([k \in sent |-> Len(Encoded(val, k))])
<1> DEFINE n == Len(struct)
           sent == {k \in 1 .. p : Encodes(val, k)}
           w == [k \in LiveFields |-> Len(Encoded(val, k))]
           v == [k \in sent |-> Len(Encoded(val, k))]
           T == [m \in 0 .. n |-> Len(Sent[m])]
<1>1. n \in Nat /\ Fields = 1 .. n /\ LiveFields \in SUBSET (1 .. n)
      /\ \A K \in SUBSET LiveFields : IsFiniteSet(K)
  <2>1. LiveFields \in SUBSET Fields
    BY DEF LiveFields
  <2> QED
    BY <2>1, StructFacts, FieldsFinite
<1>2. \A k \in LiveFields : Len(Encoded(val, k)) \in Nat
  BY EncodedFacts DEF LiveFields, Encoding
<1>3. T[0] = 0
  <2>1. 0 \in 0 .. n
    BY <1>1
  <2> QED
    BY <2>1, SentSteps
<1>4. \A m \in 1 .. n : /\ m \in LiveFields => T[m] = T[m - 1] + w[m]
                        /\ m \notin LiveFields => T[m] = T[m - 1]
  <2> TAKE m \in 1 .. n
  <2>1. m \in 0 .. n /\ m - 1 \in 0 .. n /\ m \in Fields
    BY <1>1
  <2>2. T[m] = Len(Sent[m]) /\ T[m - 1] = Len(Sent[m - 1]) /\ Len(Sent[m - 1]) \in Nat
    BY <2>1, SentSteps
  <2>3. Len(Sent[m]) = Len(Sent[m - 1]) + IF Live(m) THEN Len(Encoded(val, m)) ELSE 0
    <3>1. Len(Sent[m]) = Len(Sent[m - 1]) + Len(Parts[m])
          /\ Parts[m] = IF Live(m) THEN Encoded(val, m) ELSE <<>>
      BY <2>1, SentSteps DEF Keeps
    <3>2. Len(<<>>) = 0
      OBVIOUS
    <3>3. Len(Parts[m]) = IF Live(m) THEN Len(Encoded(val, m)) ELSE 0
      BY <3>1, <3>2, Zenon
    <3> QED
      BY <3>1, <3>3, Zenon
  <2>4. m \in LiveFields <=> Live(m)
    BY <2>1 DEF LiveFields
  <2>5. m \in LiveFields => w[m] = Len(Encoded(val, m))
    OBVIOUS
  <2> DEFINE a == Len(Sent[m])
             b == Len(Sent[m - 1])
             c == Len(Encoded(val, m))
  <2>6. T[m] = a /\ T[m - 1] = b /\ b \in Nat /\ a = b + IF Live(m) THEN c ELSE 0
    BY <2>2, <2>3
  <2>7. m \in LiveFields => w[m] = c
    BY <2>5
  <2> HIDE DEF T, n, w, a, b, c
  <2> QED
    BY <2>4, <2>6, <2>7
<1>5. {k \in LiveFields : k <= p} = sent /\ sent \in SUBSET LiveFields
  <2>1. \A k \in 1 .. n : k <= p <=> k \in 1 .. p
    BY <1>1
  <2>2. 1 .. p \subseteq 1 .. n
    BY <1>1
  <2>3. LiveFields = {k \in 1 .. n : Encodes(val, k)}
    BY <1>1 DEF LiveFields, Live, Encodes
  <2> QED
    BY <2>1, <2>2, <2>3
<1> HIDE DEF T, sent
<1>6. IsSum(T[p], sent, w)
  <2>1. Weights(w, LiveFields)
    BY <1>2 DEF Weights
  <2>2. \A m \in 0 .. n : IsSum(T[m], {k \in LiveFields : k <= m}, w)
    <3> HIDE DEF w, n
    <3> QED
      BY <1>1, <1>3, <1>4, <2>1, SumUpto
  <2>3. IsSum(T[p], {k \in LiveFields : k <= p}, w)
    BY <2>2
  <2> QED
    BY <1>5, <2>3
<1>7. SumFunction(v) = T[p]
  <2>1. DOMAIN v = sent /\ Weights(v, sent) /\ (\A k \in sent : v[k] = w[k]) /\ IsFiniteSet(sent)
    BY <1>1, <1>2, <1>5 DEF Weights
  <2> HIDE DEF v, w
  <2>2. IsSum(SumFunction(v), sent, v)
    BY <2>1, SumFunctionSum
  <2> QED
    BY <1>6, <2>1, <2>2, SumSame
<1>8. T[p] = Len(Sent[p])
  BY DEF T
<1> QED
  BY <1>7, <1>8 DEF sent

-----------------------------------------------------------------------------
(* The room a reply reserves *)

LEMMA DummySizes ==
  ASSUME struct \in Structs, NEW k \in Fields
  PROVE  /\ SizeofDummy(k) \in 1 .. 16
         /\ F(k).kind \in Scalars => SizeofField(val, k) = SizeofDummy(k)
<1> DEFINE d == [c \in Fields |-> Dummy(k)]
<1>1. SizeofDummy(k) = SizeofField(d, k)
  BY DEF SizeofDummy
<1>2. At(d, k) = Dummy(k)
  BY CellIn DEF At
<1> HIDE DEF d
<1>3. CASE F(k).kind \in {"uint", "bits"}
  <2>1. \A v : SizeofField(v, k) = 4
    BY <1>3 DEF SizeofField
  <2> QED
    BY <1>1, <2>1
<1>4. CASE F(k).kind = "color"
  <2>1. \A v : SizeofField(v, k) = 16
    BY <1>4 DEF SizeofField
  <2> QED
    BY <1>1, <2>1
<1>5. CASE F(k).kind = "pointer"
  <2>1. At(d, k) = Null
    BY <1>2, <1>5 DEF Dummy
  <2>2. SizeofField(d, k) = 8
    BY <1>5, <2>1 DEF SizeofField
  <2> QED
    BY <1>1, <1>5, <2>2 DEF Scalars
<1>6. CASE F(k).kind = "array"
  <2>1. At(d, k) = Null
    BY <1>2, <1>6 DEF Dummy
  <2>2. SizeofField(d, k) = 8
    BY <1>6, <2>1 DEF SizeofField
  <2> QED
    BY <1>1, <1>6, <2>2 DEF Scalars
<1> QED
  BY <1>3, <1>4, <1>5, <1>6, KindFacts DEF Scalars

LEMMA WidestArm ==
  ASSUME struct \in Structs, NEW u \in Unions
  PROVE  /\ MaxOfArms(u) \in Nat
         /\ \A k \in Fields : F(k).union = u => SizeofDummy(k) <= MaxOfArms(u)
<1> DEFINE S == {SizeofDummy(k) : k \in Arms(struct, u)}
<1>1. Arms(struct, u) = {k \in Fields : F(k).union = u}
  BY DEF Arms, Fields, F
<1>2. S \in SUBSET (1 .. 16)
  BY <1>1, DummySizes
<1>3. S # {}
  BY <1>1 DEF Unions
<1> HIDE DEF S
<1>4. Max(S) \in S /\ \A y \in S : y <= Max(S)
  BY <1>2, <1>3, MaxOfSubset
<1>5. MaxOfArms(u) = Max(S)
  BY DEF MaxOfArms, S
<1>6. \A k \in Fields : F(k).union = u => SizeofDummy(k) \in S
  BY <1>1 DEF S
<1>7. Max(S) \in Nat
  <2>1. Max(S) \in 1 .. 16
    BY <1>2, <1>4
  <2> QED
    BY <2>1
<1> QED
  BY <1>4, <1>5, <1>6, <1>7

DummySizesOf == [k \in Fixed |-> SizeofDummy(k)]
ArmSizesOf == [u \in Unions |-> MaxOfArms(u)]

LEMMA RoomFacts ==
  ASSUME struct \in Structs
  PROVE  /\ IsFiniteSet(Fixed) /\ Fixed \subseteq Fields /\ Weights(DummySizesOf, Fixed)
         /\ IsFiniteSet(Unions) /\ Weights(ArmSizesOf, Unions)
         /\ IsSum(SumFunction(DummySizesOf), Fixed, DummySizesOf)
         /\ IsSum(SumFunction(ArmSizesOf), Unions, ArmSizesOf)
         /\ MaxModeSize = SumFunction(DummySizesOf) + SumFunction(ArmSizesOf)
         /\ MaxModeSize \in Nat
<1>1. Fixed \subseteq Fields
  BY DEF Fixed, Arms, Fields
<1>2. IsFiniteSet(Fixed)
  BY <1>1, FieldsFinite
<1>3. Weights(DummySizesOf, Fixed)
  <2>1. \A k \in Fixed : SizeofDummy(k) \in 1 .. 16
    BY <1>1, DummySizes
  <2> QED
    BY <2>1 DEF Weights, DummySizesOf
<1>4. IsFiniteSet(Unions)
  <2> DEFINE T == {F(k).union : k \in Fields}
             f == [k \in Fields |-> F(k).union]
  <2>1. IsFiniteSet(T)
    <3>1. f \in Surjection(Fields, T)
      BY DEF Surjection
    <3> HIDE DEF f, T
    <3> QED
      BY <3>1, FieldsFinite, FS_Surjection
  <2> QED
    BY <2>1, FS_Subset DEF Unions
<1>5. Weights(ArmSizesOf, Unions)
  BY WidestArm DEF Weights, ArmSizesOf
<1>6. IsSum(SumFunction(DummySizesOf), Fixed, DummySizesOf)
  <2>1. DOMAIN DummySizesOf = Fixed
    BY DEF DummySizesOf
  <2> QED
    BY <1>2, <1>3, <2>1, SumFunctionSum
<1>7. IsSum(SumFunction(ArmSizesOf), Unions, ArmSizesOf)
  <2>1. DOMAIN ArmSizesOf = Unions
    BY DEF ArmSizesOf
  <2> QED
    BY <1>4, <1>5, <2>1, SumFunctionSum
<1>8. MaxModeSize = SumFunction(DummySizesOf) + SumFunction(ArmSizesOf)
  BY DEF MaxModeSize, DummySizesOf, ArmSizesOf
<1>9. SumFunction(DummySizesOf) \in Nat /\ SumFunction(ArmSizesOf) \in Nat
  BY <1>6, <1>7 DEF IsSum, Additive
<1> QED
  BY <1>1, <1>2, <1>3, <1>4, <1>5, <1>6, <1>7, <1>8, <1>9

(* The live plain fields are the ones that are always sized, and each live *)
(* arm has a union of its own.                                             *)
LEMMA RoomSuffices ==
  ASSUME struct \in Structs, val \in Values(struct), IsBounded(struct),
         ~HasPointer(struct), ~Overlapping(struct, val)
  PROVE  NormalSize(val) <= MaxModeSize
<1> DEFINE w == [k \in LiveFields |-> SizeofField(val, k)]
           A == {k \in LiveFields : F(k).union # 0}
           f == [k \in A |-> F(k).union]
<1>1. \A k \in Fields : F(k).kind \in Scalars
  <2>1. \A k \in Fields : F(k).kind # "pointer" /\ F(k).kind # "array"
    BY DEF IsBounded, HasPointer, Fields, F
  <2> QED
    BY <2>1, KindFacts
<1>2. LiveFields \subseteq Fields /\ IsFiniteSet(LiveFields)
  <2>1. LiveFields \in SUBSET Fields
    BY DEF LiveFields
  <2> QED
    BY <2>1, FieldsFinite
<1>3. \A k \in LiveFields : w[k] = SizeofDummy(k) /\ w[k] \in Nat
  <2> TAKE k \in LiveFields
  <2>1. SizeofField(val, k) = SizeofDummy(k) /\ SizeofDummy(k) \in 1 .. 16
    BY <1>1, <1>2, DummySizes
  <2> QED
    BY <2>1
<1>4. IsSum(SumFunction(w), LiveFields, w)
  <2>1. DOMAIN w = LiveFields /\ Weights(w, LiveFields)
    BY <1>3 DEF Weights
  <2> HIDE DEF w
  <2> QED
    BY <1>2, <2>1, SumFunctionSum
<1>5. LiveFields = Fixed \cup A /\ Fixed \cap A = {}
  <2>1. Fixed = {k \in Fields : F(k).union = 0 /\ Live(k)}
    <3> DEFINE zeros == [c \in Fields |-> Zero]
    <3>1. ASSUME NEW k \in Fields, F(k).union = 0
          PROVE  HoldsIn(struct, zeros, F(k).condition) <=> Live(k)
      <4>1. F(k).condition.is # "when"
        BY <1>2, <3>1, StructFacts DEF WellFormed, Conditional, F, Fields
      <4>2. F(k).condition.is = "always" \/ F(k).condition.is = "never"
        BY <4>1, HoldsCases
      <4>3. Live(k) <=> F(k).condition.is = "always"
        BY <4>2, HoldsCases DEF Live
      <4>4. HoldsIn(struct, zeros, F(k).condition) <=> F(k).condition.is = "always"
        BY <4>2, HoldsCases DEF Holds
      <4> QED
        BY <4>3, <4>4
    <3> HIDE DEF zeros
    <3>2. Fixed = {k \in Arms(struct, 0) : HoldsIn(struct, zeros, F(k).condition)}
      BY DEF Fixed, zeros
    <3>3. Arms(struct, 0) = {k \in Fields : F(k).union = 0}
      BY DEF Arms, Fields, F
    <3> QED
      BY <3>1, <3>2, <3>3
  <2> QED
    BY <2>1 DEF LiveFields
<1>6. IsFiniteSet(Fixed) /\ IsFiniteSet(A) /\ A \subseteq LiveFields /\ Fixed \subseteq LiveFields
  <2>1. A \subseteq LiveFields /\ Fixed \subseteq LiveFields
    BY <1>5
  <2> QED
    BY <1>2, <2>1, FS_Subset
<1>7. Weights(w, A) /\ Weights(w, Fixed)
  BY <1>3, <1>6 DEF Weights
<1>8. PICK g : Additive(g, Fixed, w)
  BY <1>6, <1>7, SumExists
<1>9. PICK h : Additive(h, A, w)
  BY <1>6, <1>7, SumExists
<1> DEFINE t == g[Fixed]
           u == h[A]
<1>10. IsSum(t, Fixed, w) /\ IsSum(u, A, w)
  BY <1>8, <1>9 DEF IsSum
<1>11. t = SumFunction(DummySizesOf)
  <2>1. \A k \in Fixed : w[k] = DummySizesOf[k]
    BY <1>3, <1>6 DEF DummySizesOf
  <2> HIDE DEF w, t
  <2> QED
    BY <1>6, <1>10, <2>1, RoomFacts, SumSame
<1>12. u <= SumFunction(ArmSizesOf)
  <2>1. \A k \in A : f[k] \in Unions /\ w[k] <= ArmSizesOf[f[k]]
    <3> TAKE k \in A
    <3>1. k \in Fields /\ f[k] = F(k).union
      BY <1>2
    <3>2. f[k] \in Unions
      BY <3>1 DEF Unions
    <3>3. SizeofDummy(k) <= MaxOfArms(f[k])
      BY <3>1, <3>2, WidestArm
    <3>4. ArmSizesOf[f[k]] = MaxOfArms(f[k])
      BY <3>2 DEF ArmSizesOf
    <3>5. w[k] = SizeofDummy(k)
      BY <1>3, <1>6
    <3> HIDE DEF f, w
    <3> QED
      BY <3>2, <3>3, <3>4, <3>5
  <2>2. \A j, k \in A : f[j] = f[k] => j = k
    <3> SUFFICES ASSUME NEW j \in A, NEW k \in A, f[j] = f[k], j # k PROVE FALSE
      OBVIOUS
    <3>1. /\ j \in DOMAIN struct /\ k \in DOMAIN struct
          /\ struct[j].union = struct[k].union /\ struct[j].union # 0
      BY <1>2 DEF F, Fields
    <3>2. HoldsIn(struct, val, struct[j].condition) /\ HoldsIn(struct, val, struct[k].condition)
      BY DEF LiveFields, Live, Holds, F
    <3> QED
      BY <3>1, <3>2 DEF Overlapping
  <2> HIDE DEF A, f, w, u
  <2> QED
    BY <1>6, <1>7, <1>10, <2>1, <2>2, RoomFacts, SumBelow
<1>13. t \in Nat /\ u \in Nat /\ SumFunction(w) = t + u
  <2>1. Weights(w, LiveFields)
    BY <1>3 DEF Weights
  <2>2. LiveFields \ Fixed = A
    BY <1>5
  <2>3. IsSum(u, LiveFields \ Fixed, w)
    BY <1>10, <2>2
  <2> HIDE DEF A, w, t, u
  <2> QED
    BY <1>2, <1>4, <1>6, <1>10, <2>1, <2>3, SumParts
<1>14. NormalSize(val) = SumFunction(w)
  BY DEF NormalSize, LiveFields, Live, Sizes
<1>15. SumFunction(ArmSizesOf) \in Nat
  BY RoomFacts DEF IsSum, Additive
<1> HIDE DEF t, u, w
<1> QED
  BY <1>11, <1>12, <1>13, <1>14, <1>15, RoomFacts

-----------------------------------------------------------------------------
(* Types *)

LEMMA MaxWithOne ==
  ASSUME NEW n \in Nat
  PROVE  Max({1, n}) \in Nat /\ 1 <= Max({1, n}) /\ (n # 0 => Max({1, n}) = n)
<1> DEFINE S == {1, n}
           Greatest(x) == \A y \in S : x >= y
<1>1. Max(S) = CHOOSE x \in S : Greatest(x)
  BY DEF Max
<1>2. \E x \in S : Greatest(x)
  <2>1. CASE n = 0
    BY <2>1
  <2>2. CASE n # 0
    BY <2>2
  <2> QED
    BY <2>1, <2>2
<1>3. Max(S) \in S /\ Greatest(Max(S))
  <2> HIDE DEF Greatest, S
  <2> QED
    BY <1>1, <1>2, Zenon
<1> QED
  BY <1>3

(* The invariant contains the types. *)
LEMMA Typing ==
  ASSUME IInv
  PROVE  TypeOK
<1> USE DEF IInv
<1>1. CASE step = "idle"
  <2>1. struct = <<>> /\ i = 1 /\ at = 1 /\ out = <<>> /\ cnt = <<>> /\ has = <<>>
        /\ size = 0 /\ reserved = 0 /\ stream = <<>>
    BY <1>1 DEF IdleInv, SizeInv, StreamInv
  <2>2. i \in 1 .. Max({1, Len(struct)})
    <3>1. Len(struct) \in Nat
      BY <2>1
    <3> QED
      BY <2>1, <3>1, MaxWithOne
  <2>3. DOMAIN <<>> = {} /\ ToSet(stream) = {} /\ Len(stream) = 0
    BY <2>1 DEF ToSet
  <2>4. /\ \A c \in DOMAIN out : out[c] \in Contents
        /\ \A k \in DOMAIN cnt : cnt[k] \in 0 .. MaxCount /\ has[k] \in {-1, 0, 1}
    BY <2>1, <2>3
  <2>5. size \in Nat /\ reserved \in Nat /\ at \in 1 .. (Len(stream) + 1)
    BY <2>1, <2>3
  <2> QED
    BY <1>1, <2>1, <2>2, <2>3, <2>4, <2>5, Zenon DEF TypeOK, StepInv
<1>2. CASE step # "idle"
  <2>1. /\ struct \in Structs /\ val \in Values(struct) /\ i \in 1 .. Len(struct)
        /\ out \in [Cells(struct) -> Contents]
        /\ cnt \in [Fields -> 0 .. MaxCount] /\ has \in [Fields -> {-1, 0, 1}]
    BY <1>2 DEF CallInv
  <2> DEFINE n == Len(struct)
  <2>2. n \in Nat \ {0} /\ Fields = 1 .. n
    BY <2>1, StructFacts
  <2>3. i \in 1 .. Max({1, Len(struct)})
    BY <2>1, <2>2, MaxWithOne
  <2>4. \A m \in 0 .. n : Sent[m] \in Seq(Token) /\ Len(Sent[m]) \in Nat /\ Bytes(Sent[m]) \in Nat
    BY <2>1, SentSteps
  <2>5. size \in Nat /\ reserved \in Nat
    <3>1. n \in 0 .. n
      BY <2>2
    <3> QED
      BY <2>1, <2>4, <3>1, RoomFacts DEF SizeInv
  <2>6. stream \in Seq(Token)
    <3>1. i - 1 \in 0 .. n /\ n \in 0 .. n
      BY <2>1, <2>2
    <3>2. stream = <<>> \/ stream = Sent[i - 1] \/ stream = Sent[n]
      BY <1>2 DEF StepInv, StreamInv, Written
    <3>3. <<>> \in Seq(Token)
      OBVIOUS
    <3> QED
      BY <2>4, <3>1, <3>2, <3>3, Zenon
  <2>7. ToSet(stream) \subseteq Token /\ Len(stream) \in Nat
    BY <2>6, LenProperties DEF ToSet
  <2>8. at \in 1 .. (Len(stream) + 1)
    <3>1. CASE step = "decode"
      <4>1. stream = Sent[n] /\ at = Len(Sent[i - 1]) + 1
        BY <3>1 DEF StreamInv, ReaderInv, Written
      <4>2. Len(Sent[i - 1]) \in Nat /\ Len(Sent[i - 1]) <= Len(Sent[n])
        <5>1. Keeps(Sent, Parts, i, n)
          BY <2>1, <2>2, SentSteps
        <5> DEFINE a == Len(Sent[i - 1])
                   b == Len(Parts[i])
                   c == Len(Sent[i])
                   d == Len(Sent[n])
        <5>2. a \in Nat /\ b \in Nat /\ c = a + b /\ c <= d /\ d \in Nat
          <6>1. n \in 0 .. n
            BY <2>2
          <6>2. d \in Nat
            BY <2>4, <6>1
          <6> QED
            BY <5>1, <6>2, Zenon DEF Keeps
        <5>3. a <= d
          <6> HIDE DEF a, b, c, d
          <6> QED
            BY <5>2
        <5> QED
          BY <5>2, <5>3
      <4> QED
        BY <2>7, <4>1, <4>2
    <3>2. CASE step # "decode"
      <4>1. at = 1 \/ at = Len(stream) + 1
        BY <1>2, <3>2 DEF StepInv, ReaderInv
      <4> QED
        BY <2>7, <4>1
    <3> QED
      BY <3>1, <3>2
  <2>9. /\ \A c \in DOMAIN out : out[c] \in Contents
        /\ \A k \in DOMAIN cnt : cnt[k] \in 0 .. MaxCount /\ has[k] \in {-1, 0, 1}
    BY <2>1
  <2> QED
    BY <1>2, <2>1, <2>3, <2>5, <2>7, <2>8, <2>9, Zenon DEF TypeOK, StepInv, Token
<1> QED
  BY <1>1, <1>2

-----------------------------------------------------------------------------
(* The steps *)

THEOREM InitInv == Init => IInv
<1> SUFFICES ASSUME Init PROVE IInv
  OBVIOUS
<1>1. /\ struct = <<>> /\ step = "idle" /\ i = 1 /\ size = 0 /\ reserved = 0 /\ stream = <<>>
      /\ at = 1 /\ out = <<>> /\ cnt = <<>> /\ has = <<>> /\ fatal = FALSE
  BY DEF Init
<1> QED
  BY <1>1 DEF IInv, StepInv, IdleInv, CallInv, SizeInv, StreamInv, ReaderInv, StoredInv,
              ArraysInv, Written

(* Where the struct and the value stay, so does all that is said of them.  *)
LEMMA SameValue ==
  ASSUME struct' = struct, val' = val
  PROVE  /\ Fields' = Fields /\ Sent' = Sent /\ MaxModeSize' = MaxModeSize
         /\ \A k : /\ Live(k)' <=> Live(k)
                   /\ F(k)' = F(k)
                   /\ At(val, k)' = At(val, k)
                   /\ CountExpr(val, k)' = CountExpr(val, k)
<1>1. Fields' = Fields /\ \A k : F(k)' = F(k)
  BY DEF Fields, F
<1>2. \A k : At(val, k)' = At(val, k)
  BY DEF At
<1>3. \A k : CountExpr(val, k)' = CountExpr(val, k)
  BY <1>1 DEF CountExpr, At
<1>4. \A k : Live(k)' <=> Live(k)
  BY <1>1 DEF Live, Holds
<1>5. \A k : Encoded(val, k)' = Encoded(val, k)
  BY <1>1, <1>2, <1>3 DEF Encoded
<1>6. Parts' = Parts
  BY <1>4, <1>5 DEF Parts
<1>7. Sent' = Sent
  BY <1>6 DEF Sent
<1>8. MaxModeSize' = MaxModeSize
  BY DEF MaxModeSize, Fixed, Fields, F, SizeofDummy, SizeofField, At, Dummy, Unions,
         MaxOfArms, CountExpr
<1> QED
  BY <1>1, <1>2, <1>3, <1>4, <1>7, <1>8

LEMMA StartStep ==
  ASSUME IInv, NEW S \in Structs, NEW v \in Values(S), Start(S, v)
  PROVE  IInv'
<1>1. /\ step = "idle" /\ struct' = S /\ val' = v /\ step' = "size"
      /\ out' = [c \in Cells(S) |-> Null] /\ cnt' = [k \in DOMAIN S |-> 0]
      /\ has' = [k \in DOMAIN S |-> -1]
      /\ i' = i /\ size' = size /\ reserved' = reserved /\ stream' = stream
      /\ at' = at /\ fatal' = fatal
  BY DEF Start
<1>2. /\ i = 1 /\ at = 1 /\ size = 0 /\ reserved = 0 /\ stream = <<>> /\ fatal = FALSE
  BY <1>1 DEF IInv, StepInv, IdleInv, SizeInv, StreamInv
<1>3. Len(S) \in Nat \ {0} /\ DOMAIN S = 1 .. Len(S)
  <2>1. S \in Seq(Field) /\ S # <<>>
    BY StructsType DEF WellFormed
  <2> QED
    BY <2>1, LenProperties, EmptySeq
<1>4. StepInv' /\ IdleInv'
  BY <1>1, <1>2 DEF StepInv, IdleInv
<1>5. CallInv'
  <2>1. i' \in 1 .. Len(struct')
    BY <1>1, <1>2, <1>3
  <2>2. out' \in [Cells(struct') -> Contents]
    BY <1>1 DEF Contents
  <2>3. cnt' \in [Fields' -> 0 .. MaxCount] /\ has' \in [Fields' -> {-1, 0, 1}]
    BY <1>1, MaxCountType DEF Fields
  <2> QED
    BY <1>1, <2>1, <2>2, <2>3 DEF CallInv
<1>6. SizeInv' /\ StreamInv' /\ ReaderInv'
  BY <1>1, <1>2 DEF SizeInv, StreamInv, ReaderInv, Written
<1>7. \A k : ~Passed(k)'
  BY <1>1 DEF Passed
<1>8. StoredInv' /\ ArraysInv'
  <2>1. \A k \in Fields' : has'[k] = -1
    BY <1>1 DEF Fields
  <2> QED
    BY <1>7, <2>1 DEF StoredInv, ArraysInv, Noted
<1> QED
  BY <1>4, <1>5, <1>6, <1>8 DEF IInv

LEMMA SizeofStep ==
  ASSUME IInv, Sizeof
  PROVE  IInv'
<1>1. /\ step = "size" /\ size' = NormalSize(val) /\ reserved' = MaxModeSize /\ step' = "encode"
      /\ struct' = struct /\ i' = i /\ val' = val /\ stream' = stream /\ at' = at
      /\ out' = out /\ cnt' = cnt /\ has' = has /\ fatal' = fatal
  BY DEF Sizeof
<1>2. /\ struct \in Structs /\ val \in Values(struct) /\ i \in 1 .. Len(struct)
      /\ i = 1 /\ stream = <<>> /\ at = 1
  BY <1>1 DEF IInv, CallInv, StreamInv, ReaderInv
<1>3. Sent[0] = <<>> /\ NormalSize(val) = Bytes(Sent[Len(struct)])
  BY <1>2, SentSteps, NormalSizeIs
<1>4. StepInv' /\ IdleInv'
  BY <1>1 DEF IInv, StepInv, IdleInv
<1>5. CallInv'
  BY <1>1, SameValue DEF IInv, CallInv
<1>6. SizeInv'
  BY <1>1, <1>3, SameValue DEF SizeInv
<1>7. StreamInv' /\ ReaderInv'
  <2>1. stream' = Sent[i - 1] /\ at' = 1
    BY <1>1, <1>2, <1>3
  <2> QED
    BY <1>1, <2>1, SameValue DEF StreamInv, ReaderInv, Written
<1>8. \A k : ~Passed(k) /\ ~Passed(k)'
  BY <1>1 DEF Passed
<1>9. StoredInv' /\ ArraysInv'
  <2>1. \A k \in Fields : has[k] = -1
    BY <1>1, <1>8 DEF IInv, ArraysInv, Noted
  <2> QED
    BY <1>1, <1>8, <2>1, SameValue DEF StoredInv, ArraysInv, Noted
<1> QED
  BY <1>4, <1>5, <1>6, <1>7, <1>9 DEF IInv

LEMMA EncodeStep ==
  ASSUME IInv, EncodeField
  PROVE  IInv'
<1>1. /\ step = "encode"
      /\ stream' = stream \o (IF Encodes(val, i) THEN Encoded(val, i) ELSE <<>>)
      /\ NextField("encode", "decode")
      /\ struct' = struct /\ val' = val /\ size' = size /\ reserved' = reserved
      /\ at' = at /\ out' = out /\ cnt' = cnt /\ has' = has /\ fatal' = fatal
  BY DEF EncodeField
<1>2. /\ struct \in Structs /\ val \in Values(struct) /\ i \in 1 .. Len(struct)
      /\ stream = Sent[i - 1] /\ at = 1
  BY <1>1 DEF IInv, CallInv, StreamInv, ReaderInv
<1>3. Len(struct) \in Nat \ {0} /\ Fields = 1 .. Len(struct) /\ i \in Fields
  BY <1>2, StructFacts
<1>4. Sent[0] = <<>> /\ stream' = Sent[i]
  <2>1. Sent[i] = Cat(Sent[i - 1], Parts[i]) /\ Sent[0] = <<>>
        /\ Parts[i] = IF Live(i) THEN Encoded(val, i) ELSE <<>>
    BY <1>2, <1>3, SentSteps
  <2> QED
    BY <1>1, <1>2, <2>1, Zenon DEF Cat, Encodes, Live
<1>5. \/ i < Len(struct) /\ step' = "encode" /\ i' = i + 1
      \/ i = Len(struct) /\ step' = "decode" /\ i' = 1
  BY <1>1, <1>2, <1>3 DEF NextField
<1>6. StepInv' /\ IdleInv'
  BY <1>1, <1>5 DEF IInv, StepInv, IdleInv
<1>7. CallInv'
  <2>1. i' \in 1 .. Len(struct)
    BY <1>2, <1>3, <1>5
  <2> QED
    BY <1>1, <2>1, SameValue DEF IInv, CallInv
<1>8. SizeInv'
  <2>1. size = Bytes(Sent[Len(struct)]) /\ reserved = MaxModeSize
    BY <1>1 DEF IInv, SizeInv
  <2>2. step' \notin {"idle", "size"}
    BY <1>5
  <2> QED
    BY <1>1, <2>1, <2>2, SameValue DEF SizeInv
<1>9. StreamInv' /\ ReaderInv'
  <2>1. CASE step' = "encode"
    <3>1. stream' = Sent[i' - 1]
      BY <1>2, <1>3, <1>4, <1>5, <2>1
    <3> QED
      BY <1>1, <1>2, <2>1, <3>1, SameValue DEF StreamInv, ReaderInv, Written
  <2>2. CASE step' = "decode"
    <3>1. stream' = Sent[Len(struct)] /\ i' = 1 /\ Len(Sent[0]) = 0
      BY <1>4, <1>5, <2>2
    <3>2. at' = Len(Sent[i' - 1]) + 1
      BY <1>1, <1>2, <3>1
    <3> QED
      BY <1>1, <2>2, <3>1, <3>2, SameValue DEF StreamInv, ReaderInv, Written
  <2> QED
    BY <1>5, <2>1, <2>2
<1>10. \A k \in Fields : ~Passed(k) /\ ~Passed(k)'
  BY <1>1, <1>3, <1>5 DEF Passed
<1>11. StoredInv' /\ ArraysInv'
  <2>1. \A k \in Fields : has[k] = -1
    BY <1>1, <1>10 DEF IInv, ArraysInv, Noted
  <2> QED
    BY <1>1, <1>10, <2>1, SameValue DEF StoredInv, ArraysInv, Noted
<1> QED
  BY <1>6, <1>7, <1>8, <1>9, <1>11 DEF IInv

-----------------------------------------------------------------------------
(* The decoder at field i *)

Decoding == IInv /\ step = "decode" /\ struct' = struct /\ val' = val

LEMMA DecodingFacts ==
  ASSUME Decoding
  PROVE  /\ struct \in Structs /\ val \in Values(struct)
         /\ Len(struct) \in Nat \ {0} /\ Fields = 1 .. Len(struct) /\ i \in Fields
         /\ stream = Sent[Len(struct)] /\ at = Len(Sent[i - 1]) + 1 /\ Len(Sent[i - 1]) \in Nat
         /\ \A k \in Fields : k < i /\ Live(k) => At(out, k) = At(val, k)
         /\ \A k \in Fields : Passed(k) <=> k < i
         /\ fatal = FALSE
<1>1. /\ struct \in Structs /\ val \in Values(struct) /\ i \in 1 .. Len(struct)
      /\ stream = Sent[Len(struct)] /\ at = Len(Sent[i - 1]) + 1 /\ fatal = FALSE
  BY DEF Decoding, IInv, StepInv, CallInv, StreamInv, ReaderInv, Written
<1>2. Len(struct) \in Nat \ {0} /\ Fields = 1 .. Len(struct) /\ i \in Fields
  BY <1>1, StructFacts
<1>3. Len(Sent[i - 1]) \in Nat
  BY <1>1, <1>2, SentSteps
<1>4. \A k \in Fields : Passed(k) <=> k < i
  BY DEF Passed, Decoding
<1>5. \A k \in Fields : k < i /\ Live(k) => At(out, k) = At(val, k)
  BY <1>4 DEF Decoding, IInv, StoredInv
<1> QED
  BY <1>1, <1>2, <1>3, <1>4, <1>5

(* Two values that agree on the field a condition names agree on it.       *)
LEMMA HoldsAgree ==
  ASSUME struct \in Structs, NEW v, NEW k \in Fields,
         \A j \in Fields : j < k /\ Live(j) => At(v, j) = At(val, j)
  PROVE  Holds(v, k) <=> Live(k)
<1>1. CASE F(k).condition.is = "when"
  <2>1. Conditional(struct, k) /\ F(k).condition \in Condition
    BY <1>1, StructFacts DEF Conditional, F, Field
  <2>2. F(k).condition.tests \subseteq Test
    BY <1>1, <2>1 DEF Condition
  <2>3. ASSUME NEW t \in F(k).condition.tests
        PROVE  v[Cell(struct, t.field)] = val[Cell(struct, t.field)]
    <3> DEFINE j == t.field
    <3>1. j < k /\ Plain(struct, j) /\ j \in Nat \ {0}
      BY <2>1, <2>2, StructFacts DEF WellFormed, F, Fields, Test
    <3>2. j \in Fields
      BY <3>1, StructFacts
    <3>3. Live(j)
      BY <3>1, <3>2, PlainFacts
    <3> QED
      BY <3>1, <3>2, <3>3 DEF At
  <2> DEFINE Met(u) == \A t \in F(k).condition.tests :
                         \E x \in t.values : u[Cell(struct, t.field)] = <<x>>
  <2>4. (Holds(v, k) <=> Met(v)) /\ (Holds(val, k) <=> Met(val))
    BY <1>1, HoldsCases
  <2>5. Met(v) <=> Met(val)
    BY <2>3
  <2> QED
    BY <2>4, <2>5 DEF Live
<1>2. CASE F(k).condition.is # "when"
  BY <1>2, HoldsCases DEF Live
<1> QED
  BY <1>1, <1>2

(* What the stream has where the decoder is.                               *)
LEMMA NextTokens ==
  ASSUME Decoding
  PROVE  /\ Live(i) => LET e == Encoded(val, i)
                       IN  /\ Encoding(e, i) /\ Len(Sent[i]) = Len(Sent[i - 1]) + Len(e)
                           /\ stream[at] = e[1]
                           /\ \A j \in 1 .. Len(e) : stream[at + j - 1] = e[j]
         /\ ~Live(i) => Len(Sent[i]) = Len(Sent[i - 1])
<1>1. /\ struct \in Structs /\ val \in Values(struct) /\ i \in Fields
      /\ stream = Sent[Len(struct)] /\ at = Len(Sent[i - 1]) + 1 /\ Len(Sent[i - 1]) \in Nat
  BY DecodingFacts
<1>2. /\ Keeps(Sent, Parts, i, Len(struct))
      /\ Parts[i] = IF Live(i) THEN Encoded(val, i) ELSE <<>>
  BY <1>1, SentSteps
<1>3. ASSUME Live(i)
      PROVE  LET e == Encoded(val, i)
             IN  /\ Encoding(e, i) /\ Len(Sent[i]) = Len(Sent[i - 1]) + Len(e)
                 /\ stream[at] = e[1]
                 /\ \A j \in 1 .. Len(e) : stream[at + j - 1] = e[j]
  <2> DEFINE e == Encoded(val, i)
             p == Len(Sent[i - 1])
  <2>1. Encoding(e, i)
    BY <1>1, <1>3, EncodedFacts
  <2>2. Parts[i] = e
    BY <1>2, <1>3
  <2> HIDE DEF e
  <2>3. Len(Sent[i]) = p + Len(e) /\ \A j \in 1 .. Len(e) : stream[p + j] = e[j]
    BY <1>1, <1>2, <2>2, Zenon DEF Keeps
  <2>4. Len(e) \in Nat \ {0}
    BY <2>1 DEF Encoding
  <2>5. \A j \in 1 .. Len(e) : at + j - 1 = p + j
    <3>1. at = p + 1 /\ p \in Nat
      BY <1>1
    <3> HIDE DEF p
    <3> QED
      BY <2>4, <3>1
  <2>6. at = p + 1 /\ 1 \in 1 .. Len(e)
    BY <1>1, <2>4
  <2>7. stream[at] = e[1] /\ \A j \in 1 .. Len(e) : stream[at + j - 1] = e[j]
    BY <2>3, <2>5, <2>6, Zenon
  <2> QED
    BY <2>1, <2>3, <2>7 DEF e
<1>4. ASSUME ~Live(i) PROVE Len(Sent[i]) = Len(Sent[i - 1])
  <2>1. Parts[i] = <<>> /\ Len(<<>>) = 0
    BY <1>2, <1>4
  <2>2. Len(Sent[i]) = Len(Sent[i - 1]) + Len(Parts[i])
    BY <1>2 DEF Keeps
  <2>3. Len(Parts[i]) = 0
    BY <2>1, Zenon
  <2> QED
    BY <1>1, <2>2, <2>3
<1> QED
  BY <1>3, <1>4

(* What decoding field i comes to.                                         *)
Decoded ==
  /\ at' = Len(Sent[i]) + 1 /\ fatal' = FALSE
  /\ out' \in [Cells(struct) -> Contents]
  /\ \A k \in Fields : k <= i /\ Live(k) => At(out, k)' = At(val, k)
  /\ cnt' \in [Fields -> 0 .. MaxCount] /\ has' \in [Fields -> {-1, 0, 1}]
  /\ \A k \in Fields : k # i => cnt'[k] = cnt[k] /\ has'[k] = has[k]
  /\ IF F(i).kind = "array" /\ Live(i)
     THEN IF At(val, i) = Null THEN has'[i] = 0
          ELSE has'[i] = 1 /\ cnt'[i] = CountExpr(val, i)
     ELSE has'[i] = -1

(* Arms that were decoded before keep their value: the cell had it.        *)
LEMMA StoreKeeps ==
  ASSUME Decoding, Live(i), Store(i, At(val, i))
  PROVE  /\ out' \in [Cells(struct) -> Contents]
         /\ \A k \in Fields : k <= i /\ Live(k) => At(out, k)' = At(val, k)
<1>1. /\ struct \in Structs /\ val \in Values(struct) /\ i \in Fields /\ Fields = 1 .. Len(struct)
      /\ Len(struct) \in Nat
      /\ \A k \in Fields : k < i /\ Live(k) => At(out, k) = At(val, k)
  BY DecodingFacts
<1>2. out \in [Cells(struct) -> Contents]
  BY DEF Decoding, IInv, CallInv
<1>3. out' = [out EXCEPT ![Cell(struct, i)] = At(val, i)] /\ struct' = struct
  BY DEF Store, Decoding
<1>4. At(val, i) \in Contents
  BY <1>1, LiveFacts
<1>5. ASSUME NEW k \in Fields, k <= i, Live(k) PROVE At(out, k)' = At(val, k)
  <2>1. At(out, k)' = out'[Cell(struct, k)] /\ Cell(struct, k) \in Cells(struct)
    BY <1>1, <1>3, CellIn DEF At
  <2>2. CASE Cell(struct, k) = Cell(struct, i)
    BY <1>2, <1>3, <2>1, <2>2 DEF At
  <2>3. CASE Cell(struct, k) # Cell(struct, i)
    <3>1. out'[Cell(struct, k)] = At(out, k)
      BY <1>2, <1>3, <2>1, <2>3 DEF At
    <3>2. k < i
      BY <1>1, <1>5, <2>3
    <3> QED
      BY <1>1, <1>5, <2>1, <3>1, <3>2
  <2> QED
    BY <2>2, <2>3
<1> QED
  BY <1>2, <1>3, <1>4, <1>5

LEMMA SkipDecoded ==
  ASSUME Decoding, SkipField
  PROVE  Decoded
<1>1. /\ struct \in Structs /\ i \in Fields /\ Fields = 1 .. Len(struct) /\ Len(struct) \in Nat
      /\ at = Len(Sent[i - 1]) + 1 /\ fatal = FALSE
      /\ \A k \in Fields : k < i /\ Live(k) => At(out, k) = At(val, k)
      /\ \A k \in Fields : Passed(k) <=> k < i
  BY DecodingFacts
<1>2. /\ ~Holds(out, i) /\ at' = at /\ out' = out /\ cnt' = cnt /\ has' = has /\ fatal' = fatal
      /\ struct' = struct
  BY DEF SkipField, Decodes, Decoding
<1>3. ~Live(i)
  BY <1>1, <1>2, HoldsAgree
<1>4. at' = Len(Sent[i]) + 1
  BY <1>1, <1>2, <1>3, NextTokens
<1>5. \A k \in Fields : k <= i /\ Live(k) => At(out, k)' = At(val, k)
  <2> TAKE k \in Fields
  <2> HAVE k <= i /\ Live(k)
  <2>1. k < i
    BY <1>1, <1>3
  <2> QED
    BY <1>1, <1>2, <2>1 DEF At
<1>6. /\ out \in [Cells(struct) -> Contents]
      /\ cnt \in [Fields -> 0 .. MaxCount] /\ has \in [Fields -> {-1, 0, 1}]
  BY DEF Decoding, IInv, CallInv
<1>7. has[i] = -1
  <2>1. ~(i < i)
    BY <1>1
  <2> QED
    BY <1>1, <2>1 DEF Decoding, IInv, ArraysInv, Noted
<1> QED
  BY <1>1, <1>2, <1>3, <1>4, <1>5, <1>6, <1>7 DEF Decoded

(* The array notes are as they were. *)
LEMMA NotesStay ==
  ASSUME Decoding, cnt' = cnt, has' = has, F(i).kind # "array"
  PROVE  /\ cnt' \in [Fields -> 0 .. MaxCount] /\ has' \in [Fields -> {-1, 0, 1}]
         /\ \A k \in Fields : k # i => cnt'[k] = cnt[k] /\ has'[k] = has[k]
         /\ has'[i] = -1
<1>1. i \in Fields
  BY DecodingFacts
<1> QED
  BY <1>1 DEF Decoding, IInv, CallInv, ArraysInv, Noted

LEMMA ScalarDecoded ==
  ASSUME Decoding, Live(i), DecodeScalar
  PROVE  Decoded
<1>1. /\ struct \in Structs /\ val \in Values(struct) /\ i \in Fields
      /\ at = Len(Sent[i - 1]) + 1 /\ Len(Sent[i - 1]) \in Nat /\ fatal = FALSE
  BY DecodingFacts
<1>2. /\ F(i).kind \in Scalars /\ Store(i, Read(at, 1)) /\ at' = at + 1
      /\ cnt' = cnt /\ has' = has /\ fatal' = fatal
  BY DEF DecodeScalar, Scalars
<1> DEFINE e == Encoded(val, i)
<1>3. /\ Len(e) = 1 /\ e[1] = [is |-> Tag(i), v |-> At(val, i)[1]]
      /\ Len(Sent[i]) = Len(Sent[i - 1]) + Len(e) /\ stream[at] = e[1]
  BY <1>2, NextTokens DEF Encoding
<1>4. stream[at].v = At(val, i)[1]
  BY <1>3
<1>5. Read(at, 1) = At(val, i)
  <2>1. PICK x \in 0 .. MaxCount : At(val, i) = <<x>>
    BY <1>1, <1>2, LiveFacts
  <2>2. Read(at, 1) = [k \in 1 .. 1 |-> stream[at + k - 1].v]
    BY DEF Read
  <2>3. \A k \in 1 .. 1 : at + k - 1 = at
    BY <1>1
  <2>4. [k \in 1 .. 1 |-> stream[at + k - 1].v] = [k \in 1 .. 1 |-> x]
    BY <1>4, <2>1, <2>3
  <2>5. [k \in 1 .. 1 |-> x] = <<x>>
    OBVIOUS
  <2> QED
    BY <2>1, <2>2, <2>4, <2>5
<1>6. /\ out' \in [Cells(struct) -> Contents]
      /\ \A k \in Fields : k <= i /\ Live(k) => At(out, k)' = At(val, k)
  BY <1>2, <1>5, StoreKeeps
<1>7. at' = Len(Sent[i]) + 1
  BY <1>1, <1>2, <1>3
<1>8. F(i).kind # "array"
  BY <1>2 DEF Scalars
<1> QED
  BY <1>1, <1>2, <1>6, <1>7, <1>8, NotesStay DEF Decoded

LEMMA PointerDecoded ==
  ASSUME Decoding, Live(i), DecodePresent
  PROVE  Decoded
<1>1. /\ struct \in Structs /\ val \in Values(struct) /\ i \in Fields
      /\ at = Len(Sent[i - 1]) + 1 /\ Len(Sent[i - 1]) \in Nat /\ fatal = FALSE
  BY DecodingFacts
<1>2. /\ F(i).kind = "pointer" /\ cnt' = cnt /\ has' = has
      /\ IF stream[at].v = 1
         THEN Store(i, Read(at + 1, 1)) /\ at' = at + 2 /\ fatal' = fatal
         ELSE Store(i, Null) /\ at' = at + 1 /\ fatal' = (fatal \/ ~F(i).optional)
  BY DEF DecodePresent
<1> DEFINE e == Encoded(val, i)
<1>3. /\ Encoding(e, i) /\ Len(Sent[i]) = Len(Sent[i - 1]) + Len(e) /\ stream[at] = e[1]
      /\ \A j \in 1 .. Len(e) : stream[at + j - 1] = e[j]
  BY NextTokens
<1>4. Store(i, At(val, i)) /\ at' = Len(Sent[i]) + 1 /\ fatal' = FALSE
  <2>1. CASE At(val, i) = Null
    <3>1. F(i).optional
      BY <1>1, <1>2, <2>1, LiveFacts
    <3>2. Len(e) = 1 /\ e[1] = Count(0)
      BY <1>2, <1>3, <2>1 DEF Encoding, Scalars
    <3>3. stream[at].v = 0 /\ stream[at].v # 1
      BY <1>3, <3>2 DEF Count
    <3>4. Store(i, At(val, i)) /\ at' = at + 1 /\ fatal' = FALSE
      <4> HIDE DEF e
      <4> QED
        BY <1>1, <1>2, <2>1, <3>1, <3>3, Zenon
    <3>5. at' = Len(Sent[i]) + 1
      BY <1>1, <1>3, <3>2, <3>4
    <3> QED
      BY <3>4, <3>5
  <2>2. CASE At(val, i) # Null
    <3>1. At(val, i) = <<1>>
      BY <1>1, <1>2, <2>2, LiveFacts
    <3>2. EncodesWords(e, Count(1), At(val, i))
      BY <1>2, <1>3, <2>2 DEF Encoding, Scalars
    <3>3. Len(e) = 2 /\ e[1] = Count(1) /\ e[2] = WordOf(1)
      BY <3>1, <3>2 DEF EncodesWords
    <3>4. stream[at].v = 1
      BY <1>3, <3>3 DEF Count
    <3>5. stream[at + 1].v = 1
      <4>1. 2 \in 1 .. Len(e) /\ at + 2 - 1 = at + 1
        BY <1>1, <3>3
      <4> QED
        BY <1>3, <3>3, <4>1 DEF WordOf
    <3>6. Read(at + 1, 1) = <<1>>
      <4>1. Read(at + 1, 1) = [k \in 1 .. 1 |-> stream[at + 1 + k - 1].v]
        BY DEF Read
      <4>2. \A k \in 1 .. 1 : at + 1 + k - 1 = at + 1
        BY <1>1
      <4>3. [k \in 1 .. 1 |-> stream[at + 1 + k - 1].v] = [k \in 1 .. 1 |-> 1]
        BY <3>5, <4>2
      <4>4. [k \in 1 .. 1 |-> 1] = <<1>>
        OBVIOUS
      <4> QED
        BY <4>1, <4>3, <4>4
    <3>7. Store(i, At(val, i)) /\ at' = at + 2 /\ fatal' = FALSE
      <4> HIDE DEF e
      <4> QED
        BY <1>1, <1>2, <3>1, <3>4, <3>6, Zenon
    <3>8. at' = Len(Sent[i]) + 1
      BY <1>1, <1>3, <3>3, <3>7
    <3> QED
      BY <3>7, <3>8
  <2> QED
    BY <2>1, <2>2
<1>5. /\ out' \in [Cells(struct) -> Contents]
      /\ \A k \in Fields : k <= i /\ Live(k) => At(out, k)' = At(val, k)
  BY <1>4, StoreKeeps
<1>6. F(i).kind # "array"
  BY <1>2
<1> QED
  BY <1>1, <1>2, <1>4, <1>5, <1>6, NotesStay DEF Decoded

LEMMA ArrayDecoded ==
  ASSUME Decoding, Live(i), DecodeCounted
  PROVE  Decoded
<1> DEFINE m == stream[at].v
           len == WireLength(m)
           n == CountExpr(val, i)
           e == Encoded(val, i)
           c == At(val, i)
<1>1. /\ struct \in Structs /\ val \in Values(struct) /\ i \in Fields
      /\ at = Len(Sent[i - 1]) + 1 /\ Len(Sent[i - 1]) \in Nat /\ fatal = FALSE
  BY DecodingFacts
<1>2. /\ F(i).kind = "array"
      /\ Store(i, IF m = 0 THEN Null ELSE Read(at + 1, len))
      /\ at' = at + 1 + len
      /\ cnt' = [cnt EXCEPT ![i] = len]
      /\ has' = [has EXCEPT ![i] = IF m = 0 THEN 0 ELSE 1]
      /\ fatal' = fatal
  BY DEF DecodeCounted
<1>3. /\ Encoding(e, i) /\ Len(Sent[i]) = Len(Sent[i - 1]) + Len(e) /\ stream[at] = e[1]
      /\ \A j \in 1 .. Len(e) : stream[at + j - 1] = e[j]
  BY NextTokens
<1>4. /\ cnt \in [Fields -> 0 .. MaxCount] /\ has \in [Fields -> {-1, 0, 1}]
  BY DEF Decoding, IInv, CallInv
<1>5. n \in 0 .. MaxCount /\ n \in Nat
  BY <1>1, <1>2, MaxCountType, CountFacts
<1>6. CASE c = Null
  <2>1. Len(e) = 1 /\ e[1] = Count(0)
    BY <1>2, <1>3, <1>6 DEF Encoding, Scalars
  <2>2. m = 0 /\ len = 0
    BY <1>3, <2>1, MaxCountType DEF Count, WireLength, PresentZero
  <2> HIDE DEF m, len, e
  <2>3. Store(i, c) /\ at' = Len(Sent[i]) + 1 /\ fatal' = FALSE
    <3>1. Store(i, c) /\ at' = at + 1 + len /\ fatal' = FALSE
      BY <1>1, <1>2, <1>6, <2>2, Zenon
    <3>2. Len(Sent[i]) = Len(Sent[i - 1]) + 1
      BY <1>3, <2>1
    <3>3. at' = Len(Sent[i]) + 1
      BY <1>1, <2>2, <3>1, <3>2
    <3> QED
      BY <3>1, <3>3, Zenon
  <2>4. /\ out' \in [Cells(struct) -> Contents]
        /\ \A k \in Fields : k <= i /\ Live(k) => At(out, k)' = At(val, k)
    BY <2>3, StoreKeeps
  <2>5. /\ cnt' \in [Fields -> 0 .. MaxCount] /\ has' \in [Fields -> {-1, 0, 1}]
        /\ \A k \in Fields : k # i => cnt'[k] = cnt[k] /\ has'[k] = has[k]
        /\ has'[i] = 0
    <3>1. 0 \in 0 .. MaxCount
      BY MaxCountType
    <3> QED
      BY <1>1, <1>2, <1>4, <2>2, <3>1
  <2> QED
    BY <1>2, <1>6, <2>3, <2>4, <2>5 DEF Decoded
<1>7. CASE c # Null
  <2>1. c = [j \in 1 .. n |-> j]
    BY <1>1, <1>2, <1>7, LiveFacts
  <2>2. EncodesWords(e, Count(WireCount(n)), c)
    BY <1>2, <1>3, <1>7 DEF Encoding, Scalars
  <2>3. Len(c) = n
    <3> HIDE DEF c, n
    <3> QED
      BY <1>5, <2>1, StoredFacts
  <2>4. /\ Len(e) = 1 + n /\ e[1] = Count(WireCount(n))
        /\ \A j \in 1 .. n : e[1 + j] = WordOf(c[j])
    BY <2>2, <2>3 DEF EncodesWords
  <2>5. m # 0 /\ len = n
    <3>1. m = WireCount(n)
      BY <1>3, <2>4 DEF Count
    <3> QED
      BY <1>5, <3>1, CountTokens
  <2>6. Read(at + 1, len) = c
    <3>1. \A j \in 1 .. n : stream[at + 1 + j - 1].v = j
      <4> TAKE j \in 1 .. n
      <4> HIDE DEF e, n, m, len, c
      <4>1. 1 + j \in 1 .. Len(e) /\ at + 1 + j - 1 = at + (1 + j) - 1
        BY <1>1, <1>5, <2>4
      <4>2. stream[at + (1 + j) - 1] = e[1 + j]
        BY <1>3, <4>1
      <4>3. e[1 + j] = WordOf(c[j]) /\ c[j] = j
        BY <2>1, <2>4
      <4> QED
        BY <4>1, <4>2, <4>3 DEF WordOf
    <3>2. Read(at + 1, len) = [j \in 1 .. n |-> stream[at + 1 + j - 1].v]
      BY <2>5 DEF Read
    <3>3. [j \in 1 .. n |-> stream[at + 1 + j - 1].v] = [j \in 1 .. n |-> j]
      BY <3>1
    <3> QED
      BY <2>1, <3>2, <3>3, Zenon
  <2> HIDE DEF m, len, e, c, n
  <2>7. Store(i, c) /\ at' = Len(Sent[i]) + 1 /\ fatal' = FALSE
    <3>1. Store(i, c) /\ at' = at + 1 + n /\ fatal' = FALSE
      BY <1>1, <1>2, <2>5, <2>6, Zenon
    <3>2. Len(Sent[i]) = Len(Sent[i - 1]) + (1 + n)
      BY <1>3, <2>4
    <3> DEFINE a == Len(Sent[i - 1])
               b == Len(Sent[i])
    <3>3. at' = b + 1
      <4>1. at = a + 1 /\ a \in Nat /\ b = a + (1 + n) /\ at' = at + 1 + n
        BY <1>1, <3>1, <3>2, Zenon
      <4> HIDE DEF a, b
      <4> QED
        BY <1>5, <4>1
    <3> QED
      BY <3>1, <3>3, Zenon
  <2>8. /\ out' \in [Cells(struct) -> Contents]
        /\ \A k \in Fields : k <= i /\ Live(k) => At(out, k)' = At(val, k)
    BY <2>7, StoreKeeps DEF c
  <2>9. /\ cnt' \in [Fields -> 0 .. MaxCount] /\ has' \in [Fields -> {-1, 0, 1}]
        /\ \A k \in Fields : k # i => cnt'[k] = cnt[k] /\ has'[k] = has[k]
        /\ has'[i] = 1 /\ cnt'[i] = n
    BY <1>1, <1>2, <1>4, <1>5, <2>5
  <2> QED
    BY <1>2, <1>7, <2>7, <2>8, <2>9 DEF Decoded, c, n
<1> QED
  BY <1>6, <1>7

LEMMA DecodeStep ==
  ASSUME IInv, DecodeField
  PROVE  IInv'
<1>1. /\ step = "decode" /\ NextField("decode", "check")
      /\ SkipField \/ (Decodes(out, i) /\ (DecodeScalar \/ DecodePresent \/ DecodeCounted))
      /\ struct' = struct /\ val' = val /\ size' = size /\ reserved' = reserved
      /\ stream' = stream
  BY DEF DecodeField
<1>2. Decoding
  BY <1>1 DEF Decoding
<1>3. /\ struct \in Structs /\ val \in Values(struct) /\ i \in Fields
      /\ Len(struct) \in Nat \ {0} /\ Fields = 1 .. Len(struct) /\ stream = Sent[Len(struct)]
      /\ \A k \in Fields : k < i /\ Live(k) => At(out, k) = At(val, k)
      /\ \A k \in Fields : Passed(k) <=> k < i
  BY <1>2, DecodingFacts
<1>4. Decoded
  <2>1. Holds(out, i) <=> Live(i)
    BY <1>3, HoldsAgree
  <2>2. CASE SkipField
    BY <1>2, <2>2, SkipDecoded
  <2>3. CASE Decodes(out, i) /\ (DecodeScalar \/ DecodePresent \/ DecodeCounted)
    <3>1. Live(i)
      BY <2>1, <2>3 DEF Decodes
    <3> QED
      BY <1>2, <2>3, <3>1, ScalarDecoded, PointerDecoded, ArrayDecoded
  <2> QED
    BY <1>1, <2>2, <2>3
<1>5. \/ i < Len(struct) /\ step' = "decode" /\ i' = i + 1
      \/ i = Len(struct) /\ step' = "check" /\ i' = 1
  BY <1>1, <1>3 DEF NextField
<1>6. \A k \in Fields : Passed(k)' <=> k <= i
  <2> TAKE k \in Fields
  <2>1. CASE i < Len(struct) /\ step' = "decode" /\ i' = i + 1
    BY <1>3, <2>1 DEF Passed
  <2>2. CASE i = Len(struct) /\ step' = "check" /\ i' = 1
    BY <1>3, <2>2 DEF Passed
  <2> QED
    BY <1>5, <2>1, <2>2
<1>7. StepInv' /\ IdleInv'
  BY <1>4, <1>5 DEF StepInv, IdleInv, Decoded
<1>8. CallInv'
  <2>1. i' \in 1 .. Len(struct)
    BY <1>3, <1>5
  <2>2. Cells(struct)' = Cells(struct) /\ Fields' = Fields
    BY <1>1, SameValue
  <2> QED
    BY <1>1, <1>3, <1>4, <2>1, <2>2 DEF CallInv, Decoded
<1>9. SizeInv'
  <2>1. size = Bytes(Sent[Len(struct)]) /\ reserved = MaxModeSize
    BY <1>1 DEF IInv, SizeInv
  <2>2. step' \notin {"idle", "size"}
    BY <1>5
  <2> QED
    BY <1>1, <2>1, <2>2, SameValue DEF SizeInv
<1>10. StreamInv'
  BY <1>1, <1>3, <1>5, SameValue DEF StreamInv
<1>11. ReaderInv'
  <2>1. at' = Len(Sent[i]) + 1
    BY <1>4 DEF Decoded
  <2>2. CASE i < Len(struct) /\ step' = "decode" /\ i' = i + 1
    <3>1. i' - 1 = i
      BY <1>3, <2>2
    <3> QED
      BY <1>1, <2>1, <2>2, <3>1, SameValue DEF ReaderInv
  <2>3. CASE i = Len(struct) /\ step' = "check" /\ i' = 1
    BY <1>1, <1>3, <2>1, <2>3, SameValue DEF ReaderInv
  <2> QED
    BY <1>5, <2>2, <2>3
<1>12. StoredInv'
  BY <1>1, <1>4, <1>6, SameValue DEF StoredInv, Decoded
<1>13. ArraysInv'
  <2> SUFFICES ASSUME NEW k \in Fields PROVE Noted(k)'
    BY <1>1, SameValue DEF ArraysInv
  <2>1. CASE k = i
    <3>1. Passed(k)'
      BY <1>3, <1>6, <2>1
    <3> QED
      BY <1>1, <1>4, <2>1, <3>1, SameValue DEF Noted, Decoded
  <2>2. CASE k # i
    <3>1. Passed(k)' <=> Passed(k)
      BY <1>3, <1>6, <2>2
    <3>2. cnt'[k] = cnt[k] /\ has'[k] = has[k]
      BY <1>4, <2>2 DEF Decoded
    <3>3. Noted(k)
      BY <1>1 DEF IInv, ArraysInv
    <3> QED
      BY <1>1, <3>1, <3>2, <3>3, SameValue DEF Noted
  <2> QED
    BY <2>1, <2>2
<1> QED
  BY <1>7, <1>8, <1>9, <1>10, <1>11, <1>12, <1>13 DEF IInv

(* The checks at the end never fail on what a caller may have stored: the   *)
(* count that was sent is the one the array is measured against, an absent *)
(* array has length 0 or is optional, and that of a dead arm was not noted. *)
LEMMA CheckStep ==
  ASSUME IInv, CountedArrayChecks
  PROVE  IInv'
<1>1. /\ step = "check" /\ step' = "done" /\ fatal' = (fatal \/ \E k \in Fields : Short(k))
      /\ struct' = struct /\ i' = i /\ val' = val /\ size' = size /\ reserved' = reserved
      /\ stream' = stream /\ at' = at /\ out' = out /\ cnt' = cnt /\ has' = has
  BY DEF CountedArrayChecks
<1>2. /\ struct \in Structs /\ val \in Values(struct) /\ fatal = FALSE
      /\ cnt \in [Fields -> 0 .. MaxCount]
      /\ \A k \in Fields : Live(k) => At(out, k) = At(val, k)
      /\ \A k \in Fields : Noted(k)
  BY <1>1 DEF IInv, StepInv, CallInv, StoredInv, ArraysInv, Passed
<1>3. ASSUME NEW k \in Fields, F(k).kind = "array" PROVE ~Short(k)
  <2>1. F(k).count \in Fields /\ Plain(struct, F(k).count) /\ CountExpr(val, k) \in 0 .. MaxCount
    BY <1>2, <1>3, CountFacts
  <2>2. CountExpr(out, k) = CountExpr(val, k)
    <3>1. Live(F(k).count)
      BY <1>2, <2>1, PlainFacts
    <3> QED
      BY <1>2, <2>1, <3>1 DEF CountExpr
  <2>3. CASE has[k] = 1
    <3>1. cnt[k] = CountExpr(val, k)
      BY <1>2, <1>3, <2>3 DEF Noted
    <3> QED
      BY <2>1, <2>2, <2>3, <3>1 DEF Short
  <2>4. CASE has[k] = 0
    <3>1. Live(k) /\ At(val, k) = Null
      BY <1>2, <1>3, <2>4 DEF Noted
    <3>2. F(k).optional \/ CountExpr(val, k) = 0
      BY <1>2, <1>3, <3>1, LiveFacts
    <3> QED
      BY <2>2, <2>4, <3>2 DEF Short
  <2> QED
    BY <2>3, <2>4 DEF Short
<1>4. fatal' = FALSE
  BY <1>1, <1>2, <1>3 DEF Short
<1>5. StepInv' /\ IdleInv'
  BY <1>1, <1>4 DEF StepInv, IdleInv
<1>6. CallInv' /\ SizeInv'
  <2>1. Cells(struct)' = Cells(struct) /\ Fields' = Fields
    BY <1>1, SameValue
  <2> QED
    BY <1>1, <2>1, SameValue DEF IInv, CallInv, SizeInv
<1>7. StreamInv' /\ ReaderInv'
  BY <1>1, SameValue DEF IInv, StreamInv, ReaderInv, Written
<1>8. \A k \in Fields : At(out, k)' = At(out, k) /\ (Passed(k)' <=> Passed(k))
  BY <1>1 DEF At, Passed
<1>9. StoredInv'
  BY <1>1, <1>2, <1>8, SameValue DEF StoredInv
<1>10. ArraysInv'
  <2>1. ASSUME NEW k \in Fields PROVE Noted(k)'
    BY <1>1, <1>2, <1>8, SameValue DEF Noted
  <2> QED
    BY <1>1, <2>1, SameValue DEF ArraysInv
<1> QED
  BY <1>5, <1>6, <1>7, <1>9, <1>10 DEF IInv

LEMMA StutterStep ==
  ASSUME IInv, UNCHANGED vars
  PROVE  IInv'
<1>1. /\ struct' = struct /\ step' = step /\ i' = i /\ val' = val /\ size' = size
      /\ reserved' = reserved /\ stream' = stream /\ at' = at /\ out' = out /\ cnt' = cnt
      /\ has' = has /\ fatal' = fatal
  BY DEF vars
<1>2. \A k : At(out, k)' = At(out, k) /\ (Passed(k)' <=> Passed(k)) /\ (Written' <=> Written)
  BY <1>1 DEF At, Passed, Written
<1>3. StepInv' /\ IdleInv' /\ StreamInv' /\ ReaderInv' /\ SizeInv'
  BY <1>1, <1>2, SameValue DEF IInv, StepInv, IdleInv, StreamInv, ReaderInv, SizeInv
<1>4. CallInv'
  <2>1. Cells(struct)' = Cells(struct) /\ Fields' = Fields
    BY <1>1, SameValue
  <2> QED
    BY <1>1, <2>1 DEF IInv, CallInv
<1>5. StoredInv'
  BY <1>1, <1>2, SameValue DEF IInv, StoredInv
<1>6. ArraysInv'
  <2>1. ASSUME NEW k \in Fields, Noted(k) PROVE Noted(k)'
    BY <1>1, <1>2, <2>1, SameValue DEF Noted
  <2> QED
    BY <1>1, <2>1, SameValue DEF IInv, ArraysInv
<1> QED
  BY <1>3, <1>4, <1>5, <1>6 DEF IInv

(* The passes of npt_sizeof_T, npt_encode_T and npt_decode_T keep the       *)
(* invariant, field by field: what is in the stream, where the decoder is, *)
(* and what it has stored.                                                 *)
THEOREM InvHolds == Spec => []IInv
<1>1. Init => IInv
  BY InitInv
<1>2. IInv /\ [Next]_vars => IInv'
  <2> SUFFICES ASSUME IInv, [Next]_vars PROVE IInv'
    OBVIOUS
  <2>1. ASSUME NEW S \in Structs, NEW v \in Values(S), Start(S, v) PROVE IInv'
    BY <2>1, StartStep
  <2>2. CASE Sizeof
    BY <2>2, SizeofStep
  <2>3. CASE EncodeField
    BY <2>3, EncodeStep
  <2>4. CASE DecodeField
    BY <2>4, DecodeStep
  <2>5. CASE CountedArrayChecks
    BY <2>5, CheckStep
  <2>6. CASE UNCHANGED vars
    BY <2>6, StutterStep
  <2> QED
    BY <2>1, <2>2, <2>3, <2>4, <2>5, <2>6 DEF Next
<1> QED
  BY <1>1, <1>2, PTL DEF Spec

-----------------------------------------------------------------------------
(* What it gives *)

(* What npt_sizeof_T says is what npt_encode_T writes, for every struct and *)
(* every value, and npt_decode_T stands before each field where the encoder *)
(* stood before it: it never reads a token of another field or kind.        *)
THEOREM InStep == Spec => []DecoderInStep
<1>1. IInv => DecoderInStep
  <2> SUFFICES ASSUME IInv PROVE DecoderInStep
    OBVIOUS
  <2>1. TypeOK
    BY Typing
  <2>2. ASSUME Written PROVE Bytes(stream) = size
    BY <2>2 DEF IInv, StreamInv, SizeInv, Written
  <2>3. ASSUME step = "decode"
        PROVE  LET sent == {k \in 1 .. (i - 1) : Encodes(val, k)}
               IN  at = 1 + SumFunction([k \in sent |-> Len(Encoded(val, k))])
    <3>1. struct \in Structs /\ val \in Values(struct) /\ i \in 1 .. Len(struct)
          /\ at = Len(Sent[i - 1]) + 1
      BY <2>3 DEF IInv, CallInv, ReaderInv
    <3>2. i - 1 \in 0 .. Len(struct)
      BY <3>1, StructFacts
    <3> DEFINE p == i - 1
               sum == SumFunction([k \in {k \in 1 .. p : Encodes(val, k)} |-> Len(Encoded(val, k))])
    <3>3. Len(Sent[p]) = sum /\ Len(Sent[p]) \in Nat
      BY <3>1, <3>2, PositionIs, SentSteps
    <3>4. at = 1 + sum
      <4> HIDE DEF sum
      <4> QED
        BY <3>1, <3>3
    <3> QED
      BY <3>4
  <2> QED
    BY <2>1, <2>2, <2>3 DEF DecoderInStep
<1> QED
  BY <1>1, InvHolds, PTL

(* Every live field arrives with its value, and the decoder is never fatal  *)
(* on a value the caller may store: neither _decode_counted_array nor the   *)
(* counted array checks after the last field refuse what was sent.          *)
THEOREM FieldsArrive == Spec => []LiveFieldsArrive
<1>1. IInv => LiveFieldsArrive
  <2> SUFFICES ASSUME IInv PROVE LiveFieldsArrive
    OBVIOUS
  <2>1. fatal = FALSE
    BY DEF IInv, StepInv
  <2>2. ASSUME step = "done", NEW k \in Fields, Holds(val, k)
        PROVE  Holds(out, k) /\ At(out, k) = At(val, k)
    <3>1. struct \in Structs /\ \A j \in Fields : Live(j) => At(out, j) = At(val, j)
      BY <2>2 DEF IInv, CallInv, StoredInv, Passed
    <3> QED
      BY <2>2, <3>1, HoldsAgree DEF Live
  <2> QED
    BY <2>1, <2>2 DEF LiveFieldsArrive
<1> QED
  BY <1>1, InvHolds, PTL

(* What npt_sizeof_T in max_mode reserves in a reply for a struct without   *)
(* arrays is enough for every value, whichever arm is live, unless two arms *)
(* are sent at once or a field is a pointer (which the zeroed value sizes   *)
(* as absent).                                                              *)
THEOREM ReplyHasRoom == Spec => []OneArmFits
<1>1. IInv => OneArmFits
  <2> SUFFICES ASSUME IInv, ~Overlapping(struct, val), ~HasPointer(struct),
                      Written, IsBounded(struct)
               PROVE  Bytes(stream) <= reserved
    BY DEF OneArmFits, ReplyFits
  <2>1. struct \in Structs /\ val \in Values(struct) /\ stream = Sent[Len(struct)]
        /\ reserved = MaxModeSize
    BY DEF IInv, CallInv, SizeInv, StreamInv, Written
  <2>2. NormalSize(val) <= MaxModeSize
    BY <2>1, RoomSuffices
  <2>3. NormalSize(val) = Bytes(stream)
    BY <2>1, NormalSizeIs
  <2> QED
    BY <2>1, <2>2, <2>3
<1> QED
  BY <1>1, InvHolds, PTL
=============================================================================
