--------------------------- MODULE WireCodecProofs ---------------------------
(***************************************************************************)
(* Theorems about WireCodec, for all methods, arguments and answers.       *)
(*                                                                         *)
(* A stream is the concatenation of what each parameter contributes:       *)
(* Command[k] and Reply[k] are the streams after k parameters.  The        *)
(* invariant IInv says, pass by pass, that sizes add up to their lengths,  *)
(* that the decoder of the command stands where parameter i begins, and    *)
(* that what it has read is what was passed.  The caller's decoder of the  *)
(* reply is in step as long as every output the host sends is wanted; once *)
(* it is not, it has stopped at a token that is no count (Lost), and so    *)
(* accepts nothing more that has one.                                      *)
(***************************************************************************)
EXTENDS WireCodec, Inductions

-----------------------------------------------------------------------------
(* The streams a call writes: command and reply after k parameters.        *)

CommandParts == [k \in 1 .. Len(method) |-> EncodedInput(k)]
ReplyParts == [k \in 1 .. Len(method) |-> EncodedOutput(k)]
RoomParts == [k \in 1 .. Len(method) |-> SizeofOutput(k)]

Command[k \in 0 .. Len(method)] ==
  IF k = 0 THEN <<>> ELSE Cat(Command[k - 1], CommandParts[k])

Reply[k \in 0 .. Len(method)] ==
  IF k = 0 THEN <<>> ELSE Cat(Reply[k - 1], ReplyParts[k])

Room[k \in 0 .. Len(method)] ==
  IF k = 0 THEN 0 ELSE Room[k - 1] + RoomParts[k]

-----------------------------------------------------------------------------
(* The inductive invariant *)

(* What the decoder makes of argument k, and its count word.               *)
Arrived(k) == IF gargs[k] = <<>> /\ P(k).kind # "array" THEN Null ELSE gargs[k]

WireCnt(k) == IF gargs[k] = Null THEN 0 ELSE WireCount(P(k), CountExpr(gargs, k))

(* What the callee is given as argument k.                                 *)
Given(k) ==
  IF IsInput(k) THEN Arrived(k)
  ELSE IF P(k).kind \in {"single", "fixed"} \/ CountExpr(gargs, k) # 0
       THEN Zeros(CountExpr(gargs, k)) ELSE Null

IdleInv ==
  step = "idle" =>
    /\ method = <<>> /\ i = 1 /\ cmdSize = 0 /\ replySize = 0
    /\ stream = <<>> /\ at = 1 /\ hr = "ok" /\ ~broken

CallInv ==
  step # "idle" =>
    /\ method \in Methods /\ gargs \in Args(method)
    /\ i \in 1 .. Len(method)

SizeInv ==
  /\ step = "size" => /\ cmdSize = Bytes(Command[i - 1])
                      /\ replySize = Room[i - 1]
                      /\ stream = <<>>
  /\ step \notin {"idle", "size"} => /\ cmdSize = Bytes(Command[Len(method)])
                                     /\ replySize = Room[Len(method)]

CommandInv ==
  /\ step \in {"size", "encode", "reply"} => at = 1
  /\ step \in {"check", "call"} => i = 1
  /\ step = "encode" => stream = Command[i - 1]
  /\ step = "decode" => /\ stream = Command[Len(method)]
                        /\ at = Len(Command[i - 1]) + 1
  /\ step = "check" => /\ stream = Command[Len(method)]
                       /\ at = Len(stream) + 1

DecodedInv ==
  /\ step \in {"size", "encode"} =>
       \A k \in Params : hargs[k] = Null /\ cnt[k] = -1
  /\ step \in {"decode", "check"} =>
       \A k \in Params :
         hargs[k] = IF IsInput(k) /\ (step = "check" \/ k < i) THEN Arrived(k) ELSE Null
  /\ step \in {"decode", "check", "call", "reply", "results", "done"} =>
       \A k \in Params :
         cnt[k] = IF IsInput(k) /\ P(k).kind # "value" /\ (step # "decode" \/ k < i)
                  THEN WireCnt(k) ELSE -1

(* The callee may write through its output pointers, not replace them.     *)
LikeGiven(k) ==
  /\ ~IsOutput(k) => hargs[k] = Given(k)
  /\ hargs[k] = Null <=> Given(k) = Null
  /\ hargs[k] # Null => Len(hargs[k]) = Len(Given(k))

HostInv ==
  /\ step = "call" => \A k \in Params : hargs[k] = Given(k)
  /\ step \in {"reply", "results", "done"} =>
       \A k \in Params : LikeGiven(k) /\ (hr = "ok" => HasRoom(k, hargs))

ReplyInv ==
  /\ step = "reply" => stream = Reply[i - 1]
  /\ step \in {"results", "done"} => stream = Reply[Len(method)]

(* How many outputs the guest has been through.                            *)
Passed == IF step = "done" THEN Len(method) ELSE i - 1

InStep == at = Len(Reply[Passed]) + 1

Lost == at <= Len(stream) /\ stream[at].is # "count"

Expected(k) == IF IsOutput(k) /\ Sent(k) # <<>> THEN Sent(k) ELSE Null

ResultsInv ==
  /\ step \notin {"results", "done"} => ~broken /\ \A k \in Params : results[k] = Null
  /\ step \in {"results", "done"} =>
       /\ \A k \in Params : results[k] # Null =>
            /\ k <= Passed /\ gargs[k] # Null /\ results[k] = Expected(k)
       /\ ~broken => InStep \/ Lost
       /\ (\A k \in Params : Wanted(k)) =>
            /\ ~broken /\ InStep
            /\ \A k \in Params : k <= Passed => results[k] = Expected(k)

IInv ==
  /\ TypeOK /\ ~fatal
  /\ IdleInv /\ CallInv /\ SizeInv /\ CommandInv /\ DecodedInv /\ HostInv
  /\ ReplyInv /\ ResultsInv

-----------------------------------------------------------------------------
(* Tokens and their sizes *)

(* What a token may hold. *)
TokenOK(t) ==
  \/ t.is = "count" /\ t.v \in Nat
  \/ t.is = "byte" /\ t.v \in Seq(0 .. MaxCount)
  \/ t.is \in {"uint", "union", "id", "ref"} /\ t.v \in 0 .. MaxCount

Token == {t \in [is : {"count", "byte", "uint", "union", "id", "ref"},
                 v : Nat \cup Seq(0 .. MaxCount)] : TokenOK(t)}

ElemTypes == {"uint", "union", "id", "ref"}

LEMMA ElemSizeType ==
  ASSUME NEW type \in ElemTypes, NEW v
  PROVE  /\ ElemSize(type, v) \in 1 .. 24
         /\ MaxElemSize(type) \in 1 .. 24
         /\ ElemSize(type, v) <= MaxElemSize(type)
<1>1. CASE type = "uint"
  BY <1>1 DEF ElemSize, MaxElemSize
<1>2. CASE type = "union"
  BY <1>2 DEF ElemSize, MaxElemSize
<1>3. CASE type = "id"
  BY <1>3 DEF ElemSize, MaxElemSize
<1>4. CASE type = "ref"
  BY <1>4 DEF ElemSize, MaxElemSize
<1> QED
  BY <1>1, <1>2, <1>3, <1>4 DEF ElemTypes

LEMMA Pad4Type ==
  ASSUME NEW n \in Nat
  PROVE  Pad4(n) \in Nat /\ n <= Pad4(n)
  BY DEF Pad4

LEMMA TokenSizes ==
  ASSUME NEW t
  PROVE  /\ t.is = "count" => TokenSize(t) = 8
         /\ t.is = "byte" => TokenSize(t) = Pad4(Len(t.v))
         /\ t.is \in ElemTypes => TokenSize(t) = ElemSize(t.is, t.v)
<1>1. CASE t.is = "count"
  BY <1>1, Zenon DEF TokenSize, ElemTypes
<1>2. CASE t.is = "byte"
  BY <1>2, Zenon DEF TokenSize, ElemTypes
<1>3. CASE t.is \in ElemTypes
  <2>1. t.is # "count" /\ t.is # "byte"
    BY <1>3 DEF ElemTypes
  <2> QED
    BY <1>3, <2>1, Zenon DEF TokenSize
<1> QED
  BY <1>1, <1>2, <1>3

LEMMA TokenSizeType ==
  ASSUME NEW t \in Token
  PROVE  TokenSize(t) \in Nat
<1>1. TokenOK(t)
  BY DEF Token
<1>2. CASE t.is = "count"
  BY <1>2, TokenSizes
<1>3. CASE t.is = "byte" /\ t.v \in Seq(0 .. MaxCount)
  <2>1. Len(t.v) \in Nat
    BY <1>3, LenProperties
  <2> QED
    BY <1>3, <2>1, TokenSizes, Pad4Type, Zenon
<1>4. CASE t.is \in ElemTypes
  <2>1. TokenSize(t) = ElemSize(t.is, t.v)
    BY <1>4, TokenSizes
  <2>2. ElemSize(t.is, t.v) \in 1 .. 24
    BY <1>4, ElemSizeType
  <2> QED
    BY <2>1, <2>2
<1> QED
  BY <1>1, <1>2, <1>3, <1>4, Zenon DEF TokenOK, ElemTypes

Sizes(ts) == [k \in 1 .. Len(ts) |-> TokenSize(ts[k])]

(* Bytes adds up the sizes of the tokens. *)
LEMMA BytesTotal ==
  ASSUME NEW ts \in Seq(Token)
  PROVE  IsTotal(Bytes(ts), Sizes(ts), Len(ts))
<1> DEFINE n == Len(ts)
           w == Sizes(ts)
           Fold(it) == it = [x \in SUBSET DOMAIN ts |->
                          IF x = {} THEN 0
                          ELSE it[x \ {Max(x)}] + TokenSize(ts[Max(x)])]
<1>1. n \in Nat /\ DOMAIN ts = 1 .. n /\ \A k \in 1 .. n : w[k] = TokenSize(ts[k]) /\ w[k] \in Nat
  BY TokenSizeType, LenProperties DEF Sizes
<1> Numbers(w, n)
  BY <1>1 DEF Numbers
<1>2. \A it : Fold(it) <=> Sums(it, n, w)
  <2> TAKE it
  <2>1. ASSUME NEW x \in SUBSET (1 .. n), x # {} PROVE w[Max(x)] = TokenSize(ts[Max(x)])
    <3>1. Max(x) \in x
      BY <1>1, <2>1, MaxOfSubset
    <3> QED
      BY <1>1, <3>1
  <2>2. [x \in SUBSET DOMAIN ts |->
           IF x = {} THEN 0 ELSE it[x \ {Max(x)}] + TokenSize(ts[Max(x)])]
        = [x \in SUBSET (1 .. n) |->
           IF x = {} THEN 0 ELSE it[x \ {Max(x)}] + w[Max(x)]]
    BY <1>1, <2>1
  <2> QED
    BY <2>2 DEF Sums
<1>3. Bytes(ts) = (CHOOSE it : Fold(it))[DOMAIN ts]
  BY DEF Bytes, FoldLeft, MapThenFoldSet
<1>4. \E it : Sums(it, n, w)
  BY <1>1, FoldExists
<1>5. Sums(CHOOSE it : Fold(it), n, w)
  <2> HIDE DEF Fold, n, w
  <2> QED
    BY <1>2, <1>4
<1> DEFINE its == CHOOSE it : Fold(it)
<1>6. IsTotal(its[1 .. n], w, n)
  <2> HIDE DEF its, w, n
  <2> QED
    BY <1>1, <1>5, FoldTotal DEF its
<1> QED
  BY <1>1, <1>3, <1>6

-----------------------------------------------------------------------------
(* Parameters and arguments *)

LEMMA ParamFacts ==
  ASSUME method \in Methods
  PROVE  /\ Len(method) \in Nat \ {0} /\ Params = 1 .. Len(method)
         /\ method \in [Params -> Param] /\ WellFormed(method)
<1>1. method \in Seq(Param) /\ method # <<>>
  BY MethodsType
<1>2. Len(method) \in Nat /\ DOMAIN method = 1 .. Len(method) /\ method \in [1 .. Len(method) -> Param]
  BY <1>1, LenProperties
<1>3. Len(method) # 0
  BY <1>1, EmptySeq
<1> QED
  BY <1>2, <1>3, MethodsType DEF Params

Simple == {"value", "single"}
Counted == {"array", "blob", "handles", "outs"}

LEMMA CountExprs ==
  ASSUME NEW args, NEW k
  PROVE  /\ P(k).kind \in Simple => CountExpr(args, k) = 1
         /\ P(k).kind = "fixed" => CountExpr(args, k) = P(k).count
         /\ P(k).kind = "string" => CountExpr(args, k) = IF args[k] = Null THEN 0 ELSE Len(args[k])
         /\ P(k).kind \in Counted => CountExpr(args, k) = CountIn(args, P(k).count)
<1>1. CASE P(k).kind \in Simple
  <2>1. P(k).kind \in {"value", "single"} /\ P(k).kind # "fixed" /\ P(k).kind # "string"
        /\ P(k).kind \notin Counted
    BY <1>1 DEF Simple, Counted
  <2> QED
    BY <2>1, <1>1, Zenon DEF CountExpr
<1>2. CASE P(k).kind = "fixed"
  <2>1. P(k).kind \notin {"value", "single"} /\ P(k).kind # "string"
        /\ P(k).kind \notin Counted /\ P(k).kind \notin Simple
    BY <1>2 DEF Simple, Counted
  <2> QED
    BY <2>1, <1>2, Zenon DEF CountExpr
<1>3. CASE P(k).kind = "string"
  <2>1. P(k).kind \notin {"value", "single"} /\ P(k).kind # "fixed"
        /\ P(k).kind \notin Counted /\ P(k).kind \notin Simple
    BY <1>3 DEF Simple, Counted
  <2> QED
    BY <2>1, <1>3, Zenon DEF CountExpr
<1>4. CASE P(k).kind \in Counted
  <2>1. P(k).kind \notin {"value", "single"} /\ P(k).kind # "fixed"
        /\ P(k).kind # "string" /\ P(k).kind \notin Simple
    BY <1>4 DEF Simple, Counted
  <2> QED
    BY <2>1, <1>4, Zenon DEF CountExpr
<1> QED
  BY <1>1, <1>2, <1>3, <1>4, Zenon

LEMMA ArgChoicesByKind ==
  ASSUME NEW p
  PROVE  /\ p.kind = "value" => ArgChoices(p) = [1 .. 1 -> 0 .. MaxCount]
         /\ p.kind = "single" =>
              ArgChoices(p) = NullIf(p.optional) \cup (IF p.input THEN [1 .. 1 -> 0 .. MaxCount]
                                                                  ELSE {Zeros(1)})
         /\ p.kind = "fixed" => ArgChoices(p) = NullIf(p.optional) \cup Buffers(p, p.count)
         /\ p.kind = "string" =>
              ArgChoices(p) = NullIf(p.optional) \cup UNION {Buffers(p, n) : n \in 1 .. MaxCount}
         /\ p.kind \in Counted =>
              ArgChoices(p) = {Null} \cup UNION {Buffers(p, n) : n \in 0 .. MaxCount}
<1>1. CASE p.kind = "value"
  <2>1. p.kind \notin Counted
    BY <1>1 DEF Counted
  <2> QED
    BY <1>1, <2>1, Zenon DEF ArgChoices
<1>2. CASE p.kind = "single"
  <2>1. p.kind \notin Counted
    BY <1>2 DEF Counted
  <2> QED
    BY <1>2, <2>1, Zenon DEF ArgChoices
<1>3. CASE p.kind = "fixed"
  <2>1. p.kind \notin Counted
    BY <1>3 DEF Counted
  <2> QED
    BY <1>3, <2>1, Zenon DEF ArgChoices
<1>4. CASE p.kind = "string"
  <2>1. p.kind \notin Counted
    BY <1>4 DEF Counted
  <2> QED
    BY <1>4, <2>1, Zenon DEF ArgChoices
<1>5. CASE p.kind \in Counted
  <2>1. p.kind # "value" /\ p.kind # "single" /\ p.kind # "fixed" /\ p.kind # "string"
    BY <1>5 DEF Counted
  <2> QED
    BY <1>5, <2>1, Zenon DEF ArgChoices
<1> QED
  BY <1>1, <1>2, <1>3, <1>4, <1>5, Zenon

(* What the API's rules say of argument k. *)
GoodArg(k) ==
  /\ gargs[k] \in Value
  /\ CountExpr(gargs, k) \in 0 .. MaxCount
  /\ gargs[k] # Null => gargs[k] \in [1 .. CountExpr(gargs, k) -> 0 .. MaxCount]
  /\ gargs[k] = Null /\ P(k).kind \in Counted => P(k).optional \/ CountExpr(gargs, k) = 0
  /\ gargs[k] = Null /\ P(k).kind \notin Counted => P(k).optional /\ P(k).kind # "value"
  /\ gargs[k] # Null /\ P(k).kind \notin Counted => CountExpr(gargs, k) # 0

LEMMA BufferTypes ==
  ASSUME NEW p, NEW n \in Nat
  PROVE  Buffers(p, n) \subseteq [1 .. n -> 0 .. MaxCount]
<1>1. 0 \in 0 .. MaxCount /\ 1 \in 0 .. MaxCount
  BY MaxCountType
<1>2. [1 .. n -> {0, 1}] \subseteq [1 .. n -> 0 .. MaxCount]
  BY <1>1
<1>3. Zeros(n) \in [1 .. n -> 0 .. MaxCount]
  BY <1>1 DEF Zeros
<1> QED
  BY <1>2, <1>3 DEF Buffers

LEMMA ValueOfLength ==
  ASSUME NEW n \in 0 .. MaxCount, NEW v \in [1 .. n -> 0 .. MaxCount]
  PROVE  v \in Values /\ v \in Value /\ v # Null /\ Len(v) = n /\ v \in Seq(0 .. MaxCount)
<1>1. v \in Values
  BY DEF Values
<1>2. n \in Nat
  BY MaxCountType
<1>3. v \in Seq(0 .. MaxCount) /\ Len(v) = n
  BY <1>2, FunctionIsSeq
<1> QED
  BY <1>1, <1>3, NullType DEF Value

LEMMA ValueLengths ==
  ASSUME NEW v \in Values
  PROVE  /\ Len(v) \in 0 .. MaxCount
         /\ v \in [1 .. Len(v) -> 0 .. MaxCount]
         /\ v # Null
<1>1. PICK n \in 0 .. MaxCount : v \in [1 .. n -> 0 .. MaxCount]
  BY DEF Values
<1> QED
  BY <1>1, ValueOfLength, NullType

LEMMA SimpleArg ==
  ASSUME NEW p, p.kind \in Simple, NEW v \in ArgChoices(p)
  PROVE  (v = Null /\ p.optional /\ p.kind # "value") \/ v \in [1 .. 1 -> 0 .. MaxCount]
<1>1. CASE p.kind = "value"
  BY <1>1, ArgChoicesByKind, Zenon
<1>2. CASE p.kind = "single"
  <2>1. Zeros(1) \in [1 .. 1 -> 0 .. MaxCount]
    BY MaxCountType DEF Zeros
  <2>2. v \in NullIf(p.optional) \/ v \in [1 .. 1 -> 0 .. MaxCount] \/ v = Zeros(1)
    BY <1>2, ArgChoicesByKind
  <2>3. v \in NullIf(p.optional) => v = Null /\ p.optional
    BY DEF NullIf
  <2> QED
    BY <1>2, <2>1, <2>2, <2>3
<1> QED
  BY <1>1, <1>2 DEF Simple

LEMMA ArgsGood ==
  ASSUME method \in Methods, gargs \in Args(method), NEW k \in Params
  PROVE  GoodArg(k)
<1>1. /\ gargs \in [Params -> UNION {ArgChoices(method[j]) : j \in DOMAIN method}]
      /\ \A j \in Params : gargs[j] \in ArgChoices(P(j)) /\ CountMatches(method, gargs, j)
  BY DEF Args, Params, P
<1> DEFINE a == gargs[k]
           p == P(k)
           n == CountExpr(gargs, k)
<1>2. a \in ArgChoices(p)
  BY <1>1
<1>3. p \in Param
  BY ParamFacts DEF P
<1>4. SUFFICES /\ n \in 0 .. MaxCount
               /\ a = Null \/ a \in [1 .. n -> 0 .. MaxCount]
               /\ a = Null /\ p.kind \in Counted => p.optional \/ n = 0
               /\ a = Null /\ p.kind \notin Counted => p.optional /\ p.kind # "value"
               /\ a # Null /\ p.kind \notin Counted => n # 0
  BY ValueOfLength DEF GoodArg, Value
<1>5. CASE p.kind \in Simple
  <2>1. n = 1 /\ p.kind \notin Counted
    BY <1>5, CountExprs DEF Simple, Counted
  <2>2. (a = Null /\ p.optional /\ p.kind # "value") \/ a \in [1 .. 1 -> 0 .. MaxCount]
    BY <1>2, <1>5, SimpleArg
  <2>3. 1 \in 0 .. MaxCount /\ 1 # 0
    BY MaxCountType
  <2>4. n \in 0 .. MaxCount /\ n # 0
    BY <2>1, <2>3, Zenon
  <2>5. a = Null \/ a \in [1 .. n -> 0 .. MaxCount]
    BY <2>1, <2>2, Zenon
  <2>6. Null \notin [1 .. n -> 0 .. MaxCount]
    BY <2>4, ValueOfLength
  <2> QED
    BY <2>1, <2>2, <2>4, <2>5, <2>6, Zenon
<1>6. CASE p.kind = "fixed"
  <2>1. n = p.count /\ p.kind \notin Counted
    BY <1>6, CountExprs DEF Counted
  <2>2. p.count \in 1 .. MaxCount
    BY <1>6, ParamFacts DEF WellFormed, P, Params
  <2>3. a \in NullIf(p.optional) \/ a \in Buffers(p, p.count)
    BY <1>2, <1>6, ArgChoicesByKind
  <2>4. Buffers(p, p.count) \subseteq [1 .. p.count -> 0 .. MaxCount]
    BY <2>2, MaxCountType, BufferTypes
  <2>5. (a = Null /\ p.optional) \/ a \in [1 .. n -> 0 .. MaxCount]
    BY <2>1, <2>3, <2>4 DEF NullIf
  <2>6. n \in 0 .. MaxCount /\ n # 0
    BY <2>1, <2>2, MaxCountType
  <2>7. Null \notin [1 .. n -> 0 .. MaxCount]
    BY <2>6, ValueOfLength
  <2>8. p.kind # "value"
    BY <1>6
  <2> QED
    BY <2>1, <2>5, <2>6, <2>7, <2>8, Zenon
<1>7. CASE p.kind = "string"
  <2>1. p.kind \notin Counted
    BY <1>7 DEF Counted
  <2>2. CASE a = Null
    <3>1. n = 0
      BY <1>7, <2>2, CountExprs
    <3>2. \A m \in 1 .. MaxCount : Null \notin Buffers(p, m)
      <4> TAKE m \in 1 .. MaxCount
      <4>1. m \in Nat /\ m \in 0 .. MaxCount
        BY MaxCountType
      <4> QED
        BY <4>1, BufferTypes, ValueOfLength
    <3>3. a \in NullIf(p.optional)
      BY <1>2, <1>7, <2>2, <3>2, ArgChoicesByKind
    <3> QED
      BY <1>7, <2>1, <2>2, <3>1, <3>3, MaxCountType DEF NullIf
  <2>3. CASE a # Null
    <3>1. n = Len(a)
      BY <1>7, <2>3, CountExprs
    <3>2. PICK m \in 1 .. MaxCount : a \in Buffers(p, m)
      BY <1>2, <1>7, <2>3, ArgChoicesByKind DEF NullIf
    <3>3. m \in Nat /\ m \in 0 .. MaxCount
      BY MaxCountType
    <3>4. a \in [1 .. m -> 0 .. MaxCount]
      BY <3>2, <3>3, BufferTypes
    <3>5. Len(a) = m
      BY <3>3, <3>4, ValueOfLength
    <3> QED
      BY <2>3, <3>1, <3>3, <3>4, <3>5
  <2> QED
    BY <2>2, <2>3
<1>8. CASE p.kind \in Counted
  <2> DEFINE c == p.count
  <2>1. c \in Params /\ P(c).kind \in Simple
    BY <1>8, ParamFacts DEF WellFormed, P, Params, Counted, Simple
  <2>2. n = CountIn(gargs, c)
    BY <1>8, CountExprs
  <2>3. gargs[c] = Null \/ gargs[c] \in [1 .. 1 -> 0 .. MaxCount]
    <3>1. gargs[c] \in ArgChoices(P(c))
      BY <1>1, <2>1
    <3> QED
      BY <2>1, <3>1, SimpleArg
  <2>4. n \in 0 .. MaxCount
    BY <2>2, <2>3, MaxCountType DEF CountIn
  <2>5. a = Null => p.optional \/ n = 0
    BY <1>1, <1>8, <2>2 DEF CountMatches, Counted, P
  <2>6. CASE a # Null
    <3>1. Len(a) = n
      BY <1>1, <1>8, <2>2, <2>6 DEF CountMatches, Counted, P
    <3>2. PICK m \in 0 .. MaxCount : a \in Buffers(p, m)
      BY <1>2, <1>8, <2>6, ArgChoicesByKind
    <3>3. m \in Nat
      BY MaxCountType
    <3>4. a \in [1 .. m -> 0 .. MaxCount]
      BY <3>2, <3>3, BufferTypes
    <3>5. Len(a) = m
      BY <3>3, <3>4, ValueOfLength
    <3> QED
      BY <1>8, <2>4, <2>6, <3>1, <3>4, <3>5
  <2> QED
    BY <1>8, <2>4, <2>5, <2>6
<1> QED
  BY <1>3, <1>5, <1>6, <1>7, <1>8 DEF Param, Kinds, Simple, Counted

-----------------------------------------------------------------------------
(* Streams *)

LEMMA BytesNone == Bytes(<<>>) = 0
<1>1. <<>> \in Seq(Token) /\ Len(<<>>) = 0
  OBVIOUS
<1>2. IsTotal(Bytes(<<>>), Sizes(<<>>), 0)
  BY <1>1, BytesTotal
<1> QED
  BY <1>2, TotalNone

LEMMA BytesOne ==
  ASSUME NEW t \in Token
  PROVE  <<t>> \in Seq(Token) /\ Len(<<t>>) = 1 /\ Bytes(<<t>>) = TokenSize(t)
<1>1. <<t>> \in Seq(Token) /\ Len(<<t>>) = 1 /\ <<t>>[1] = t
  OBVIOUS
<1>2. IsTotal(Bytes(<<t>>), Sizes(<<t>>), 1)
  BY <1>1, BytesTotal
<1>3. Sizes(<<t>>)[1] = TokenSize(t)
  BY <1>1 DEF Sizes
<1>4. Bytes(<<t>>) = Sizes(<<t>>)[1]
  BY <1>2, TotalOne, Zenon
<1> QED
  BY <1>1, <1>3, <1>4, Zenon

LEMMA BytesJoin ==
  ASSUME NEW s \in Seq(Token), NEW t \in Seq(Token)
  PROVE  Bytes(s) \in Nat /\ Bytes(t) \in Nat /\ Bytes(Cat(s, t)) = Bytes(s) + Bytes(t)
<1> DEFINE c == Cat(s, t)
<1>1. c \in Seq(Token) /\ Joins(c, s, t)
  BY CatProperties
<1> HIDE DEF c
<1>2. Len(s) \in Nat /\ Len(t) \in Nat /\ Len(c) = Len(s) + Len(t)
  BY <1>1 DEF Joins
<1>3. /\ IsTotal(Bytes(s), Sizes(s), Len(s)) /\ IsTotal(Bytes(t), Sizes(t), Len(t))
      /\ IsTotal(Bytes(c), Sizes(c), Len(s) + Len(t))
  BY <1>1, <1>2, BytesTotal
<1>4. \A k \in 1 .. Len(s) : Sizes(c)[k] = Sizes(s)[k]
  <2> TAKE k \in 1 .. Len(s)
  <2>1. k \in 1 .. Len(c)
    BY <1>2
  <2>2. c[k] = s[k]
    BY <1>1 DEF Joins
  <2> QED
    BY <2>1, <2>2, Zenon DEF Sizes
<1>5. \A k \in 1 .. Len(t) : Sizes(c)[Len(s) + k] = Sizes(t)[k]
  <2> TAKE k \in 1 .. Len(t)
  <2>1. Len(s) + k \in 1 .. Len(c)
    BY <1>2
  <2>2. c[Len(s) + k] = t[k]
    BY <1>1 DEF Joins
  <2> QED
    BY <2>1, <2>2, Zenon DEF Sizes
<1>6. Follows(Sizes(c), Sizes(s), Len(s), Sizes(t), Len(t))
  BY <1>4, <1>5, Zenon DEF Follows
<1>7. Bytes(s) \in Nat /\ Bytes(t) \in Nat /\ Bytes(c) = Bytes(s) + Bytes(t)
  BY <1>2, <1>3, <1>6, TotalJoin
<1> QED
  BY <1>7 DEF c

ElemSizes(type, s) == [k \in 1 .. Len(s) |-> ElemSize(type, s[k])]

LEMMA ElemSumTotal ==
  ASSUME NEW type \in ElemTypes, NEW s \in Seq(0 .. MaxCount)
  PROVE  IsTotal(SumOfSizes(type, s), ElemSizes(type, s), Len(s))
<1> DEFINE n == Len(s)
           w == ElemSizes(type, s)
           Fold(it) == it = [x \in SUBSET DOMAIN s |->
                          IF x = {} THEN 0
                          ELSE it[x \ {Max(x)}] + ElemSize(type, s[Max(x)])]
<1>1. n \in Nat /\ DOMAIN s = 1 .. n
      /\ \A k \in 1 .. n : w[k] = ElemSize(type, s[k]) /\ w[k] \in Nat
  <2>1. n \in Nat /\ DOMAIN s = 1 .. n
    BY LenProperties
  <2>2. ASSUME NEW k \in 1 .. n PROVE w[k] = ElemSize(type, s[k]) /\ w[k] \in Nat
    <3>1. w[k] = ElemSize(type, s[k])
      BY DEF ElemSizes
    <3>2. ElemSize(type, s[k]) \in 1 .. 24
      BY ElemSizeType
    <3>3. 1 .. 24 \subseteq Nat
      OBVIOUS
    <3> QED
      BY <3>1, <3>2, <3>3, Zenon
  <2> QED
    BY <2>1, <2>2, Zenon
<1> Numbers(w, n)
  BY <1>1 DEF Numbers
<1>2. \A it : Fold(it) <=> Sums(it, n, w)
  <2> TAKE it
  <2>1. ASSUME NEW x \in SUBSET (1 .. n), x # {} PROVE w[Max(x)] = ElemSize(type, s[Max(x)])
    <3>1. Max(x) \in x
      BY <1>1, <2>1, MaxOfSubset
    <3> QED
      BY <1>1, <3>1
  <2>2. [x \in SUBSET DOMAIN s |->
           IF x = {} THEN 0 ELSE it[x \ {Max(x)}] + ElemSize(type, s[Max(x)])]
        = [x \in SUBSET (1 .. n) |->
           IF x = {} THEN 0 ELSE it[x \ {Max(x)}] + w[Max(x)]]
    BY <1>1, <2>1
  <2> QED
    BY <2>2 DEF Sums
<1>3. SumOfSizes(type, s) = (CHOOSE it : Fold(it))[DOMAIN s]
  BY DEF SumOfSizes, FoldLeft, MapThenFoldSet
<1>4. \E it : Sums(it, n, w)
  BY <1>1, FoldExists
<1>5. Sums(CHOOSE it : Fold(it), n, w)
  <2> HIDE DEF Fold, n, w
  <2> QED
    BY <1>2, <1>4
<1> DEFINE its == CHOOSE it : Fold(it)
<1>6. IsTotal(its[1 .. n], w, n)
  <2> HIDE DEF its, w, n
  <2> QED
    BY <1>1, <1>5, FoldTotal DEF its
<1> QED
  BY <1>1, <1>3, <1>6

WireTypes == ElemTypes \cup {"byte"}

(* What Elems makes of s: its tokens, and that they hold s.                *)
Holds(ts, type, s) ==
  /\ ts \in Seq(Token)
  /\ Len(ts) = Width(type, Len(s))
  /\ Bytes(ts) = ElemsSize(type, s)
  /\ type = "byte" /\ Len(s) # 0 => ts[1].is = "byte" /\ ts[1].v = s
  /\ type # "byte" => \A j \in 1 .. Len(s) : ts[j].is = type /\ ts[j].v = s[j]

LEMMA ByteElems ==
  ASSUME NEW s \in Seq(0 .. MaxCount)
  PROVE  Holds(Elems("byte", s), "byte", s)
<1>1. Len(s) \in Nat /\ (s = <<>> <=> Len(s) = 0)
  BY EmptySeq, LenProperties
<1>2. CASE s = <<>>
  <2>1. Elems("byte", s) = <<>>
    BY <1>2 DEF Elems
  <2>2. Width("byte", Len(s)) = 0 /\ Len(<<>>) = 0 /\ <<>> \in Seq(Token)
    BY <1>1, <1>2 DEF Width
  <2>3. ElemsSize("byte", s) = 0
    BY <1>1, <1>2 DEF ElemsSize, Pad4
  <2> QED
    BY <1>1, <1>2, <2>1, <2>2, <2>3, BytesNone, Zenon DEF Holds
<1>3. CASE s # <<>>
  <2> DEFINE t == [is |-> "byte", v |-> s]
  <2>1. Elems("byte", s) = <<t>>
    BY <1>3 DEF Elems
  <2>2. t.is = "byte" /\ t.v = s
    OBVIOUS
  <2>3. t \in Token
    BY <2>2 DEF Token, TokenOK
  <2>4. TokenSize(t) = ElemsSize("byte", s)
    BY <2>2, TokenSizes, Zenon DEF ElemsSize
  <2> HIDE DEF t
  <2>5. <<t>> \in Seq(Token) /\ Len(<<t>>) = 1 /\ Bytes(<<t>>) = TokenSize(t) /\ <<t>>[1] = t
    BY <2>3, BytesOne
  <2>6. Width("byte", Len(s)) = 1
    BY <1>1, <1>3, Zenon DEF Width
  <2> QED
    BY <2>1, <2>2, <2>4, <2>5, <2>6, Zenon DEF Holds
<1> QED
  BY <1>2, <1>3

LEMMA TypedElems ==
  ASSUME NEW type \in ElemTypes, NEW s \in Seq(0 .. MaxCount)
  PROVE  Holds(Elems(type, s), type, s)
<1> DEFINE ts == Elems(type, s)
           n == Len(s)
<1>1. n \in Nat /\ DOMAIN s = 1 .. n /\ type # "byte" /\ \A j \in 1 .. n : s[j] \in 0 .. MaxCount
  BY LenProperties DEF ElemTypes
<1>2. ts = [j \in 1 .. n |-> [is |-> type, v |-> s[j]]]
  BY <1>1, Zenon DEF Elems
<1>3. \A j \in 1 .. n : ts[j].is = type /\ ts[j].v = s[j] /\ ts[j] \in Token
  <2> TAKE j \in 1 .. n
  <2>1. ts[j] = [is |-> type, v |-> s[j]]
    BY <1>2, Zenon
  <2> DEFINE t == [is |-> type, v |-> s[j]]
  <2>2. t.is = type /\ t.v = s[j] /\ s[j] \in 0 .. MaxCount
    BY <1>1
  <2>3. s[j] \in Nat
    BY <2>2, MaxCountType
  <2>4. TokenOK(t)
    BY <2>2, Zenon DEF TokenOK, ElemTypes
  <2>5. t \in [is : {"count", "byte", "uint", "union", "id", "ref"},
               v : Nat \cup Seq(0 .. MaxCount)]
    BY <2>3 DEF ElemTypes
  <2>6. t \in Token
    BY <2>4, <2>5, Zenon DEF Token
  <2> QED
    BY <2>1, <2>2, <2>6, Zenon
<1>4. ts \in Seq(Token) /\ Len(ts) = n
  <2>1. ts \in [1 .. n -> Token]
    BY <1>2, <1>3
  <2> HIDE DEF ts, n
  <2> QED
    BY <1>1, <2>1, FunctionIsSeq
<1>5. Bytes(ts) = SumOfSizes(type, s)
  <2>1. IsTotal(Bytes(ts), Sizes(ts), n) /\ IsTotal(SumOfSizes(type, s), ElemSizes(type, s), n)
    BY <1>4, BytesTotal, ElemSumTotal
  <2>2. \A k \in 1 .. n : Sizes(ts)[k] = ElemSizes(type, s)[k]
    <3> TAKE k \in 1 .. n
    <3>1. TokenSize(ts[k]) = ElemSize(type, s[k])
      BY <1>3, TokenSizes
    <3>2. Sizes(ts)[k] = TokenSize(ts[k])
      BY <1>4 DEF Sizes
    <3>3. ElemSizes(type, s)[k] = ElemSize(type, s[k])
      BY DEF ElemSizes
    <3> QED
      BY <3>1, <3>2, <3>3, Zenon
  <2>3. Agree(Sizes(ts), ElemSizes(type, s), n)
    BY <2>2, Zenon DEF Agree
  <2> HIDE DEF ts, n
  <2> QED
    BY <1>1, <2>1, <2>3, TotalSame
<1>6. ElemsSize(type, s) = SumOfSizes(type, s) /\ Width(type, n) = n
  BY <1>1, Zenon DEF ElemsSize, Width
<1> HIDE DEF ts
<1> QED
  BY <1>1, <1>3, <1>4, <1>5, <1>6, Zenon DEF Holds, ts

LEMMA ElemsHold ==
  ASSUME NEW type \in WireTypes, NEW s \in Seq(0 .. MaxCount)
  PROVE  Holds(Elems(type, s), type, s)
<1>1. CASE type = "byte"
  BY <1>1, ByteElems, Zenon
<1>2. CASE type \in ElemTypes
  BY <1>2, TypedElems, Zenon
<1> QED
  BY <1>1, <1>2 DEF WireTypes

-----------------------------------------------------------------------------
(* The command *)

(* The elements sent for argument k. *)
Body(k) == IF gargs[k] = Null THEN <<>> ELSE gargs[k]

LEMMA BodyType ==
  ASSUME NEW k, GoodArg(k)
  PROVE  /\ Body(k) \in Seq(0 .. MaxCount) /\ Len(Body(k)) \in 0 .. MaxCount
         /\ gargs[k] # Null => /\ Body(k) = gargs[k] /\ Len(gargs[k]) = CountExpr(gargs, k)
                               /\ FirstOf(gargs[k], CountExpr(gargs, k)) = gargs[k]
         /\ gargs[k] = <<>> <=> gargs[k] # Null /\ CountExpr(gargs, k) = 0
<1> DEFINE n == CountExpr(gargs, k)
           a == gargs[k]
<1>1. n \in 0 .. MaxCount /\ n \in Nat /\ (a # Null => a \in [1 .. n -> 0 .. MaxCount])
  BY MaxCountType DEF GoodArg
<1>2. CASE a # Null
  <2>1. Len(a) = n /\ a \in Seq(0 .. MaxCount)
    BY <1>1, <1>2, ValueOfLength
  <2>2. FirstOf(a, n) = a
    <3>1. \A j \in 1 .. n : j <= Len(a)
      BY <1>1, <2>1
    <3>2. FirstOf(a, n) = [j \in 1 .. n |-> a[j]]
      BY <3>1 DEF FirstOf
    <3>3. a = [j \in 1 .. n |-> a[j]]
      BY <1>1, <1>2
    <3> QED
      BY <3>2, <3>3, Zenon
  <2>3. a = <<>> <=> n = 0
    BY <2>1, EmptySeq
  <2> QED
    BY <1>1, <1>2, <2>1, <2>2, <2>3, Zenon DEF Body
<1>3. CASE a = Null
  <2>1. <<>> \in Seq(0 .. MaxCount) /\ Len(<<>>) = 0 /\ 0 \in 0 .. MaxCount
    BY MaxCountType
  <2>2. <<>> # Null
    <3>1. <<>> \in [1 .. 0 -> 0 .. MaxCount]
      OBVIOUS
    <3> QED
      BY <2>1, <3>1, ValueOfLength
  <2> QED
    BY <1>3, <2>1, <2>2, Zenon DEF Body
<1> QED
  BY <1>2, <1>3

LEMMA WireCnts ==
  ASSUME NEW k, GoodArg(k)
  PROVE  /\ WireCnt(k) \in Nat /\ WireCnt(k) \in -1 .. PresentZero
         /\ WireLength(P(k), WireCnt(k)) = Len(Body(k))
         /\ WireCnt(k) = 0 <=> Arrived(k) = Null
         /\ WireCnt(k) # 0 => Arrived(k) = gargs[k]
<1> DEFINE n == CountExpr(gargs, k)
<1>1. n \in 0 .. MaxCount /\ n \in Nat /\ PresentZero \notin 0 .. MaxCount /\ PresentZero \in Nat \ {0}
      /\ n \in -1 .. PresentZero /\ PresentZero \in -1 .. PresentZero
  BY MaxCountType DEF GoodArg, PresentZero
<1>2. CASE gargs[k] = Null
  <2>1. WireCnt(k) = 0 /\ Body(k) = <<>>
    BY <1>2 DEF WireCnt, Body
  <2>2. WireLength(P(k), 0) = 0 /\ Len(<<>>) = 0
    BY <1>1 DEF WireLength
  <2>3. Arrived(k) = Null
    BY <1>2 DEF Arrived
  <2> QED
    BY <1>1, <2>1, <2>2, <2>3
<1>3. CASE gargs[k] # Null
  <2>1. Body(k) = gargs[k] /\ Len(Body(k)) = n /\ (gargs[k] = <<>> <=> n = 0)
    BY <1>3, BodyType
  <2>2. CASE P(k).kind = "array" /\ n = 0
    <3>1. WireCnt(k) = PresentZero
      BY <1>3, <2>2 DEF WireCnt, WireCount
    <3>2. WireLength(P(k), PresentZero) = 0
      BY <2>2 DEF WireLength
    <3>3. Arrived(k) = gargs[k]
      BY <2>2 DEF Arrived
    <3> QED
      BY <1>1, <1>3, <2>1, <2>2, <3>1, <3>2, <3>3, Zenon
  <2>3. CASE ~(P(k).kind = "array" /\ n = 0)
    <3>1. WireCnt(k) = n
      BY <1>3, <2>3 DEF WireCnt, WireCount
    <3>2. WireLength(P(k), n) = n
      BY <1>1 DEF WireLength
    <3>3. n = 0 <=> Arrived(k) = Null
      BY <1>3, <2>1, <2>3 DEF Arrived
    <3>4. n # 0 => Arrived(k) = gargs[k]
      BY <2>1 DEF Arrived
    <3> QED
      BY <1>1, <1>3, <2>1, <3>1, <3>2, <3>3, <3>4, Zenon
  <2> QED
    BY <2>2, <2>3
<1> QED
  BY <1>2, <1>3

LEMMA CountTokens ==
  ASSUME NEW n \in Nat
  PROVE  /\ CountToken(n) \in Token
         /\ CountToken(n).is = "count" /\ CountToken(n).v = n
         /\ Bytes(<<CountToken(n)>>) = 8
         /\ <<CountToken(n)>> \in Seq(Token)
<1>1. CountToken(n).is = "count" /\ CountToken(n).v = n
  BY DEF CountToken
<1>2. CountToken(n) \in Token
  BY <1>1 DEF Token, TokenOK, CountToken
<1> QED
  BY <1>1, <1>2, BytesOne, TokenSizes

(* A count word and the tokens of what it counts. *)
CountedElems(ts, n, type, s) ==
  /\ ts \in Seq(Token)
  /\ Len(ts) = 1 + Width(type, Len(s)) /\ Width(type, Len(s)) \in Nat
  /\ Bytes(ts) = 8 + ElemsSize(type, s)
  /\ ts[1].is = "count" /\ ts[1].v = n
  /\ \E es : /\ Holds(es, type, s)
             /\ \A j \in 1 .. Len(es) : ts[1 + j] = es[j]

LEMMA CountedElemsHold ==
  ASSUME NEW n \in Nat, NEW type \in WireTypes, NEW s \in Seq(0 .. MaxCount)
  PROVE  CountedElems(Cat(<<CountToken(n)>>, Elems(type, s)), n, type, s)
<1> DEFINE h == <<CountToken(n)>>
           es == Elems(type, s)
           ts == Cat(h, es)
<1>1. Holds(es, type, s)
  BY ElemsHold
<1>2. es \in Seq(Token) /\ h \in Seq(Token) /\ Len(h) = 1 /\ h[1] = CountToken(n) /\ Bytes(h) = 8
  BY <1>1, CountTokens, Zenon DEF Holds
<1>3. ts \in Seq(Token) /\ Joins(ts, h, es)
  BY <1>2, CatProperties
<1>4. Bytes(ts) = Bytes(h) + Bytes(es)
  BY <1>2, BytesJoin
<1> HIDE DEF ts
<1>5. Len(h) = 1 /\ 1 \in 1 .. Len(h)
  BY <1>2
<1>6. /\ Len(ts) = 1 + Len(es) /\ ts[1] = CountToken(n) /\ Len(es) \in Nat
      /\ \A j \in 1 .. Len(es) : ts[1 + j] = es[j]
  BY <1>2, <1>3, <1>5, Zenon DEF Joins
<1>7. Len(es) = Width(type, Len(s)) /\ Bytes(es) = ElemsSize(type, s)
  BY <1>1, Zenon DEF Holds
<1>8. ts[1].is = "count" /\ ts[1].v = n
  BY <1>6, CountTokens, Zenon
<1> HIDE DEF es, h
<1>9. CountedElems(ts, n, type, s)
  BY <1>1, <1>2, <1>3, <1>4, <1>6, <1>7, <1>8, Zenon DEF CountedElems
<1> QED
  BY <1>9 DEF ts, es, h

LEMMA InputForms ==
  ASSUME NEW k
  PROVE  /\ ~IsInput(k) => EncodedInput(k) = <<>> /\ SizeofInput(k) = 0
         /\ IsInput(k) /\ P(k).kind = "value" =>
              /\ EncodedInput(k) = Elems(P(k).type, gargs[k])
              /\ SizeofInput(k) = ElemsSize(P(k).type, gargs[k])
         /\ IsInput(k) /\ P(k).kind # "value" /\ gargs[k] = Null =>
              EncodedInput(k) = <<CountToken(0)>> /\ SizeofInput(k) = 8 + 0
         /\ IsInput(k) /\ P(k).kind # "value" /\ gargs[k] # Null =>
              /\ EncodedInput(k) =
                   Cat(<<CountToken(WireCount(P(k), CountExpr(gargs, k)))>>,
                       Elems(P(k).type, FirstOf(gargs[k], CountExpr(gargs, k))))
              /\ SizeofInput(k) = 8 + ElemsSize(P(k).type, FirstOf(gargs[k], CountExpr(gargs, k)))
<1>1. CASE ~IsInput(k)
  BY <1>1, Zenon DEF EncodedInput, SizeofInput
<1>2. CASE IsInput(k) /\ P(k).kind = "value"
  BY <1>2, Zenon DEF EncodedInput, SizeofInput
<1>3. CASE IsInput(k) /\ P(k).kind # "value" /\ gargs[k] = Null
  BY <1>3, Zenon DEF EncodedInput, SizeofInput
<1>4. CASE IsInput(k) /\ P(k).kind # "value" /\ gargs[k] # Null
  BY <1>4, Zenon DEF EncodedInput, SizeofInput, Cat
<1> QED
  BY <1>1, <1>2, <1>3, <1>4, Zenon

(* What npt_encode_* writes for parameter k, and that npt_sizeof_* agrees. *)
InputPart(k) ==
  /\ EncodedInput(k) \in Seq(Token)
  /\ Bytes(EncodedInput(k)) = SizeofInput(k)
  /\ ~IsInput(k) => EncodedInput(k) = <<>>
  /\ IsInput(k) /\ P(k).kind = "value" =>
       Holds(EncodedInput(k), P(k).type, gargs[k]) /\ Len(gargs[k]) = 1
  /\ IsInput(k) /\ P(k).kind # "value" =>
       CountedElems(EncodedInput(k), WireCnt(k), P(k).type, Body(k))

LEMMA InputParts ==
  ASSUME method \in Methods, gargs \in Args(method), NEW k \in Params
  PROVE  InputPart(k)
<1>1. GoodArg(k) /\ P(k) \in Param
  BY ArgsGood, ParamFacts DEF P
<1>2. P(k).type \in WireTypes
  BY <1>1 DEF Param, WireTypes, ElemTypes
<1>3. CASE ~IsInput(k)
  <2>1. <<>> \in Seq(Token)
    OBVIOUS
  <2>2. EncodedInput(k) = <<>> /\ SizeofInput(k) = 0
    BY <1>3, InputForms
  <2> QED
    BY <1>3, <2>1, <2>2, BytesNone, Zenon DEF InputPart
<1>4. CASE IsInput(k) /\ P(k).kind = "value"
  <2>1. gargs[k] # Null /\ P(k).kind \notin Counted
    BY <1>1, <1>4 DEF GoodArg, Counted
  <2>2. gargs[k] \in Seq(0 .. MaxCount) /\ Len(gargs[k]) = CountExpr(gargs, k)
    BY <1>1, <2>1, BodyType
  <2>3. CountExpr(gargs, k) = 1
    BY <1>4, CountExprs DEF Simple
  <2>4. Holds(Elems(P(k).type, gargs[k]), P(k).type, gargs[k])
    BY <1>2, <2>2, ElemsHold
  <2>5. /\ EncodedInput(k) = Elems(P(k).type, gargs[k])
        /\ SizeofInput(k) = ElemsSize(P(k).type, gargs[k])
    BY <1>4, InputForms, Zenon
  <2>6. EncodedInput(k) \in Seq(Token) /\ Bytes(EncodedInput(k)) = SizeofInput(k)
    BY <2>4, <2>5, Zenon DEF Holds
  <2> QED
    BY <1>4, <2>2, <2>3, <2>4, <2>5, <2>6, Zenon DEF InputPart
<1>5. CASE IsInput(k) /\ P(k).kind # "value"
  <2>1. WireCnt(k) \in Nat /\ Body(k) \in Seq(0 .. MaxCount)
    BY <1>1, WireCnts, BodyType
  <2> DEFINE c == Cat(<<CountToken(WireCnt(k))>>, Elems(P(k).type, Body(k)))
  <2>2. CountedElems(c, WireCnt(k), P(k).type, Body(k))
    BY <1>2, <2>1, CountedElemsHold
  <2> HIDE DEF c
  <2>3. c \in Seq(Token) /\ Bytes(c) = 8 + ElemsSize(P(k).type, Body(k))
    BY <2>2, Zenon DEF CountedElems
  <2>4. EncodedInput(k) = c /\ SizeofInput(k) = 8 + ElemsSize(P(k).type, Body(k))
    <3>1. CASE gargs[k] # Null
      <4>1. Body(k) = FirstOf(gargs[k], CountExpr(gargs, k))
        BY <1>1, <3>1, BodyType
      <4>2. WireCnt(k) = WireCount(P(k), CountExpr(gargs, k))
        BY <3>1 DEF WireCnt
      <4> QED
        BY <1>5, <3>1, <4>1, <4>2, InputForms, Zenon DEF c
    <3>2. CASE gargs[k] = Null
      <4>1. Body(k) = <<>> /\ WireCnt(k) = 0
        BY <3>2 DEF Body, WireCnt
      <4>2. EncodedInput(k) = <<CountToken(0)>> /\ SizeofInput(k) = 8 + 0
        BY <1>5, <3>2, InputForms
      <4>3. Len(Elems(P(k).type, <<>>)) = 0 /\ ElemsSize(P(k).type, <<>>) = 0
        <5>1. <<>> \in Seq(0 .. MaxCount) /\ Len(<<>>) = 0
          OBVIOUS
        <5>2. Elems(P(k).type, <<>>) = <<>>
          BY DEF Elems
        <5>3. Holds(Elems(P(k).type, <<>>), P(k).type, <<>>)
          BY <1>2, <5>1, ElemsHold
        <5>4. Bytes(Elems(P(k).type, <<>>)) = ElemsSize(P(k).type, <<>>)
          BY <5>3, Zenon DEF Holds
        <5> QED
          BY <5>1, <5>2, <5>4, BytesNone, Zenon
      <4>4. Elems(P(k).type, <<>>) = <<>>
        BY DEF Elems
      <4>5. c = <<CountToken(0)>>
        <5>1. <<CountToken(0)>> \in Seq(Token)
          BY CountTokens
        <5>2. <<CountToken(0)>> \o <<>> = <<CountToken(0)>>
          BY <5>1, ConcatEmptySeq, Zenon
        <5> QED
          BY <4>1, <4>4, <5>2, Zenon DEF c, Cat
      <4> QED
        BY <4>1, <4>2, <4>3, <4>5, Zenon
    <3> QED
      BY <3>1, <3>2
  <2> QED
    BY <1>5, <2>2, <2>3, <2>4, Zenon DEF InputPart
<1> QED
  BY <1>3, <1>4, <1>5

LEMMA CommandBuilt ==
  ASSUME method \in Methods, gargs \in Args(method)
  PROVE  Appends(Command, CommandParts, Len(method), Token)
<1> DEFINE n == Len(method)
           Builds(f) == f = [k \in 0 .. n |-> IF k = 0 THEN <<>> ELSE Cat(f[k - 1], CommandParts[k])]
<1>1. n \in Nat /\ Params = 1 .. n
  BY ParamFacts
<1>2. CommandParts \in [1 .. n -> Seq(Token)]
  <2>1. \A k \in 1 .. n : EncodedInput(k) \in Seq(Token)
    BY <1>1, InputParts DEF InputPart
  <2> QED
    BY <2>1 DEF CommandParts
<1>3. \E f : Chain(f, CommandParts, n, Token)
  <2> HIDE DEF n
  <2> QED
    BY <1>1, <1>2, ChainExists
<1>4. \E f : Builds(f)
  BY <1>3 DEF Chain
<1>5. Command = CHOOSE f : Builds(f)
  BY DEF Command
<1>6. Builds(Command)
  <2> HIDE DEF Builds
  <2> QED
    BY <1>4, <1>5, Zenon
<1>7. Chain(Command, CommandParts, n, Token)
  BY <1>2, <1>6, Zenon DEF Chain
<1> QED
  BY <1>1, <1>7, ChainAppends, Zenon

LEMMA CommandFacts ==
  ASSUME method \in Methods, gargs \in Args(method)
  PROVE  /\ Command[0] = <<>>
         /\ \A k \in 0 .. Len(method) : Command[k] \in Seq(Token)
         /\ \A k \in 1 .. Len(method) :
              /\ Command[k] = Command[k - 1] \o EncodedInput(k)
              /\ Bytes(Command[k - 1]) \in Nat
              /\ Bytes(Command[k]) = Bytes(Command[k - 1]) + SizeofInput(k)
              /\ Keeps(Command, CommandParts, k, Len(method))
              /\ CommandParts[k] = EncodedInput(k)
<1>1. Appends(Command, CommandParts, Len(method), Token) /\ Len(method) \in Nat /\ Params = 1 .. Len(method)
  BY CommandBuilt, ParamFacts
<1>2. Command[0] = <<>>
  BY <1>1, Zenon DEF Appends
<1>3. \A k \in 0 .. Len(method) : Command[k] \in Seq(Token)
  BY <1>1 DEF Appends
<1> SUFFICES ASSUME NEW k \in 1 .. Len(method)
             PROVE  /\ Command[k] = Command[k - 1] \o EncodedInput(k)
                    /\ Bytes(Command[k - 1]) \in Nat
                    /\ Bytes(Command[k]) = Bytes(Command[k - 1]) + SizeofInput(k)
                    /\ Keeps(Command, CommandParts, k, Len(method))
                    /\ CommandParts[k] = EncodedInput(k)
  BY <1>2, <1>3, Zenon
<1>4. CommandParts[k] = EncodedInput(k)
  BY Zenon DEF CommandParts
<1>5. Command[k] = Cat(Command[k - 1], EncodedInput(k))
  BY <1>1, <1>4, Zenon DEF Appends
<1>6. Command[k - 1] \in Seq(Token)
  <2>1. k - 1 \in 0 .. Len(method)
    BY <1>1
  <2> QED
    BY <1>3, <2>1, Zenon
<1>7. EncodedInput(k) \in Seq(Token) /\ Bytes(EncodedInput(k)) = SizeofInput(k)
  BY <1>1, InputParts, Zenon DEF InputPart
<1>8. Bytes(Command[k - 1]) \in Nat /\ Bytes(Command[k]) = Bytes(Command[k - 1]) + SizeofInput(k)
  BY <1>5, <1>6, <1>7, BytesJoin
<1>9. Keeps(Command, CommandParts, k, Len(method))
  BY <1>1, AppendsKeeps
<1> QED
  BY <1>4, <1>5, <1>8, <1>9, Zenon DEF Cat

-----------------------------------------------------------------------------
(* The reply *)

(* What the host's argument k is once the callee has run. *)
GoodHostArg(k) ==
  hargs[k] # Null => /\ hargs[k] \in [1 .. CountExpr(gargs, k) -> 0 .. MaxCount]
                     /\ Len(hargs[k]) = CountExpr(gargs, k)

LEMMA GivenType ==
  ASSUME NEW k, GoodArg(k)
  PROVE  /\ Given(k) \in Value
         /\ Given(k) # Null => Len(Given(k)) = CountExpr(gargs, k)
<1> DEFINE n == CountExpr(gargs, k)
<1>1. n \in 0 .. MaxCount
  BY DEF GoodArg
<1>2. CASE IsInput(k)
  <2>1. Arrived(k) \in Value /\ (Arrived(k) # Null => Arrived(k) = gargs[k])
    BY DEF Arrived, GoodArg, Value
  <2> QED
    BY <1>2, <2>1, BodyType, Zenon DEF Given
<1>3. CASE ~IsInput(k)
  <2>1. Zeros(n) \in [1 .. n -> 0 .. MaxCount]
    BY MaxCountType DEF Zeros
  <2>2. Zeros(n) \in Value /\ Len(Zeros(n)) = n
    BY <1>1, <2>1, ValueOfLength
  <2>3. Given(k) = Null \/ Given(k) = Zeros(n)
    BY <1>3 DEF Given
  <2>4. Null \in Value
    BY DEF Value
  <2> QED
    BY <2>2, <2>3, <2>4, Zenon
<1> QED
  BY <1>2, <1>3

LEMMA HostArgsGood ==
  ASSUME NEW k, GoodArg(k), LikeGiven(k), hargs[k] \in Value
  PROVE  GoodHostArg(k)
<1> SUFFICES ASSUME hargs[k] # Null PROVE GoodHostArg(k)
  BY DEF GoodHostArg
<1>1. hargs[k] \in [1 .. Len(hargs[k]) -> 0 .. MaxCount]
  BY ValueLengths DEF Value
<1>2. Len(hargs[k]) = CountExpr(gargs, k)
  BY GivenType, Zenon DEF LikeGiven
<1> QED
  BY <1>1, <1>2, Zenon DEF GoodHostArg

LEMMA OutputCounts ==
  ASSUME NEW k
  PROVE  /\ P(k).kind = "outs" => OutputCountExpr(k) = cnt[k]
         /\ P(k).kind # "outs" /\ P(k).countOut # 0 =>
              OutputCountExpr(k) = CountIn(hargs, P(k).countOut)
         /\ P(k).kind # "outs" /\ P(k).countOut = 0 => OutputCountExpr(k) = CountExpr(hargs, k)
<1>1. CASE P(k).kind = "outs"
  BY <1>1, Zenon DEF OutputCountExpr
<1>2. CASE P(k).kind # "outs" /\ P(k).countOut # 0
  BY <1>2, Zenon DEF OutputCountExpr
<1>3. CASE P(k).kind # "outs" /\ P(k).countOut = 0
  BY <1>3, Zenon DEF OutputCountExpr
<1> QED
  BY <1>1, <1>2, <1>3

(* What the host knows while it writes the reply. *)
HostReady ==
  /\ method \in Methods /\ gargs \in Args(method)
  /\ \A k \in Params : LikeGiven(k) /\ hargs[k] \in Value
  /\ \A k \in Params : P(k).kind = "outs" => cnt[k] = WireCnt(k)

LEMMA SimpleCounts ==
  ASSUME HostReady, NEW c \in Params, P(c).kind \in Simple
  PROVE  CountIn(hargs, c) \in 0 .. MaxCount
<1>1. GoodArg(c) /\ GoodHostArg(c)
  BY ArgsGood, HostArgsGood DEF HostReady
<1>2. CountExpr(gargs, c) = 1
  BY CountExprs
<1>3. hargs[c] # Null => hargs[c] \in [1 .. 1 -> 0 .. MaxCount]
  BY <1>1, <1>2, Zenon DEF GoodHostArg
<1> QED
  BY <1>3, MaxCountType DEF CountIn

OutputKinds == {"single", "fixed", "array", "blob", "outs"}

LEMMA OutputCountType ==
  ASSUME HostReady, NEW k \in Params, IsOutput(k)
  PROVE  /\ P(k).kind \in OutputKinds
         /\ OutputCountExpr(k) \in 0 .. MaxCount
         /\ P(k).kind = "single" => OutputCountExpr(k) = 1
         /\ P(k).kind = "fixed" => OutputCountExpr(k) = P(k).count /\ P(k).count \in 1 .. MaxCount
         /\ P(k).kind = "outs" /\ gargs[k] # Null => OutputCountExpr(k) = CountExpr(gargs, k)
         /\ P(k).countOut # 0 => OutputCountExpr(k) = CountIn(hargs, P(k).countOut)
<1>1. method \in Methods /\ WellFormed(method) /\ P(k) \in Param /\ GoodArg(k)
  BY ParamFacts, ArgsGood DEF HostReady, P
<1>2. /\ P(k).kind \notin {"value", "string", "handles"}
      /\ P(k).countOut # 0 => /\ P(k).kind \in {"array", "blob"}
                              /\ P(k).countOut \in Params /\ P(P(k).countOut).kind = "single"
      /\ P(k).kind \in Counted => P(k).count \in Params /\ P(P(k).count).kind \in Simple
      /\ P(k).kind = "fixed" => P(k).count \in 1 .. MaxCount
  BY <1>1 DEF WellFormed, P, Params, IsOutput, Simple, Counted
<1>3. P(k).kind \in OutputKinds
  BY <1>1, <1>2 DEF Param, Kinds, OutputKinds
<1>4. CASE P(k).kind = "outs"
  <2>1. OutputCountExpr(k) = WireCnt(k)
    BY <1>4, OutputCounts DEF HostReady
  <2>2. WireCnt(k) = IF gargs[k] = Null THEN 0 ELSE CountExpr(gargs, k)
    BY <1>4 DEF WireCnt, WireCount
  <2>3. WireCnt(k) \in 0 .. MaxCount
    BY <1>1, <2>2, MaxCountType DEF GoodArg
  <2> QED
    BY <1>2, <1>3, <1>4, <2>1, <2>2, <2>3
<1>5. CASE P(k).countOut # 0
  <2>1. OutputCountExpr(k) = CountIn(hargs, P(k).countOut)
    BY <1>2, <1>5, OutputCounts
  <2>2. CountIn(hargs, P(k).countOut) \in 0 .. MaxCount
    BY <1>2, <1>5, SimpleCounts DEF Simple
  <2>3. P(k).kind # "single" /\ P(k).kind # "fixed" /\ P(k).kind # "outs"
    BY <1>2, <1>5
  <2> QED
    BY <1>3, <2>1, <2>2, <2>3, Zenon
<1>6. CASE P(k).kind # "outs" /\ P(k).countOut = 0
  <2>1. OutputCountExpr(k) = CountExpr(hargs, k)
    BY <1>6, OutputCounts
  <2>2. CASE P(k).kind = "single"
    <3>1. CountExpr(hargs, k) = 1
      BY <2>2, CountExprs DEF Simple
    <3>2. P(k).kind # "fixed" /\ 1 \in 0 .. MaxCount
      BY <2>2, MaxCountType
    <3> QED
      BY <1>3, <1>6, <2>1, <3>1, <3>2
  <2>3. CASE P(k).kind = "fixed"
    <3>1. CountExpr(hargs, k) = P(k).count /\ P(k).count \in 1 .. MaxCount
      BY <1>2, <2>3, CountExprs
    <3>2. P(k).count \in 0 .. MaxCount
      BY <3>1, MaxCountType
    <3> QED
      BY <1>3, <1>6, <2>1, <2>3, <3>1, <3>2
  <2>4. CASE P(k).kind \in Counted
    <3>1. CountExpr(hargs, k) = CountIn(hargs, P(k).count)
      BY <2>4, CountExprs
    <3>2. CountIn(hargs, P(k).count) \in 0 .. MaxCount
      BY <1>2, <2>4, SimpleCounts
    <3>3. P(k).kind # "single" /\ P(k).kind # "fixed"
      BY <2>4 DEF Counted
    <3> QED
      BY <1>3, <1>6, <2>1, <3>1, <3>2, <3>3, Zenon
  <2> QED
    BY <1>3, <1>6, <2>2, <2>3, <2>4 DEF OutputKinds, Counted
<1> QED
  BY <1>4, <1>5, <1>6

LEMMA FirstOfType ==
  ASSUME NEW n \in 0 .. MaxCount, NEW v \in Values
  PROVE  FirstOf(v, n) \in [1 .. n -> 0 .. MaxCount]
<1>1. v \in [1 .. Len(v) -> 0 .. MaxCount] /\ Len(v) \in Nat /\ n \in Nat
  BY ValueLengths, MaxCountType
<1>2. \A k \in 1 .. n : (IF k <= Len(v) THEN v[k] ELSE 0) \in 0 .. MaxCount
  <2> TAKE k \in 1 .. n
  <2>1. CASE k <= Len(v)
    <3>1. k \in 1 .. Len(v)
      BY <1>1, <2>1
    <3> QED
      BY <1>1, <2>1, <3>1
  <2>2. CASE ~(k <= Len(v))
    BY <2>2, MaxCountType
  <2> QED
    BY <2>1, <2>2
<1> QED
  BY <1>2 DEF FirstOf

(* What the reply carries for output k. *)
SentFact(k) ==
  /\ Sent(k) \in Values
  /\ Sent(k) # <<>> <=> IsSent(k) /\ OutputCountExpr(k) # 0
  /\ Sent(k) # <<>> => hargs[k] # Null /\ Len(Sent(k)) = OutputCountExpr(k)
  /\ Sent(k) = <<>> => Len(Sent(k)) = 0

LEMMA SentFacts ==
  ASSUME HostReady, NEW k \in Params, IsOutput(k)
  PROVE  SentFact(k)
<1> DEFINE n == OutputCountExpr(k)
<1>1. n \in 0 .. MaxCount
  BY OutputCountType
<1>2. CASE IsSent(k)
  <2>1. hargs[k] \in Values
    BY <1>2 DEF IsSent, HostReady, Value
  <2>2. FirstOf(hargs[k], n) \in [1 .. n -> 0 .. MaxCount]
    BY <1>1, <2>1, FirstOfType
  <2>3. Sent(k) = FirstOf(hargs[k], n)
    BY <1>2 DEF Sent
  <2>4. Sent(k) \in Values /\ Len(Sent(k)) = n /\ Sent(k) \in Seq(0 .. MaxCount)
    BY <1>1, <2>2, <2>3, ValueOfLength
  <2>5. Sent(k) = <<>> <=> n = 0
    BY <2>4, EmptySeq
  <2>6. n = 0 => Len(Sent(k)) = 0
    BY <2>4
  <2> QED
    BY <1>2, <2>1, <2>4, <2>5, <2>6, NullType, Zenon DEF SentFact
<1>3. CASE ~IsSent(k)
  <2>1. Sent(k) = <<>>
    BY <1>3 DEF Sent
  <2>2. <<>> \in Values /\ Len(<<>>) = 0
    <3>1. <<>> \in [1 .. 0 -> 0 .. MaxCount] /\ 0 \in 0 .. MaxCount
      BY MaxCountType
    <3> QED
      BY <3>1, ValueOfLength
  <2> QED
    BY <1>3, <2>1, <2>2, Zenon DEF SentFact
<1> QED
  BY <1>2, <1>3

(* What npt_encode_*_reply writes for parameter k. *)
OutputPart(k) ==
  /\ EncodedOutput(k) \in Seq(Token)
  /\ ~IsOutput(k) => EncodedOutput(k) = <<>>
  /\ IsOutput(k) => CountedElems(EncodedOutput(k), Len(Sent(k)), ReplyType(P(k)), Sent(k))

LEMMA OutputParts ==
  ASSUME HostReady, NEW k \in Params
  PROVE  OutputPart(k) /\ ReplyType(P(k)) \in WireTypes
<1>1. P(k).type \in WireTypes /\ "ref" \in WireTypes
  BY ParamFacts DEF HostReady, Param, WireTypes, ElemTypes, P
<1>2. ReplyType(P(k)) \in WireTypes
  BY <1>1 DEF ReplyType
<1>3. CASE ~IsOutput(k)
  <2>1. <<>> \in Seq(Token) /\ EncodedOutput(k) = <<>>
    BY <1>3 DEF EncodedOutput
  <2> QED
    BY <1>2, <1>3, <2>1 DEF OutputPart
<1>4. CASE IsOutput(k)
  <2>1. Sent(k) \in Values
    BY <1>4, SentFacts DEF SentFact
  <2>2. Sent(k) \in Seq(0 .. MaxCount) /\ Len(Sent(k)) \in Nat
    BY <2>1, ValueLengths, ValueOfLength, MaxCountType
  <2>3. EncodedOutput(k) = Cat(<<CountToken(Len(Sent(k)))>>, Elems(ReplyType(P(k)), Sent(k)))
    BY <1>4, Zenon DEF EncodedOutput, Cat
  <2>4. CountedElems(EncodedOutput(k), Len(Sent(k)), ReplyType(P(k)), Sent(k))
    BY <1>2, <2>2, <2>3, CountedElemsHold
  <2> QED
    BY <1>2, <1>4, <2>4, Zenon DEF OutputPart, CountedElems
<1> QED
  BY <1>3, <1>4

LEMMA MaxSizeBounds ==
  ASSUME NEW type \in WireTypes, NEW n \in Nat
  PROVE  /\ MaxSize(type, n) \in Nat
         /\ \A s \in Seq(0 .. MaxCount) : Len(s) <= n => ElemsSize(type, s) \in Nat /\ ElemsSize(type, s) <= MaxSize(type, n)
<1>1. CASE type = "byte"
  <2>1. MaxSize(type, n) = Pad4(n)
    BY <1>1 DEF MaxSize
  <2>2. \A m \in Nat : m <= n => Pad4(m) \in Nat /\ Pad4(n) \in Nat /\ Pad4(m) <= Pad4(n)
    BY DEF Pad4
  <2>3. \A s \in Seq(0 .. MaxCount) : Len(s) \in Nat /\ ElemsSize(type, s) = Pad4(Len(s))
    BY <1>1, LenProperties DEF ElemsSize
  <2> QED
    BY <2>1, <2>2, <2>3, Pad4Type
<1>2. CASE type \in ElemTypes
  <2> DEFINE c == MaxElemSize(type)
  <2>1. type # "byte"
    BY <1>2 DEF ElemTypes
  <2>2. MaxSize(type, n) = n * c
    BY <2>1 DEF MaxSize
  <2>3. c \in Nat
    <3>1. c \in 1 .. 24
      BY <1>2, ElemSizeType
    <3> QED
      BY <3>1
  <2>4. ASSUME NEW s \in Seq(0 .. MaxCount), Len(s) <= n
        PROVE  ElemsSize(type, s) \in Nat /\ ElemsSize(type, s) <= n * c
    <3>1. Len(s) \in Nat
      BY LenProperties
    <3>2. ElemsSize(type, s) = SumOfSizes(type, s)
      BY <2>1, Zenon DEF ElemsSize
    <3>3. IsTotal(SumOfSizes(type, s), ElemSizes(type, s), Len(s))
      BY <1>2, ElemSumTotal
    <3>4. \A k \in 1 .. Len(s) : ElemSizes(type, s)[k] <= c
      <4> TAKE k \in 1 .. Len(s)
      <4>1. ElemSizes(type, s)[k] = ElemSize(type, s[k])
        BY DEF ElemSizes
      <4> QED
        BY <1>2, <4>1, ElemSizeType
    <3>5. SumOfSizes(type, s) \in Nat /\ SumOfSizes(type, s) <= Len(s) * c
      <4> HIDE DEF c
      <4> QED
        BY <2>3, <3>1, <3>3, <3>4, TotalBound
    <3>6. Len(s) * c <= n * c /\ Len(s) * c \in Nat /\ n * c \in Nat
      <4> DEFINE m == Len(s)
      <4>1. m \in Nat /\ m <= n
        BY <2>4, <3>1
      <4> HIDE DEF m, c
      <4>2. n * c = m * c + (n - m) * c
        BY <2>3, <4>1
      <4>3. (n - m) * c \in Nat /\ m * c \in Nat
        BY <2>3, <4>1
      <4> QED
        BY <4>2, <4>3 DEF m
    <3> QED
      BY <3>2, <3>5, <3>6
  <2>5. n * c \in Nat
    BY <2>3
  <2> QED
    BY <2>2, <2>4, <2>5
<1> QED
  BY <1>1, <1>2 DEF WireTypes

LEMMA OutputSizes ==
  ASSUME NEW k
  PROVE  /\ ~IsOutput(k) => SizeofOutput(k) = 0
         /\ IsOutput(k) /\ P(k).kind = "single" => SizeofOutput(k) = 8 + MaxSize(P(k).type, 1)
         /\ IsOutput(k) /\ P(k).kind # "single" =>
              SizeofOutput(k) = 8 + (IF gargs[k] = Null THEN 0
                                     ELSE MaxSize(ReplyType(P(k)), CountExpr(gargs, k)))
<1>1. CASE ~IsOutput(k)
  BY <1>1, Zenon DEF SizeofOutput
<1>2. CASE IsOutput(k) /\ P(k).kind = "single"
  BY <1>2, Zenon DEF SizeofOutput
<1>3. CASE IsOutput(k) /\ P(k).kind # "single"
  BY <1>3, Zenon DEF SizeofOutput
<1> QED
  BY <1>1, <1>2, <1>3

LEMMA OutputSizeType ==
  ASSUME method \in Methods, gargs \in Args(method), NEW k \in Params
  PROVE  SizeofOutput(k) \in Nat
<1>1. P(k).type \in WireTypes /\ ReplyType(P(k)) \in WireTypes /\ CountExpr(gargs, k) \in Nat
  BY ParamFacts, ArgsGood, MaxCountType DEF Param, WireTypes, ElemTypes, P, ReplyType, GoodArg
<1>2. MaxSize(P(k).type, 1) \in Nat /\ MaxSize(ReplyType(P(k)), CountExpr(gargs, k)) \in Nat
  BY <1>1, MaxSizeBounds
<1> QED
  BY <1>2, OutputSizes

LEMMA OutputFits ==
  ASSUME HostReady, NEW k \in Params,
         IsSent(k) => OutputCountExpr(k) <= Len(hargs[k]),
         P(k).kind # "single" => Wanted(k)
  PROVE  Bytes(EncodedOutput(k)) \in Nat /\ Bytes(EncodedOutput(k)) <= SizeofOutput(k)
<1> DEFINE type == ReplyType(P(k))
           s == Sent(k)
           n == CountExpr(gargs, k)
<1>1. type \in WireTypes /\ OutputPart(k)
  BY OutputParts
<1>2. GoodArg(k) /\ GoodHostArg(k)
  BY ArgsGood, HostArgsGood DEF HostReady
<1>3. CASE ~IsOutput(k)
  BY <1>1, <1>3, BytesNone, OutputSizes DEF OutputPart
<1>4. CASE IsOutput(k)
  <2>1. SentFact(k)
    BY <1>4, SentFacts
  <2>2. s \in Seq(0 .. MaxCount) /\ Len(s) \in Nat
    BY <2>1, ValueLengths, ValueOfLength, MaxCountType DEF SentFact
  <2>3. Bytes(EncodedOutput(k)) = 8 + ElemsSize(type, s)
    BY <1>1, <1>4, Zenon DEF OutputPart, CountedElems
  <2>4. \A m \in Nat : Len(s) <= m => /\ MaxSize(type, m) \in Nat
                                      /\ ElemsSize(type, s) \in Nat
                                      /\ ElemsSize(type, s) <= MaxSize(type, m)
    BY <1>1, <2>2, MaxSizeBounds
  <2>5. CASE P(k).kind = "single"
    <3>1. Len(s) <= 1
      <4>1. OutputCountExpr(k) = 1
        BY <1>4, <2>5, OutputCountType
      <4> QED
        BY <2>1, <4>1 DEF SentFact
    <3>2. type = P(k).type
      BY <2>5 DEF ReplyType
    <3> QED
      BY <1>4, <2>3, <2>4, <2>5, <3>1, <3>2, OutputSizes
  <2>6. CASE P(k).kind # "single" /\ gargs[k] = Null
    <3>1. hargs[k] = Null
      BY <1>4, <2>6 DEF Wanted
    <3>2. s = <<>> /\ Len(s) <= 0
      BY <2>1, <3>1 DEF SentFact
    <3>3. ElemsSize(type, s) <= 0 /\ ElemsSize(type, s) \in Nat
      <4>1. ElemsSize(type, s) \in Nat /\ ElemsSize(type, s) <= MaxSize(type, 0)
        BY <2>4, <3>2
      <4>2. MaxSize(type, 0) = 0
        <5>1. CASE type = "byte"
          BY <5>1 DEF MaxSize, Pad4
        <5>2. CASE type # "byte"
          <6>1. MaxElemSize(type) \in 1 .. 24
            BY <1>1, <5>2, ElemSizeType DEF WireTypes
          <6>2. 0 * MaxElemSize(type) = 0
            BY <6>1
          <6> QED
            BY <5>2, <6>2, Zenon DEF MaxSize
        <5> QED
          BY <5>1, <5>2
      <4> QED
        BY <4>1, <4>2
    <3>4. SizeofOutput(k) = 8
      BY <1>4, <2>6, OutputSizes
    <3> QED
      BY <2>3, <3>3, <3>4
  <2>7. CASE P(k).kind # "single" /\ gargs[k] # Null
    <3>1. n \in Nat
      BY <1>2, MaxCountType DEF GoodArg
    <3>2. Len(s) <= n
      <4>1. CASE s = <<>>
        BY <2>1, <3>1, <4>1 DEF SentFact
      <4>2. CASE s # <<>>
        <5>1. Len(s) = OutputCountExpr(k) /\ hargs[k] # Null /\ IsSent(k)
          BY <2>1, <4>2 DEF SentFact
        <5>2. Len(hargs[k]) = n
          BY <1>2, <5>1 DEF GoodHostArg
        <5> QED
          BY <5>1, <5>2
      <4> QED
        BY <4>1, <4>2
    <3>3. MaxSize(type, n) \in Nat /\ ElemsSize(type, s) \in Nat /\ ElemsSize(type, s) <= MaxSize(type, n)
      BY <2>4, <3>1, <3>2
    <3>4. SizeofOutput(k) = 8 + MaxSize(type, n)
      BY <1>4, <2>7, OutputSizes
    <3> QED
      BY <2>3, <3>3, <3>4
  <2> QED
    BY <2>5, <2>6, <2>7
<1> QED
  BY <1>3, <1>4

LEMMA ReplyBuilt ==
  ASSUME HostReady
  PROVE  Appends(Reply, ReplyParts, Len(method), Token)
<1> DEFINE n == Len(method)
           Builds(f) == f = [k \in 0 .. n |-> IF k = 0 THEN <<>> ELSE Cat(f[k - 1], ReplyParts[k])]
<1>1. n \in Nat /\ Params = 1 .. n
  BY ParamFacts DEF HostReady
<1>2. ReplyParts \in [1 .. n -> Seq(Token)]
  <2>1. \A k \in 1 .. n : EncodedOutput(k) \in Seq(Token)
    BY <1>1, OutputParts DEF OutputPart
  <2> QED
    BY <2>1 DEF ReplyParts
<1>3. \E f : Chain(f, ReplyParts, n, Token)
  <2> HIDE DEF n
  <2> QED
    BY <1>1, <1>2, ChainExists
<1>4. \E f : Builds(f)
  BY <1>3 DEF Chain
<1>5. Reply = CHOOSE f : Builds(f)
  BY DEF Reply
<1>6. Builds(Reply)
  <2> HIDE DEF Builds
  <2> QED
    BY <1>4, <1>5, Zenon
<1>7. Chain(Reply, ReplyParts, n, Token)
  BY <1>2, <1>6, Zenon DEF Chain
<1> QED
  BY <1>1, <1>7, ChainAppends, Zenon

LEMMA ReplyFacts ==
  ASSUME HostReady
  PROVE  /\ Reply[0] = <<>>
         /\ \A k \in 0 .. Len(method) : Reply[k] \in Seq(Token)
         /\ \A k \in 1 .. Len(method) :
              /\ Reply[k] = Reply[k - 1] \o EncodedOutput(k)
              /\ Bytes(Reply[k]) = Bytes(Reply[k - 1]) + Bytes(EncodedOutput(k))
              /\ Keeps(Reply, ReplyParts, k, Len(method))
              /\ ReplyParts[k] = EncodedOutput(k)
<1>1. Appends(Reply, ReplyParts, Len(method), Token) /\ Len(method) \in Nat /\ Params = 1 .. Len(method)
  BY ReplyBuilt, ParamFacts DEF HostReady
<1>2. Reply[0] = <<>>
  BY <1>1, Zenon DEF Appends
<1>3. \A k \in 0 .. Len(method) : Reply[k] \in Seq(Token)
  BY <1>1 DEF Appends
<1> SUFFICES ASSUME NEW k \in 1 .. Len(method)
             PROVE  /\ Reply[k] = Reply[k - 1] \o EncodedOutput(k)
                    /\ Bytes(Reply[k]) = Bytes(Reply[k - 1]) + Bytes(EncodedOutput(k))
                    /\ Keeps(Reply, ReplyParts, k, Len(method))
                    /\ ReplyParts[k] = EncodedOutput(k)
  BY <1>2, <1>3, Zenon
<1>4. ReplyParts[k] = EncodedOutput(k)
  BY Zenon DEF ReplyParts
<1>5. Reply[k] = Cat(Reply[k - 1], EncodedOutput(k))
  BY <1>1, <1>4, Zenon DEF Appends
<1>6. Reply[k - 1] \in Seq(Token)
  <2>1. k - 1 \in 0 .. Len(method)
    BY <1>1
  <2> QED
    BY <1>3, <2>1, Zenon
<1>7. EncodedOutput(k) \in Seq(Token)
  BY <1>1, OutputParts, Zenon DEF OutputPart
<1>8. Bytes(Reply[k]) = Bytes(Reply[k - 1]) + Bytes(EncodedOutput(k))
  BY <1>5, <1>6, <1>7, BytesJoin
<1>9. Keeps(Reply, ReplyParts, k, Len(method))
  BY <1>1, AppendsKeeps
<1> QED
  BY <1>4, <1>5, <1>8, <1>9, Zenon DEF Cat

LEMMA RoomFacts ==
  ASSUME method \in Methods, gargs \in Args(method)
  PROVE  /\ Room[0] = 0
         /\ \A k \in 0 .. Len(method) : Room[k] \in Nat
         /\ \A k \in 1 .. Len(method) : Room[k] = Room[k - 1] + SizeofOutput(k)
<1> DEFINE n == Len(method)
           Adds1(f) == f = [k \in 0 .. n |-> IF k = 0 THEN 0 ELSE f[k - 1] + RoomParts[k]]
<1>1. n \in Nat /\ Params = 1 .. n
  BY ParamFacts
<1>2. RoomParts \in [1 .. n -> Nat]
  <2>1. \A k \in 1 .. n : SizeofOutput(k) \in Nat
    BY <1>1, OutputSizeType
  <2> QED
    BY <2>1 DEF RoomParts
<1>3. \E f : Adds(f, RoomParts, n)
  <2> HIDE DEF n
  <2> QED
    BY <1>1, <1>2, AddsExists
<1>4. \E f : Adds1(f)
  BY <1>3 DEF Adds
<1>5. Room = CHOOSE f : Adds1(f)
  BY DEF Room
<1>6. Adds1(Room)
  <2> HIDE DEF Adds1
  <2> QED
    BY <1>4, <1>5, Zenon
<1>7. Adds(Room, RoomParts, n)
  BY <1>2, <1>6, Zenon DEF Adds
<1>8. Totals(Room, RoomParts, n)
  BY <1>1, <1>7, AddsTotals, Zenon
<1>9. \A k \in 1 .. n : RoomParts[k] = SizeofOutput(k)
  BY DEF RoomParts
<1> HIDE DEF n
<1>10. /\ Room[0] = 0
       /\ \A k \in 0 .. n : Room[k] \in Nat
       /\ \A k \in 1 .. n : Room[k] = Room[k - 1] + SizeofOutput(k)
  BY <1>8, <1>9 DEF Totals
<1> QED
  BY <1>10, Zenon DEF n

(* The reply's parts fit, so the reply does. *)
LEMMA ReplyWithinRoom ==
  ASSUME HostReady, Within, \A k \in Params : P(k).kind # "single" => Wanted(k)
  PROVE  Bytes(Reply[Len(method)]) <= Room[Len(method)]
<1> DEFINE n == Len(method)
           D == {k \in 0 .. n : Bytes(Reply[k]) \in Nat /\ Bytes(Reply[k]) <= Room[k]}
<1>1. n \in Nat /\ Params = 1 .. n /\ method \in Methods /\ gargs \in Args(method)
  BY ParamFacts DEF HostReady
<1>2. 0 \in D
  <2>1. Reply[0] = <<>> /\ Room[0] = 0
    BY <1>1, ReplyFacts, RoomFacts
  <2>2. Bytes(Reply[0]) = 0
    BY <2>1, BytesNone
  <2> QED
    BY <1>1, <2>1, <2>2
<1>3. ASSUME NEW k \in 1 .. n, k - 1 \in D PROVE k \in D
  <2>1. k \in Params
    BY <1>1
  <2>2. Bytes(EncodedOutput(k)) \in Nat /\ Bytes(EncodedOutput(k)) <= SizeofOutput(k)
    BY <2>1, OutputFits DEF Within
  <2>3. SizeofOutput(k) \in Nat
    BY <1>1, <2>1, OutputSizeType
  <2>4. Bytes(Reply[k]) = Bytes(Reply[k - 1]) + Bytes(EncodedOutput(k))
    BY ReplyFacts
  <2>5. Room[k] = Room[k - 1] + SizeofOutput(k) /\ Room[k - 1] \in Nat
    <3>1. k - 1 \in 0 .. n
      BY <1>1
    <3> QED
      BY <1>1, <3>1, RoomFacts
  <2>6. Bytes(Reply[k - 1]) \in Nat /\ Bytes(Reply[k - 1]) <= Room[k - 1]
    BY <1>3
  <2>7. Bytes(Reply[k]) \in Nat /\ Bytes(Reply[k]) <= Room[k]
    BY <2>2, <2>3, <2>4, <2>5, <2>6
  <2> QED
    BY <1>1, <2>7
<1>4. 0 .. n \subseteq D
  <2> HIDE DEF D, n
  <2> QED
    BY <1>1, <1>2, <1>3, UptoInduction
<1> QED
  BY <1>1, <1>4

-----------------------------------------------------------------------------
(* The invariant is inductive *)

LEMMA ArgTypes ==
  ASSUME NEW m \in Methods, NEW args \in Args(m)
  PROVE  args \in [DOMAIN m -> Value]
<1>1. /\ args \in [DOMAIN m -> UNION {ArgChoices(m[j]) : j \in DOMAIN m}]
      /\ \A k \in DOMAIN m : args[k] \in ArgChoices(m[k])
  BY DEF Args
<1>2. ASSUME NEW k \in DOMAIN m PROVE ArgChoices(m[k]) \subseteq Value
  <2> DEFINE p == m[k]
  <2>1. m \in Seq(Param) /\ WellFormed(m)
    BY MethodsType
  <2>2. p \in Param
    BY <2>1
  <2>3. \A n \in 0 .. MaxCount : Buffers(p, n) \subseteq Value /\ [1 .. n -> 0 .. MaxCount] \subseteq Value
    <3> TAKE n \in 0 .. MaxCount
    <3>1. n \in Nat
      BY MaxCountType
    <3> QED
      BY <3>1, BufferTypes, ValueOfLength
  <2>4. NullIf(p.optional) \subseteq Value /\ Null \in Value
    BY DEF NullIf, Value
  <2>5. CASE p.kind \in Simple
    <3>1. 1 \in 0 .. MaxCount
      BY MaxCountType
    <3> QED
      BY <2>3, <2>4, <2>5, <3>1, SimpleArg
  <2>6. CASE p.kind = "fixed"
    <3>1. p.count \in 0 .. MaxCount
      BY <2>1, <2>6, MaxCountType DEF WellFormed
    <3> QED
      BY <2>3, <2>4, <2>6, <3>1, ArgChoicesByKind
  <2>7. CASE p.kind = "string"
    <3>1. \A n \in 1 .. MaxCount : n \in 0 .. MaxCount
      BY MaxCountType
    <3> QED
      BY <2>3, <2>4, <2>7, <3>1, ArgChoicesByKind
  <2>8. CASE p.kind \in Counted
    BY <2>3, <2>4, <2>8, ArgChoicesByKind
  <2> QED
    BY <2>2, <2>5, <2>6, <2>7, <2>8 DEF Param, Kinds, Simple, Counted
<1> QED
  BY <1>1, <1>2

LEMMA CallFrame ==
  ASSUME method' = method, gargs' = gargs
  PROVE  /\ Params' = Params /\ Command' = Command /\ Room' = Room
         /\ \A k : /\ P(k)' = P(k) /\ IsInput(k)' = IsInput(k) /\ IsOutput(k)' = IsOutput(k)
                   /\ Arrived(k)' = Arrived(k) /\ WireCnt(k)' = WireCnt(k) /\ Given(k)' = Given(k)
<1>1. \A k : P(k)' = P(k)
  BY DEF P
<1>2. Params' = Params
  BY DEF Params
<1>3. \A k : IsInput(k)' = IsInput(k) /\ IsOutput(k)' = IsOutput(k)
  BY <1>1 DEF IsInput, IsOutput
<1>4. \A k : CountExpr(gargs, k)' = CountExpr(gargs, k)
  BY <1>1, Zenon DEF CountExpr, CountIn, P
<1>5. \A k : Arrived(k)' = Arrived(k)
  BY <1>1, Zenon DEF Arrived
<1>6. \A k : WireCnt(k)' = WireCnt(k)
  BY <1>1, <1>4, Zenon DEF WireCnt
<1>7. \A k : Given(k)' = Given(k)
  BY <1>1, <1>3, <1>4, <1>5, Zenon DEF Given
<1>8. \A k : EncodedInput(k)' = EncodedInput(k)
  BY <1>1, <1>3, <1>4, Zenon DEF EncodedInput
<1>9. \A k : SizeofOutput(k)' = SizeofOutput(k)
  BY <1>1, <1>3, <1>4, Zenon DEF SizeofOutput
<1>10. CommandParts' = CommandParts
  BY <1>8, Zenon DEF CommandParts
<1>11. RoomParts' = RoomParts
  BY <1>9, Zenon DEF RoomParts
<1>12. Command' = Command
  BY <1>10, Zenon DEF Command
<1>13. Room' = Room
  BY <1>11, Zenon DEF Room
<1> QED
  BY <1>1, <1>2, <1>3, <1>5, <1>6, <1>7, <1>12, <1>13, Zenon

LEMMA StartFacts ==
  method \in Methods /\ gargs \in Args(method) => Command[0] = <<>> /\ Room[0] = 0
<1> SUFFICES ASSUME method \in Methods, gargs \in Args(method)
             PROVE  Command[0] = <<>> /\ Room[0] = 0
  OBVIOUS
<1> QED
  BY CommandFacts, RoomFacts

LEMMA StartFactsNext ==
  (method \in Methods /\ gargs \in Args(method) => Command[0] = <<>> /\ Room[0] = 0)'
  BY StartFacts, PTL

(* A pass moves to its next parameter, or to the next pass. *)
Moves(from, to) ==
  \/ i < Len(method) /\ step' = from /\ i' = i + 1
  \/ i = Len(method) /\ step' = to /\ i' = 1

LEMMA NextParamMoves ==
  ASSUME NEW from, NEW to, NextParam(from, to), i \in 1 .. Len(method), Len(method) \in Nat
  PROVE  Moves(from, to) /\ i' \in 1 .. Len(method)
  BY DEF NextParam, Moves

(* While a call is under way. *)
InCall ==
  /\ method \in Methods /\ gargs \in Args(method)
  /\ i \in 1 .. Len(method) /\ i - 1 \in 0 .. Len(method)
  /\ Len(method) \in Nat \ {0} /\ Params = 1 .. Len(method) /\ i \in Params

LEMMA Calling ==
  ASSUME IInv, step # "idle"
  PROVE  InCall
<1>1. method \in Methods /\ gargs \in Args(method) /\ i \in 1 .. Len(method)
  BY DEF IInv, CallInv
<1>2. Len(method) \in Nat \ {0} /\ Params = 1 .. Len(method)
  BY <1>1, ParamFacts
<1> QED
  BY <1>1, <1>2 DEF InCall

LEMMA NoParams == \A S : <<>> \in [{} -> S]
  OBVIOUS

LEMMA InitInv == Init => IInv
<1> SUFFICES ASSUME Init PROVE IInv
  OBVIOUS
<1>1. /\ method = <<>> /\ step = "idle" /\ i = 1 /\ gargs = <<>> /\ cmdSize = 0 /\ replySize = 0
      /\ stream = <<>> /\ at = 1 /\ hargs = <<>> /\ cnt = <<>> /\ fatal = FALSE
      /\ hr = "ok" /\ results = <<>> /\ broken = FALSE
  BY DEF Init
<1>2. Params = {} /\ Len(method) = 0
  BY <1>1 DEF Params
<1>3. TypeOK
  <2>1. /\ gargs \in [Params -> Value] /\ hargs \in [Params -> Value]
        /\ results \in [Params -> Value] /\ cnt \in [Params -> -1 .. PresentZero]
    BY <1>1, <1>2, NoParams
  <2>2. 1 \in 1 .. 0 + 1 /\ 0 \in Nat /\ 1 \in Nat \ {0} /\ FALSE \in BOOLEAN
    OBVIOUS
  <2> QED
    BY <1>1, <1>2, <2>1, <2>2, Zenon DEF TypeOK
<1> QED
  BY <1>1, <1>2, <1>3
     DEF IInv, IdleInv, CallInv, SizeInv, CommandInv, DecodedInv, HostInv, ReplyInv, ResultsInv

LEMMA StartStep ==
  ASSUME IInv, NEW m \in Methods, NEW args \in Args(m), StartCall(m, args)
  PROVE  IInv'
<1>1. /\ method' = m /\ gargs' = args /\ step' = "size" /\ step = "idle"
      /\ hargs' = [k \in DOMAIN m |-> Null] /\ cnt' = [k \in DOMAIN m |-> -1]
      /\ results' = [k \in DOMAIN m |-> Null]
      /\ i' = 1 /\ cmdSize' = 0 /\ replySize' = 0 /\ stream' = <<>> /\ at' = 1 /\ hr' = "ok"
      /\ fatal' = fatal /\ ~fatal /\ broken' = FALSE
  BY DEF StartCall, IInv, IdleInv, TypeOK
<1>2. Len(m) \in Nat \ {0} /\ DOMAIN m = 1 .. Len(m)
  <2>1. m \in Seq(Param) /\ m # <<>>
    BY MethodsType
  <2> QED
    BY <2>1, LenProperties, EmptySeq
<1>3. Params' = DOMAIN m
  BY <1>1 DEF Params
<1>4. TypeOK'
  <2>1. args \in [DOMAIN m -> Value]
    BY ArgTypes
  <2>2. -1 \in -1 .. PresentZero
    BY MaxCountType DEF PresentZero
  <2>3. Null \in Value
    BY DEF Value
  <2>4. /\ gargs' \in [Params' -> Value] /\ hargs' \in [Params' -> Value]
        /\ results' \in [Params' -> Value] /\ cnt' \in [Params' -> -1 .. PresentZero]
    BY <1>1, <1>3, <2>1, <2>2, <2>3
  <2>5. 1 \in 1 .. Len(m) + 1 /\ 0 \in Nat /\ 1 \in Nat \ {0} /\ FALSE \in BOOLEAN
    BY <1>2
  <2>6. fatal \in BOOLEAN
    BY Zenon DEF TypeOK, IInv
  <2> QED
    BY <1>1, <2>4, <2>5, <2>6, Zenon DEF TypeOK
<1>5. Command'[0] = <<>> /\ Room'[0] = 0
  BY <1>1, StartFactsNext
<1>6. SizeInv'
  BY <1>1, <1>5, BytesNone DEF SizeInv
<1>7. ResultsInv'
  BY <1>1, <1>3 DEF ResultsInv
<1>8. DecodedInv'
  BY <1>1, <1>3 DEF DecodedInv
<1> QED
  BY <1>1, <1>2, <1>4, <1>6, <1>7, <1>8
     DEF IInv, IdleInv, CallInv, CommandInv, HostInv, ReplyInv

LEMMA ReturnStep ==
  ASSUME IInv, Return
  PROVE  IInv'
<1>1. /\ method' = <<>> /\ step' = "idle" /\ i' = 1 /\ gargs' = <<>> /\ cmdSize' = 0 /\ replySize' = 0
      /\ stream' = <<>> /\ at' = 1 /\ hargs' = <<>> /\ cnt' = <<>> /\ fatal' = fatal /\ ~fatal
      /\ hr' = "ok" /\ results' = <<>> /\ broken' = FALSE /\ fatal \in BOOLEAN
  BY DEF Return, IInv, TypeOK
<1>2. Params' = {} /\ Len(method') = 0
  BY <1>1 DEF Params
<1>3. TypeOK'
  <2>1. /\ gargs' \in [Params' -> Value] /\ hargs' \in [Params' -> Value]
        /\ results' \in [Params' -> Value] /\ cnt' \in [Params' -> -1 .. PresentZero]
    BY <1>1, <1>2, NoParams
  <2>2. 1 \in 1 .. 0 + 1 /\ 0 \in Nat /\ 1 \in Nat \ {0} /\ FALSE \in BOOLEAN
    OBVIOUS
  <2> QED
    BY <1>1, <1>2, <2>1, <2>2, Zenon DEF TypeOK
<1> QED
  BY <1>1, <1>2, <1>3
     DEF IInv, IdleInv, CallInv, SizeInv, CommandInv, DecodedInv, HostInv, ReplyInv, ResultsInv

LEMMA SizeStep ==
  ASSUME IInv, SizeParam
  PROVE  IInv'
<1>1. /\ step = "size" /\ cmdSize' = cmdSize + SizeofInput(i) /\ replySize' = replySize + SizeofOutput(i)
      /\ method' = method /\ gargs' = gargs /\ stream' = stream /\ at' = at /\ hargs' = hargs
      /\ cnt' = cnt /\ fatal' = fatal /\ hr' = hr /\ results' = results /\ broken' = broken
  BY DEF SizeParam
<1>2. InCall
  BY <1>1, Calling
<1>3. Moves("size", "encode") /\ i' \in 1 .. Len(method)
  BY <1>2, NextParamMoves DEF SizeParam, InCall
<1>4. /\ Params' = Params /\ Command' = Command /\ Room' = Room
  BY <1>1, CallFrame
<1>5. cmdSize = Bytes(Command[i - 1]) /\ replySize = Room[i - 1] /\ stream = <<>>
  BY <1>1 DEF IInv, SizeInv
<1>6. /\ cmdSize' = Bytes(Command[i]) /\ replySize' = Room[i]
      /\ cmdSize' \in Nat /\ replySize' \in Nat
  <2>1. SizeofInput(i) \in Nat /\ SizeofOutput(i) \in Nat
    <3>1. EncodedInput(i) \in Seq(Token) /\ Bytes(EncodedInput(i)) = SizeofInput(i)
      BY <1>2, InputParts, Zenon DEF InCall, InputPart
    <3> QED
      BY <1>2, <3>1, BytesJoin, OutputSizeType DEF InCall
  <2>2. Bytes(Command[i]) = Bytes(Command[i - 1]) + SizeofInput(i) /\ Bytes(Command[i - 1]) \in Nat
    BY <1>2, CommandFacts DEF InCall
  <2>3. Room[i] = Room[i - 1] + SizeofOutput(i) /\ Room[i - 1] \in Nat
    BY <1>2, RoomFacts DEF InCall
  <2> QED
    BY <1>1, <1>5, <2>1, <2>2, <2>3
<1>7. Command[0] = <<>>
  BY <1>2, StartFacts DEF InCall
<1>8. TypeOK'
  <2>1. i' \in 1 .. (Len(method) + 1)
    BY <1>2, <1>3 DEF InCall
  <2>2. step' \in {"size", "encode"}
    BY <1>3 DEF Moves
  <2> QED
    BY <1>1, <1>4, <1>6, <2>1, <2>2 DEF TypeOK, IInv
<1>9. SizeInv'
  BY <1>1, <1>2, <1>3, <1>4, <1>5, <1>6 DEF SizeInv, Moves, InCall
<1>10. CommandInv'
  BY <1>1, <1>3, <1>4, <1>5, <1>7 DEF CommandInv, Moves, IInv
<1>11. DecodedInv'
  BY <1>1, <1>3, <1>4 DEF DecodedInv, Moves, IInv
<1>12. ResultsInv'
  BY <1>1, <1>3, <1>4 DEF ResultsInv, Moves, IInv
<1> QED
  BY <1>1, <1>2, <1>3, <1>8, <1>9, <1>10, <1>11, <1>12
     DEF IInv, IdleInv, CallInv, HostInv, ReplyInv, Moves, InCall

LEMMA EncodeStep ==
  ASSUME IInv, EncodeParam
  PROVE  IInv'
<1>1. /\ step = "encode" /\ stream' = stream \o EncodedInput(i)
      /\ method' = method /\ gargs' = gargs /\ cmdSize' = cmdSize /\ replySize' = replySize
      /\ at' = at /\ hargs' = hargs
      /\ cnt' = cnt /\ fatal' = fatal /\ hr' = hr /\ results' = results /\ broken' = broken
  BY DEF EncodeParam
<1>2. InCall
  BY <1>1, Calling
<1>3. Moves("encode", "decode") /\ i' \in 1 .. Len(method)
  BY <1>2, NextParamMoves DEF EncodeParam, InCall
<1>4. /\ Params' = Params /\ Command' = Command /\ Room' = Room
      /\ \A k : IsInput(k)' = IsInput(k) /\ Arrived(k)' = Arrived(k)
  BY <1>1, CallFrame
<1>5. stream' = Command[i] /\ at = 1
  <2>1. Command[i] = Command[i - 1] \o EncodedInput(i)
    BY <1>2, CommandFacts DEF InCall
  <2> QED
    BY <1>1, <2>1 DEF IInv, CommandInv
<1>6. Command[0] = <<>> /\ Len(<<>>) + 1 = 1
  BY <1>2, StartFacts DEF InCall
<1>7. TypeOK'
  <2>1. i' \in 1 .. (Len(method) + 1)
    BY <1>2, <1>3 DEF InCall
  <2>2. step' \in {"encode", "decode"}
    BY <1>3 DEF Moves
  <2> QED
    BY <1>1, <1>4, <2>1, <2>2 DEF TypeOK, IInv
<1>8. SizeInv'
  BY <1>1, <1>3, <1>4 DEF SizeInv, Moves, IInv
<1>9. CommandInv'
  BY <1>1, <1>2, <1>3, <1>4, <1>5, <1>6 DEF CommandInv, Moves, InCall
<1>10. DecodedInv'
  BY <1>1, <1>2, <1>3, <1>4 DEF DecodedInv, Moves, IInv, InCall
<1>11. ResultsInv'
  BY <1>1, <1>3, <1>4 DEF ResultsInv, Moves, IInv
<1> QED
  BY <1>1, <1>2, <1>3, <1>7, <1>8, <1>9, <1>10, <1>11
     DEF IInv, IdleInv, CallInv, HostInv, ReplyInv, Moves, InCall

(* The tokens ts are in the stream, from position pos on. *)
Placed(pos, ts) ==
  /\ pos \in Nat \ {0} /\ Len(ts) \in Nat /\ Len(stream) \in Nat
  /\ pos + Len(ts) <= Len(stream) + 1
  /\ \A j \in 1 .. Len(ts) : stream[pos + j - 1] = ts[j]

LEMMA KeptPlaced ==
  ASSUME NEW f, NEW e, NEW k, NEW n, Keeps(f, e, k, n), stream = f[n], Len(stream) \in Nat,
         NEW pos, pos = Len(f[k - 1]) + 1
  PROVE  Placed(pos, e[k]) /\ pos + Len(e[k]) = Len(f[k]) + 1
<1> DEFINE a == Len(f[k - 1])
           b == Len(e[k])
<1>1. a \in Nat /\ b \in Nat /\ Len(f[k]) = a + b /\ Len(f[k]) <= Len(stream)
  BY DEF Keeps
<1>2. \A j \in 1 .. b : stream[a + j] = e[k][j]
  BY Zenon DEF Keeps
<1>3. pos = a + 1
  OBVIOUS
<1> HIDE DEF a
<1>4. \A j \in 1 .. b : pos + j - 1 = a + j
  BY <1>1, <1>3
<1>5. \A j \in 1 .. b : stream[pos + j - 1] = e[k][j]
  BY <1>2, <1>4
<1>6. pos \in Nat \ {0} /\ pos + b <= Len(stream) + 1 /\ pos + b = Len(f[k]) + 1
  <2> DEFINE c == Len(f[k])
             d == Len(stream)
  <2>1. a \in Nat /\ b \in Nat /\ c = a + b /\ c <= d /\ d \in Nat
    BY <1>1
  <2> HIDE DEF b, c, d
  <2>2. a + 1 \in Nat \ {0} /\ a + 1 + b <= d + 1 /\ a + 1 + b = c + 1
    BY <2>1
  <2> QED
    BY <1>3, <2>2 DEF b, c, d
<1> QED
  BY <1>1, <1>5, <1>6, Zenon DEF Placed

(* Elements are read back as they were written. *)
LEMMA ReadBack ==
  ASSUME NEW type \in WireTypes, NEW s \in Seq(0 .. MaxCount), NEW es, Holds(es, type, s),
         NEW pos, Placed(pos, es)
  PROVE  ElemsAt(type, pos, Len(s)) /\ ReadElems(type, pos, Len(s)) = s
<1> DEFINE n == Len(s)
<1>1. n \in Nat /\ s = [j \in 1 .. n |-> s[j]] /\ (s = <<>> <=> n = 0)
  BY LenProperties, EmptySeq
<1>2. Len(es) = Width(type, n) /\ pos \in Nat \ {0} /\ Len(stream) \in Nat
      /\ pos + Len(es) <= Len(stream) + 1 /\ \A j \in 1 .. Len(es) : stream[pos + j - 1] = es[j]
  BY Zenon DEF Holds, Placed
<1>3. CASE type = "byte" /\ n = 0
  <2>1. Width(type, n) = 0
    BY <1>3 DEF Width
  <2>2. ElemsAt(type, pos, n)
    BY <1>2, <2>1 DEF ElemsAt
  <2> QED
    BY <1>1, <1>3, <2>2 DEF ReadElems
<1>4. CASE type = "byte" /\ n # 0
  <2>1. Width(type, n) = 1
    BY <1>4 DEF Width
  <2>2. es[1].is = "byte" /\ es[1].v = s
    BY <1>4, Zenon DEF Holds
  <2>3. stream[pos] = es[1] /\ pos <= Len(stream)
    <3>1. 1 \in 1 .. Len(es) /\ pos + 1 - 1 = pos
      BY <1>2, <2>1
    <3>2. stream[pos + 1 - 1] = es[1]
      BY <1>2, <3>1, Zenon
    <3> QED
      BY <1>2, <2>1, <3>1, <3>2
  <2>4. \A k \in pos .. (pos + 1 - 1) : k = pos
    BY <1>2
  <2>5. ElemsAt(type, pos, n)
    BY <1>4, <2>1, <2>2, <2>3, <2>4, Zenon DEF ElemsAt
  <2>6. ReadElems(type, pos, n) = s
    BY <1>4, <2>2, <2>3, Zenon DEF ReadElems
  <2> QED
    BY <2>5, <2>6
<1>5. CASE type # "byte"
  <2>1. Width(type, n) = n
    BY <1>5 DEF Width
  <2>2. \A j \in 1 .. n : es[j].is = type /\ es[j].v = s[j]
    BY <1>5, Zenon DEF Holds
  <2>3. \A j \in 1 .. n : stream[pos + j - 1] = es[j]
    BY <1>2, <2>1
  <2>4. ASSUME NEW k \in pos .. (pos + n - 1)
        PROVE  k <= Len(stream) /\ stream[k].is = type
    <3> DEFINE j == k - pos + 1
    <3>1. j \in 1 .. n /\ pos + j - 1 = k /\ k <= Len(stream)
      BY <1>1, <1>2, <2>1
    <3> HIDE DEF j
    <3>2. stream[k] = es[j] /\ es[j].is = type
      BY <2>2, <2>3, <3>1
    <3> QED
      BY <3>1, <3>2
  <2>5. ElemsAt(type, pos, n)
    BY <1>5, <2>1, <2>4, Zenon DEF ElemsAt
  <2>6. ReadElems(type, pos, n) = [j \in 1 .. n |-> stream[pos + j - 1].v]
    BY <1>5, Zenon DEF ReadElems
  <2>7. \A j \in 1 .. n : stream[pos + j - 1].v = s[j]
    BY <2>2, <2>3
  <2>8. [j \in 1 .. n |-> stream[pos + j - 1].v] = [j \in 1 .. n |-> s[j]]
    BY <2>7, Zenon
  <2> QED
    BY <1>1, <2>5, <2>6, <2>8, Zenon
<1> QED
  BY <1>3, <1>4, <1>5

(* A decoder at pos finds the count word n and the elements s, and nothing *)
(* else of ts.                                                             *)
Reads(pos, ts, n, type, s) ==
  /\ CountAt(pos) /\ stream[pos].v = n
  /\ ElemsAt(type, pos + 1, Len(s)) /\ ReadElems(type, pos + 1, Len(s)) = s
  /\ pos + 1 + Width(type, Len(s)) = pos + Len(ts)
  /\ pos + 1 + Width(type, Len(s)) \in Nat \ {0}

LEMMA ReadCounted ==
  ASSUME NEW ts, NEW n, NEW type, NEW s, NEW pos,
         type \in WireTypes, s \in Seq(0 .. MaxCount),
         CountedElems(ts, n, type, s), Placed(pos, ts)
  PROVE  Reads(pos, ts, n, type, s)
<1> DEFINE w == Width(type, Len(s))
<1>1. Len(ts) = 1 + w /\ w \in Nat /\ ts[1].is = "count" /\ ts[1].v = n
  BY Zenon DEF CountedElems
<1>2. /\ pos \in Nat \ {0} /\ Len(stream) \in Nat /\ pos + Len(ts) <= Len(stream) + 1
      /\ \A j \in 1 .. Len(ts) : stream[pos + j - 1] = ts[j]
  BY Zenon DEF Placed
<1>3. PICK es : Holds(es, type, s) /\ \A j \in 1 .. Len(es) : ts[1 + j] = es[j]
  BY Zenon DEF CountedElems
<1>4. Len(es) = w
  BY <1>3, Zenon DEF Holds
<1> HIDE DEF w
<1>5. stream[pos] = ts[1] /\ pos <= Len(stream)
  <2>1. 1 \in 1 .. Len(ts) /\ pos + 1 - 1 = pos
    BY <1>1, <1>2
  <2>2. stream[pos + 1 - 1] = ts[1]
    BY <1>2, <2>1, Zenon
  <2> QED
    BY <1>1, <1>2, <2>1, <2>2
<1>6. CountAt(pos) /\ stream[pos].v = n
  BY <1>1, <1>5 DEF CountAt
<1>7. Placed(pos + 1, es)
  <2>1. \A j \in 1 .. w : stream[(pos + 1) + j - 1] = es[j]
    <3> TAKE j \in 1 .. w
    <3> DEFINE q == 1 + j
    <3>1. q \in 1 .. Len(ts) /\ pos + q - 1 = (pos + 1) + j - 1 /\ q = 1 + j
      BY <1>1, <1>2
    <3> HIDE DEF q
    <3>2. stream[pos + q - 1] = ts[q]
      BY <1>2, <3>1, Zenon
    <3>3. ts[q] = es[j]
      BY <1>3, <1>4, <3>1, Zenon
    <3> QED
      BY <3>1, <3>2, <3>3, Zenon
  <2>2. pos + 1 \in Nat \ {0} /\ (pos + 1) + w <= Len(stream) + 1
    BY <1>1, <1>2
  <2> QED
    BY <1>1, <1>2, <1>4, <2>1, <2>2, Zenon DEF Placed
<1>8. ElemsAt(type, pos + 1, Len(s)) /\ ReadElems(type, pos + 1, Len(s)) = s
  BY <1>3, <1>7, ReadBack
<1>9. pos + 1 + w = pos + Len(ts) /\ pos + 1 + w \in Nat \ {0}
  BY <1>1, <1>2
<1> QED
  BY <1>6, <1>8, <1>9 DEF w, Reads

(* What a caller passes is never refused when it is decoded. *)
LEMMA CountsGood ==
  ASSUME NEW k, GoodArg(k)
  PROVE  ~BadCount(k, WireCnt(k))
<1>1. CASE gargs[k] = Null
  <2>1. WireCnt(k) = 0
    BY <1>1 DEF WireCnt
  <2>2. P(k).kind \in {"single", "fixed"} => P(k).optional
    BY <1>1 DEF GoodArg, Counted
  <2> QED
    BY <2>1, <2>2 DEF BadCount
<1>2. CASE gargs[k] # Null
  <2>1. P(k).kind # "array" => WireCnt(k) = CountExpr(gargs, k)
    BY <1>2 DEF WireCnt, WireCount
  <2>2. P(k).kind = "single" => CountExpr(gargs, k) = 1
    BY CountExprs DEF Simple
  <2>3. P(k).kind = "fixed" => CountExpr(gargs, k) = P(k).count
    BY CountExprs
  <2> QED
    BY <2>1, <2>2, <2>3 DEF BadCount
<1> QED
  BY <1>1, <1>2

(* Where the decoder of the command is, and what is there. *)
LEMMA AtInput ==
  ASSUME IInv, step = "decode"
  PROVE  /\ Placed(at, EncodedInput(i)) /\ at + Len(EncodedInput(i)) = Len(Command[i]) + 1
         /\ InputPart(i) /\ GoodArg(i) /\ P(i).type \in WireTypes
<1>1. InCall
  BY Calling
<1>2. stream = Command[Len(method)] /\ at = Len(Command[i - 1]) + 1
  BY DEF IInv, CommandInv
<1>3. Keeps(Command, CommandParts, i, Len(method)) /\ CommandParts[i] = EncodedInput(i)
  BY <1>1, CommandFacts DEF InCall
<1>4. Len(stream) \in Nat
  <2>1. stream \in Seq(Token)
    BY <1>1, <1>2, CommandFacts DEF InCall
  <2> QED
    BY <2>1, LenProperties
<1>5. Placed(at, EncodedInput(i)) /\ at + Len(EncodedInput(i)) = Len(Command[i]) + 1
  BY <1>2, <1>3, <1>4, KeptPlaced
<1>6. InputPart(i) /\ GoodArg(i)
  BY <1>1, InputParts, ArgsGood DEF InCall
<1>7. P(i).type \in WireTypes
  BY <1>1, ParamFacts DEF InCall, Param, WireTypes, ElemTypes, P
<1> QED
  BY <1>5, <1>6, <1>7

(* What one step of npt_decode_*_args_temp makes of its parameter. *)
Decoded(k) ==
  /\ hargs' = [hargs EXCEPT ![k] = IF IsInput(k) THEN Arrived(k) ELSE hargs[k]]
  /\ cnt' = [cnt EXCEPT ![k] = IF IsInput(k) /\ P(k).kind # "value" THEN WireCnt(k) ELSE cnt[k]]
  /\ at' = Len(Command[k]) + 1
  /\ fatal' = FALSE

LEMMA DecodesValue ==
  ASSUME IInv, step = "decode", IsInput(i), DecodeValue
  PROVE  Decoded(i)
<1>1. /\ P(i).kind = "value" /\ hargs' = [hargs EXCEPT ![i] = ReadElems(P(i).type, at, 1)]
      /\ at' = at + 1 /\ cnt' = cnt /\ fatal' = fatal
  BY DEF DecodeValue
<1>2. InCall /\ ~fatal /\ fatal \in BOOLEAN /\ cnt \in [Params -> -1 .. PresentZero]
  BY Calling DEF IInv, TypeOK
<1>3. Holds(EncodedInput(i), P(i).type, gargs[i]) /\ Len(gargs[i]) = 1
  BY <1>1, AtInput DEF InputPart
<1>4. gargs[i] # Null /\ P(i).kind \notin Counted
  BY <1>1, AtInput DEF GoodArg, Counted
<1>5. gargs[i] \in Seq(0 .. MaxCount) /\ CountExpr(gargs, i) = 1
  BY <1>1, <1>4, AtInput, BodyType, CountExprs DEF Simple
<1>6. ReadElems(P(i).type, at, 1) = gargs[i]
  BY <1>3, <1>5, AtInput, ReadBack
<1>7. Len(EncodedInput(i)) = 1
  <2>1. Width(P(i).type, 1) = 1
    BY DEF Width
  <2> QED
    BY <1>3, <2>1, Zenon DEF Holds
<1>8. Arrived(i) = gargs[i]
  <2>1. gargs[i] # <<>>
    BY <1>5, AtInput, BodyType
  <2> QED
    BY <2>1 DEF Arrived
<1>9. at' = Len(Command[i]) + 1
  BY <1>1, <1>7, AtInput
<1>10. cnt' = [cnt EXCEPT ![i] = cnt[i]]
  BY <1>1, <1>2 DEF InCall
<1>11. fatal' = FALSE
  BY <1>1, <1>2, Zenon
<1> QED
  BY <1>1, <1>6, <1>8, <1>9, <1>10, <1>11, Zenon DEF Decoded

LEMMA DecodesPointer ==
  ASSUME IInv, step = "decode", IsInput(i), DecodePointer
  PROVE  Decoded(i)
<1> DEFINE n == WireCnt(i)
           s == Body(i)
           len == WireLength(P(i), stream[at].v)
<1>1. /\ P(i).kind # "value"
      /\ cnt' = [cnt EXCEPT ![i] = stream[at].v]
      /\ hargs' = [hargs EXCEPT ![i] = IF stream[at].v = 0 THEN Null
                                       ELSE ReadElems(P(i).type, at + 1, len)]
      /\ at' = at + 1 + Width(P(i).type, len)
      /\ fatal' = BadCount(i, stream[at].v)
  BY Zenon DEF DecodePointer
<1>2. CountedElems(EncodedInput(i), n, P(i).type, s)
  BY <1>1, AtInput DEF InputPart
<1>3. /\ s \in Seq(0 .. MaxCount) /\ WireLength(P(i), n) = Len(s)
      /\ (n = 0 <=> Arrived(i) = Null) /\ (n # 0 => Arrived(i) = gargs[i])
      /\ gargs[i] # Null => s = gargs[i]
  BY AtInput, BodyType, WireCnts
<1>4. /\ stream[at].v = n
      /\ ReadElems(P(i).type, at + 1, Len(s)) = s
      /\ at + 1 + Width(P(i).type, Len(s)) = at + Len(EncodedInput(i))
  <2>1. Placed(at, EncodedInput(i)) /\ P(i).type \in WireTypes /\ s \in Seq(0 .. MaxCount)
    BY <1>3, AtInput, Zenon
  <2>2. Reads(at, EncodedInput(i), n, P(i).type, s)
    BY <1>2, <2>1, ReadCounted
  <2> QED
    BY <2>2, Zenon DEF Reads
<1>5. len = Len(s)
  BY <1>3, <1>4, Zenon
<1>6. (IF stream[at].v = 0 THEN Null ELSE ReadElems(P(i).type, at + 1, len)) = Arrived(i)
  <2>1. CASE n = 0
    BY <1>3, <1>4, <2>1, Zenon
  <2>2. CASE n # 0
    <3>1. Arrived(i) = gargs[i] /\ gargs[i] # Null
      BY <1>3, <2>2, Zenon
    <3>2. s = Arrived(i)
      BY <1>3, <3>1, Zenon
    <3> QED
      BY <1>4, <1>5, <2>2, <3>2, Zenon
  <2> QED
    BY <2>1, <2>2
<1>7. fatal' = FALSE
  BY <1>1, <1>4, AtInput, CountsGood, Zenon DEF BadCount
<1>8. at' = Len(Command[i]) + 1
  BY <1>1, <1>4, <1>5, AtInput, Zenon
<1> QED
  BY <1>1, <1>4, <1>6, <1>7, <1>8, Zenon DEF Decoded

LEMMA DecodesSkipped ==
  ASSUME IInv, step = "decode", DecodeSkipped
  PROVE  Decoded(i)
<1>1. ~IsInput(i) /\ hargs' = hargs /\ cnt' = cnt /\ at' = at /\ fatal' = fatal
  BY DEF DecodeSkipped
<1>2. InCall /\ ~fatal /\ fatal \in BOOLEAN /\ cnt \in [Params -> -1 .. PresentZero]
      /\ hargs \in [Params -> Value]
  BY Calling DEF IInv, TypeOK
<1>3. EncodedInput(i) = <<>> /\ Len(<<>>) = 0
  BY <1>1, AtInput DEF InputPart
<1>4. at' = Len(Command[i]) + 1
  <2>1. at + 0 = Len(Command[i]) + 1 /\ at \in Nat
    BY <1>3, AtInput DEF Placed
  <2> QED
    BY <1>1, <2>1
<1>5. hargs' = [hargs EXCEPT ![i] = hargs[i]] /\ cnt' = [cnt EXCEPT ![i] = cnt[i]]
  BY <1>1, <1>2 DEF InCall
<1>6. fatal' = FALSE
  BY <1>1, <1>2, Zenon
<1> QED
  BY <1>1, <1>4, <1>5, <1>6, Zenon DEF Decoded

LEMMA DecodeStep ==
  ASSUME IInv, DecodeParam
  PROVE  IInv'
<1>1. /\ step = "decode" /\ stream' = stream
      /\ method' = method /\ gargs' = gargs /\ cmdSize' = cmdSize /\ replySize' = replySize
      /\ hr' = hr /\ results' = results /\ broken' = broken
  BY DEF DecodeParam
<1>2. InCall
  BY <1>1, Calling
<1>3. Moves("decode", "check") /\ i' \in 1 .. Len(method)
  BY <1>2, NextParamMoves DEF DecodeParam, InCall
<1>4. /\ Params' = Params /\ Command' = Command /\ Room' = Room
      /\ \A k : /\ IsInput(k)' = IsInput(k) /\ Arrived(k)' = Arrived(k)
                /\ WireCnt(k)' = WireCnt(k) /\ P(k)' = P(k)
  BY <1>1, CallFrame
<1>5. Decoded(i)
  <2>1. DecodeSkipped \/ (IsInput(i) /\ (DecodeValue \/ DecodePointer))
    BY DEF DecodeParam
  <2> QED
    BY <1>1, <2>1, DecodesSkipped, DecodesValue, DecodesPointer
<1>6. /\ hargs \in [Params -> Value] /\ cnt \in [Params -> -1 .. PresentZero]
      /\ Arrived(i) \in Value /\ WireCnt(i) \in -1 .. PresentZero
  <2>1. Arrived(i) \in Value
    BY <1>1, AtInput DEF Arrived, GoodArg, Value
  <2> QED
    BY <1>1, <2>1, AtInput, WireCnts DEF IInv, TypeOK
<1>7. /\ hargs' \in [Params -> Value] /\ cnt' \in [Params -> -1 .. PresentZero]
      /\ \A k \in Params :
           /\ hargs'[k] = IF k = i /\ IsInput(k) THEN Arrived(k) ELSE hargs[k]
           /\ cnt'[k] = IF k = i /\ IsInput(k) /\ P(k).kind # "value" THEN WireCnt(k) ELSE cnt[k]
  BY <1>2, <1>5, <1>6 DEF Decoded, InCall
<1>8. at' = Len(Command[i]) + 1 /\ at' \in Nat \ {0}
  <2>1. Command[i] \in Seq(Token)
    BY <1>2, CommandFacts DEF InCall
  <2>2. Len(Command[i]) \in Nat
    BY <2>1, LenProperties
  <2> QED
    BY <1>5, <2>2 DEF Decoded
<1>9. fatal' = FALSE
  BY <1>5, Zenon DEF Decoded
<1>10. TypeOK'
  <2>1. i' \in 1 .. (Len(method) + 1)
    BY <1>2, <1>3 DEF InCall
  <2>2. step' \in {"decode", "check"}
    BY <1>3 DEF Moves
  <2>3. fatal' \in BOOLEAN
    BY <1>9, Zenon
  <2> QED
    BY <1>1, <1>4, <1>7, <1>8, <2>1, <2>2, <2>3 DEF TypeOK, IInv
<1>11. SizeInv'
  BY <1>1, <1>3, <1>4 DEF SizeInv, Moves, IInv
<1>12. CommandInv'
  <2>1. stream = Command[Len(method)]
    BY <1>1 DEF IInv, CommandInv
  <2> QED
    BY <1>1, <1>2, <1>3, <1>4, <1>8, <2>1 DEF CommandInv, Moves, InCall
<1>13. DecodedInv'
  <2>1. \A k \in Params :
          /\ hargs[k] = IF IsInput(k) /\ k < i THEN Arrived(k) ELSE Null
          /\ cnt[k] = IF IsInput(k) /\ P(k).kind # "value" /\ k < i THEN WireCnt(k) ELSE -1
    BY <1>1 DEF IInv, DecodedInv
  <2>2. \A k \in Params :
          /\ hargs'[k] = IF IsInput(k) /\ k <= i THEN Arrived(k) ELSE Null
          /\ cnt'[k] = IF IsInput(k) /\ P(k).kind # "value" /\ k <= i THEN WireCnt(k) ELSE -1
    <3> TAKE k \in Params
    <3>1. k \in Int /\ i \in Int /\ (k <= i <=> k < i \/ k = i)
      BY <1>2 DEF InCall
    <3> QED
      BY <1>7, <2>1, <3>1
  <2>3. \A k \in Params : k <= i <=> step' = "check" \/ k < i'
    BY <1>2, <1>3 DEF Moves, InCall
  <2>4. step' \in {"decode", "check"}
    BY <1>3 DEF Moves
  <2>5. \A k \in Params :
          /\ hargs'[k] = IF IsInput(k) /\ (step' = "check" \/ k < i') THEN Arrived(k) ELSE Null
          /\ cnt'[k] = IF IsInput(k) /\ P(k).kind # "value" /\ (step' # "decode" \/ k < i')
                       THEN WireCnt(k) ELSE -1
    BY <2>2, <2>3, <2>4
  <2> QED
    BY <1>4, <2>4, <2>5 DEF DecodedInv
<1>14. ResultsInv'
  BY <1>1, <1>3, <1>4 DEF ResultsInv, Moves, IInv
<1>15. ~fatal' /\ IdleInv' /\ CallInv' /\ HostInv' /\ ReplyInv'
  BY <1>1, <1>2, <1>3, <1>9 DEF IdleInv, CallInv, HostInv, ReplyInv, Moves, InCall
<1> QED
  BY <1>10, <1>11, <1>12, <1>13, <1>14, <1>15 DEF IInv

-----------------------------------------------------------------------------
(* The checks, and what the callee is given *)

LEMMA SimpleArrives ==
  ASSUME InCall, NEW c \in Params, P(c).kind \in Simple
  PROVE  Arrived(c) = gargs[c]
<1>1. GoodArg(c) /\ CountExpr(gargs, c) = 1
  BY ArgsGood, CountExprs DEF InCall
<1>2. gargs[c] # <<>>
  BY <1>1, BodyType
<1> QED
  BY <1>2 DEF Arrived

(* A decoded command gives every parameter the length the caller gave it. *)
LEMMA HostCounts ==
  ASSUME InCall, \A c \in Params : IsInput(c) => hargs[c] = Arrived(c),
         NEW k \in Params, P(k).kind # "string"
  PROVE  CountExpr(hargs, k) = CountExpr(gargs, k)
<1>1. P(k) \in Param
  BY ParamFacts DEF InCall, P
<1>2. CASE P(k).kind \in Simple \/ P(k).kind = "fixed"
  BY <1>2, CountExprs
<1>3. CASE P(k).kind \in Counted
  <2> DEFINE c == P(k).count
  <2>1. c \in Params /\ P(c).kind \in Simple /\ IsInput(c)
    BY <1>3, ParamFacts DEF InCall, WellFormed, P, Params, Counted, Simple, IsInput
  <2>2. hargs[c] = gargs[c]
    BY <2>1, SimpleArrives
  <2>3. CountIn(hargs, c) = CountIn(gargs, c)
    BY <2>2 DEF CountIn
  <2> QED
    BY <1>3, <2>3, CountExprs
<1> QED
  BY <1>1, <1>2, <1>3 DEF Param, Kinds, Simple, Counted

LEMMA NeverShort ==
  ASSUME InCall, \A c \in Params : IsInput(c) => hargs[c] = Arrived(c),
         NEW k \in Params, IsInput(k) /\ P(k).kind # "value" => cnt[k] = WireCnt(k)
  PROVE  ~Short(k)
<1> SUFFICES ASSUME P(k).kind \in Counted, IsInput(k) PROVE ~Short(k)
  BY DEF Short, IsCounted, Counted
<1> DEFINE n == CountExpr(gargs, k)
<1>1. GoodArg(k) /\ P(k).kind # "string" /\ P(k).kind # "value"
  BY ArgsGood DEF InCall, Counted
<1>2. n \in 0 .. MaxCount /\ n \in Nat
  BY <1>1, MaxCountType DEF GoodArg
<1>3. CountExpr(hargs, k) = n /\ cnt[k] = WireCnt(k)
  BY <1>1, HostCounts
<1>4. CASE WireCnt(k) # 0
  <2>1. gargs[k] # Null
    BY <1>4 DEF WireCnt
  <2>2. WireLength(P(k), WireCnt(k)) = n
    BY <1>1, <2>1, WireCnts, BodyType
  <2>3. P(k).kind = "outs" => WireCnt(k) = n
    BY <2>1 DEF WireCnt, WireCount
  <2> HIDE DEF n
  <2>4. ~(n < n)
    BY <1>2
  <2> QED
    BY <1>3, <1>4, <2>2, <2>3, <2>4, Zenon DEF Short
<1>5. CASE WireCnt(k) = 0
  <2>1. Arrived(k) = Null
    BY <1>1, <1>5, WireCnts
  <2>2. gargs[k] = Null \/ gargs[k] = <<>>
    BY <2>1 DEF Arrived
  <2>3. P(k).optional \/ n = 0
    BY <1>1, <2>2, BodyType DEF GoodArg
  <2> QED
    BY <1>3, <1>5, <2>3, Zenon DEF Short
<1> QED
  BY <1>4, <1>5

LEMMA AllocatedByKind ==
  ASSUME NEW k
  PROVE  /\ P(k).kind \in {"single", "fixed"} => Allocated(k) = Zeros(CountExpr(hargs, k))
         /\ P(k).kind \notin {"single", "fixed"} =>
              Allocated(k) = IF CountExpr(hargs, k) # 0 THEN Zeros(CountExpr(hargs, k)) ELSE Null
<1>1. CASE P(k).kind \in {"single", "fixed"}
  BY <1>1, Zenon DEF Allocated
<1>2. CASE P(k).kind \notin {"single", "fixed"}
  BY <1>2, Zenon DEF Allocated
<1> QED
  BY <1>1, <1>2, Zenon

LEMMA CheckStep ==
  ASSUME IInv, CheckAndAllocate
  PROVE  IInv'
<1>1. /\ step = "check" /\ step' = "call" /\ i' = i /\ stream' = stream /\ at' = at
      /\ method' = method /\ gargs' = gargs /\ cmdSize' = cmdSize /\ replySize' = replySize
      /\ cnt' = cnt /\ hr' = hr /\ results' = results /\ broken' = broken
      /\ hargs' = [k \in Params |-> IF IsOutput(k) /\ ~IsInput(k) THEN Allocated(k) ELSE hargs[k]]
  BY DEF CheckAndAllocate
<1>2. InCall
  BY <1>1, Calling
<1>3. /\ Params' = Params /\ Command' = Command /\ Room' = Room
      /\ \A k : /\ IsInput(k)' = IsInput(k) /\ Given(k)' = Given(k)
                /\ WireCnt(k)' = WireCnt(k) /\ P(k)' = P(k)
  BY <1>1, CallFrame
<1>4. \A k \in Params : /\ IsInput(k) => hargs[k] = Arrived(k)
                        /\ cnt[k] = IF IsInput(k) /\ P(k).kind # "value" THEN WireCnt(k) ELSE -1
  BY <1>1 DEF IInv, DecodedInv
<1>5. fatal' = FALSE
  <2>1. \A k \in Params : ~Short(k)
    BY <1>2, <1>4, NeverShort
  <2>2. fatal' = \E k \in Params : Short(k)
    BY DEF CheckAndAllocate
  <2> QED
    BY <2>1, <2>2, Zenon
<1>6. \A k \in Params : hargs'[k] = Given(k) /\ Given(k) \in Value
  <2> TAKE k \in Params
  <2>1. Given(k) \in Value
    BY <1>2, ArgsGood, GivenType DEF InCall
  <2>2. CASE IsInput(k)
    BY <1>1, <1>4, <2>1, <2>2 DEF Given
  <2>3. CASE ~IsInput(k)
    <3>1. IsOutput(k) /\ P(k).kind # "string"
      BY <1>2, <2>3, ParamFacts DEF InCall, WellFormed, P, Params, IsInput, IsOutput
    <3>2. CountExpr(hargs, k) = CountExpr(gargs, k)
      BY <1>2, <1>4, <3>1, HostCounts
    <3>3. Allocated(k) = Given(k)
      BY <2>3, <3>2, AllocatedByKind, Zenon DEF Given
    <3> QED
      BY <1>1, <2>1, <2>3, <3>1, <3>3
  <2> QED
    BY <2>2, <2>3
<1>7. TypeOK'
  <2>1. hargs' \in [Params -> Value]
    BY <1>1, <1>6
  <2>2. fatal' \in BOOLEAN
    BY <1>5, Zenon
  <2> QED
    BY <1>1, <1>3, <2>1, <2>2 DEF TypeOK, IInv
<1>8. SizeInv' /\ CommandInv'
  BY <1>1, <1>3 DEF SizeInv, CommandInv, IInv
<1>9. DecodedInv'
  BY <1>1, <1>3, <1>4 DEF DecodedInv
<1>10. HostInv'
  BY <1>1, <1>3, <1>6 DEF HostInv
<1>11. ResultsInv'
  BY <1>1, <1>3 DEF ResultsInv, IInv
<1>12. ~fatal' /\ IdleInv' /\ CallInv' /\ ReplyInv'
  BY <1>1, <1>2, <1>5 DEF IdleInv, CallInv, ReplyInv, InCall
<1> QED
  BY <1>7, <1>8, <1>9, <1>10, <1>11, <1>12 DEF IInv

-----------------------------------------------------------------------------
(* The callee, and the reply *)

LEMMA ChosenLikeGiven ==
  ASSUME InCall, NEW k \in Params, hargs[k] = Given(k), NEW v \in OutputChoices(k)
  PROVE  /\ v \in Value /\ (v = Null <=> Given(k) = Null)
         /\ v # Null => Len(v) = Len(Given(k))
         /\ ~IsOutput(k) => v = Given(k)
<1> DEFINE n == CountExpr(gargs, k)
           g == hargs[k]
<1>1. /\ GoodArg(k) /\ n \in 0 .. MaxCount /\ n \in Nat /\ g \in Value
      /\ g # Null => Len(g) = n
  <2>1. GoodArg(k)
    BY ArgsGood DEF InCall
  <2> QED
    BY <2>1, GivenType, MaxCountType DEF GoodArg
<1>2. CASE ~IsOutput(k) \/ g = Null
  <2>1. v = g
    BY <1>2 DEF OutputChoices
  <2> QED
    BY <1>1, <2>1
<1>3. CASE IsOutput(k) /\ g # Null /\ P(k).kind = "single"
  <2>1. v \in [1 .. 1 -> 0 .. MaxCount] /\ 1 \in 0 .. MaxCount
    BY <1>3, MaxCountType DEF OutputChoices
  <2>2. v \in Value /\ v # Null /\ Len(v) = 1
    BY <2>1, ValueOfLength
  <2>3. n = 1
    BY <1>3, CountExprs DEF Simple
  <2> QED
    BY <1>1, <1>3, <2>2, <2>3
<1>4. CASE IsOutput(k) /\ g # Null /\ P(k).kind # "single"
  <2>1. v = Zeros(Len(g)) \/ v = [j \in DOMAIN g |-> 1]
    BY <1>4 DEF OutputChoices
  <2>2. Len(g) = n /\ DOMAIN g = 1 .. n
    <3>1. g \in [1 .. Len(g) -> 0 .. MaxCount]
      BY <1>1, <1>4, ValueLengths DEF Value
    <3> QED
      BY <1>1, <1>4, <3>1
  <2> HIDE DEF g, n
  <2>3. v \in [1 .. n -> 0 .. MaxCount]
    BY <2>1, <2>2, MaxCountType DEF Zeros
  <2>4. v \in Value /\ v # Null /\ Len(v) = n
    BY <1>1, <2>3, ValueOfLength
  <2> QED
    BY <1>4, <2>2, <2>4 DEF g
<1> QED
  BY <1>2, <1>3, <1>4

LEMMA ReplyStart == HostReady => Reply[0] = <<>>
<1> SUFFICES ASSUME HostReady PROVE Reply[0] = <<>>
  OBVIOUS
<1> QED
  BY ReplyFacts

LEMMA ReplyStartNext == (HostReady => Reply[0] = <<>>)'
  BY ReplyStart, PTL

(* Ids of output handles ride in the command. *)
LEMMA OutsAreInputs ==
  ASSUME InCall, NEW k \in Params, P(k).kind = "outs"
  PROVE  IsInput(k)
  BY ParamFacts DEF InCall, WellFormed, P, Params, IsInput

LEMMA ExecuteStep ==
  ASSUME IInv, Execute
  PROVE  IInv'
<1>1. /\ step = "call" /\ step' = "reply" /\ i' = i /\ stream' = <<>> /\ at' = 1
      /\ method' = method /\ gargs' = gargs /\ cmdSize' = cmdSize /\ replySize' = replySize
      /\ cnt' = cnt /\ fatal' = fatal /\ results' = results /\ broken' = broken
  BY DEF Execute
<1>2. InCall /\ ~fatal /\ fatal \in BOOLEAN
  BY <1>1, Calling DEF IInv, TypeOK
<1>3. PICK out \in [Params -> UNION {OutputChoices(k) : k \in Params}], ret \in {"ok", "fail"} :
        /\ \A k \in Params : out[k] \in OutputChoices(k)
        /\ ret = "ok" => \A k \in Params : HasRoom(k, out)
        /\ hargs' = out
        /\ hr' = ret
  BY DEF Execute
<1>4. /\ Params' = Params /\ Command' = Command /\ Room' = Room
      /\ \A k : /\ IsInput(k)' = IsInput(k) /\ IsOutput(k)' = IsOutput(k) /\ Given(k)' = Given(k)
                /\ WireCnt(k)' = WireCnt(k) /\ P(k)' = P(k)
  BY <1>1, CallFrame
<1>5. \A k \in Params : hargs[k] = Given(k)
  BY <1>1 DEF IInv, HostInv
<1>6. \A k \in Params : /\ hargs'[k] \in Value /\ (hargs'[k] = Null <=> Given(k) = Null)
                        /\ hargs'[k] # Null => Len(hargs'[k]) = Len(Given(k))
                        /\ ~IsOutput(k) => hargs'[k] = Given(k)
  BY <1>2, <1>3, <1>5, ChosenLikeGiven
<1>7. \A k \in Params : LikeGiven(k)'
  BY <1>4, <1>6 DEF LikeGiven
<1>8. hr' = "ok" => \A k \in Params : HasRoom(k, hargs)'
  BY <1>3, <1>4 DEF HasRoom, CountIn
<1>9. TypeOK'
  <2>1. hargs' \in [Params -> Value]
    BY <1>3, <1>6
  <2>2. 1 \in Nat \ {0}
    OBVIOUS
  <2> QED
    BY <1>1, <1>3, <1>4, <2>1, <2>2 DEF TypeOK, IInv
<1>10. SizeInv' /\ CommandInv'
  BY <1>1, <1>4 DEF SizeInv, CommandInv, IInv
<1>11. DecodedInv'
  BY <1>1, <1>4 DEF DecodedInv, IInv
<1>12. HostInv'
  BY <1>1, <1>4, <1>7, <1>8 DEF HostInv
<1>13. ResultsInv'
  BY <1>1, <1>4 DEF ResultsInv, IInv
<1>14. ~fatal' /\ IdleInv' /\ CallInv'
  BY <1>1, <1>2 DEF IdleInv, CallInv, InCall
<1>15. ReplyInv'
  <2>1. \A k \in Params : P(k).kind = "outs" => cnt[k] = WireCnt(k)
    BY <1>1, <1>2, OutsAreInputs DEF IInv, DecodedInv
  <2>2. HostReady'
    BY <1>1, <1>2, <1>4, <1>6, <1>7, <2>1 DEF HostReady, InCall
  <2>3. Reply'[0] = <<>>
    BY <2>2, ReplyStartNext
  <2>4. i' = 1
    BY <1>1 DEF IInv, CommandInv
  <2> QED
    BY <1>1, <2>3, <2>4 DEF ReplyInv
<1> QED
  BY <1>9, <1>10, <1>11, <1>12, <1>13, <1>14, <1>15 DEF IInv

LEMMA HostFrame ==
  ASSUME method' = method, gargs' = gargs, hargs' = hargs, cnt' = cnt, hr' = hr
  PROVE  /\ Reply' = Reply
         /\ \A k : /\ LikeGiven(k)' = LikeGiven(k) /\ HasRoom(k, hargs)' = HasRoom(k, hargs)
                   /\ Wanted(k)' = Wanted(k) /\ Expected(k)' = Expected(k)
<1>1. \A k : P(k)' = P(k) /\ IsInput(k)' = IsInput(k) /\ IsOutput(k)' = IsOutput(k) /\ Given(k)' = Given(k)
  BY CallFrame
<1>2. \A k : OutputCountExpr(k)' = OutputCountExpr(k)
  <2>1. \A k : CountExpr(hargs, k)' = CountExpr(hargs, k)
    BY <1>1, Zenon DEF CountExpr, CountIn, P
  <2> QED
    BY <1>1, <2>1, Zenon DEF OutputCountExpr, CountIn
<1>3. \A k : IsSent(k)' = IsSent(k)
  BY <1>1, Zenon DEF IsSent
<1>4. \A k : Sent(k)' = Sent(k)
  BY <1>2, <1>3, Zenon DEF Sent
<1>5. \A k : Expected(k)' = Expected(k)
  BY <1>1, <1>4, Zenon DEF Expected
<1>6. \A k : EncodedOutput(k)' = EncodedOutput(k)
  BY <1>1, <1>4, Zenon DEF EncodedOutput
<1>7. ReplyParts' = ReplyParts
  BY <1>6, Zenon DEF ReplyParts
<1>8. Reply' = Reply
  BY <1>7, Zenon DEF Reply
<1>9. \A k : LikeGiven(k)' = LikeGiven(k)
  BY <1>1, Zenon DEF LikeGiven
<1>10. \A k : HasRoom(k, hargs)' = HasRoom(k, hargs)
  BY <1>1, Zenon DEF HasRoom, CountIn
<1>11. \A k : Wanted(k)' = Wanted(k)
  BY <1>1, Zenon DEF Wanted
<1> QED
  BY <1>5, <1>8, <1>9, <1>10, <1>11, Zenon

Replying == step \in {"reply", "results", "done"}

LEMMA HostIsReady ==
  ASSUME IInv, Replying
  PROVE  HostReady
<1>1. InCall
  BY Calling DEF Replying
<1>2. \A k \in Params : LikeGiven(k) /\ hargs[k] \in Value
  BY DEF IInv, HostInv, TypeOK, Replying
<1>3. \A k \in Params : P(k).kind = "outs" => cnt[k] = WireCnt(k)
  BY <1>1, OutsAreInputs DEF IInv, DecodedInv, Replying
<1> QED
  BY <1>1, <1>2, <1>3 DEF HostReady, InCall

LEMMA EncodeOutputStep ==
  ASSUME IInv, EncodeOutput
  PROVE  IInv'
<1>1. /\ step = "reply" /\ stream' = stream \o EncodedOutput(i)
      /\ method' = method /\ gargs' = gargs /\ cmdSize' = cmdSize /\ replySize' = replySize
      /\ at' = at /\ hargs' = hargs
      /\ cnt' = cnt /\ fatal' = fatal /\ hr' = hr /\ results' = results /\ broken' = broken
  BY DEF EncodeOutput
<1>2. InCall /\ HostReady
  BY <1>1, Calling, HostIsReady DEF Replying
<1>3. Moves("reply", "results") /\ i' \in 1 .. Len(method)
  BY <1>2, NextParamMoves DEF EncodeOutput, InCall
<1>4. /\ Params' = Params /\ Command' = Command /\ Room' = Room
      /\ \A k : IsInput(k)' = IsInput(k) /\ P(k)' = P(k) /\ WireCnt(k)' = WireCnt(k)
  BY <1>1, CallFrame
<1>5. /\ Reply' = Reply
      /\ \A k : /\ LikeGiven(k)' = LikeGiven(k) /\ HasRoom(k, hargs)' = HasRoom(k, hargs)
                /\ Wanted(k)' = Wanted(k) /\ Expected(k)' = Expected(k)
  BY <1>1, HostFrame
<1>6. stream' = Reply[i] /\ at = 1
  <2>1. Reply[i] = Reply[i - 1] \o EncodedOutput(i)
    BY <1>2, ReplyFacts DEF InCall
  <2> QED
    BY <1>1, <2>1 DEF IInv, ReplyInv, CommandInv
<1>7. Reply[0] = <<>> /\ Len(<<>>) + 1 = 1
  BY <1>2, ReplyFacts
<1>8. TypeOK'
  <2>1. i' \in 1 .. (Len(method) + 1)
    BY <1>2, <1>3 DEF InCall
  <2>2. step' \in {"reply", "results"}
    BY <1>3 DEF Moves
  <2> QED
    BY <1>1, <1>4, <2>1, <2>2 DEF TypeOK, IInv
<1>9. SizeInv' /\ CommandInv'
  BY <1>1, <1>3, <1>4 DEF SizeInv, CommandInv, Moves, IInv
<1>10. DecodedInv'
  BY <1>1, <1>3, <1>4 DEF DecodedInv, Moves, IInv
<1>11. HostInv'
  BY <1>1, <1>3, <1>4, <1>5 DEF HostInv, Moves, IInv
<1>12. ReplyInv'
  BY <1>1, <1>2, <1>3, <1>5, <1>6 DEF ReplyInv, Moves, InCall
<1>13. ~broken /\ \A k \in Params : results[k] = Null
  BY <1>1 DEF IInv, ResultsInv
<1>14. ResultsInv'
  <2>1. CASE step' = "reply"
    BY <1>1, <1>4, <1>13, <2>1 DEF ResultsInv
  <2>2. CASE step' = "results" /\ i' = 1
    <3>1. Passed' = 0
      BY <2>2 DEF Passed
    <3>2. InStep'
      BY <1>1, <1>5, <1>6, <1>7, <3>1 DEF InStep
    <3>3. \A k \in Params : ~(k <= 0)
      BY <1>2 DEF InCall
    <3> QED
      BY <1>1, <1>4, <1>5, <1>13, <2>2, <3>1, <3>2, <3>3 DEF ResultsInv
  <2> QED
    BY <1>3, <2>1, <2>2 DEF Moves
<1>15. ~fatal' /\ IdleInv' /\ CallInv'
  BY <1>1, <1>2, <1>3 DEF IdleInv, CallInv, Moves, InCall, IInv
<1> QED
  BY <1>8, <1>9, <1>10, <1>11, <1>12, <1>14, <1>15 DEF IInv

-----------------------------------------------------------------------------
(* The caller's decoder *)

AllWanted == \A k \in Params : Wanted(k)

(* What a step of npt_decode_*_reply makes of output k: nothing is stored  *)
(* but what was sent, into a buffer of the caller's; the decoder goes on   *)
(* where the output ends, or at a word that is no count; and neither the   *)
(* latter nor an error happens if the caller has every buffer it needs.    *)
Outcome(k) ==
  /\ \/ results' = results
     \/ /\ gargs[k] # Null /\ Sent(k) # <<>> /\ IsOutput(k)
        /\ results' = [results EXCEPT ![k] = Sent(k)]
  /\ ~broken' => at' = Len(Reply[k]) + 1 \/ (at' <= Len(stream) /\ stream[at'].is # "count")
  /\ AllWanted => /\ ~broken' /\ at' = Len(Reply[k]) + 1
                  /\ IsOutput(k) /\ Sent(k) # <<>> =>
                       results' = [results EXCEPT ![k] = Sent(k)]
  /\ broken' \in BOOLEAN /\ at' \in Nat \ {0}

Decoding == IInv /\ step = "results" /\ ~broken

LEMMA AtResult ==
  ASSUME Decoding
  PROVE  /\ IsOutput(i) => SentFact(i)
         /\ InCall /\ HostReady /\ Passed = i - 1 /\ at \in Nat \ {0} /\ Len(stream) \in Nat
         /\ GoodArg(i) /\ LikeGiven(i)
         /\ InStep => /\ Placed(at, EncodedOutput(i))
                      /\ at + Len(EncodedOutput(i)) = Len(Reply[i]) + 1
<1>1. InCall /\ HostReady
  BY Calling, HostIsReady DEF Decoding, Replying
<1>2. IsOutput(i) => SentFact(i)
  BY <1>1, SentFacts DEF InCall
<1>3. Passed = i - 1
  BY DEF Passed, Decoding
<1>4. stream = Reply[Len(method)] /\ at \in Nat \ {0}
  BY DEF Decoding, IInv, ReplyInv, TypeOK
<1>5. Len(stream) \in Nat
  <2>1. stream \in Seq(Token)
    BY <1>1, <1>4, ReplyFacts DEF InCall
  <2> QED
    BY <2>1, LenProperties
<1>6. ASSUME InStep
      PROVE  /\ Placed(at, EncodedOutput(i))
             /\ at + Len(EncodedOutput(i)) = Len(Reply[i]) + 1
  <2>1. at = Len(Reply[i - 1]) + 1
    BY <1>3, <1>6 DEF InStep
  <2>2. Keeps(Reply, ReplyParts, i, Len(method)) /\ ReplyParts[i] = EncodedOutput(i)
    BY <1>1, ReplyFacts DEF InCall
  <2>3. stream = Reply[Len(method)]
    BY <1>4
  <2>4. Placed(at, ReplyParts[i]) /\ at + Len(ReplyParts[i]) = Len(Reply[i]) + 1
    BY <1>5, <2>1, <2>2, <2>3, KeptPlaced
  <2> QED
    BY <2>2, <2>4, Zenon
<1>7. GoodArg(i) /\ LikeGiven(i)
  BY <1>1, ArgsGood DEF InCall, HostReady
<1> QED
  BY <1>1, <1>2, <1>3, <1>4, <1>5, <1>6, <1>7

(* The reply's count word for output i, and the elements after it. *)
ReadsOutput ==
  /\ CountAt(at) /\ stream[at].v = Len(Sent(i)) /\ Len(Sent(i)) \in Nat
  /\ ElemsAt(ReplyType(P(i)), at + 1, Len(Sent(i)))
  /\ ReadElems(ReplyType(P(i)), at + 1, Len(Sent(i))) = Sent(i)
  /\ at + 1 + Width(ReplyType(P(i)), Len(Sent(i))) = Len(Reply[i]) + 1
  /\ at + 1 + Width(ReplyType(P(i)), Len(Sent(i))) \in Nat \ {0}

LEMMA OutputRead ==
  ASSUME Decoding, IsOutput(i), InStep
  PROVE  ReadsOutput
<1> DEFINE s == Sent(i)
<1>1. /\ InCall /\ HostReady /\ SentFact(i) /\ Placed(at, EncodedOutput(i))
      /\ at + Len(EncodedOutput(i)) = Len(Reply[i]) + 1
  BY AtResult
<1>2. OutputPart(i) /\ ReplyType(P(i)) \in WireTypes
  BY <1>1, OutputParts DEF InCall
<1>3. CountedElems(EncodedOutput(i), Len(s), ReplyType(P(i)), s)
  BY <1>2 DEF OutputPart
<1>4. s \in Seq(0 .. MaxCount) /\ Len(s) \in Nat
  BY <1>1, ValueLengths, ValueOfLength, MaxCountType DEF SentFact
<1>5. Reads(at, EncodedOutput(i), Len(s), ReplyType(P(i)), s)
  BY <1>1, <1>2, <1>3, <1>4, ReadCounted
<1> QED
  BY <1>1, <1>4, <1>5, Zenon DEF Reads, ReadsOutput

LEMMA OutOfStep ==
  ASSUME Decoding, ~InStep
  PROVE  ~CountAt(at) /\ ~AllWanted /\ Lost
<1>1. InStep \/ Lost
  BY DEF Decoding, IInv, ResultsInv
<1>2. AllWanted => InStep
  BY DEF Decoding, IInv, ResultsInv, AllWanted
<1> QED
  BY <1>1, <1>2 DEF Lost, CountAt

LEMMA NoOutput ==
  ASSUME Decoding, ~IsOutput(i), at' = at, results' = results, broken' = broken
  PROVE  Outcome(i)
<1>1. ~broken /\ broken \in BOOLEAN /\ at \in Nat \ {0}
  BY DEF Decoding, IInv, TypeOK
<1>2. CASE InStep
  <2>1. /\ InCall /\ HostReady /\ at + Len(EncodedOutput(i)) = Len(Reply[i]) + 1
    BY <1>2, AtResult
  <2>2. EncodedOutput(i) = <<>> /\ Len(<<>>) = 0
    BY <2>1, OutputParts DEF OutputPart, InCall
  <2>3. at = Len(Reply[i]) + 1
    <3>1. at + 0 = at
      BY <1>1
    <3> QED
      BY <2>1, <2>2, <3>1, Zenon
  <2> QED
    BY <1>1, <2>3, Zenon DEF Outcome
<1>3. CASE ~InStep
  BY <1>1, <1>3, OutOfStep, Zenon DEF Outcome, Lost
<1> QED
  BY <1>2, <1>3

LEMMA NoCount ==
  ASSUME Decoding, IsOutput(i), ~CountAt(at), at' = at, results' = results, broken' = TRUE
  PROVE  Outcome(i)
<1>1. ~InStep
  BY OutputRead, Zenon DEF ReadsOutput
<1>2. ~AllWanted
  BY <1>1, OutOfStep
<1>3. at \in Nat \ {0}
  BY DEF Decoding, IInv, TypeOK
<1> QED
  BY <1>2, <1>3, Zenon DEF Outcome

(* Nothing was sent for an output the caller left out, if it wants all the *)
(* callee gives.                                                           *)
LEMMA NotSentUnlessWanted ==
  ASSUME Decoding, IsOutput(i), gargs[i] = Null, AllWanted
  PROVE  Sent(i) = <<>>
<1>1. SentFact(i) /\ i \in Params
  BY AtResult DEF InCall
<1>2. hargs[i] = Null
  BY <1>1 DEF AllWanted, Wanted
<1> QED
  BY <1>1, <1>2 DEF SentFact

LEMMA OutputHere ==
  ASSUME Decoding, IsOutput(i), CountAt(at)
  PROVE  /\ ReadsOutput /\ stream[at].v = Len(Sent(i)) /\ Len(Sent(i)) \in Nat
         /\ (Len(Sent(i)) = 0 <=> Sent(i) = <<>>)
         /\ (Len(Sent(i)) # 0 => Len(Sent(i)) = OutputCountExpr(i) /\ hargs[i] # Null)
         /\ SentFact(i) /\ InCall /\ HostReady /\ GoodArg(i) /\ i \in Params
<1>1. InStep
  BY OutOfStep
<1>2. ReadsOutput
  BY <1>1, OutputRead
<1>3. SentFact(i) /\ InCall /\ HostReady /\ GoodArg(i) /\ i \in Params
  BY AtResult DEF InCall
<1> QED
  BY <1>2, <1>3 DEF ReadsOutput, SentFact

LEMMA SingleOutcome ==
  ASSUME Decoding, IsOutput(i), CountAt(at), ResultSingle(stream[at].v)
  PROVE  Outcome(i)
<1> DEFINE n == stream[at].v
           s == Sent(i)
           type == P(i).type
           after == Len(Reply[i]) + 1
<1>1. /\ n = Len(s) /\ n \in Nat /\ (n = 0 <=> s = <<>>) /\ (n # 0 => n = OutputCountExpr(i))
      /\ ReadsOutput /\ HostReady /\ i \in Params
  BY OutputHere, Zenon
<1>2. P(i).kind = "single" /\ ReplyType(P(i)) = type
  BY DEF ResultSingle, ReplyType
<1>3. /\ ElemsAt(type, at + 1, n) /\ ReadElems(type, at + 1, n) = s
      /\ at + 1 + Width(type, n) = after /\ after \in Nat \ {0}
  BY <1>1, <1>2, Zenon DEF ReadsOutput
<1>4. at \in Nat \ {0} /\ Len(stream) \in Nat /\ ~broken /\ broken \in BOOLEAN
  BY AtResult DEF Decoding, IInv, TypeOK
<1>5. CASE n # 0 /\ gargs[i] # Null
  <2>1. n = 1
    BY <1>1, <1>2, <1>5, OutputCountType
  <2>2. broken' = ~ElemsAt(type, at + 1, 1)
    BY <1>5, Zenon DEF ResultSingle
  <2>3. broken' = FALSE
    BY <1>3, <2>1, <2>2, Zenon DEF ElemsAt
  <2>4. results' = [results EXCEPT ![i] = s] /\ at' = at + 2
    BY <1>3, <1>5, <2>1, <2>3, Zenon DEF ResultSingle, Stored
  <2>5. Width(type, 1) = 1
    BY DEF Width
  <2>6. at' = after
    <3>1. at + 1 + 1 = at + 2
      BY <1>4
    <3> QED
      BY <1>3, <2>1, <2>4, <2>5, <3>1, Zenon
  <2> QED
    BY <1>1, <1>3, <1>5, <2>3, <2>4, <2>6, Zenon DEF Outcome
<1>6. CASE ~(n # 0 /\ gargs[i] # Null)
  <2>1. at' = at + 1 /\ results' = results /\ broken' = broken
    BY <1>6, Zenon DEF ResultSingle
  <2>2. at' \in Nat \ {0}
    BY <1>4, <2>1
  <2>3. CASE n = 0
    <3>1. Width(type, 0) = 0 /\ at + 1 + 0 = at + 1
      BY <1>4 DEF Width
    <3>2. at' = after
      BY <1>3, <2>1, <2>3, <3>1, Zenon
    <3> QED
      BY <1>1, <1>4, <2>1, <2>2, <2>3, <3>2, Zenon DEF Outcome
  <2>4. CASE n # 0
    <3>1. gargs[i] = Null
      BY <1>6, <2>4
    <3>2. ~AllWanted
      BY <1>1, <2>4, <3>1, NotSentUnlessWanted
    <3>3. n = 1
      BY <1>1, <1>2, <2>4, OutputCountType
    <3>4. Width(type, 1) = 1 /\ at + 1 \in (at + 1) .. (at + 1 + 1 - 1)
      BY <1>4 DEF Width
    <3>5. at + 1 <= Len(stream) /\ stream[at + 1].is = type
      BY <1>3, <3>3, <3>4, Zenon DEF ElemsAt
    <3>6. type # "count"
      BY <1>1, ParamFacts DEF HostReady, Param, P
    <3> QED
      BY <1>4, <2>1, <2>2, <3>2, <3>5, <3>6, Zenon DEF Outcome
  <2> QED
    BY <2>3, <2>4
<1> QED
  BY <1>5, <1>6

LEMMA ArrayOutcome ==
  ASSUME Decoding, IsOutput(i), CountAt(at), ResultArray(stream[at].v)
  PROVE  Outcome(i)
<1> DEFINE n == stream[at].v
           s == Sent(i)
           type == P(i).type
           after == Len(Reply[i]) + 1
<1>1. /\ n = Len(s) /\ n \in Nat /\ (n = 0 <=> s = <<>>) /\ ReadsOutput
  BY OutputHere, Zenon
<1>2. P(i).kind \in {"array", "blob"} /\ ReplyType(P(i)) = type
  BY DEF ResultArray, ReplyType
<1>3. /\ ElemsAt(type, at + 1, n) /\ ReadElems(type, at + 1, n) = s
      /\ at + 1 + Width(type, n) = after /\ after \in Nat \ {0}
  BY <1>1, <1>2, Zenon DEF ReadsOutput
<1>4. at' = after
  BY <1>3, Zenon DEF ResultArray
<1>5. CASE gargs[i] = Null
  <2>1. broken' = (n # 0 /\ P(i).kind = "array") /\ results' = results
    BY <1>5, Zenon DEF ResultArray
  <2>2. AllWanted => n = 0
    BY <1>1, <1>5, NotSentUnlessWanted
  <2>3. broken' \in BOOLEAN
    BY <2>1, Zenon
  <2> QED
    BY <1>1, <1>3, <1>4, <2>1, <2>2, <2>3, Zenon DEF Outcome
<1>6. CASE gargs[i] # Null
  <2>1. broken' = FALSE
    BY <1>3, <1>6, Zenon DEF ResultArray, ElemsAt
  <2>2. IF n = 0 THEN results' = results ELSE results' = [results EXCEPT ![i] = s]
    BY <1>3, <1>6, <2>1, Zenon DEF ResultArray, Stored
  <2>3. FALSE \in BOOLEAN
    OBVIOUS
  <2> QED
    BY <1>1, <1>3, <1>4, <1>6, <2>1, <2>2, <2>3, Zenon DEF Outcome
<1> QED
  BY <1>5, <1>6

LEMMA RefsOutcome ==
  ASSUME Decoding, IsOutput(i), CountAt(at), ResultRefs(stream[at].v)
  PROVE  Outcome(i)
<1> DEFINE n == stream[at].v
           s == Sent(i)
           after == Len(Reply[i]) + 1
           slots == IF gargs[i] = Null THEN 0 ELSE Len(gargs[i])
<1>1. /\ n = Len(s) /\ n \in Nat /\ (n = 0 <=> s = <<>>) /\ (n # 0 => n = OutputCountExpr(i))
      /\ ReadsOutput /\ HostReady /\ i \in Params /\ GoodArg(i)
  BY OutputHere, Zenon
<1>2. P(i).kind = "outs" /\ ReplyType(P(i)) = "ref"
  BY DEF ResultRefs, ReplyType
<1>3. /\ ElemsAt("ref", at + 1, n) /\ ReadElems("ref", at + 1, n) = s
      /\ at + 1 + Width("ref", n) = after /\ after \in Nat \ {0}
  BY <1>1, <1>2, Zenon DEF ReadsOutput
<1>4. /\ at' = after
      /\ broken' = (n > slots \/ ~ElemsAt("ref", at + 1, n))
      /\ IF broken' \/ n = 0 THEN UNCHANGED results ELSE results' = [results EXCEPT ![i] = s]
  BY <1>3, Zenon DEF ResultRefs, Stored
<1>5. CASE gargs[i] = Null
  <2>1. AllWanted => n = 0
    BY <1>1, <1>5, NotSentUnlessWanted
  <2>2. n > slots <=> n # 0
    BY <1>1, <1>5
  <2>3. broken' = (n # 0) /\ results' = results
    BY <1>3, <1>4, <2>2, Zenon DEF ElemsAt
  <2>4. broken' \in BOOLEAN
    BY <2>3, Zenon
  <2> QED
    BY <1>1, <1>3, <1>4, <2>1, <2>3, <2>4, Zenon DEF Outcome
<1>6. CASE gargs[i] # Null
  <2>1. slots = CountExpr(gargs, i) /\ slots \in Nat
    BY <1>1, <1>6, BodyType, MaxCountType DEF GoodArg
  <2>2. n # 0 => n = CountExpr(gargs, i)
    BY <1>1, <1>2, <1>6, OutputCountType
  <2>3. ~(n > slots)
    <3> HIDE DEF n, slots
    <3> QED
      BY <1>1, <2>1, <2>2
  <2>4. broken' = FALSE
    BY <1>3, <1>4, <2>3, Zenon DEF ElemsAt
  <2>5. IF n = 0 THEN results' = results ELSE results' = [results EXCEPT ![i] = s]
    BY <1>4, <2>4, Zenon
  <2>6. FALSE \in BOOLEAN
    OBVIOUS
  <2> QED
    BY <1>1, <1>3, <1>4, <1>6, <2>4, <2>5, <2>6, Zenon DEF Outcome
<1> QED
  BY <1>5, <1>6

(* The host always has a fixed array to send. *)
LEMMA FixedIsSent ==
  ASSUME InCall, HostReady, NEW k \in Params, IsOutput(k), P(k).kind = "fixed"
  PROVE  Sent(k) # <<>>
<1>1. /\ ~IsInput(k) /\ P(k).countOut = 0
      /\ OutputCountExpr(k) = P(k).count /\ P(k).count \in 1 .. MaxCount
  BY OutputCountType, ParamFacts DEF InCall, WellFormed, P, Params, IsInput, IsOutput
<1>2. Given(k) # Null
  <2>1. Given(k) = Zeros(CountExpr(gargs, k))
    BY <1>1 DEF Given
  <2>2. CountExpr(gargs, k) \in 0 .. MaxCount /\ CountExpr(gargs, k) \in Nat
    BY ArgsGood, MaxCountType DEF InCall, GoodArg
  <2>3. Zeros(CountExpr(gargs, k)) \in [1 .. CountExpr(gargs, k) -> 0 .. MaxCount]
    BY <2>2, MaxCountType DEF Zeros
  <2> QED
    BY <2>1, <2>2, <2>3, ValueOfLength
<1>3. IsSent(k)
  BY <1>1, <1>2 DEF HostReady, LikeGiven, IsSent
<1>4. OutputCountExpr(k) # 0
  BY <1>1, MaxCountType
<1> QED
  BY <1>3, <1>4, SentFacts DEF SentFact

LEMMA FixedOutcome ==
  ASSUME Decoding, IsOutput(i), CountAt(at), ResultFixed(stream[at].v)
  PROVE  Outcome(i)
<1> DEFINE n == stream[at].v
           s == Sent(i)
           type == P(i).type
           after == Len(Reply[i]) + 1
<1>1. /\ n = Len(s) /\ n \in Nat /\ (n = 0 <=> s = <<>>) /\ (n # 0 => n = OutputCountExpr(i))
      /\ ReadsOutput /\ HostReady /\ InCall /\ i \in Params
  BY OutputHere, Zenon
<1>2. P(i).kind = "fixed" /\ ReplyType(P(i)) = type
  BY DEF ResultFixed, ReplyType
<1>3. /\ ElemsAt(type, at + 1, n) /\ ReadElems(type, at + 1, n) = s
      /\ at + 1 + Width(type, n) = after /\ after \in Nat \ {0}
  BY <1>1, <1>2, Zenon DEF ReadsOutput
<1>4. s # <<>> /\ n # 0 /\ n = P(i).count
  <2>1. s # <<>>
    BY <1>1, <1>2, FixedIsSent
  <2>2. OutputCountExpr(i) = P(i).count
    BY <1>1, <1>2, OutputCountType
  <2> QED
    BY <1>1, <2>1, <2>2, Zenon
<1>5. at' = after
  BY <1>3, <1>4, Zenon DEF ResultFixed
<1>6. broken' = FALSE
  BY <1>3, <1>4, Zenon DEF ResultFixed, ElemsAt
<1>7. IF gargs[i] = Null THEN results' = results ELSE results' = [results EXCEPT ![i] = s]
  BY <1>3, <1>6, Zenon DEF ResultFixed, Stored
<1>8. AllWanted => gargs[i] # Null
  BY <1>4, NotSentUnlessWanted
<1>9. FALSE \in BOOLEAN
  OBVIOUS
<1> QED
  BY <1>3, <1>4, <1>5, <1>6, <1>7, <1>8, <1>9, Zenon DEF Outcome

LEMMA ResultOutcome ==
  ASSUME Decoding, DecodeResult
  PROVE  Outcome(i)
<1>1. CASE ~IsOutput(i)
  BY <1>1, NoOutput DEF DecodeResult
<1>2. CASE IsOutput(i) /\ ~CountAt(at)
  <2>1. broken' = TRUE /\ at' = at /\ results' = results
    BY <1>2 DEF DecodeResult
  <2> QED
    BY <1>2, <2>1, NoCount
<1>3. CASE IsOutput(i) /\ CountAt(at)
  <2>1. \/ ResultSingle(stream[at].v) \/ ResultArray(stream[at].v)
        \/ ResultRefs(stream[at].v) \/ ResultFixed(stream[at].v)
    BY <1>3, Zenon DEF DecodeResult
  <2> QED
    BY <1>3, <2>1, SingleOutcome, ArrayOutcome, RefsOutcome, FixedOutcome
<1> QED
  BY <1>1, <1>2, <1>3

LEMMA DecodeResultStep ==
  ASSUME IInv, DecodeResult
  PROVE  IInv'
<1>1. /\ step = "results" /\ stream' = stream
      /\ method' = method /\ gargs' = gargs /\ cmdSize' = cmdSize /\ replySize' = replySize
      /\ hargs' = hargs /\ cnt' = cnt /\ fatal' = fatal /\ hr' = hr
  BY DEF DecodeResult
<1>2. ~broken
  BY DEF DecodeResult
<1>3. Decoding
  BY <1>1, <1>2 DEF Decoding
<1>4. Outcome(i) /\ InCall /\ HostReady /\ Passed = i - 1
  BY <1>3, ResultOutcome, AtResult
<1>5. Moves("results", "done") /\ i' \in 1 .. Len(method)
  BY <1>4, NextParamMoves DEF DecodeResult, InCall
<1>6. step' \in {"results", "done"}
  BY <1>5 DEF Moves
<1>7. /\ Params' = Params /\ Command' = Command /\ Room' = Room
      /\ \A k : IsInput(k)' = IsInput(k) /\ P(k)' = P(k) /\ WireCnt(k)' = WireCnt(k)
  BY <1>1, CallFrame
<1>8. /\ Reply' = Reply
      /\ \A k : /\ LikeGiven(k)' = LikeGiven(k) /\ HasRoom(k, hargs)' = HasRoom(k, hargs)
                /\ Wanted(k)' = Wanted(k) /\ Expected(k)' = Expected(k)
  BY <1>1, HostFrame
<1>9. /\ results \in [Params -> Value]
      /\ IsOutput(i) => Sent(i) \in Value
  BY <1>4, SentFacts DEF IInv, TypeOK, InCall, SentFact, Value
<1>10. results' = results \/ /\ gargs[i] # Null /\ Sent(i) # <<>> /\ IsOutput(i)
                             /\ results' = [results EXCEPT ![i] = Sent(i)]
  BY <1>4, Zenon DEF Outcome
<1>11. results' \in [Params -> Value]
  BY <1>4, <1>9, <1>10 DEF InCall
<1>12. TypeOK'
  <2>1. i' \in 1 .. (Len(method) + 1)
    BY <1>4, <1>5 DEF InCall
  <2>2. broken' \in BOOLEAN /\ at' \in Nat \ {0}
    BY <1>4, Zenon DEF Outcome
  <2> QED
    BY <1>1, <1>6, <1>7, <1>11, <2>1, <2>2 DEF TypeOK, IInv
<1>13. SizeInv' /\ CommandInv'
  BY <1>1, <1>6, <1>7 DEF SizeInv, CommandInv, IInv
<1>14. DecodedInv'
  BY <1>1, <1>6, <1>7 DEF DecodedInv, IInv
<1>15. HostInv'
  BY <1>1, <1>6, <1>7, <1>8 DEF HostInv, IInv
<1>16. ReplyInv'
  BY <1>1, <1>6, <1>8 DEF ReplyInv, IInv
<1>17. Passed' = i
  <2>1. CASE step' = "results" /\ i' = i + 1
    <3>1. Passed' = i' - 1
      BY <2>1 DEF Passed
    <3>2. (i + 1) - 1 = i
      BY <1>4 DEF InCall
    <3> QED
      BY <2>1, <3>1, <3>2
  <2>2. CASE step' = "done" /\ i = Len(method)
    <3>1. Passed' = Len(method')
      BY <2>2 DEF Passed
    <3> QED
      BY <1>1, <2>2, <3>1
  <2> QED
    BY <1>5, <2>1, <2>2 DEF Moves
<1>18. /\ \A k \in Params : results[k] # Null =>
            k <= i - 1 /\ gargs[k] # Null /\ results[k] = Expected(k)
       /\ AllWanted => \A k \in Params : k <= i - 1 => results[k] = Expected(k)
  BY <1>1, <1>4 DEF IInv, ResultsInv, AllWanted
<1>19. IsOutput(i) /\ Sent(i) # <<>> => Expected(i) = Sent(i)
  BY DEF Expected
<1>20. ASSUME NEW k \in Params, results'[k] # Null
       PROVE  k <= i /\ gargs[k] # Null /\ results'[k] = Expected(k)
  <2>1. CASE results'[k] = results[k]
    <3>1. k <= i - 1 /\ gargs[k] # Null /\ results[k] = Expected(k)
      BY <1>18, <1>20, <2>1
    <3> QED
      BY <1>4, <2>1, <3>1 DEF InCall
  <2>2. CASE results'[k] # results[k]
    <3>1. /\ gargs[i] # Null /\ Sent(i) # <<>> /\ IsOutput(i)
          /\ results' = [results EXCEPT ![i] = Sent(i)]
      BY <1>10, <2>2
    <3>2. k = i
      BY <1>9, <2>2, <3>1
    <3>3. results'[k] = Sent(i) /\ k <= i
      BY <1>4, <1>9, <3>1, <3>2 DEF InCall
    <3> QED
      BY <1>19, <3>1, <3>2, <3>3, Zenon
  <2> QED
    BY <2>1, <2>2
<1>21. ASSUME AllWanted, NEW k \in Params, k <= i
       PROVE  results'[k] = Expected(k)
  <2>1. CASE k = i /\ IsOutput(i) /\ Sent(i) # <<>>
    <3>1. results' = [results EXCEPT ![i] = Sent(i)]
      BY <1>4, <1>21, <2>1, Zenon DEF Outcome
    <3>2. results'[k] = Sent(i)
      BY <1>9, <2>1, <3>1
    <3> QED
      BY <1>19, <2>1, <3>2, Zenon
  <2>2. CASE k = i /\ ~(IsOutput(i) /\ Sent(i) # <<>>)
    <3>1. results' = results
      BY <1>10, <2>2, Zenon
    <3>2. ~(i <= i - 1)
      BY <1>4 DEF InCall
    <3>3. results[i] = Null
      BY <1>4, <1>18, <3>2 DEF InCall
    <3>4. Expected(i) = Null
      BY <2>2 DEF Expected
    <3> QED
      BY <2>2, <3>1, <3>3, <3>4
  <2>3. CASE k # i
    <3>1. k <= i - 1
      BY <1>4, <1>21, <2>3 DEF InCall
    <3>2. results[k] = Expected(k)
      BY <1>18, <1>21, <3>1
    <3>3. results'[k] = results[k]
      BY <1>9, <1>10, <2>3
    <3> QED
      BY <3>2, <3>3
  <2> QED
    BY <2>1, <2>2, <2>3
<1>22. /\ ~broken' => at' = Len(Reply[i]) + 1 \/ (at' <= Len(stream) /\ stream[at'].is # "count")
       /\ AllWanted => ~broken' /\ at' = Len(Reply[i]) + 1
  BY <1>4, Zenon DEF Outcome
<1>23. /\ InStep' <=> at' = Len(Reply[i]) + 1
       /\ Lost' <=> at' <= Len(stream) /\ stream[at'].is # "count"
       /\ (\A k \in Params' : Wanted(k)') <=> AllWanted
  <2>1. InStep' <=> at' = Len(Reply[i]) + 1
    BY <1>8, <1>17, Zenon DEF InStep
  <2>2. Lost' <=> at' <= Len(stream) /\ stream[at'].is # "count"
    BY <1>1, Zenon DEF Lost
  <2>3. (\A k \in Params' : Wanted(k)') <=> AllWanted
    BY <1>7, <1>8, Zenon DEF AllWanted
  <2> QED
    BY <2>1, <2>2, <2>3
<1>24. ResultsInv'
  <2>1. \A k \in Params' : results'[k] # Null =>
           k <= Passed' /\ gargs'[k] # Null /\ results'[k] = Expected(k)'
    BY <1>1, <1>7, <1>8, <1>17, <1>20
  <2>2. ~broken' => InStep' \/ Lost'
    BY <1>22, <1>23, Zenon
  <2>3. (\A k \in Params' : Wanted(k)') =>
           /\ ~broken' /\ InStep'
           /\ \A k \in Params' : k <= Passed' => results'[k] = Expected(k)'
    BY <1>7, <1>8, <1>17, <1>21, <1>22, <1>23, Zenon
  <2> QED
    BY <1>6, <2>1, <2>2, <2>3, Zenon DEF ResultsInv
<1>25. ~fatal' /\ IdleInv' /\ CallInv'
  BY <1>1, <1>4, <1>5, <1>6 DEF IdleInv, CallInv, InCall, IInv
<1> QED
  BY <1>12, <1>13, <1>14, <1>15, <1>16, <1>24, <1>25 DEF IInv

-----------------------------------------------------------------------------
(* The properties *)

(* Every state of a call satisfies the invariant: the sizing, encoding and *)
(* decoding passes npt_codegen.py generates make the same choice for every *)
(* parameter, whatever the methods, their parameters and their arguments.  *)
THEOREM InvHolds == Spec => []IInv
<1>1. IInv /\ [Next]_vars => IInv'
  <2> SUFFICES ASSUME IInv, [Next]_vars PROVE IInv'
    OBVIOUS
  <2>1. CASE Next
    BY <2>1, StartStep, SizeStep, EncodeStep, DecodeStep, CheckStep, ExecuteStep,
       EncodeOutputStep, DecodeResultStep, ReturnStep DEF Next
  <2>2. CASE UNCHANGED vars
    <3>1. /\ step' = step /\ i' = i /\ cmdSize' = cmdSize /\ replySize' = replySize
          /\ stream' = stream /\ at' = at /\ method' = method /\ gargs' = gargs
          /\ hargs' = hargs /\ cnt' = cnt /\ fatal' = fatal /\ hr' = hr
          /\ results' = results /\ broken' = broken
      BY <2>2 DEF vars
    <3>2. /\ Params' = Params /\ Command' = Command /\ Room' = Room
          /\ \A k : /\ IsInput(k)' = IsInput(k) /\ Arrived(k)' = Arrived(k)
                    /\ WireCnt(k)' = WireCnt(k) /\ P(k)' = P(k)
                    /\ Given(k)' = Given(k)
      BY <3>1, CallFrame
    <3>3. /\ Reply' = Reply
          /\ \A k : /\ LikeGiven(k)' = LikeGiven(k) /\ HasRoom(k, hargs)' = HasRoom(k, hargs)
                    /\ Wanted(k)' = Wanted(k) /\ Expected(k)' = Expected(k)
      BY <3>1, HostFrame
    <3>4. TypeOK'
      BY <3>1, <3>2 DEF IInv, TypeOK
    <3>5. ~fatal' /\ IdleInv' /\ CallInv' /\ SizeInv' /\ CommandInv' /\ ReplyInv'
      BY <3>1, <3>2, <3>3 DEF IInv, IdleInv, CallInv, SizeInv, CommandInv, ReplyInv
    <3>6. DecodedInv'
      BY <3>1, <3>2 DEF IInv, DecodedInv
    <3>7. HostInv'
      BY <3>1, <3>2, <3>3 DEF IInv, HostInv
    <3>8. Passed' = Passed /\ InStep' = InStep /\ Lost' = Lost
      BY <3>1, <3>3, Zenon DEF Passed, InStep, Lost
    <3>9. ResultsInv'
      BY <3>1, <3>2, <3>3, <3>8, Zenon DEF IInv, ResultsInv
    <3> QED
      BY <3>4, <3>5, <3>6, <3>7, <3>9 DEF IInv
  <2> QED
    BY <2>1, <2>2
<1> QED
  BY <1>1, InitInv, PTL DEF Spec

(* npt_sizeof_* is the number of bytes npt_encode_* writes, for every      *)
(* command and every argument: the space taken in the ring is the          *)
(* command's.                                                              *)
THEOREM SizesAreExact == Spec => []SizeIsExact
<1>1. IInv => SizeIsExact
  <2> SUFFICES ASSUME IInv PROVE SizeIsExact
    OBVIOUS
  <2>1. TypeOK
    BY DEF IInv
  <2>2. step \in {"decode", "check"} => Bytes(stream) = cmdSize
    BY DEF IInv, SizeInv, CommandInv
  <2> QED
    BY <2>1, <2>2 DEF SizeIsExact
<1> QED
  BY <1>1, InvHolds, PTL

(* What npt_decode_*_args_temp hands the host is what the caller passed,   *)
(* and it ends where the command does.                                     *)
THEOREM ArgumentsArrive == Spec => []ArgsArrive
<1>1. IInv => ArgsArrive
  <2> SUFFICES ASSUME IInv, step = "check" PROVE ArgsArrive
    BY DEF ArgsArrive
  <2>1. at = Len(stream) + 1
    BY DEF IInv, CommandInv
  <2>2. \A k \in Params : IsInput(k) => hargs[k] = Arrived(k)
    BY DEF IInv, DecodedInv
  <2> QED
    BY <2>1, <2>2, Zenon DEF ArgsArrive, Arrived
<1> QED
  BY <1>1, InvHolds, PTL

(* The decoder's counted-array, presence and length checks refuse nothing  *)
(* that a caller keeping to the API's rules encodes.                       *)
THEOREM ChecksRefuseNoLegalCall == Spec => []HonestNeverFatal
<1>1. IInv => HonestNeverFatal
  BY DEF IInv, HonestNeverFatal
<1> QED
  BY <1>1, InvHolds, PTL

(* npt_sizeof_*_reply, computed before the call, is an upper bound of what *)
(* npt_encode_*_reply writes after it, if the callee stays within its      *)
(* buffers and the caller has one wherever the callee was given one.       *)
THEOREM RepliesFit == Spec => []ReplyFits
<1>1. IInv => ReplyFits
  <2> SUFFICES ASSUME IInv, step = "results", Within,
                      \A k \in Params : P(k).kind # "single" => Wanted(k)
               PROVE  Bytes(stream) <= replySize
    BY DEF ReplyFits
  <2>1. HostReady
    BY HostIsReady DEF Replying
  <2>2. stream = Reply[Len(method)] /\ replySize = Room[Len(method)]
    BY DEF IInv, ReplyInv, SizeInv
  <2> QED
    BY <2>1, <2>2, ReplyWithinRoom
<1> QED
  BY <1>1, InvHolds, PTL

(* npt_decode_*_reply gives the caller what the callee stored, each output *)
(* in its place and NULL or empty outputs untouched, and ends where the    *)
(* reply does, if the caller has a buffer for all the callee was given.    *)
THEOREM RepliesArrive == Spec => []ResultsArrive
<1>1. IInv => ResultsArrive
  <2> SUFFICES ASSUME IInv, step = "done" \/ broken, \A k \in Params : Wanted(k)
               PROVE  /\ ~broken /\ at = Len(stream) + 1
                      /\ \A k \in Params :
                           results[k] = IF IsOutput(k) /\ Sent(k) # <<>> THEN Sent(k) ELSE Null
    BY Zenon DEF ResultsArrive
  <2>1. step \in {"results", "done"}
    BY DEF IInv, ResultsInv
  <2>2. /\ ~broken /\ InStep
        /\ \A k \in Params : k <= Passed => results[k] = Expected(k)
    BY <2>1 DEF IInv, ResultsInv
  <2>3. step = "done"
    BY <2>2
  <2>4. InCall
    BY <2>3, Calling
  <2>5. Passed = Len(method) /\ \A k \in Params : k <= Len(method)
    BY <2>3, <2>4 DEF Passed, InCall
  <2>6. stream = Reply[Len(method)]
    BY <2>3 DEF IInv, ReplyInv
  <2> QED
    BY <2>2, <2>5, <2>6, Zenon DEF Expected, InStep
<1> QED
  BY <1>1, InvHolds, PTL

(* How many elements the reply has for an output that is not set aside.    *)
LEMMA SentInRoom ==
  ASSUME InCall, HostReady, NEW k \in Params, IsOutput(k), IsSent(k), ~Raised(k), gargs[k] # Null,
         hr \in {"ok", "fail"}, hr = "ok" => HasRoom(k, hargs)
  PROVE  OutputCountExpr(k) <= CountExpr(gargs, k)
<1>1. InCall /\ GoodArg(k) /\ GoodHostArg(k) /\ hargs[k] # Null
  <2>1. method \in Methods /\ gargs \in Args(method) /\ LikeGiven(k) /\ hargs[k] \in Value
    BY DEF HostReady
  <2>2. GoodArg(k)
    BY <2>1, ArgsGood
  <2>3. GoodHostArg(k)
    BY <2>1, <2>2, HostArgsGood
  <2>4. hargs[k] # Null
    BY DEF IsSent
  <2> QED
    BY <2>2, <2>3, <2>4
<1>2. /\ P(k).kind \in OutputKinds
      /\ P(k).kind = "single" => OutputCountExpr(k) = 1
      /\ P(k).kind = "fixed" => OutputCountExpr(k) = P(k).count /\ P(k).count \in 1 .. MaxCount
      /\ P(k).kind = "outs" => OutputCountExpr(k) = CountExpr(gargs, k)
  BY OutputCountType
<1>3. CountExpr(gargs, k) \in 0 .. MaxCount /\ Len(hargs[k]) = CountExpr(gargs, k)
  BY <1>1 DEF GoodArg, GoodHostArg
<1>4. CASE P(k).kind \in {"single", "fixed", "outs"}
  <2>1. CountExpr(gargs, k) = OutputCountExpr(k)
    BY <1>2, <1>4, CountExprs DEF Simple
  <2> QED
    BY <1>3, <2>1, MaxCountType
<1>5. CASE P(k).kind \in {"array", "blob"}
  <2> DEFINE c == P(k).count
  <2>1. c \in Params /\ P(c).kind \in Simple /\ IsInput(c)
    BY <1>1, <1>5, ParamFacts DEF InCall, WellFormed, P, Params, Simple, IsInput
  <2>2. P(k).kind # "outs" /\ P(k).kind \in Counted
    BY <1>5 DEF Counted
  <2>3. OutputCountExpr(k) = CountIn(hargs, IF P(k).countOut # 0 THEN P(k).countOut ELSE c)
    BY <2>2, OutputCounts, CountExprs
  <2>4. CASE hr = "ok"
    BY <1>1, <1>3, <1>5, <2>3, <2>4 DEF HasRoom
  <2>5. CASE hr = "fail"
    <3>1. P(k).countOut = 0
      BY <2>5 DEF IsSent
    <3>2. ~IsOutput(c)
      BY <1>5, <2>5, <3>1 DEF Raised
    <3>3. hargs[c] = Arrived(c)
      BY <2>1, <3>2 DEF HostReady, LikeGiven, Given
    <3>4. hargs[c] = gargs[c]
      BY <1>1, <2>1, <3>3, SimpleArrives
    <3>5. CountIn(hargs, c) = CountIn(gargs, c)
      BY <3>4 DEF CountIn
    <3>6. CountExpr(gargs, k) = CountIn(gargs, c)
      BY <2>2, CountExprs
    <3> QED
      BY <1>3, <2>3, <3>1, <3>5, <3>6, MaxCountType
  <2> QED
    BY <2>4, <2>5
<1> QED
  BY <1>2, <1>4, <1>5 DEF OutputKinds

(* No output brings back more elements than its caller has room for, also  *)
(* when the callee fails and whichever other outputs the caller left out.  *)
(* Set aside: after a failure, arrays behind an in-out count, which the    *)
(* callee may have raised (npt_encode_*_reply encodes to the raised count, *)
(* templates/commands.h).                                                  *)
THEOREM NothingOverrunsTheBuffer == Spec => []ResultsInBuffer
<1>1. IInv => ResultsInBuffer
  <2> SUFFICES ASSUME IInv, NEW k \in Params, results[k] # Null, ~Raised(k)
               PROVE  Len(results[k]) <= Len(gargs[k])
    BY DEF ResultsInBuffer
  <2>1. step \in {"results", "done"}
    BY DEF IInv, ResultsInv
  <2>2. results[k] = Expected(k) /\ gargs[k] # Null
    BY <2>1 DEF IInv, ResultsInv
  <2>3. IsOutput(k) /\ Sent(k) # <<>> /\ results[k] = Sent(k)
    BY <2>2 DEF Expected
  <2>4. InCall /\ HostReady
    BY <2>1, Calling, HostIsReady DEF Replying
  <2>5. SentFact(k) /\ GoodArg(k)
    BY <2>3, <2>4, SentFacts, ArgsGood DEF HostReady
  <2>6. IsSent(k) /\ Len(Sent(k)) = OutputCountExpr(k)
    BY <2>3, <2>5 DEF SentFact
  <2>7. hr \in {"ok", "fail"} /\ (hr = "ok" => HasRoom(k, hargs))
    BY <2>1 DEF IInv, HostInv, TypeOK
  <2>8. OutputCountExpr(k) <= CountExpr(gargs, k)
    BY <2>2, <2>3, <2>4, <2>6, <2>7, SentInRoom
  <2>9. Len(gargs[k]) = CountExpr(gargs, k)
    BY <2>2, <2>5, BodyType
  <2> QED
    BY <2>3, <2>6, <2>8, <2>9
<1> QED
  BY <1>1, InvHolds, PTL

=============================================================================
