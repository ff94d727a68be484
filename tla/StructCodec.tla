---------------------------- MODULE StructCodec ----------------------------
(***************************************************************************)
(* The wire form of one struct with unions, by the helpers npt_codegen.py  *)
(* generates for every type: npt_sizeof_T, npt_encode_T and npt_decode_T.  *)
(* The arms of a union share storage, and conditions on an earlier field   *)
(* say which arm is the live one; without conditions every arm is sent.    *)
(* The three passes decide that separately, the decoder from the struct it *)
(* is still filling.                                                       *)
(*                                                                         *)
(* npt_sizeof_T has two modes.  A command is sized from the value at hand, *)
(* a reply from a zeroed one with max_mode: the widest arm of each union.  *)
(*                                                                         *)
(* A struct is the sequence of its fields, the arms of its anonymous       *)
(* unions among them; a union type is a struct with nothing else.          *)
(***************************************************************************)
EXTENDS Integers, SequencesExt

CONSTANTS
  Structs,   \* the struct types
  MaxCount,  \* bound: array lengths, and values of scalars
  Null       \* a NULL pointer

ASSUME MaxCountType == MaxCount \in Nat \ {0}

(* "uint", "bits": one word            "pointer": to one word              *)
(* "color": four words                 "array": to `count' words           *)
(* union: the union the field is an arm of, 0 for none.  count: the field  *)
(* that holds an array's length.  A condition tests earlier fields: each    *)
(* must have one of its values.                                            *)
Test == [field : Nat \ {0}, values : SUBSET Nat]
Condition == [is : {"always", "never"}] \cup [is : {"when"}, tests : SUBSET Test]
Field == [kind : {"uint", "bits", "color", "pointer", "array"},
          optional : BOOLEAN, count : Nat, union : Nat, condition : Condition]

Conditional(S, k) == S[k].condition.is = "when"

(* A plain number, what counts and conditions name. *)
Plain(S, k) == /\ S[k].kind = "uint" /\ S[k].union = 0
               /\ S[k].condition.is = "always"

(* Only arms of unions have conditions on other fields, on earlier ones.   *)
WellFormed(S) ==
  /\ S \in Seq(Field) /\ S # <<>>
  /\ \A k \in DOMAIN S :
       /\ S[k].kind = "array" => S[k].count \in DOMAIN S /\ Plain(S, S[k].count)
       /\ Conditional(S, k) =>
            /\ S[k].union # 0
            /\ \A t \in S[k].condition.tests : t.field < k /\ Plain(S, t.field)

ASSUME StructsType == \A S \in Structs : WellFormed(S)

VARIABLES
  struct,    \* the type
  step,      \* the pass under way
  i,         \* the field it is at
  val,       \* the value that is sent: val[c] is what cell c holds
  size,      \* npt_sizeof_T(val, 0)
  reserved,  \* npt_sizeof_T(&(T){0}, 1)
  stream,    \* what has been written
  at,        \* the decoder's position in it
  out,       \* the value that is decoded, cell by cell
  cnt, has,  \* by field: the wire count; whether it arrived, -1 not decoded
  fatal      \* the decoder is fatal

vars == <<struct, step, i, val, size, reserved, stream, at, out, cnt, has,
          fatal>>

Fields == DOMAIN struct
F(k) == struct[k]

(* A value in a cell is Null or a sequence, <<v>> for a scalar. *)
Zero == <<0>>

(* The arms of a union share one cell, that of the first. *)
Arms(S, u) == {k \in DOMAIN S : S[k].union = u}
Cell(S, k) ==
  IF S[k].union = 0 THEN k
  ELSE CHOOSE j \in Arms(S, S[k].union) : \A l \in Arms(S, S[k].union) : j <= l

At(v, k) == v[Cell(struct, k)]

CountExpr(v, k) == At(v, F(k).count)[1]

(* NPT_COUNTED_POINTER_PRESENT_ZERO *)
PresentZero == MaxCount + 1
PlainCount(n) == n
WireCount(n) == IF n = 0 THEN PresentZero ELSE n
WireLength(n) == IF n = PresentZero THEN 0 ELSE n

-----------------------------------------------------------------------------
(* Whether a field of the value v is there *)

HoldsIn(S, v, c) ==
  CASE c.is = "always" -> TRUE
    [] c.is = "never" -> FALSE
    [] c.is = "when" -> \A t \in c.tests : \E x \in t.values : v[Cell(S, t.field)] = <<x>>

Holds(v, k) == HoldsIn(struct, v, F(k).condition)

HoldsUnlessNever(v, k) == F(k).condition.is # "never"

(* _wrap_condition: around what each pass does for a field. *)
Sizes(v, k) == Holds(v, k)
Encodes(v, k) == Holds(v, k)
Decodes(v, k) == Holds(v, k)

-----------------------------------------------------------------------------
(* Sizes *)

SizeofField(v, k) ==
  CASE F(k).kind \in {"uint", "bits"} -> 4
    [] F(k).kind = "color" -> 16
    [] F(k).kind = "pointer" -> IF At(v, k) = Null THEN 8 ELSE 12
    [] F(k).kind = "array" -> IF At(v, k) = Null THEN 8 ELSE 8 + 4 * CountExpr(v, k)

NormalSize(v) == SumFunction([k \in {j \in Fields : Sizes(v, j)} |-> SizeofField(v, k)])

(* The zeroed value: NULL where a pointer is. *)
Dummy(k) == IF F(k).kind \in {"pointer", "array"} THEN Null ELSE Zero

SizeofDummy(k) == SizeofField([c \in Fields |-> Dummy(k)], k)

Unions == {F(k).union : k \in Fields} \ {0}

FirstOfArms(u) == SizeofDummy(Cell(struct, CHOOSE k \in Arms(struct, u) : TRUE))
MaxOfArms(u) == Max({SizeofDummy(k) : k \in Arms(struct, u)})

(* Arms without their conditions, the other fields with them. *)
Fixed == {k \in Arms(struct, 0) : HoldsIn(struct, [c \in Fields |-> Zero], F(k).condition)}

MaxModeSize ==
  SumFunction([k \in Fixed |-> SizeofDummy(k)])
  + SumFunction([u \in Unions |-> MaxOfArms(u)])

-----------------------------------------------------------------------------
(* Encoder and decoder of a field *)

Word == "uint"
Count(n) == [is |-> "count", v |-> n]
Words(s) == [k \in DOMAIN s |-> [is |-> Word, v |-> s[k]]]

TokenSize(t) == CASE t.is = "count" -> 8 [] t.is = "color" -> 16 [] t.is = Word -> 4
Bytes(ts) == FoldLeft(LAMBDA n, t : n + TokenSize(t), 0, ts)

Encoded(v, k) ==
  CASE F(k).kind \in {"uint", "bits"} -> Words(At(v, k))
    [] F(k).kind = "color" -> <<[is |-> "color", v |-> At(v, k)[1]]>>
    [] F(k).kind = "pointer" ->
         IF At(v, k) = Null THEN <<Count(0)>> ELSE <<Count(1)>> \o Words(At(v, k))
    [] F(k).kind = "array" ->
         IF At(v, k) = Null THEN <<Count(0)>>
         ELSE <<Count(WireCount(CountExpr(v, k)))>>
                \o Words(SubSeq(At(v, k), 1, CountExpr(v, k)))

(* The next n tokens are what is read: the decoder trusts its count of     *)
(* bytes, so another kind there means that it is out of step.              *)
Upcoming(kind, pos, n) ==
  \A k \in pos..(pos + n - 1) : k <= Len(stream) /\ stream[k].is = kind

Read(pos, n) == [k \in 1..n |-> stream[pos + k - 1].v]

Store(k, v) == out' = [out EXCEPT ![Cell(struct, k)] = v]

DecodeScalar ==
  LET kind == IF F(i).kind = "color" THEN "color" ELSE Word
  IN  /\ F(i).kind \in {"uint", "bits", "color"}
      /\ Upcoming(kind, at, 1)
      /\ Store(i, Read(at, 1))
      /\ at' = at + 1
      /\ UNCHANGED <<cnt, has, fatal>>

(* A required pointer that is absent is only flagged: the fields after it  *)
(* are still to be consumed.                                               *)
DecodePresent ==
  /\ F(i).kind = "pointer"
  /\ Upcoming("count", at, 1)
  /\ IF stream[at].v = 1
     THEN Upcoming(Word, at + 1, 1) /\ Store(i, Read(at + 1, 1)) /\ at' = at + 2
          /\ UNCHANGED fatal
     ELSE Store(i, Null) /\ at' = at + 1 /\ fatal' = (fatal \/ ~F(i).optional)
  /\ UNCHANGED <<cnt, has>>

(* A counted array is checked when every field is decoded: its count may   *)
(* be among the later ones.                                                *)
DecodeCounted ==
  LET n == stream[at].v
      len == WireLength(n)
  IN  /\ F(i).kind = "array"
      /\ Upcoming("count", at, 1)
      /\ Upcoming(Word, at + 1, len)
      /\ Store(i, IF n = 0 THEN Null ELSE Read(at + 1, len))
      /\ at' = at + 1 + len
      /\ cnt' = [cnt EXCEPT ![i] = len]
      /\ has' = [has EXCEPT ![i] = IF n = 0 THEN 0 ELSE 1]
      /\ UNCHANGED fatal

(* counted_array_checks: has = -1 is the array of another arm. *)
Short(k) ==
  /\ F(k).kind = "array"
  /\ \/ has[k] = 1 /\ cnt[k] < CountExpr(out, k)
     \/ has[k] = 0 /\ ~F(k).optional /\ CountExpr(out, k) # 0

-----------------------------------------------------------------------------
(* What a caller stores, by the API's rules: in a union the live arm's     *)
(* value; a required pointer is there, an array may be NULL if its length  *)
(* is 0.                                                                   *)
Stored == {<<n>> : n \in 0..MaxCount} \cup {[j \in 1..n |-> j] : n \in 0..MaxCount}
Contents == {Null} \cup Stored

ASSUME NullType == Null \notin Stored

Scalar(v) == v # Null /\ Len(v) = 1

Fits(S, v, k) ==
  LET c == v[Cell(S, k)]
  IN CASE S[k].kind \in {"uint", "bits", "color"} -> Scalar(c)
       [] S[k].kind = "pointer" -> IF c = Null THEN S[k].optional ELSE c = <<1>>
       [] S[k].kind = "array" ->
            LET n == v[Cell(S, S[k].count)][1]
            IN IF c = Null THEN S[k].optional \/ n = 0
                           ELSE c = [j \in 1..n |-> j]

Cells(S) == {Cell(S, k) : k \in DOMAIN S}

Values(S) ==
  {v \in [Cells(S) -> Contents] :
     /\ \A k \in DOMAIN S : Plain(S, k) => Scalar(v[k])
     /\ \A k \in DOMAIN S : HoldsIn(S, v, S[k].condition) => Fits(S, v, k)}

-----------------------------------------------------------------------------
(* The three passes *)

Init ==
  /\ struct = <<>>
  /\ step = "idle"
  /\ i = 1
  /\ val = <<>>
  /\ size = 0 /\ reserved = 0
  /\ stream = <<>> /\ at = 1
  /\ out = <<>> /\ cnt = <<>> /\ has = <<>>
  /\ fatal = FALSE

Start(S, v) ==
  /\ step = "idle"
  /\ struct' = S
  /\ val' = v
  /\ out' = [c \in Cells(S) |-> Null]
  /\ cnt' = [k \in DOMAIN S |-> 0]
  /\ has' = [k \in DOMAIN S |-> -1]
  /\ step' = "size"
  /\ UNCHANGED <<i, size, reserved, stream, at, fatal>>

Sizeof ==
  /\ step = "size"
  /\ size' = NormalSize(val)
  /\ reserved' = MaxModeSize
  /\ step' = "encode"
  /\ UNCHANGED <<struct, i, val, stream, at, out, cnt, has, fatal>>

NextField(from, to) ==
  IF i < Len(struct) THEN step' = from /\ i' = i + 1 ELSE step' = to /\ i' = 1

EncodeField ==
  /\ step = "encode"
  /\ stream' = stream \o (IF Encodes(val, i) THEN Encoded(val, i) ELSE <<>>)
  /\ NextField("encode", "decode")
  /\ UNCHANGED <<struct, val, size, reserved, at, out, cnt, has, fatal>>

SkipField ==
  ~Decodes(out, i) /\ UNCHANGED <<at, out, cnt, has, fatal>>

DecodeField ==
  /\ step = "decode"
  /\ SkipField \/ (Decodes(out, i) /\ (DecodeScalar \/ DecodePresent \/ DecodeCounted))
  /\ NextField("decode", "check")
  /\ UNCHANGED <<struct, val, size, reserved, stream>>

CountedArrayChecks ==
  /\ step = "check"
  /\ fatal' = (fatal \/ \E k \in Fields : Short(k))
  /\ step' = "done"
  /\ UNCHANGED <<struct, i, val, size, reserved, stream, at, out, cnt, has>>

Next ==
  \/ \E S \in Structs : \E v \in Values(S) : Start(S, v)
  \/ Sizeof \/ EncodeField \/ DecodeField \/ CountedArrayChecks

Spec == Init /\ [][Next]_vars

-----------------------------------------------------------------------------
(* Types of the variables. *)
TypeOK ==
  /\ struct \in Structs \cup {<<>>}
  /\ step \in {"idle", "size", "encode", "decode", "check", "done"}
  /\ i \in 1..Max({1, Len(struct)})
  /\ size \in Nat /\ reserved \in Nat
  /\ ToSet(stream) \subseteq [is : {"count", "uint", "color"}, v : 0..(MaxCount + 1)]
  /\ at \in 1..(Len(stream) + 1)
  /\ \A c \in DOMAIN out : out[c] \in Contents
  /\ \A k \in DOMAIN cnt : cnt[k] \in 0..MaxCount /\ has[k] \in {-1, 0, 1}
  /\ fatal \in BOOLEAN

Written == step \in {"decode", "check", "done"}

(* Three functions evaluate the conditions apart.  What npt_sizeof_T says  *)
(* is what npt_encode_T writes, whichever arms are live and whatever is    *)
(* NULL; and the decoder, which reads the conditions from the fields it    *)
(* has just stored, chooses the arms that were sent: before each field it  *)
(* is where the encoder was before that field.                             *)
DecoderInStep ==
  /\ TypeOK
  /\ Written => Bytes(stream) = size
  /\ step = "decode" =>
       LET sent == {k \in 1..(i - 1) : Encodes(val, k)}
       IN  at = 1 + SumFunction([k \in sent |-> Len(Encoded(val, k))])

(* Every live field arrives: with its value, and NULL apart from empty.  A *)
(* value a caller may store never makes the decoder fatal: neither the     *)
(* array of an arm that is not live, nor an empty one, nor a NULL one.     *)
LiveFieldsArrive ==
  /\ ~fatal
  /\ step = "done" =>
       \A k \in Fields : Holds(val, k) => /\ Holds(out, k)
                                          /\ At(out, k) = At(val, k)

(* Replies carry structs of bounded size only: TypeWalks. *)
IsBounded(S) == \A k \in DOMAIN S : S[k].kind # "array"
Overlapping(S, v) ==
  \E j, k \in DOMAIN S : /\ j # k /\ S[j].union = S[k].union /\ S[j].union # 0
                         /\ HoldsIn(S, v, S[j].condition)
                         /\ HoldsIn(S, v, S[k].condition)
HasPointer(S) == \E k \in DOMAIN S : S[k].kind = "pointer"

ReplyFits == Written /\ IsBounded(struct) => Bytes(stream) <= reserved

(* What a reply reserves for a bounded struct is enough for every value    *)
(* the host may store, whichever arm is live, if no two arms are sent at   *)
(* once and no field is a pointer.                                         *)
OneArmFits ==
  Overlapping(struct, val) \/ HasPointer(struct) \/ ReplyFits

(* The same where arms are sent together ("a sound upper bound for any     *)
(* active variant"): a union without conditions is encoded arm after arm.  *)
EveryArmFits == HasPointer(struct) \/ ReplyFits

(* The same for pointers ("the dummy value is never read"): a NULL of the  *)
(* zeroed value is sized without what it will point to.                    *)
PointersFit == Overlapping(struct, val) \/ ReplyFits
=============================================================================
