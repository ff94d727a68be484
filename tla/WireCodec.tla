----------------------------- MODULE WireCodec -----------------------------
(***************************************************************************)
(* The wire form of one synchronous call, by the code npt_codegen.py       *)
(* generates for it: the guest sizes the command and its reply, encodes    *)
(* the input parameters, the host decodes and checks them, allocates what  *)
(* the callee fills, runs it and encodes the outputs into the reply slot,  *)
(* whose size the guest chose before the call; the guest decodes it.       *)
(*                                                                         *)
(* Sizing, encoding and decoding are three passes generated apart.  They   *)
(* agree only if they make the same choice for every parameter: about NULL *)
(* and empty pointers, and about a count that is another parameter's value *)
(* and may be changed by the callee.                                       *)
(*                                                                         *)
(* A stream is a sequence of tokens: count words, elements and byte runs.  *)
(* A value of a parameter is Null or a sequence, <<v>> for a scalar.       *)
(* Headers, which have one size on both sides, are left out.               *)
(***************************************************************************)
EXTENDS Integers, SequencesExt

CONSTANTS
  Methods,   \* the commands: each a sequence of parameters
  MaxCount,  \* bound: array lengths and counts
  Null       \* a NULL pointer

ASSUME MaxCountType == MaxCount \in Nat \ {0}

Kinds == {"value", "single", "fixed", "array", "blob", "string", "handles",
          "outs"}

Param == [kind : Kinds, type : {"uint", "union", "id", "ref", "byte"},
          input : BOOLEAN, output : BOOLEAN, optional : BOOLEAN,
          count : Nat, countOut : Nat]

(* The registry's methods: what counts a pointer is a scalar the caller    *)
(* passes, by value or in place; a separate count of what was written is   *)
(* an output; fixed arrays go one way, and handles and strings in.         *)
WellFormed(m) ==
  \A k \in DOMAIN m :
    LET p == m[k] IN
    /\ p.input \/ p.output
    /\ p.kind \in {"value", "string", "handles"} => ~p.output
    /\ p.kind = "outs" => p.input
    /\ p.kind = "fixed" => p.count \in 1..MaxCount /\ ~(p.input /\ p.output)
    /\ p.kind \in {"array", "blob", "handles", "outs"} =>
         /\ p.count \in DOMAIN m
         /\ m[p.count].kind \in {"value", "single"} /\ m[p.count].input
    /\ p.countOut # 0 =>
         /\ p.kind \in {"array", "blob"} /\ p.output
         /\ p.countOut \in DOMAIN m /\ m[p.countOut].kind = "single"

ASSUME MethodsType ==
  Methods \subseteq Seq(Param) \ {<<>>} /\ \A m \in Methods : WellFormed(m)

Values == UNION {[1..n -> 0..MaxCount] : n \in 0..MaxCount}

ASSUME NullType == Null \notin Values

VARIABLES
  method,    \* the command that is called
  step,      \* the pass under way
  i,         \* the parameter it is at
  gargs,     \* gargs[k]: the guest's argument k
  cmdSize,   \* npt_sizeof_*: bytes of the command
  replySize, \* npt_sizeof_*_reply: bytes reserved for the reply
  stream,    \* what has been written, of the command, then of the reply
  at,        \* the decoder's position in it
  hargs,     \* hargs[k]: the host's argument k
  cnt,       \* cnt[k]: the wire count of argument k, -1 not decoded
  fatal,     \* the host's decoder is fatal
  hr,        \* the callee's HRESULT
  results,   \* results[k]: what the guest stored through argument k
  broken     \* the guest's decoder is fatal or out of step

vars == <<method, step, i, gargs, cmdSize, replySize, stream, at, hargs, cnt,
          fatal, hr, results, broken>>

(* NPT_COUNTED_POINTER_PRESENT_ZERO, UINT64_MAX in the code. *)
PresentZero == MaxCount + 1

-----------------------------------------------------------------------------
(* Parameters *)

(* "value": a scalar, input only     "array":   pointer to `count' elements *)
(* "single": pointer to one value    "blob":    pointer to `count' bytes    *)
(* "fixed": an array of `count'      "string":  characters up to a null     *)
(*          elements                 "handles": array of object handles     *)
(* "outs": an array of output handles: the ids minted for them ride in the *)
(* command, and those they are registered under in a canonical method's    *)
(* reply, if `output'.                                                     *)
(* `count' of the others is the parameter that holds their length, and     *)
(* `countOut' the one that holds it after the call, 0 for none.            *)
P(k) == method[k]

Params == DOMAIN method

(* A count parameter: its value, or what it points to. *)
CountIn(args, k) == IF args[k] = Null THEN 0 ELSE args[k][1]

(* _get_count_expr: the length that args give to parameter k. *)
CountExpr(args, k) ==
  CASE P(k).kind \in {"value", "single"} -> 1
    [] P(k).kind = "fixed" -> P(k).count
    [] P(k).kind = "string" -> IF args[k] = Null THEN 0 ELSE Len(args[k])
    [] OTHER -> CountIn(args, P(k).count)

(* _get_output_count_expr: its length once the callee has run. *)
OutputCountExpr(k) ==
  CASE P(k).kind = "outs" -> cnt[k]
    [] P(k).kind # "outs" /\ P(k).countOut # 0 -> CountIn(hargs, P(k).countOut)
    [] OTHER -> CountExpr(hargs, k)

IsInput(k) == P(k).input
IsOutput(k) == P(k).output

(* Checked against the count expression when everything is decoded. *)
IsCounted(k) == P(k).kind \in {"array", "blob", "handles", "outs"}

-----------------------------------------------------------------------------
(* Sizes *)

Pad4(n) == n + ((4 - (n % 4)) % 4)

(* A "union" is wider on the wire in one arm than in the other. *)
ElemSize(type, v) ==
  CASE type = "uint" -> 4
    [] type = "union" -> IF v = 0 THEN 4 ELSE 12
    [] type = "id" -> 8
    [] type = "ref" -> 24

(* The type of the elements a reply carries. *)
ReplyType(p) == IF p.kind = "outs" THEN "ref" ELSE p.type

ArmSize(type) == ElemSize(type, 0)

(* max_mode: the size of the widest arm. *)
MaxElemSize(type) == IF type = "union" THEN 12 ELSE ElemSize(type, 0)

SumOfSizes(type, s) == FoldLeft(LAMBDA n, v : n + ElemSize(type, v), 0, s)

ElemsSizeUnpadded(type, s) ==
  IF type = "byte" THEN Len(s) ELSE SumOfSizes(type, s)

ElemsSize(type, s) ==
  IF type = "byte" THEN Pad4(Len(s)) ELSE SumOfSizes(type, s)

MaxSize(type, n) == IF type = "byte" THEN Pad4(n) ELSE n * MaxElemSize(type)

(* The n elements behind a pointer; past the buffer there is other memory. *)
FirstOf(s, n) == [k \in 1..n |-> IF k <= Len(s) THEN s[k] ELSE 0]

(* npt_sizeof_* of one input parameter. *)
SizeofInput(k) ==
  LET a == gargs[k]
      n == CountExpr(gargs, k)
  IN CASE ~IsInput(k) -> 0
       [] IsInput(k) /\ P(k).kind = "value" -> ElemsSize(P(k).type, a)
       [] OTHER -> 8 + (IF a = Null THEN 0
                        ELSE ElemsSize(P(k).type, FirstOf(a, n)))

(* npt_sizeof_*_reply of one output parameter: an upper bound, before the  *)
(* callee has run.  The host always allocates a simple pointer.            *)
SizeofOutput(k) ==
  CASE ~IsOutput(k) -> 0
    [] IsOutput(k) /\ P(k).kind = "single" -> 8 + MaxSize(P(k).type, 1)
    [] OTHER -> 8 + (IF gargs[k] = Null THEN 0
                     ELSE MaxSize(ReplyType(P(k)), CountExpr(gargs, k)))

-----------------------------------------------------------------------------
(* Encoders *)

CountToken(n) == [is |-> "count", v |-> n]

Elems(type, s) ==
  IF type = "byte"
  THEN IF s = <<>> THEN <<>> ELSE <<[is |-> "byte", v |-> s]>>
  ELSE [k \in DOMAIN s |-> [is |-> type, v |-> s[k]]]

TokenSize(t) ==
  CASE t.is = "count" -> 8
    [] t.is = "byte" -> Pad4(Len(t.v))
    [] OTHER -> ElemSize(t.is, t.v)

Bytes(ts) == FoldLeft(LAMBDA n, t : n + TokenSize(t), 0, ts)

PlainCount(p, n) == n

(* npt_counted_pointer_wire_count: only counted pointers to typed elements *)
(* tell a present empty array from NULL.                                   *)
WireCount(p, n) == IF p.kind = "array" /\ n = 0 THEN PresentZero ELSE n

(* npt_encode_* of one input parameter. *)
EncodedInput(k) ==
  LET a == gargs[k]
      n == CountExpr(gargs, k)
  IN CASE ~IsInput(k) -> <<>>
       [] IsInput(k) /\ P(k).kind = "value" -> Elems(P(k).type, a)
       [] IsInput(k) /\ P(k).kind # "value" /\ a = Null -> <<CountToken(0)>>
       [] OTHER -> <<CountToken(WireCount(P(k), n))>>
                   \o Elems(P(k).type, FirstOf(a, n))

SentAlways(k) == hargs[k] # Null

(* An array with a count of its own for output is sent only on success, if *)
(* the method returns an HRESULT, as every such method does.               *)
IsSent(k) == hargs[k] # Null /\ (P(k).countOut # 0 => hr = "ok")

(* The elements the reply carries for parameter k. *)
Sent(k) ==
  IF IsSent(k) THEN FirstOf(hargs[k], OutputCountExpr(k)) ELSE <<>>

EncodedIfPresent(k) ==
  IF IsOutput(k) /\ Sent(k) # <<>>
  THEN <<CountToken(Len(Sent(k)))>> \o Elems(ReplyType(P(k)), Sent(k))
  ELSE <<>>

(* npt_encode_*_reply of one output parameter: plain counts. *)
EncodedOutput(k) ==
  IF IsOutput(k)
  THEN <<CountToken(Len(Sent(k)))>> \o Elems(ReplyType(P(k)), Sent(k))
  ELSE <<>>

-----------------------------------------------------------------------------
(* Decoders *)

(* How many tokens n elements are. *)
Width(type, n) == IF type = "byte" THEN IF n = 0 THEN 0 ELSE 1 ELSE n

ElemsAt(type, pos, n) ==
  \A k \in pos..(pos + Width(type, n) - 1) :
    /\ k <= Len(stream)
    /\ stream[k].is = type
    /\ type = "byte" => Len(stream[k].v) = n

ReadElems(type, pos, n) ==
  IF type = "byte"
  THEN IF n = 0 THEN <<>> ELSE stream[pos].v
  ELSE [k \in 1..n |-> stream[pos + k - 1].v]

CountAt(pos) == pos <= Len(stream) /\ stream[pos].is = "count"

WireLength(p, n) == IF p.kind = "array" /\ n = PresentZero THEN 0 ELSE n

Zeros(n) == [k \in 1..n |-> 0]

(* A required pointer the sender left out, or a fixed array of wrong size. *)
BadCount(k, n) ==
  \/ P(k).kind = "single" /\ n = 0 /\ ~P(k).optional
  \/ P(k).kind = "fixed" /\ n # P(k).count /\ ~(P(k).optional /\ n = 0)

ShortIfAbsent(k) == IsCounted(k) /\ IsInput(k) /\ cnt[k] = 0 /\ ~P(k).optional

(* counted_array_checks: an array shorter than the callee walks, an output *)
(* array of another length, a required array that is absent.               *)
Short(k) ==
  /\ IsCounted(k) /\ IsInput(k)
  /\ IF cnt[k] # 0
     THEN IF P(k).kind = "outs"
          THEN cnt[k] # CountExpr(hargs, k)
          ELSE WireLength(P(k), cnt[k]) < CountExpr(hargs, k)
     ELSE ~P(k).optional /\ CountExpr(hargs, k) # 0

(* alloc_output_param: room for what the callee writes. *)
Allocated(k) ==
  CASE P(k).kind \in {"single", "fixed"} -> Zeros(CountExpr(hargs, k))
    [] OTHER -> IF CountExpr(hargs, k) # 0 THEN Zeros(CountExpr(hargs, k))
                                           ELSE Null

-----------------------------------------------------------------------------
(* The call *)

(* What a caller passes, by the API's rules: a required pointer is there   *)
(* (a counted one may be NULL if its count is 0) and a counted buffer has  *)
(* its count's length.                                                     *)
Buffers(p, n) == IF p.input THEN [1..n -> {0, 1}] ELSE {Zeros(n)}

NullIf(b) == IF b THEN {Null} ELSE {}

ArgChoices(p) ==
  CASE p.kind = "value" -> [1..1 -> 0..MaxCount]
    [] p.kind = "single" -> NullIf(p.optional)
                            \cup (IF p.input THEN [1..1 -> 0..MaxCount]
                                             ELSE {Zeros(1)})
    [] p.kind = "fixed" -> NullIf(p.optional) \cup Buffers(p, p.count)
    [] p.kind = "string" -> NullIf(p.optional)
                            \cup UNION {Buffers(p, n) : n \in 1..MaxCount}
    [] OTHER -> {Null} \cup UNION {Buffers(p, n) : n \in 0..MaxCount}

CountMatches(m, args, k) ==
  m[k].kind \in {"array", "blob", "handles", "outs"} =>
    LET n == CountIn(args, m[k].count)
    IN IF args[k] = Null THEN m[k].optional \/ n = 0 ELSE Len(args[k]) = n

Args(m) ==
  {args \in [DOMAIN m -> UNION {ArgChoices(m[k]) : k \in DOMAIN m}] :
     /\ \A k \in DOMAIN m : args[k] \in ArgChoices(m[k])
     /\ \A k \in DOMAIN m : CountMatches(m, args, k)}

Init ==
  /\ method = <<>>
  /\ step = "idle"
  /\ i = 1
  /\ gargs = <<>>
  /\ cmdSize = 0 /\ replySize = 0
  /\ stream = <<>> /\ at = 1
  /\ hargs = <<>> /\ cnt = <<>>
  /\ fatal = FALSE
  /\ hr = "ok"
  /\ results = <<>>
  /\ broken = FALSE

StartCall(m, args) ==
  /\ step = "idle"
  /\ method' = m
  /\ gargs' = args
  /\ hargs' = [k \in DOMAIN m |-> Null]
  /\ cnt' = [k \in DOMAIN m |-> -1]
  /\ results' = [k \in DOMAIN m |-> Null]
  /\ step' = "size"
  /\ UNCHANGED <<i, cmdSize, replySize, stream, at, fatal, hr, broken>>

NextParam(from, to) ==
  IF i < Len(method) THEN step' = from /\ i' = i + 1 ELSE step' = to /\ i' = 1

(* npt_submit_*: both sizes are computed before anything is encoded. *)
SizeParam ==
  /\ step = "size"
  /\ cmdSize' = cmdSize + SizeofInput(i)
  /\ replySize' = replySize + SizeofOutput(i)
  /\ NextParam("size", "encode")
  /\ UNCHANGED <<method, gargs, stream, at, hargs, cnt, fatal, hr, results,
                 broken>>

EncodeParam ==
  /\ step = "encode"
  /\ stream' = stream \o EncodedInput(i)
  /\ NextParam("encode", "decode")
  /\ UNCHANGED <<method, gargs, cmdSize, replySize, at, hargs, cnt, fatal,
                 hr, results, broken>>

DecodeValue ==
  /\ P(i).kind = "value"
  /\ ElemsAt(P(i).type, at, 1)
  /\ hargs' = [hargs EXCEPT ![i] = ReadElems(P(i).type, at, 1)]
  /\ at' = at + 1
  /\ UNCHANGED <<cnt, fatal>>

(* A count word and the elements it announces. *)
DecodePointer ==
  LET n == stream[at].v
      len == WireLength(P(i), n)
  IN /\ P(i).kind # "value"
     /\ CountAt(at) /\ ElemsAt(P(i).type, at + 1, len)
     /\ cnt' = [cnt EXCEPT ![i] = n]
     /\ hargs' = [hargs EXCEPT ![i] =
                    IF n = 0 THEN Null ELSE ReadElems(P(i).type, at + 1, len)]
     /\ at' = at + 1 + Width(P(i).type, len)
     /\ fatal' = BadCount(i, n)

DecodeSkipped ==
  /\ ~IsInput(i)
  /\ UNCHANGED <<hargs, cnt, at, fatal>>

DecodeParam ==
  /\ step = "decode" /\ ~fatal
  /\ DecodeSkipped \/ (IsInput(i) /\ (DecodeValue \/ DecodePointer))
  /\ NextParam("decode", "check")
  /\ UNCHANGED <<method, gargs, cmdSize, replySize, stream, hr, results,
                 broken>>

(* The end of npt_decode_*_args_temp. *)
CheckAndAllocate ==
  /\ step = "check" /\ ~fatal
  /\ fatal' = (\E k \in Params : Short(k))
  /\ hargs' = [k \in Params |->
                 IF IsOutput(k) /\ ~IsInput(k) THEN Allocated(k) ELSE hargs[k]]
  /\ step' = "call"
  /\ UNCHANGED <<method, i, gargs, cmdSize, replySize, stream, at, cnt, hr,
                 results, broken>>

(* What the callee may leave in its arguments.  On success it keeps counts *)
(* within the room it was given; on failure it may ask for more.           *)
OutputChoices(k) ==
  IF ~IsOutput(k) \/ hargs[k] = Null THEN {hargs[k]}
  ELSE IF P(k).kind = "single" THEN [1..1 -> 0..MaxCount]
  ELSE {Zeros(Len(hargs[k])), [j \in DOMAIN hargs[k] |-> 1]}

HasRoom(k, out) ==
  P(k).kind \in {"array", "blob"} /\ IsOutput(k) /\ out[k] # Null =>
    CountIn(out, IF P(k).countOut # 0 THEN P(k).countOut ELSE P(k).count)
      <= Len(out[k])

(* The callee runs; the decoder of a reply starts at a stream of its own.  *)
Execute ==
  /\ step = "call" /\ ~fatal
  /\ \E out \in [Params -> UNION {OutputChoices(k) : k \in Params}],
        ret \in {"ok", "fail"} :
       /\ \A k \in Params : out[k] \in OutputChoices(k)
       /\ ret = "ok" => \A k \in Params : HasRoom(k, out)
       /\ hargs' = out
       /\ hr' = ret
  /\ stream' = <<>>
  /\ at' = 1
  /\ step' = "reply"
  /\ UNCHANGED <<method, i, gargs, cmdSize, replySize, cnt, fatal, results,
                 broken>>

EncodeOutput ==
  /\ step = "reply"
  /\ stream' = stream \o EncodedOutput(i)
  /\ NextParam("reply", "results")
  /\ UNCHANGED <<method, gargs, cmdSize, replySize, at, hargs, cnt, fatal,
                 hr, results, broken>>

Stored(k, s) == results' = [results EXCEPT ![k] = s]

(* npt_decode_*_reply of one output: a presence word with the value, which *)
(* is read only into a buffer of the caller's.                             *)
ResultSingle(n) ==
  /\ P(i).kind = "single"
  /\ IF n # 0 /\ gargs[i] # Null
     THEN /\ broken' = ~ElemsAt(P(i).type, at + 1, 1)
          /\ IF broken' THEN UNCHANGED results
             ELSE Stored(i, ReadElems(P(i).type, at + 1, 1))
          /\ at' = at + 2
     ELSE /\ at' = at + 1
          /\ UNCHANGED <<results, broken>>

(* Data that has no buffer to go to: a blob is skipped, an array is fatal. *)
ResultArray(n) ==
  /\ P(i).kind \in {"array", "blob"}
  /\ IF gargs[i] = Null
     THEN /\ broken' = (n # 0 /\ P(i).kind = "array")
          /\ UNCHANGED results
     ELSE /\ broken' = ~ElemsAt(P(i).type, at + 1, n)
          /\ IF broken' \/ n = 0 THEN UNCHANGED results
             ELSE Stored(i, ReadElems(P(i).type, at + 1, n))
  /\ at' = at + 1 + Width(P(i).type, n)

(* The ids of output handles: never more than the caller's slots. *)
ResultRefs(n) ==
  /\ P(i).kind = "outs"
  /\ broken' = (n > (IF gargs[i] = Null THEN 0 ELSE Len(gargs[i]))
                \/ ~ElemsAt("ref", at + 1, n))
  /\ IF broken' \/ n = 0 THEN UNCHANGED results
     ELSE Stored(i, ReadElems("ref", at + 1, n))
  /\ at' = at + 1 + Width("ref", n)

(* A fixed array goes to scratch storage if the caller has no buffer. *)
ResultFixed(n) ==
  /\ P(i).kind = "fixed"
  /\ broken' = (n # P(i).count \/ ~ElemsAt(P(i).type, at + 1, n))
  /\ IF broken' \/ gargs[i] = Null THEN UNCHANGED results
     ELSE Stored(i, ReadElems(P(i).type, at + 1, n))
  /\ at' = at + 1 + Width(P(i).type, P(i).count)

DecodeResult ==
  /\ step = "results" /\ ~broken
  /\ IF ~IsOutput(i) THEN UNCHANGED <<at, results, broken>>
     ELSE IF ~CountAt(at) THEN broken' = TRUE /\ UNCHANGED <<at, results>>
     ELSE \/ ResultSingle(stream[at].v)
          \/ ResultArray(stream[at].v)
          \/ ResultRefs(stream[at].v)
          \/ ResultFixed(stream[at].v)
  /\ NextParam("results", "done")
  /\ UNCHANGED <<method, gargs, cmdSize, replySize, stream, hargs, cnt,
                 fatal, hr>>

(* The call returns. *)
Return ==
  /\ step = "done" \/ broken
  /\ method' = <<>>
  /\ step' = "idle"
  /\ i' = 1
  /\ gargs' = <<>>
  /\ cmdSize' = 0 /\ replySize' = 0
  /\ stream' = <<>> /\ at' = 1
  /\ hargs' = <<>> /\ cnt' = <<>>
  /\ hr' = "ok"
  /\ results' = <<>>
  /\ broken' = FALSE
  /\ UNCHANGED fatal

Next ==
  \/ \E m \in Methods : \E args \in Args(m) : StartCall(m, args)
  \/ SizeParam
  \/ EncodeParam
  \/ DecodeParam
  \/ CheckAndAllocate
  \/ Execute
  \/ EncodeOutput
  \/ DecodeResult
  \/ Return

Spec == Init /\ [][Next]_vars

-----------------------------------------------------------------------------
(* Properties *)

Value == {Null} \cup Values

(* Types. *)
TypeOK ==
  /\ method \in Methods \cup {<<>>}
  /\ step \in {"idle", "size", "encode", "decode", "check", "call", "reply",
               "results", "done"}
  /\ i \in 1..(Len(method) + 1)
  /\ gargs \in [Params -> Value]
  /\ hargs \in [Params -> Value]
  /\ results \in [Params -> Value]
  /\ cnt \in [Params -> -1..PresentZero]
  /\ cmdSize \in Nat /\ replySize \in Nat
  /\ at \in Nat \ {0}
  /\ hr \in {"ok", "fail"}
  /\ fatal \in BOOLEAN /\ broken \in BOOLEAN

(* npt_sizeof_* is the number of bytes npt_encode_* then writes: the       *)
(* command's header and the space taken in the ring say it.                *)
SizeIsExact == TypeOK /\ (step \in {"decode", "check"} => Bytes(stream) = cmdSize)

(* The host's arguments are the caller's, NULL or empty alike, and the     *)
(* decoder ends where the command does.  An empty array is told from NULL; *)
(* bytes and handles with count 0 reach the callee as NULL.                *)
ArgsArrive ==
  step = "check" =>
    /\ at = Len(stream) + 1
    /\ \A k \in Params : IsInput(k) =>
         hargs[k] = IF gargs[k] = <<>> /\ P(k).kind # "array" THEN Null
                                                              ELSE gargs[k]

(* The checks that guard the callee never refuse a legal call. *)
HonestNeverFatal == ~fatal

(* Every element the reply carries lies in the callee's buffer. *)
Within == \A k \in Params : IsSent(k) => OutputCountExpr(k) <= Len(hargs[k])

(* The caller has a buffer for an output if the callee is given one. *)
Wanted(k) == IsOutput(k) /\ gargs[k] = Null => hargs[k] = Null

(* If the caller has buffers for the arrays the callee fills, the reply    *)
(* never needs more room than npt_sizeof_*_reply reserved before the call. *)
ReplyFits ==
  /\ step = "results"
  /\ Within
  /\ \A k \in Params : P(k).kind # "single" => Wanted(k)
  => Bytes(stream) <= replySize

(* Then the caller gets what the callee stored, each output in its place,  *)
(* and the decoder ends where the reply does.                              *)
ResultsArrive ==
  /\ step = "done" \/ broken
  /\ Within
  /\ \A k \in Params : Wanted(k)
  => /\ ~broken /\ at = Len(stream) + 1
     /\ \A k \in Params :
          results[k] = IF IsOutput(k) /\ Sent(k) # <<>> THEN Sent(k) ELSE Null

(* A failing callee may raise a count it was given, to say what it would   *)
(* have liked, as in GetPrivateData: the array behind a count that is both *)
(* in and out is then encoded to the raised count.                         *)
Raised(k) ==
  /\ hr = "fail"
  /\ P(k).kind \in {"array", "blob"} /\ P(k).countOut = 0
  /\ IsOutput(P(k).count)

(* No output brings back more elements than its caller has room for, when  *)
(* the callee fails too and whichever other outputs are left out.  Arrays  *)
(* behind an in-out count of a call that failed are set aside: for them it *)
(* is false, see OnlyRoomIsSent.                                           *)
ResultsInBuffer ==
  \A k \in Params :
    results[k] # Null /\ ~Raised(k) => Len(results[k]) <= Len(gargs[k])

(* "Reply sizing reserves an upper bound before the host has filled the    *)
(* data" (templates/commands.h), for every choice of optional outputs.     *)
ReplyAlwaysFits ==
  step = "results" /\ Within => Bytes(stream) <= replySize

(* "... so the wire stays aligned" (decode_output_param): a caller may     *)
(* leave out an optional output without losing the ones that follow it.    *)
OmittedOutputsAreSkipped == ~broken

(* "On failure the host may have written the required count but left the   *)
(* array contents unpopulated, so only encode elements on success".        *)
OnlyRoomIsSent == step = "results" => Within

=============================================================================
