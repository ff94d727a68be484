------------------------------ MODULE PssCodec ------------------------------
(***************************************************************************)
(* The hand-written codec of D3D12_PIPELINE_STATE_STREAM_DESC.  An         *)
(* application packs records of many types behind one another; the guest   *)
(* walks them three times (to size, to count, to encode), the host lays    *)
(* them out again in its own ABI, into a block it sized from the count     *)
(* alone, and walks its own layout to replace the root signatures' ids.    *)
(* Offsets are bytes; what a payload holds is left to its own codec.       *)
(***************************************************************************)
EXTENDS Integers, FiniteSets, SequencesExt

CONSTANTS Type,      \* the record types
          Root,      \* the one whose payload is a root signature
          Abi,       \* ABIs: the width of a pointer, and each payload's size and alignment
          WireSize,  \* type |-> the bytes its payload has on the wire
          Streams    \* what applications pack: sequences of types, "unknown" among them

VARIABLES
  guest, host,   \* the ABI of either side
  app,           \* the application's stream
  phase,
  off,           \* where the walk under way has got to
  size,          \* what npt_sizeof has added up
  count,         \* records counted, then records left to encode or decode
  wire,          \* the types of the records sent; <<"none">> before the count is
  room,          \* bytes the host allocated
  stream,        \* the host's stream
  roots,         \* offset |-> what the root signature there is: "id" or "object"
  fatal

vars == <<guest, host, app, phase, off, size, count, wire, room, stream, roots, fatal>>

TagSize == 4
CountSize == 8
AlignUp(v, a) == ((v + a - 1) \div a) * a

ASSUME NamesType == "none" \notin Type /\ "unknown" \notin Type
ASSUME WireSizeType == WireSize \in [Type -> Nat]
ASSUME StreamsType == Streams \subseteq Seq(Type \cup {"unknown"})
\* Payloads are aligned like an int or a pointer, never more than a pointer.
ASSUME AbisAreSound ==
  \A abi \in Abi :
    /\ abi.ptr \in {4, 8}
    /\ abi.size \in [Type -> Nat \ {0}]
    /\ abi.align \in [Type -> {4, abi.ptr}]

Layout(abi, type, at) ==
  LET payload == AlignUp(at + TagSize, abi.align[type])
  IN [payload |-> payload,
      end     |-> payload + abi.size[type],
      next    |-> AlignUp(payload + abi.size[type], abi.ptr)]

RecordSize(abi, type) == Layout(abi, type, 0).next
MaxRecordSize(abi) ==
  CHOOSE m \in {RecordSize(abi, t) : t \in Type} : \A t \in Type : RecordSize(abi, t) <= m

\* The record types are finitely many.
ASSUME OneIsLargest ==
  \A abi \in Abi : \E t \in Type : \A u \in Type : RecordSize(abi, u) <= RecordSize(abi, t)

---------------------------------------------------------------------------
(* A stream: its base, SizeInBytes and the tags in it, by offset.            *)

TagAt(s, at) == IF at \in DOMAIN s.tag THEN s.tag[at] ELSE "unknown"

AtEnd(s, at) == s.base = "null" \/ at >= s.size

\* A wrong form: a record must be there with its tail padding.
FitsPadded(abi, s, at) ==
  /\ s.base = "aligned"
  /\ at + TagSize <= s.size
  /\ TagAt(s, at) \in Type
  /\ Layout(abi, TagAt(s, at), at).next <= s.size

Fits(abi, s, at) ==
  /\ s.base = "aligned"
  /\ at + TagSize <= s.size
  /\ TagAt(s, at) \in Type
  /\ Layout(abi, TagAt(s, at), at).end <= s.size

\* The three answers of npt_pss_next.
HasNext(abi, s) == ~AtEnd(s, off) /\ Fits(abi, s, off)
Malformed(abi, s) == ~AtEnd(s, off) /\ ~Fits(abi, s, off)

\* A wrong form: the next record starts where the payload ends.
NextOffAtEnd(abi, s) == Layout(abi, TagAt(s, off), off).end

NextOff(abi, s) == Layout(abi, TagAt(s, off), off).next

\* The layout the documentation gives a record: struct alignas(void *)
\* { type; payload }, by the rules of C, one behind the other.
CRecord(abi, type) ==
  LET align == IF abi.align[type] > abi.ptr THEN abi.align[type] ELSE abi.ptr
      end == AlignUp(TagSize, abi.align[type]) + abi.size[type]
  IN [end |-> end, size |-> AlignUp(end, align)]
CSize(abi, type) == IF type \in Type THEN CRecord(abi, type).size ELSE abi.ptr
Starts(abi, types) ==
  LET f[k \in 0 .. Len(types)] == IF k = 0 THEN 0 ELSE f[k - 1] + CSize(abi, types[k])
  IN f
Packed(abi, types, n, base) ==
  [base |-> base, size |-> n, types |-> types,
   tag |-> [at \in {Starts(abi, types)[k - 1] : k \in DOMAIN types} |->
              types[CHOOSE k \in DOMAIN types : Starts(abi, types)[k - 1] = at]]]

---------------------------------------------------------------------------
(* The guest.                                                                *)

Init ==
  /\ guest \in Abi /\ host \in Abi
  /\ \E types \in Streams, base \in {"null", "aligned", "unaligned"} :
       \E n \in 0 .. Starts(guest, types)[Len(types)] : app = Packed(guest, types, n, base)
  /\ phase = "size" /\ off = 0 /\ size = CountSize
  /\ count = 0 /\ wire = <<"none">> /\ room = 0
  /\ stream = [base |-> "null", size |-> 0, tag |-> <<>>]
  /\ roots = <<>>
  /\ fatal = FALSE

SizeRecord ==
  /\ phase = "size" /\ HasNext(guest, app)
  /\ size' = size + TagSize + WireSize[TagAt(app, off)]
  /\ off' = NextOff(guest, app)
  /\ UNCHANGED <<guest, host, app, phase, count, wire, room, stream, roots, fatal>>

SizeEnd ==
  /\ phase = "size" /\ ~HasNext(guest, app)
  /\ size' = IF Malformed(guest, app) THEN 0 ELSE size
  /\ phase' = "count" /\ off' = 0
  /\ UNCHANGED <<guest, host, app, count, wire, room, stream, roots, fatal>>

CountRecord ==
  /\ phase = "count" /\ HasNext(guest, app)
  /\ count' = count + 1
  /\ off' = NextOff(guest, app)
  /\ UNCHANGED <<guest, host, app, phase, size, wire, room, stream, roots, fatal>>

\* Count first: a malformed stream sends nothing.
CountEnd ==
  /\ phase = "count" /\ ~HasNext(guest, app)
  /\ IF Malformed(guest, app)
     THEN phase' = "refused" /\ fatal' = TRUE /\ UNCHANGED <<off, wire>>
     ELSE phase' = "encode" /\ off' = 0 /\ wire' = <<>> /\ fatal' = fatal
  /\ UNCHANGED <<guest, host, app, size, count, room, stream, roots>>

EncodeRecord ==
  /\ phase = "encode" /\ HasNext(guest, app)
  /\ wire' = Append(wire, TagAt(app, off))
  /\ off' = NextOff(guest, app)
  /\ UNCHANGED <<guest, host, app, phase, size, count, room, stream, roots, fatal>>

EncodeEnd ==
  /\ phase = "encode" /\ ~HasNext(guest, app)
  /\ phase' = "allocate"
  /\ UNCHANGED <<guest, host, app, off, size, count, wire, room, stream, roots, fatal>>

---------------------------------------------------------------------------
(* The host.  The temp allocator answers aligned memory or fails the         *)
(* command.                                                                  *)

\* A wrong form: room for the payloads without their tags.
RoomForPayloads(abi, n) ==
  n * (CHOOSE m \in Range([t \in Type |-> abi.size[t]]) : \A t \in Type : abi.size[t] <= m)

RoomFor(abi, n) == n * MaxRecordSize(abi)

AllocateStream ==
  /\ phase = "allocate"
  /\ off' = 0
  /\ IF count = 0
     THEN phase' = "done" /\ UNCHANGED <<room, fatal>>
     ELSE \/ phase' = "decode" /\ room' = RoomFor(host, count) /\ fatal' = fatal
          \/ phase' = "refused" /\ fatal' = TRUE /\ room' = room
  /\ UNCHANGED <<guest, host, app, size, count, wire, stream, roots>>

Arrived == Len(wire) - count

NextType == IF Arrived + 1 \in DOMAIN wire THEN wire[Arrived + 1] ELSE "unknown"

\* A type the host does not know is fatal.
DecodeRecord ==
  /\ phase = "decode" /\ count > 0
  /\ IF NextType \in Type
     THEN LET rec == Layout(host, NextType, off)
          IN /\ stream' = [stream EXCEPT !.tag = [at \in DOMAIN @ \cup {off} |->
                                IF at = off THEN NextType ELSE @[at]]]
             /\ roots' = IF NextType = Root
                         THEN [at \in DOMAIN roots \cup {rec.payload} |->
                                 IF at = rec.payload THEN "id" ELSE roots[at]]
                         ELSE roots
             /\ off' = rec.next
             /\ UNCHANGED <<phase, fatal>>
     ELSE phase' = "refused" /\ fatal' = TRUE /\ UNCHANGED <<off, stream, roots>>
  /\ count' = count - 1
  /\ UNCHANGED <<guest, host, app, size, wire, room>>

DecodeEnd ==
  /\ phase = "decode" /\ count = 0
  /\ stream' = [stream EXCEPT !.base = "aligned", !.size = off]
  /\ phase' = "replace" /\ off' = 0
  /\ UNCHANGED <<guest, host, app, size, count, wire, room, roots, fatal>>

ReplaceRecord ==
  /\ phase = "replace" /\ HasNext(host, stream)
  /\ LET type == TagAt(stream, off)
         at == Layout(host, type, off).payload
     IN roots' = IF type = Root THEN [roots EXCEPT ![at] = "object"] ELSE roots
  /\ off' = NextOff(host, stream)
  /\ UNCHANGED <<guest, host, app, phase, size, count, wire, room, stream, fatal>>

ReplaceEnd ==
  /\ phase = "replace" /\ ~HasNext(host, stream)
  /\ phase' = "done"
  /\ UNCHANGED <<guest, host, app, off, size, count, wire, room, stream, roots, fatal>>

Next ==
  \/ SizeRecord \/ SizeEnd \/ CountRecord \/ CountEnd \/ EncodeRecord \/ EncodeEnd
  \/ AllocateStream \/ DecodeRecord \/ DecodeEnd \/ ReplaceRecord \/ ReplaceEnd

Spec == Init /\ [][Next]_vars

---------------------------------------------------------------------------
(* Properties.                                                               *)

TypeOK ==
  /\ guest \in Abi /\ host \in Abi
  /\ phase \in {"size", "count", "encode", "allocate", "decode", "replace", "done", "refused"}
  /\ off \in Nat /\ size \in Nat /\ count \in Nat /\ room \in Nat
  /\ wire = <<"none">> \/ wire \in Seq(Type)
  /\ \A at \in DOMAIN roots : roots[at] \in {"id", "object"}
  /\ fatal \in BOOLEAN

\* The records an application means: the first k of its structures, the last
\* one perhaps without its tail padding, and nothing else.
Complete(k) ==
  /\ app.base = "aligned"
  /\ k <= Len(app.types)
  /\ \A j \in 1 .. k : app.types[j] \in Type
  /\ IF k = 0 THEN app.size = 0
     ELSE LET start == Starts(guest, app.types)[k - 1]
              rec == CRecord(guest, app.types[k])
          IN start + rec.end <= app.size /\ app.size <= start + rec.size
Means(types) ==
  \/ app.base = "null" /\ types = <<>>
  \/ app.base = "unaligned" /\ app.size = 0 /\ types = <<>>
  \/ \E k \in 0 .. Len(app.types) : Complete(k) /\ types = SubSeq(app.types, 1, k)

\* The bytes of the first k records on the wire.
SentBytes(types) ==
  LET f[k \in 0 .. Len(types)] ==
        IF k = 0 THEN 0 ELSE f[k - 1] + (TagSize + WireSize[types[k]])
  IN f

\* What is sent is what the application packed by the documented layout, and
\* the room reserved for it is the bytes sent; or nothing is sent: a stream
\* with an unknown record, or one that is cut short anywhere but in its last
\* padding, is refused and sized 0 ("an unknown record type or a record that
\* does not fit is malformed").
SentAsMeant ==
  /\ TypeOK
  /\ phase \in {"allocate", "decode", "replace", "done"} =>
       /\ Means(wire)
       /\ size = CountSize + SentBytes(wire)[Len(wire)]
  /\ phase = "refused" /\ wire = <<"none">> =>
       size = 0 /\ ~\E k \in 0 .. Len(app.types) : Means(SubSeq(app.types, 1, k))

\* The host never writes past its block, though it sized it before it knew
\* the records' types: one largest record for each.
DecoderInBounds ==
  phase = "decode" => off <= room

\* Direct3D sees the records the application packed, in order and laid out
\* as the host's own ABI has it, and objects where it packed objects.
StreamArrives ==
  phase = "done" =>
    LET at == Starts(host, wire)
    IN /\ stream.size = at[Len(wire)]
       /\ \A k \in DOMAIN wire : TagAt(stream, at[k - 1]) = wire[k]
       /\ \A p \in DOMAIN roots : roots[p] = "object"
       /\ Cardinality(DOMAIN roots) = Cardinality({k \in DOMAIN wire : wire[k] = Root})

=============================================================================
