--------------------------- MODULE MCStructCodec ---------------------------
(* Structs of four fields, and some of the registry's. *)
EXTENDS StructCodec

Always == [is |-> "always"]
Never == [is |-> "never"]
Test1(field, values) == [field |-> field, values |-> values]
WhenIn(values) == [is |-> "when", tests |-> {Test1(1, values)}]
When(value) == WhenIn({value})

Shape(kind, optional) ==
  [kind |-> kind, optional |-> optional, count |-> 0, union |-> 0,
   condition |-> Always]
Uint == Shape("uint", FALSE)
Bits == Shape("bits", FALSE)
Color == Shape("color", FALSE)
Pointer(optional) == Shape("pointer", optional)
Array(optional, count) == [Shape("array", optional) EXCEPT !.count = count]
Arm(f, c) == [f EXCEPT !.union = 1, !.condition = c]

(* The count of an array before and after it. *)
Shapes(count) ==
  {Uint, Bits, Color} \cup {Pointer(o) : o \in BOOLEAN}
  \cup {Array(o, count) : o \in BOOLEAN}
ArmShapes(count) == Shapes(count) \ {Bits}

(* Tagged unions, a dead arm among them, arms that need not cover the tag. *)
Tagged(count) ==
  {<<Arm(f, When(0)), Arm(g, c)>> : f, g \in ArmShapes(count), c \in {When(1), Never}}

Plains == {<<Uint, Uint, f, g>> : f, g \in Shapes(2)}
         \cup {<<Uint, f, g, Uint>> : f, g \in Shapes(4)}
Unions1 == {<<Uint, Uint>> \o u : u \in Tagged(2)}
           \cup {<<Uint>> \o u \o <<Uint>> : u \in Tagged(4)}

(* D3D11_VIDEO_COLOR, D3D11_AUTHENTICATED_PROTECTION_FLAGS: no sibling     *)
(* conditions.  DXGI_MAPPED_RECT.                                          *)
VideoColor == <<Arm(Color, Always), Arm(Color, Always)>>
ProtectionFlags == <<Arm(Uint, Always), Arm(Uint, Never)>>
MappedRect == <<Uint, Pointer(FALSE)>>

(* D3D12_CLEAR_VALUE: the two arms share out the formats.                   *)
ClearValue == <<Uint, Arm(Color, WhenIn({0, 2})), Arm(Uint, WhenIn({1}))>>

(* D3D12_BUILD_RAYTRACING_ACCELERATION_STRUCTURE_INPUTS: conditions on the *)
(* type and the layout.                                                    *)
BuildInputs ==
  LET laid(l) == [is |-> "when", tests |-> {Test1(1, {1}), Test1(3, {l})}]
  IN  <<Uint, Uint, Uint, Arm(Uint, When(0)), Arm(Array(FALSE, 2), laid(0)),
        Arm(Array(FALSE, 2), laid(1))>>

AllStructs == Plains \cup Unions1
              \cup {VideoColor, ProtectionFlags, MappedRect, ClearValue, BuildInputs}
Colors == {VideoColor, ProtectionFlags}
Rects == {MappedRect, ProtectionFlags}
=============================================================================
