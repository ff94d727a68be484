---------------------------- MODULE MCWireCodec ----------------------------
(* The counted, optional and output parameters of methods of the registry; *)
(* their other scalars are left out.                                       *)
EXTENDS WireCodec

Shape(kind, type, in, out, opt, count, countOut) ==
  [kind |-> kind, type |-> type, input |-> in, output |-> out,
   optional |-> opt, count |-> count, countOut |-> countOut]

ValueIn == Shape("value", "uint", TRUE, FALSE, FALSE, 0, 0)
CountRef == Shape("single", "uint", TRUE, TRUE, FALSE, 0, 0)
OptCountRef == Shape("single", "uint", TRUE, TRUE, TRUE, 0, 0)
OptOut(type) == Shape("single", type, FALSE, TRUE, TRUE, 0, 0)

(* ID3D12Device::GetCopyableFootprints *)
GetCopyableFootprints ==
  <<ValueIn, Shape("array", "union", FALSE, TRUE, TRUE, 1, 0),
    Shape("array", "uint", FALSE, TRUE, TRUE, 1, 0), OptOut("uint")>>

(* IDXGIOutput::GetDisplayModeList *)
GetDisplayModeList ==
  <<CountRef, Shape("array", "union", FALSE, TRUE, TRUE, 1, 1)>>

(* IDXGIObject::GetPrivateData *)
GetPrivateData == <<CountRef, Shape("blob", "byte", FALSE, TRUE, FALSE, 1, 0)>>

(* IDXGIOutputDuplication::GetFrameDirtyRects *)
GetFrameDirtyRects ==
  <<ValueIn, Shape("blob", "byte", FALSE, TRUE, FALSE, 1, 3),
    Shape("single", "uint", FALSE, TRUE, FALSE, 0, 0)>>

(* ID3D11DeviceContext::IASetVertexBuffers *)
IASetVertexBuffers ==
  <<ValueIn, Shape("handles", "id", TRUE, FALSE, TRUE, 1, 0),
    Shape("array", "uint", TRUE, FALSE, TRUE, 1, 0)>>

(* ID3DUserDefinedAnnotation::SetMarker *)
SetMarker == <<Shape("string", "byte", TRUE, FALSE, FALSE, 0, 0)>>

(* ID3D11DeviceContext::OMGetBlendState *)
OMGetBlendState ==
  <<Shape("fixed", "uint", FALSE, TRUE, TRUE, 2, 0), OptOut("uint")>>

(* ID3D11Device::CreateInputLayout: elements, a count, bytecode, its length *)
CreateInputLayout ==
  <<Shape("array", "union", TRUE, FALSE, FALSE, 2, 0), ValueIn,
    Shape("blob", "byte", TRUE, FALSE, FALSE, 4, 0), ValueIn>>

(* ID3D11DeviceContext::OMSetBlendState *)
OMSetBlendState ==
  <<Shape("fixed", "uint", TRUE, FALSE, TRUE, 2, 0), ValueIn>>

(* ID3D11DeviceContext1::VSGetConstantBuffers1 *)
VSGetConstantBuffers1 ==
  <<ValueIn, Shape("outs", "id", TRUE, TRUE, TRUE, 1, 0),
    Shape("array", "uint", FALSE, TRUE, TRUE, 1, 0)>>

(* IDXGIDevice::CreateSurface: not canonical, and not optional *)
CreateSurface == <<ValueIn, Shape("outs", "id", TRUE, FALSE, FALSE, 1, 0)>>

(* ID3D11DeviceContext::IAGetIndexBuffer *)
IAGetIndexBuffer == <<OptOut("union"), OptOut("uint")>>

(* ID3D11DeviceContext::VSGetShader *)
VSGetShader ==
  <<Shape("outs", "id", TRUE, TRUE, TRUE, 2, 0), OptCountRef>>

AllMethods ==
  {GetCopyableFootprints, GetDisplayModeList, GetPrivateData,
   GetFrameDirtyRects, IASetVertexBuffers, SetMarker, OMGetBlendState,
   CreateInputLayout, OMSetBlendState, VSGetConstantBuffers1, CreateSurface,
   IAGetIndexBuffer, VSGetShader}

Footprints == {GetCopyableFootprints}
IndexBuffer == {IAGetIndexBuffer}
PrivateData == {GetPrivateData}

=============================================================================
