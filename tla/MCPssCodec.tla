----------------------------- MODULE MCPssCodec -----------------------------
EXTENDS PssCodec

\* A UINT, a pair of UINTs, the root signature and a pointer with a size.
MCType == {"MASK", "SAMPLE", "ROOT", "SHADER"}
MCRoot == "ROOT"
AbiOf(p) == [ptr   |-> p,
             size  |-> [MASK |-> 4, SAMPLE |-> 8, ROOT |-> p, SHADER |-> 2 * p],
             align |-> [MASK |-> 4, SAMPLE |-> 4, ROOT |-> p, SHADER |-> p]]
MCAbi == {AbiOf(4), AbiOf(8)}
MCWireSize == [MASK |-> 4, SAMPLE |-> 8, ROOT |-> 8, SHADER |-> 24]

MaxRecords == 3
MCStreams ==
  UNION {{s \in [1 .. n -> MCType \cup {"unknown"}] :
            \A j, k \in 1 .. n : j # k => s[j] # "unknown" \/ s[k] # "unknown"} :
         n \in 0 .. MaxRecords}
=============================================================================
