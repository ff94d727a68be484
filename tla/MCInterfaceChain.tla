------------------------- MODULE MCInterfaceChain -------------------------
EXTENDS InterfaceChain

\* Three versions of one interface and another interface.
MCNames == {"A", "A1", "A2", "B"}
MCStem == [i \in MCNames \cup {"IUnknown"} |->
             CASE i = "B" -> "B" [] i = "IUnknown" -> "IUnknown" [] OTHER -> "A"]

Acyclic(p) == \A S \in SUBSET MCNames : S # {} => \E i \in S : p[i] \notin S
Forests ==
  { [parent |-> [i \in MCNames \cup {"IUnknown"} |-> IF i = "IUnknown" THEN "none" ELSE p[i]],
     methods |-> [i \in MCNames \cup {"IUnknown"} |-> IF i = "IUnknown" THEN 3 ELSE m[i]],
     uuid |-> [i \in MCNames |-> i # bare]] :
      p \in {q \in [MCNames -> MCNames \cup {"IUnknown"}] : Acyclic(q)},
      m \in [MCNames -> {0, 2}], bare \in {"none", "A2", "B"} }

\* An interface nothing derives from may come without a uuid.
Sound(r) == \A i \in MCNames : r.uuid[i] \/ \A j \in MCNames : r.parent[j] # i
MCRegistries == {r \in Forests : Sound(r)}
=============================================================================
