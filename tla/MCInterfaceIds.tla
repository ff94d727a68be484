--------------------------- MODULE MCInterfaceIds ---------------------------
(* A bounded instance of InterfaceIds: interchangeable names and GUIDs. *)
EXTENDS InterfaceIds, TLC

NameAndGuidSymmetry == Permutations(Name) \cup Permutations(Guid)

=============================================================================
