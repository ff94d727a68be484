--------------------------- MODULE MCObjectCalls ---------------------------
(* Instances of ObjectCalls for TLC: two threads on a ring each. *)
EXTENDS ObjectCalls, TLC

CONSTANTS x1, x2, t1, t2, r1, r2

TwoRings == (t1 :> r1) @@ (t2 :> r2)

(* Ids not minted yet are interchangeable, and so are the two threads with their rings. *)
SwapSides == (t1 :> t2) @@ (t2 :> t1) @@ (r1 :> r2) @@ (r2 :> r1)
KeepSides == (t1 :> t1) @@ (t2 :> t2) @@ (r1 :> r1) @@ (r2 :> r2)
SideAndIdSymmetry ==
  {p @@ side : p \in Permutations(Id \ Roots), side \in {SwapSides, KeepSides}}

(* Bounds of the larger instance: one call of a history waits for its      *)
(* reply, and one thread at a time has something staged.                   *)
OneCallerWaits == Cardinality({n \in DOMAIN log : log[n].reply}) <= 1
OneThreadStages == \A t, u \in Thread : staging[t] # <<>> /\ staging[u] # <<>> => t = u
=============================================================================
