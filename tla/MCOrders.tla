------------------------------ MODULE MCOrders ------------------------------
(***************************************************************************)
(* Instances of Orders for TLC.                                            *)
(***************************************************************************)
EXTENDS Orders, TLC

CONSTANTS v1, v2   \* the variants, named so that stock and baskets can be given

\* Two variants with one unit each: a cart may hold either or both.
PairEmpty   == (v1 :> 0) @@ (v2 :> 0)
PairStock   == (v1 :> 1) @@ (v2 :> 1)
PairBaskets == {(v1 :> 1) @@ (v2 :> 0), (v1 :> 0) @@ (v2 :> 1), (v1 :> 1) @@ (v2 :> 1)}

\* One variant with two units; every basket takes one of them or both.
OneEmpty   == v1 :> 0
OneStock   == v1 :> 2
OneBaskets == {v1 :> 1, v1 :> 2}

\* One variant with a single unit.
UnitStock   == v1 :> 1
UnitBaskets == {v1 :> 1}

Symmetric == Permutations(Variants) \cup Permutations(Orders) \cup Permutations(Sessions) \cup Permutations(Procs)
=============================================================================
