------------------------------ MODULE MCDeals ------------------------------
(***************************************************************************)
(* Two deals of one workspace, one of them with an advance.                *)
(***************************************************************************)
EXTENDS Deals, TLC

CONSTANTS d1, d2, advance, rest, whole

MCDealOf == (advance :> d1) @@ (rest :> d1) @@ (whole :> d2)

MCAmount == (advance :> 1) @@ (rest :> 1) @@ (whole :> 1)

\* Requests are interchangeable.
Symmetry == Permutations(Request)
=============================================================================
