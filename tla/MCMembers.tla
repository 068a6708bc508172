------------------------------ MODULE MCMembers ------------------------------
(***************************************************************************)
(* Two owners and an admin, an address nobody has and the admin's.         *)
(***************************************************************************)
EXTENDS Members, TLC

CONSTANTS ann, ben, cleo, new, cleos

MCFirstRole == (ann :> "owner") @@ (ben :> "owner") @@ (cleo :> "admin")

MCAddressOf == (new :> Nobody) @@ (cleos :> cleo)

Symmetry == Permutations(Call) \cup Permutations({ann, ben})
=============================================================================
