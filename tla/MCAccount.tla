------------------------------ MODULE MCAccount ------------------------------
(***************************************************************************)
(* Two requests at a time, two new addresses, three links, two secrets.    *)
(***************************************************************************)
EXTENDS Account, TLC

CONSTANTS a, b, s, t

Symmetry ==
  Permutations(Handler) \cup Permutations(Link) \cup Permutations({a, b})
    \cup Permutations({s, t})
=============================================================================
