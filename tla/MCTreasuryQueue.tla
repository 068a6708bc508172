-------------------------- MODULE MCTreasuryQueue --------------------------
(***************************************************************************)
(* Small instances of the money queue.                                     *)
(***************************************************************************)
EXTENDS TreasuryQueue, TLC

CONSTANTS k1, k2, r1, r2, r3, c1, c2, a1, l1, l2

T(k, c, n, e) ==
  [key |-> k, campaign |-> c, actor |-> a1, amount |-> n, expected |-> e]

\* Two commands that fit the lot of 3 one at a time, the second sized against a
\* figure that the first one changes, and the key of the first used again with
\* other terms.
ThreeRequests ==
  (r1 :> T(k1, c1, 2, NoExpectation)) @@ (r2 :> T(k2, c1, 2, 3))
    @@ (r3 :> T(k1, c1, 1, NoExpectation))

\* One command sized against the whole lot.
OneCommand == r1 :> T(k1, c1, 2, 3)

ThreeDeposited == [l \in Lot |-> 3]

\* Workers are interchangeable.
Symmetry == Permutations(Worker)
=============================================================================
