------------------------------ MODULE MCReview ------------------------------
(***************************************************************************)
(* One deal of two deliverables.                                           *)
(***************************************************************************)
EXTENDS Review, TLC

CONSTANTS d1, d2, reviewer, finance

Count(n) == [type |-> "DELIVERABLES_APPROVED_COUNT", count |-> n]
Specific(S) == [type |-> "SPECIFIC_DELIVERABLES_APPROVED", deliverableIds |-> S]
Date(t) == [type |-> "DATE_REACHED", at |-> t]

\* Part of it for the first video, the rest for both, and a dated milestone.
MCCondition ==
  [first |-> Specific({d1}), both |-> Count(2), dated |-> Date(1)]

MCAmount == [first |-> 1, both |-> 2, dated |-> 1]

\* A reviewer without money authority, and finance with a limit.
MCLimit == (reviewer :> 0) @@ (finance :> 2)

Symmetry == Permutations(Call)
=============================================================================
