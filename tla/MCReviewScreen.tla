--------------------------- MODULE MCReviewScreen ---------------------------
(***************************************************************************)
(* One deal of two deliverables that is paid for both: neither releases    *)
(* anything by itself, and each of them everything once the other one is   *)
(* approved.                                                               *)
(***************************************************************************)
EXTENDS ReviewScreen, TLC

CONSTANTS d1, d2, finance

MCCondition == [both |-> [type |-> "DELIVERABLES_APPROVED_COUNT", count |-> 2]]

MCAmount == [both |-> 2]

MCLimit == (finance :> 2)
=============================================================================
