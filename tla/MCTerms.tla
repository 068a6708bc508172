------------------------------ MODULE MCTerms ------------------------------
(***************************************************************************)
(* Deals of up to two videos with every schedule of up to three milestones *)
(* of the entries below.                                                   *)
(***************************************************************************)
EXTENDS Terms, TLC

Plain(t) == [type |-> t]
Count(n) == [type |-> "DELIVERABLES_APPROVED_COUNT", count |-> n]
Date(t) == [type |-> "DATE_REACHED", at |-> t]

FixedEntry(n, c) == [kind |-> "fixed", amountMinor |-> n, condition |-> c]
ShareEntry(b, c) == [kind |-> "percentage", basisPoints |-> b, condition |-> c]

\* An amount may come in negative: the contract's pattern allows a sign.
Entries ==
  {FixedEntry(n, Plain("ADVANCE")) : n \in {-1, 1}}
    \cup {FixedEntry(2, Date(t)) : t \in 0..2}
    \cup {ShareEntry(b, Count(n)) : b \in {3333, 3334}, n \in {0, 1}}
    \cup {ShareEntry(5000, Count(2)),
          ShareEntry(5000, Plain("ALL_DELIVERABLES_APPROVED")),
          ShareEntry(10000, Plain("MANUAL_BRAND_APPROVAL"))}

Schedules == UNION {[1..n -> Entries] : n \in 0..3}

MCDraftSet ==
  [schedule : Schedules, total : {0, 1, 4, 5}, deliverables : {{}, {"v1", "v2"}}]
=============================================================================
