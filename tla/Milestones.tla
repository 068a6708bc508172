----------------------------- MODULE Milestones -----------------------------
(***************************************************************************)
(* The pure part of a deal: when a milestone's condition is met            *)
(* (evaluateCondition, evaluateDeal, isSatisfiableAtStart) and how authored*)
(* amounts become minor units (resolveMilestoneAmounts, Money.allocate).   *)
(*                                                                         *)
(* Terms follows these through the writing of one deal, and Review takes   *)
(* the conditions of the deal whose work is reviewed.                      *)
(*                                                                         *)
(* A condition is a record with a type and the parameters of that type.    *)
(* What the engine may know of a deal is a record of facts: the approved   *)
(* deliverables, how many there are, the milestones approved by hand, and  *)
(* the time.                                                               *)
(***************************************************************************)
EXTENDS Integers, Sequences, FiniteSetsExt

-----------------------------------------------------------------------------
(* Conditions                                                              *)

\* Mistake: the count of the approvals since the milestone came within reach.
ExactCount(c, m, f) ==
  \/ c.type = "ADVANCE"
  \/ c.type = "DELIVERABLES_APPROVED_COUNT" /\ Cardinality(f.approved) = c.count

\* evaluateCondition: one disjunct per type.
Satisfied(c, m, f) ==
  \/ c.type = "ADVANCE"
  \/ c.type = "DELIVERABLES_APPROVED_COUNT" /\ Cardinality(f.approved) >= c.count
  \/ c.type = "SPECIFIC_DELIVERABLES_APPROVED" /\ c.deliverableIds \subseteq f.approved
  \/ /\ c.type = "ALL_DELIVERABLES_APPROVED"
     /\ f.total # 0 /\ f.total - Cardinality(f.approved) <= 0
  \/ c.type = "DATE_REACHED" /\ f.now >= c.at
  \/ c.type = "MANUAL_BRAND_APPROVAL" /\ m \in f.manual

\* The id that stands for the milestone under disclosure: no milestone has it.
Disclosure == "__disclosure__"

EmptyDeal(now) == [approved |-> {}, total |-> 0, manual |-> {}, now |-> now]

\* isSatisfiableAtStart: the advance disclosure.
SatisfiableAtStart(c, now) == Satisfied(c, Disclosure, EmptyDeal(now))

\* evaluateDeal: condition[m] for every milestone m of the live agreement.  A
\* released one is not evaluated again, and does not release again.
ToRelease(condition, released, f) ==
  {m \in DOMAIN condition \ released : Satisfied(condition[m], m, f)}

-----------------------------------------------------------------------------
(* Amounts                                                                 *)

AmountsTotal(amounts) == SumFunctionOnSet(amounts, DOMAIN amounts)

\* amount * weight / totalWeight: what is whole, and what is left over.
Share(amount, weights, i) == (amount * weights[i]) \div AmountsTotal(weights)
Fraction(amount, weights, i) == (amount * weights[i]) % AmountsTotal(weights)

\* How many minor units the whole shares leave.
Leftover(amount, weights) ==
  amount - AmountsTotal([i \in DOMAIN weights |-> Share(amount, weights, i)])

\* Mistake: ties go to the latest.
LatestFirst(amount, weights, i) ==
  {j \in DOMAIN weights :
     \/ Fraction(amount, weights, j) > Fraction(amount, weights, i)
     \/ Fraction(amount, weights, j) = Fraction(amount, weights, i) /\ j > i}

\* The sort of allocate: those ahead of i in the queue for a leftover unit.
Ahead(amount, weights, i) ==
  {j \in DOMAIN weights :
     \/ Fraction(amount, weights, j) > Fraction(amount, weights, i)
     \/ Fraction(amount, weights, j) = Fraction(amount, weights, i) /\ j < i}

\* Money.allocate, for a non-negative amount and weights that sum above zero.
Allocate(amount, weights) ==
  [i \in DOMAIN weights |->
     Share(amount, weights, i)
       + (IF Cardinality(Ahead(amount, weights, i)) < Leftover(amount, weights)
          THEN 1 ELSE 0)]

BasisPoints == 10000

Refused == <<>>

Fixed(authored) == {i \in DOMAIN authored : authored[i].kind = "fixed"}
Percentages(authored) == DOMAIN authored \ Fixed(authored)

\* The percentage entries split what the fixed ones leave.
Weights(authored) ==
  [i \in Percentages(authored) |-> authored[i].basisPoints]

FixedTotal(authored) ==
  AmountsTotal([i \in Fixed(authored) |-> authored[i].amountMinor])

PointsTotal(authored) == AmountsTotal(Weights(authored))

\* Mistake: the percentages apply to the whole deal.
OfTheWhole(authored, total) ==
  LET shares == Allocate(total, Weights(authored))
  IN  [i \in DOMAIN authored |->
         IF i \in Fixed(authored) THEN authored[i].amountMinor ELSE shares[i]]

Resolved(authored, total) ==
  LET shares == Allocate(total - FixedTotal(authored), Weights(authored))
  IN  [i \in DOMAIN authored |->
         IF i \in Fixed(authored) THEN authored[i].amountMinor ELSE shares[i]]

Resolvable(authored, total) ==
  /\ authored # <<>>
  /\ FixedTotal(authored) <= total
  /\ IF Percentages(authored) = {} THEN FixedTotal(authored) = total
     ELSE PointsTotal(authored) = BasisPoints

\* resolveMilestoneAmounts, without its last check.
Resolve(authored, total) ==
  IF Resolvable(authored, total) THEN Resolved(authored, total) ELSE Refused

\* The check milestone_amount_positive of the table.
Storable(amounts) == \A i \in DOMAIN amounts : amounts[i] > 0
=============================================================================
