------------------------------- MODULE Terms -------------------------------
(***************************************************************************)
(* The terms of one deal: DealsService.preview and create, the figure the  *)
(* console shows of what is released before any work (DealsService.get),   *)
(* its acknowledgement in offer, and what approvals and time satisfy later.*)
(*                                                                         *)
(* The envelope and the other requests about the deal are in Deals; here   *)
(* the brand's screen and the clock are the two that race.  The calls of   *)
(* the engine all pass an empty set of milestones approved by hand.        *)
(***************************************************************************)
EXTENDS Milestones

CONSTANTS
  DraftSet, \* [schedule, total, deliverables] as the brand may write them
  LastDay   \* bounds the clock

\* MilestoneConditionSchema.
Conditions ==
  [type : {"ADVANCE", "ALL_DELIVERABLES_APPROVED", "MANUAL_BRAND_APPROVAL"}]
    \cup [type : {"DELIVERABLES_APPROVED_COUNT"}, count : Nat]
    \cup [type : {"SPECIFIC_DELIVERABLES_APPROVED"}, deliverableIds : SUBSET STRING]
    \cup [type : {"DATE_REACHED"}, at : Int]

\* MilestoneInputSchema: an amount may have a sign, a share is at least one point.
MilestoneInput ==
  [kind : {"fixed"}, amountMinor : Int, condition : Conditions]
    \cup [kind : {"percentage"}, basisPoints : 1..BasisPoints, condition : Conditions]

ASSUME TermsAssumption ==
  /\ \A draft \in DraftSet :
       /\ draft.schedule \in Seq(MilestoneInput)
       /\ draft.total \in Int
       /\ IsFiniteSet(draft.deliverables)
  /\ LastDay \in Nat

VARIABLES
  stage,     \* state of the deal, "none" before it is created
  milestone, \* amountMinor, condition and authoredBasisPoints, 0 for none,
             \* of the milestones in sequence
  total,     \* totalAmountMinor
  slots,     \* the deliverables of the deal
  approved,  \* those that are approved
  screen,    \* the advance that the brand's screen shows
  consented, \* acknowledgedAdvanceMinor of the offer that went out
  offeredOn, \* history: the day of that offer
  today

agreementVars == <<milestone, total, slots>>
offerVars == <<screen, consented, offeredOn>>
termVars == <<stage, agreementVars, approved, offerVars, today>>

-----------------------------------------------------------------------------
(* preview                                                                 *)

\* No milestones: one for the whole total when all the work is approved.
Authored(draft) ==
  IF draft.schedule # <<>> THEN draft.schedule
  ELSE <<[kind |-> "fixed", amountMinor |-> draft.total,
          condition |-> [type |-> "ALL_DELIVERABLES_APPROVED"]]>>

Amounts(draft) == Resolve(Authored(draft), draft.total)

Points(draft, i) ==
  IF i \in Percentages(Authored(draft)) THEN Authored(draft)[i].basisPoints ELSE 0

\* The problems that preview lists are none.
NoProblems(draft) ==
  /\ draft.total > 0
  /\ draft.deliverables # {}
  /\ Amounts(draft) # Refused

-----------------------------------------------------------------------------
Condition == [m \in DOMAIN milestone |-> milestone[m].condition]

\* The sum over the milestones a deal with no work satisfies.
AmountOf(S) == AmountsTotal([m \in S |-> milestone[m].amount])

AtStart(now) == {m \in DOMAIN milestone : SatisfiableAtStart(Condition[m], now)}

Advance == AmountOf(AtStart(today))

\* What the engine finds satisfied when S is approved.
Unlocked(S) ==
  ToRelease(Condition, {},
    [approved |-> S, total |-> Cardinality(slots), manual |-> {}, now |-> today])

TermsInit ==
  /\ stage = "none"
  /\ milestone = <<>> /\ total = 0 /\ slots = {}
  /\ approved = {}
  /\ screen = 0 /\ consented = 0 /\ offeredOn = 0
  /\ today = 0

\* One transaction; a milestone that resolves to nothing is stopped by its CHECK.
CreateDeal(draft) ==
  /\ stage = "none"
  /\ NoProblems(draft) /\ Storable(Amounts(draft))
  /\ milestone' = [i \in DOMAIN Amounts(draft) |->
                     [condition |-> Authored(draft)[i].condition,
                      amount |-> Amounts(draft)[i],
                      basisPoints |-> Points(draft, i)]]
  /\ total' = draft.total
  /\ slots' = draft.deliverables
  /\ stage' = "draft"
  /\ UNCHANGED <<approved, offerVars, today>>

\* The brand opens the deal.
Load ==
  /\ stage = "draft"
  /\ screen' = Advance
  /\ UNCHANGED <<stage, agreementVars, approved, consented, offeredOn, today>>

\* Mistake: the client's figure is taken as it is.
OfferUnasserted ==
  /\ stage = "draft"
  /\ stage' = "offered"
  /\ consented' = screen
  /\ offeredOn' = today
  /\ UNCHANGED <<agreementVars, approved, screen, today>>

\* The advance is derived again, and another figure on the screen is refused.
Offer ==
  /\ stage = "draft"
  /\ screen = Advance
  /\ stage' = "offered"
  /\ consented' = screen
  /\ offeredOn' = today
  /\ UNCHANGED <<agreementVars, approved, screen, today>>

\* The creator's acceptance, which is not in the repository.
Accept ==
  /\ stage = "offered"
  /\ stage' = "accepted"
  /\ UNCHANGED <<agreementVars, approved, offerVars, today>>

\* Review, without its undo.
ApproveWork(d) ==
  /\ stage = "accepted"
  /\ d \in slots \ approved
  /\ approved' = approved \cup {d}
  /\ UNCHANGED <<stage, agreementVars, offerVars, today>>

DayPasses ==
  /\ today < LastDay
  /\ today' = today + 1
  /\ UNCHANGED <<stage, agreementVars, approved, offerVars>>

TermsNext ==
  \/ \E draft \in DraftSet : CreateDeal(draft)
  \/ Load \/ Offer \/ Accept
  \/ \E d \in slots : ApproveWork(d)
  \/ DayPasses

TermsSpec == TermsInit /\ [][TermsNext]_termVars

\* "An unallocated remainder is money nobody has decided about": the milestones
\* of a stored deal sum to its total, with fixed and percentage entries mixed.
ScheduleAddsUp == AmountOf(DOMAIN milestone) = total

\* "Money that can leave before work exists": of an offered deal, whatever the
\* engine satisfies with nothing approved was in the figure the brand consented
\* to, however it is worded; only a date that came after the offer was not.
AdvanceIsConsented ==
  stage \in {"offered", "accepted"} =>
    /\ consented = AmountOf(AtStart(offeredOn))
    /\ \A m \in Unlocked({}) \ AtStart(offeredOn) :
         Condition[m].type = "DATE_REACHED" /\ Condition[m].at > offeredOn

\* "Once true, true forever": more work and more time never take back what was
\* satisfied.
StaysSatisfied ==
  [][stage # "none" => Unlocked(approved) \subseteq Unlocked(approved)']_termVars

-----------------------------------------------------------------------------
(* The reference for the split: of all the ways to share out what the      *)
(* fixed amounts leave, those least away from the exact shares, and of     *)
(* these the one that favours the earliest.                                *)

Splits(amount, weights) ==
  {p \in [DOMAIN weights -> 0..amount] : AmountsTotal(p) = amount}

Distance(amount, weights, p) ==
  AmountsTotal([i \in DOMAIN weights |->
    LET off == p[i] * AmountsTotal(weights) - amount * weights[i]
    IN  IF off < 0 THEN -off ELSE off])

FavoursEarlier(p, q) ==
  \E i \in DOMAIN p : p[i] > q[i] /\ \A j \in DOMAIN p : j < i => p[j] = q[j]

\* The percentages of a stored deal got the split nearest to what was written,
\* the odd units with the earliest of equals.
SplitIsNearest ==
  LET shared == {m \in DOMAIN milestone : milestone[m].basisPoints > 0}
      weights == [m \in shared |-> milestone[m].basisPoints]
      parts == [m \in shared |-> milestone[m].amount]
      amount == AmountOf(shared)
  IN  \A p \in Splits(amount, weights) \ {parts} :
        \/ Distance(amount, weights, p) > Distance(amount, weights, parts)
        \/ /\ Distance(amount, weights, p) = Distance(amount, weights, parts)
           /\ FavoursEarlier(parts, p)
=============================================================================
