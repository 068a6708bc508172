---------------------------- MODULE MCPostEntry ----------------------------
(***************************************************************************)
(* Three accounts: the platform's bootstrap account (credit normal, may go *)
(* negative), an organisation's funding lot and a campaign (debit normal). *)
(***************************************************************************)
EXTENDS PostEntry

Bootstrap == 1
Lot == 2
CampaignAccount == 3

MCAccount == {Bootstrap, Lot, CampaignAccount}
MCDebitNormal == {Lot, CampaignAccount}
MCMayGoNegative == {Bootstrap}

Movement(b, l, c) == <<b, l, c>>

\* A deposit, an allocation, half of one taken back, and a one-sided movement.
MCMovements ==
  {Movement(2, 2, 0), Movement(0, -2, 2),
   Movement(0, 1, -1), Movement(0, 0, 1)}
=============================================================================
