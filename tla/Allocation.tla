----------------------------- MODULE Allocation -----------------------------
(***************************************************************************)
(* What the money queue promises a brand that allocates budget: a request  *)
(* that was accepted moves the amount it names from a funding lot to the   *)
(* campaign it names, once, or is refused and then moves nothing; and it   *)
(* is reported as done only when the money has moved.                      *)
(*                                                                         *)
(* Nothing is said here of workers, leases, retries or crashes:            *)
(* TreasuryQueue is shown to implement this.                               *)
(***************************************************************************)
EXTENDS Integers

CONSTANTS
  Key,          \* idempotency keys
  Request,
  Ask,          \* the terms of each request
  Campaign,
  Lot,          \* funding lots
  DepositOf     \* the amount a lot is opened with

VARIABLES
  offer,        \* offer[k]: the requests whose terms k stands for, one at most
  outcome,      \* what became of k
  funds,        \* what is left of each lot
  budget        \* what each campaign was given

vars == <<offer, outcome, funds, budget>>

Init ==
  /\ offer = [k \in Key |-> {}]
  /\ outcome = [k \in Key |-> "none"]
  /\ funds = [l \in Lot |-> 0]
  /\ budget = [c \in Campaign |-> 0]

Deposit(l) ==
  /\ funds' = [funds EXCEPT ![l] = @ + DepositOf[l]]
  /\ UNCHANGED <<offer, outcome, budget>>

Accept(k, r) ==
  /\ outcome[k] = "none"
  /\ Ask[r].key = k
  /\ offer' = [offer EXCEPT ![k] = {r}]
  /\ outcome' = [outcome EXCEPT ![k] = "accepted"]
  /\ UNCHANGED <<funds, budget>>

Allocate(k, r, l) ==
  /\ outcome[k] = "accepted"
  /\ r \in offer[k]
  /\ funds[l] >= Ask[r].amount
  /\ funds' = [funds EXCEPT ![l] = @ - Ask[r].amount]
  /\ budget' = [budget EXCEPT ![Ask[r].campaign] = @ + Ask[r].amount]
  /\ outcome' = [outcome EXCEPT ![k] = "allocated"]
  /\ UNCHANGED offer

Confirm(k) ==
  /\ outcome[k] = "allocated"
  /\ outcome' = [outcome EXCEPT ![k] = "confirmed"]
  /\ UNCHANGED <<offer, funds, budget>>

Refuse(k) ==
  /\ outcome[k] = "accepted"
  /\ outcome' = [outcome EXCEPT ![k] = "refused"]
  /\ UNCHANGED <<offer, funds, budget>>

Next ==
  \/ \E l \in Lot : Deposit(l)
  \/ \E k \in Key : Confirm(k) \/ Refuse(k)
  \/ \E k \in Key, r \in Request :
       \/ Accept(k, r)
       \/ \E l \in Lot : Allocate(k, r, l)

Spec == Init /\ [][Next]_vars
=============================================================================
