------------------------------- MODULE Deals -------------------------------
(***************************************************************************)
(* The deals of a workspace and the budget envelope they are offered       *)
(* against: DealsService.create, offer and terminate, and                  *)
(* WorkspacesService.setEnvelope, tryCommit and release.                   *)
(*                                                                         *)
(* A request is a series of statements that commit one by one, with a      *)
(* step-up challenge between the first read and what is done about it.     *)
(* Requests interleave, their process may be lost between two statements,  *)
(* and the answer of a statement that was applied may be lost.             *)
(***************************************************************************)
EXTENDS Integers, FiniteSetsExt, Functions

CONSTANTS
  Deal,
  Milestone,
  DealOf,       \* DealOf[m]: the deal whose live agreement has m
  Amount,       \* Amount[m]: the amount resolved when the deal was created
  Request,      \* requests in flight at a time
  CeilingSet,   \* ceilings finance asks for
  MaxCrashes, MaxDoubts \* bounds on lost processes and on lost answers

ASSUME DealsAssumption ==
  /\ IsFiniteSet(Deal) /\ IsFiniteSet(Milestone) /\ IsFiniteSet(Request)
  /\ Deal # {}
  /\ DealOf \in [Milestone -> Deal]
  /\ Amount \in [Milestone -> Nat \ {0}]
  /\ CeilingSet \subseteq Nat
  /\ {MaxCrashes, MaxDoubts} \subseteq Nat

VARIABLES
  state,        \* deal.state, "none" before the row is there
  released,     \* milestones with a releasedAt
  returned,     \* DealTerminated: what each termination was audited to return
  envelope,     \* the row of budget_envelope
  pc,           \* the statement each request is at
  at,           \* the deal of an offer or a termination
  figure,       \* the amount the request has in hand
  crashes, doubts

dealVars == <<state, released, returned>>
requestVars == <<pc, at, figure>>
vars == <<dealVars, envelope, requestVars, crashes, doubts>>

Committed == {"offered", "accepted", "active"}

SumOf(S) == SumFunctionOnSet(Amount, S)

Milestones(d) == {m \in Milestone : DealOf[m] = d}

\* The milestones sum to the deal: resolveMilestoneAmounts refuses others.
Total(d) == SumOf(Milestones(d))

\* Mistake: the releases of every deal are taken off.
RemainderOfAll(d) == Total(d) - SumOf(released)

\* What terminate returns.
Remainder(d) == Total(d) - SumOf(Milestones(d) \cap released)

\* The CHECKs of budget_envelope.
WithinChecks(e) == 0 <= e.committed /\ e.committed <= e.ceiling

\* Where a request that is about no deal has its `at`.
AnyDeal == CHOOSE d \in Deal : TRUE

NoEnvelope == [there |-> FALSE, ceiling |-> 0, committed |-> 0, expiry |-> "never"]

-----------------------------------------------------------------------------
Init ==
  /\ state = [d \in Deal |-> "none"]
  /\ released = {}
  /\ returned = [d \in Deal |-> 0]
  /\ envelope = NoEnvelope
  /\ pc = [r \in Request |-> "idle"]
  /\ at = [r \in Request |-> AnyDeal]
  /\ figure = [r \in Request |-> 0]
  /\ crashes = 0 /\ doubts = 0

Goto(r, l) == pc' = [pc EXCEPT ![r] = l]

\* The answer is given: what the request had in hand is forgotten.
Done(r) ==
  /\ Goto(r, "idle")
  /\ at' = [at EXCEPT ![r] = AnyDeal]
  /\ figure' = [figure EXCEPT ![r] = 0]

\* A request starts with a read and goes on to step l with the figure n.
Begin(r, d, n, l) ==
  /\ pc[r] = "idle"
  /\ Goto(r, l)
  /\ at' = [at EXCEPT ![r] = d]
  /\ figure' = [figure EXCEPT ![r] = n]
  /\ UNCHANGED <<dealVars, envelope, crashes, doubts>>

\* One transaction, after a look for a deal of the same campaign and creator,
\* which the unique index makes sure of.
Create(d) ==
  /\ state[d] = "none"
  /\ state' = [state EXCEPT ![d] = "draft"]
  /\ UNCHANGED <<released, returned, envelope, requestVars, crashes, doubts>>

\* The step-up, the acknowledged advance or the ceiling is refused before
\* anything was written.
Refuse(r) ==
  /\ pc[r] \in {"commit", "end", "approve"}
  /\ Done(r)
  /\ UNCHANGED <<dealVars, envelope, crashes, doubts>>

-----------------------------------------------------------------------------
(* offer                                                                   *)

ReadDraft(r, d) == state[d] = "draft" /\ Begin(r, d, Total(d), "commit")

Draw(n) == [envelope EXCEPT !.committed = @ + n]

\* tryCommit: no envelope or an expired one matches no row, the CHECK stops
\* what the ceiling cannot take.
CanCommit(n) ==
  /\ envelope.there /\ envelope.expiry # "past"
  /\ WithinChecks(Draw(n))

TryCommit(r) ==
  /\ pc[r] = "commit"
  /\ CanCommit(figure[r])
  /\ envelope' = Draw(figure[r])
  /\ Goto(r, "mark")
  /\ UNCHANGED <<dealVars, at, figure, crashes, doubts>>

CommitRefused(r) ==
  /\ pc[r] = "commit"
  /\ ~CanCommit(figure[r])
  /\ Done(r)
  /\ UNCHANGED <<dealVars, envelope, crashes, doubts>>

\* Mistake: the state is written without comparing it.
MarkAnyState(r) ==
  /\ pc[r] = "mark"
  /\ state' = [state EXCEPT ![at[r]] = "offered"]
  /\ Done(r)
  /\ UNCHANGED <<released, returned, envelope, crashes, doubts>>

\* The compare-and-set.
MarkOffered(r) ==
  /\ pc[r] = "mark"
  /\ state[at[r]] = "draft"
  /\ state' = [state EXCEPT ![at[r]] = "offered"]
  /\ Done(r)
  /\ UNCHANGED <<released, returned, envelope, crashes, doubts>>

\* It matched nothing: on to giving back what was committed.
MarkConflicts(r) ==
  /\ pc[r] = "mark"
  /\ state[at[r]] # "draft"
  /\ Goto(r, "undo")
  /\ UNCHANGED <<dealVars, envelope, at, figure, crashes, doubts>>

\* release, which does nothing when less is committed than it should return.
Release(r) ==
  /\ pc[r] \in {"undo", "return"}
  /\ envelope' = IF envelope.there /\ envelope.committed >= figure[r]
                 THEN Draw(-figure[r]) ELSE envelope
  /\ Done(r)
  /\ UNCHANGED <<dealVars, crashes, doubts>>

-----------------------------------------------------------------------------
(* terminate                                                               *)

ReadRunning(r, d) == state[d] \in Committed /\ Begin(r, d, Remainder(d), "end")

MarkTerminated(r) ==
  /\ pc[r] = "end"
  /\ state[at[r]] \in Committed
  /\ state' = [state EXCEPT ![at[r]] = "terminated"]
  /\ returned' = [returned EXCEPT ![at[r]] = figure[r]]
  /\ Goto(r, "return")
  /\ UNCHANGED <<released, envelope, at, figure, crashes, doubts>>

TerminateConflicts(r) ==
  /\ pc[r] = "end"
  /\ state[at[r]] \notin Committed
  /\ Done(r)
  /\ UNCHANGED <<dealVars, envelope, crashes, doubts>>

-----------------------------------------------------------------------------
(* setEnvelope                                                             *)

\* The ceiling asked for is compared with what was committed at this moment.
ReadEnvelope(r, c) ==
  /\ c >= envelope.committed
  /\ Begin(r, AnyDeal, c, "approve")

Approved(c, x) ==
  [there |-> TRUE, ceiling |-> c, committed |-> envelope.committed, expiry |-> x]

\* The upsert leaves committedMinor alone.
Approve(r, x) ==
  /\ pc[r] = "approve"
  /\ WithinChecks(Approved(figure[r], x))
  /\ envelope' = Approved(figure[r], x)
  /\ Done(r)
  /\ UNCHANGED <<dealVars, crashes, doubts>>

\* More has been committed since: the CHECK fires.
ApproveViolates(r) ==
  /\ pc[r] = "approve"
  /\ figure[r] < envelope.committed
  /\ Done(r)
  /\ UNCHANGED <<dealVars, envelope, crashes, doubts>>

Expire ==
  /\ envelope.expiry = "ahead"
  /\ envelope' = [envelope EXCEPT !.expiry = "past"]
  /\ UNCHANGED <<dealVars, requestVars, crashes, doubts>>

-----------------------------------------------------------------------------
(* The creator and the release of milestones, which the repository reads   *)
(* and does not write yet                                                  *)

Progress(d) ==
  /\ \/ state[d] = "offered" /\ state' = [state EXCEPT ![d] = "accepted"]
     \/ state[d] = "accepted" /\ state' = [state EXCEPT ![d] = "active"]
  /\ UNCHANGED <<released, returned, envelope, requestVars, crashes, doubts>>

ReleaseMilestone(m) ==
  /\ state[DealOf[m]] \in {"accepted", "active"}
  /\ m \notin released
  /\ released' = released \cup {m}
  /\ UNCHANGED <<state, returned, envelope, requestVars, crashes, doubts>>

-----------------------------------------------------------------------------
(* Failures                                                                *)

\* The process of the request is lost, or a statement of it fails for good.
Crash(r) ==
  /\ crashes < MaxCrashes
  /\ pc[r] # "idle"
  /\ Done(r)
  /\ crashes' = crashes + 1
  /\ UNCHANGED <<dealVars, envelope, doubts>>

\* The compare-and-set throws, and offer compensates.  It may have been applied
\* all the same, when only the answer was lost.
MarkFails(r) ==
  /\ doubts < MaxDoubts
  /\ pc[r] = "mark"
  /\ \/ UNCHANGED state
     \/ /\ state[at[r]] = "draft"
        /\ state' = [state EXCEPT ![at[r]] = "offered"]
  /\ Goto(r, "undo")
  /\ doubts' = doubts + 1
  /\ UNCHANGED <<released, returned, envelope, at, figure, crashes>>

Offering(r) ==
  \/ \E d \in Deal : ReadDraft(r, d)
  \/ TryCommit(r) \/ CommitRefused(r) \/ MarkOffered(r) \/ MarkConflicts(r)

Terminating(r) ==
  \/ \E d \in Deal : ReadRunning(r, d)
  \/ MarkTerminated(r) \/ TerminateConflicts(r)

Approving(r) ==
  \/ \E c \in CeilingSet : ReadEnvelope(r, c)
  \/ \E x \in {"never", "ahead", "past"} : Approve(r, x)
  \/ ApproveViolates(r)

Next ==
  \/ \E r \in Request :
       \/ Offering(r) \/ Terminating(r) \/ Approving(r)
       \/ Release(r) \/ Refuse(r) \/ Crash(r) \/ MarkFails(r)
  \/ \E d \in Deal : Create(d) \/ Progress(d)
  \/ \E m \in Milestone : ReleaseMilestone(m)
  \/ Expire

Spec == Init /\ [][Next]_vars

-----------------------------------------------------------------------------
Envelope == [there : BOOLEAN, ceiling : Nat, committed : Nat,
             expiry : {"never", "ahead", "past"}]

DealsTypeOK ==
  /\ state \in [Deal -> {"none", "draft", "terminated"} \cup Committed]
  /\ released \subseteq Milestone
  /\ returned \in [Deal -> Nat]
  /\ envelope \in Envelope
  /\ pc \in [Request -> {"idle", "commit", "mark", "undo", "end", "return", "approve"}]
  /\ at \in [Request -> Deal]
  /\ figure \in [Request -> Nat]
  /\ crashes \in 0..MaxCrashes /\ doubts \in 0..MaxDoubts

\* What the envelope must hold for a deal, and for a request on its way.
NeededFor(d) ==
  IF state[d] \in Committed THEN Total(d)
  ELSE IF state[d] = "terminated" THEN Total(d) - returned[d] ELSE 0

InHand(r) == IF pc[r] \in {"mark", "undo", "return"} THEN figure[r] ELSE 0

NeedsOfDeals == SumFunctionOnSet([d \in Deal |-> NeededFor(d)], Deal)
InHands == SumFunctionOnSet([r \in Request |-> InHand(r)], Request)

Needed == NeedsOfDeals + InHands

\* The most that one request can have in hand.
Largest == Max({Total(d) : d \in Deal})

\* The envelope accounts for the deals: it holds the total of every running
\* deal, what each termination kept, and what requests have in hand, exactly,
\* whatever the order of their statements, and no more than its ceiling: "over-
\* commit is impossible because the storage engine says so".  After a lost
\* process it may hold more; each lost answer of the compare-and-set leaves it
\* short of one deal at most.
EnvelopeCovers ==
  /\ WithinChecks(envelope)
  /\ envelope.committed + doubts * Largest >= Needed
  /\ crashes = 0 /\ doubts = 0 => envelope.committed = Needed
=============================================================================
