----------------------------- MODULE DealsProofs -----------------------------
(***************************************************************************)
(* What holds of the deals of a workspace and their envelope for every set *)
(* of deals, milestones, requests and ceilings, and of their terms for     *)
(* every schedule: that the envelope covers what the deals need, that a    *)
(* total is split without loss and as near to what was written as it can   *)
(* be, and that the brand consented to what leaves before any work.        *)
(***************************************************************************)
EXTENDS Deals, Terms, Sums

-----------------------------------------------------------------------------
(* Deals                                                                   *)

\* What a request has in hand is what it read of its deal, which never changes, and
\* nothing is committed without a row.
Figures ==
  /\ \A r \in Request :
       /\ pc[r] \in {"commit", "mark", "undo"} => figure[r] = Total(at[r])
       /\ pc[r] = "end" => figure[r] <= Total(at[r])
  /\ \A d \in Deal : returned[d] <= Total(d)
  /\ ~envelope.there => envelope.committed = 0

\* Totals and remainders are amounts.
LEMMA TotalType ==
  ASSUME NEW d \in Deal
  PROVE  /\ Total(d) \in Nat
         /\ released \subseteq Milestone => Remainder(d) \in Nat /\ Remainder(d) <= Total(d)
<1>1. IsFiniteSet(Milestones(d)) /\ \A m \in Milestones(d) : Amount[m] \in Nat
  BY DealsAssumption, FS_Subset DEF DealsAssumption, Milestones
<1>2. Total(d) \in Nat
  BY <1>1, SumType DEF Total, SumOf
<1>3. Milestones(d) \cap released \in SUBSET Milestones(d)
  OBVIOUS
<1>4. IsFiniteSet(Milestones(d) \cap released)
  BY <1>1, <1>3, FS_Subset
<1>5. SumOf(Milestones(d) \cap released) \in Nat
  BY <1>1, <1>4, SumType DEF SumOf
<1>6. SumOf(Milestones(d) \cap released) <= Total(d)
  BY <1>1, <1>3, SumSubset DEF SumOf, Total
<1> QED
  BY <1>2, <1>5, <1>6 DEF Remainder

LEMMA AnyDealType == AnyDeal \in Deal
  BY DealsAssumption DEF DealsAssumption, AnyDeal

\* The steps, one by one.
LEMMA NextCases ==
  ASSUME Next
  PROVE \/ \E r \in Request, d \in Deal : ReadDraft(r, d) \/ ReadRunning(r, d)
        \/ \E r \in Request, c \in CeilingSet : ReadEnvelope(r, c)
        \/ \E r \in Request, x \in {"never", "ahead", "past"} : Approve(r, x)
        \/ \E r \in Request : TryCommit(r) \/ MarkOffered(r) \/ MarkConflicts(r) \/ MarkFails(r)
        \/ \E r \in Request : MarkTerminated(r) \/ Release(r)
        \/ \E r \in Request :
             \/ CommitRefused(r) \/ TerminateConflicts(r) \/ ApproveViolates(r)
             \/ Refuse(r) \/ Crash(r)
        \/ \E d \in Deal : Create(d) \/ Progress(d)
        \/ \E m \in Milestone : ReleaseMilestone(m)
        \/ Expire
  BY DEF Next, Offering, Terminating, Approving

Typed == DealsTypeOK /\ Figures

\* A request that begins has an amount in hand that fits where it goes.
LEMMA BeginTyped ==
  ASSUME Typed, NEW r \in Request, NEW d \in Deal, NEW n \in Nat, NEW l,
         Begin(r, d, n, l),
         \/ l = "commit" /\ n = Total(d)
         \/ l = "end" /\ n <= Total(d)
         \/ l = "approve"
  PROVE  Typed'
<1>1. DealsTypeOK'
  BY DEF Typed, DealsTypeOK, Begin, Goto, dealVars
<1>2. ASSUME NEW q \in Request
      PROVE  /\ pc'[q] \in {"commit", "mark", "undo"} => figure'[q] = Total(at'[q])
             /\ pc'[q] = "end" => figure'[q] <= Total(at'[q])
  <2>1. CASE q = r
    <3>1. pc'[q] = l /\ at'[q] = d /\ figure'[q] = n
      BY <2>1 DEF Typed, DealsTypeOK, Begin, Goto
    <3> QED
      BY <3>1
  <2>2. CASE q # r
    <3>1. pc'[q] = pc[q] /\ at'[q] = at[q] /\ figure'[q] = figure[q]
      BY <2>2 DEF Typed, DealsTypeOK, Begin, Goto
    <3> QED
      BY <3>1 DEF Typed, Figures
  <2> QED
    BY <2>1, <2>2
<1>3. /\ \A e \in Deal : returned'[e] <= Total(e)
      /\ ~envelope'.there => envelope'.committed = 0
  BY DEF Typed, Figures, Begin, dealVars
<1> QED
  BY <1>1, <1>2, <1>3 DEF Typed, Figures

\* A request that ends leaves nothing behind.
LEMMA DoneTyped ==
  ASSUME Typed, NEW r \in Request, Done(r), UNCHANGED <<released, returned>>,
         state' \in [Deal -> {"none", "draft", "terminated"} \cup Committed],
         envelope' \in Envelope, ~envelope'.there => envelope'.committed = 0,
         crashes' \in 0..MaxCrashes, doubts' \in 0..MaxDoubts
  PROVE  Typed'
<1>1. DealsTypeOK'
  BY AnyDealType DEF Typed, DealsTypeOK, Done, Goto
<1>2. ASSUME NEW q \in Request
      PROVE  /\ pc'[q] \in {"commit", "mark", "undo"} => figure'[q] = Total(at'[q])
             /\ pc'[q] = "end" => figure'[q] <= Total(at'[q])
  <2>1. CASE q = r
    <3>1. pc'[q] = "idle"
      BY <2>1 DEF Typed, DealsTypeOK, Done, Goto
    <3> QED
      BY <3>1
  <2>2. CASE q # r
    <3>1. pc'[q] = pc[q] /\ at'[q] = at[q] /\ figure'[q] = figure[q]
      BY <2>2 DEF Typed, DealsTypeOK, Done, Goto
    <3> QED
      BY <3>1 DEF Typed, Figures
  <2> QED
    BY <2>1, <2>2
<1> QED
  BY <1>1, <1>2 DEF Typed, Figures

\* A request that goes on keeps its amount and its deal.
LEMMA OnwardTyped ==
  ASSUME Typed, NEW r \in Request, NEW l, Goto(r, l), UNCHANGED <<at, figure, released>>,
         \/ l \in {"mark", "undo"} /\ pc[r] \in {"commit", "mark"}
         \/ l = "return" /\ pc[r] = "end",
         state' \in [Deal -> {"none", "draft", "terminated"} \cup Committed],
         returned' \in [Deal -> Nat], \A d \in Deal : returned'[d] <= Total(d),
         envelope' \in Envelope, ~envelope'.there => envelope'.committed = 0,
         crashes' \in 0..MaxCrashes, doubts' \in 0..MaxDoubts
  PROVE  Typed'
<1>1. DealsTypeOK'
  BY DEF Typed, DealsTypeOK, Goto
<1>2. ASSUME NEW q \in Request
      PROVE  /\ pc'[q] \in {"commit", "mark", "undo"} => figure'[q] = Total(at'[q])
             /\ pc'[q] = "end" => figure'[q] <= Total(at'[q])
  <2>1. CASE q = r
    <3>1. pc'[q] = l
      BY <2>1 DEF Typed, DealsTypeOK, Goto
    <3> QED
      BY <3>1, <2>1 DEF Typed, Figures
  <2>2. CASE q # r
    <3>1. pc'[q] = pc[q]
      BY <2>2 DEF Typed, DealsTypeOK, Goto
    <3> QED
      BY <3>1 DEF Typed, Figures
  <2> QED
    BY <2>1, <2>2
<1> QED
  BY <1>1, <1>2 DEF Typed, Figures

\* The envelope keeps its type and its CHECKs in what draws on it.
LEMMA EnvelopeType ==
  ASSUME envelope \in Envelope, NEW n \in Nat
  PROVE  /\ CanCommit(n) => Draw(n) \in Envelope /\ WithinChecks(Draw(n))
         /\ envelope.committed >= n => Draw(-n) \in Envelope
         /\ Draw(n).committed = envelope.committed + n
         /\ Draw(-n).committed = envelope.committed - n
  BY DEF Envelope, Draw, CanCommit, WithinChecks

\* The variables have their types, and what a request has in hand fits the deal it
\* is about: what a termination returns is an amount, and no more than the deal.
THEOREM DealsTyped == Spec => [](DealsTypeOK /\ Figures)
<1>1. Init => Typed
  <2> SUFFICES ASSUME Init PROVE Typed
    OBVIOUS
  <2>1. DealsTypeOK
    BY AnyDealType, DealsAssumption
    DEF DealsAssumption, Init, DealsTypeOK, NoEnvelope, Envelope
  <2>2. Figures
    BY TotalType DEF Init, Figures, NoEnvelope
  <2> QED
    BY <2>1, <2>2 DEF Typed
<1>2. Typed /\ [Next]_vars => Typed'
  <2> SUFFICES ASSUME Typed, [Next]_vars PROVE Typed'
    OBVIOUS
  <2> USE DEF Typed
  <2>1. ASSUME NEW r \in Request, NEW d \in Deal, ReadDraft(r, d) PROVE Typed'
    BY <2>1, TotalType, BeginTyped DEF ReadDraft
  <2>2. ASSUME NEW r \in Request, NEW d \in Deal, ReadRunning(r, d) PROVE Typed'
    <3>1. Remainder(d) \in Nat /\ Remainder(d) <= Total(d)
      BY TotalType DEF DealsTypeOK
    <3> QED
      BY <2>2, <3>1, BeginTyped DEF ReadRunning
  <2>3. ASSUME NEW r \in Request, NEW c \in CeilingSet, ReadEnvelope(r, c) PROVE Typed'
    BY <2>3, AnyDealType, BeginTyped, DealsAssumption DEF ReadEnvelope, DealsAssumption
  <2>4. ASSUME NEW r \in Request, NEW x \in {"never", "ahead", "past"}, Approve(r, x)
        PROVE  Typed'
    <3>1. Approved(figure[r], x) \in Envelope /\ Approved(figure[r], x).there
      BY DEF DealsTypeOK, Envelope, Approved
    <3> QED
      BY <2>4, <3>1, DoneTyped DEF Approve, dealVars, DealsTypeOK
  <2>5. ASSUME NEW r \in Request, TryCommit(r) PROVE Typed'
    <3>1. envelope' \in Envelope /\ envelope'.there
      BY <2>5, EnvelopeType DEF TryCommit, DealsTypeOK, CanCommit, Draw, Envelope
    <3> QED
      BY <2>5, <3>1, OnwardTyped DEF TryCommit, dealVars, DealsTypeOK, Figures
  <2>6. ASSUME NEW r \in Request, MarkOffered(r) PROVE Typed'
    <3>1. state' \in [Deal -> {"none", "draft", "terminated"} \cup Committed]
      BY <2>6 DEF MarkOffered, DealsTypeOK, Committed
    <3> QED
      BY <2>6, <3>1, DoneTyped DEF MarkOffered, DealsTypeOK, Figures
  <2>7. ASSUME NEW r \in Request, MarkConflicts(r) PROVE Typed'
    BY <2>7, OnwardTyped DEF MarkConflicts, dealVars, DealsTypeOK, Figures
  <2>8. ASSUME NEW r \in Request, MarkFails(r) PROVE Typed'
    <3>1. state' \in [Deal -> {"none", "draft", "terminated"} \cup Committed]
      BY <2>8 DEF MarkFails, DealsTypeOK, Committed
    <3>2. doubts' \in 0..MaxDoubts
      BY <2>8, DealsAssumption DEF MarkFails, DealsTypeOK, DealsAssumption
    <3> QED
      BY <2>8, <3>1, <3>2, OnwardTyped DEF MarkFails, DealsTypeOK, Figures
  <2>9. ASSUME NEW r \in Request, MarkTerminated(r) PROVE Typed'
    <3>1. state' \in [Deal -> {"none", "draft", "terminated"} \cup Committed]
      BY <2>9 DEF MarkTerminated, DealsTypeOK
    <3>2. returned' \in [Deal -> Nat]
      BY <2>9 DEF MarkTerminated, DealsTypeOK
    <3>3. \A d \in Deal : returned'[d] <= Total(d)
      BY <2>9 DEF MarkTerminated, DealsTypeOK, Figures
    <3> QED
      BY <2>9, <3>1, <3>2, <3>3, OnwardTyped DEF MarkTerminated, DealsTypeOK, Figures
  <2>10. ASSUME NEW r \in Request, Release(r) PROVE Typed'
    <3>1. envelope' \in Envelope
      BY <2>10, EnvelopeType DEF Release, DealsTypeOK
    <3>2. ~envelope'.there => envelope'.committed = 0
      BY <2>10 DEF Release, Draw, DealsTypeOK, Envelope, Figures
    <3> QED
      BY <2>10, <3>1, <3>2, DoneTyped DEF Release, dealVars, DealsTypeOK
  <2>11. ASSUME NEW r \in Request,
                CommitRefused(r) \/ TerminateConflicts(r) \/ ApproveViolates(r) \/ Refuse(r)
         PROVE  Typed'
    BY <2>11, DoneTyped
    DEF CommitRefused, TerminateConflicts, ApproveViolates, Refuse, dealVars, DealsTypeOK,
        Figures
  <2>12. ASSUME NEW r \in Request, Crash(r) PROVE Typed'
    <3>1. crashes' \in 0..MaxCrashes
      BY <2>12, DealsAssumption DEF Crash, DealsTypeOK, DealsAssumption
    <3> QED
      BY <2>12, <3>1, DoneTyped DEF Crash, dealVars, DealsTypeOK, Figures
  <2>13. ASSUME NEW d \in Deal, Create(d) \/ Progress(d) PROVE Typed'
    BY <2>13 DEF Create, Progress, requestVars, DealsTypeOK, Figures, Committed
  <2>14. ASSUME NEW m \in Milestone, ReleaseMilestone(m) PROVE Typed'
    BY <2>14 DEF ReleaseMilestone, requestVars, DealsTypeOK, Figures
  <2>15. CASE Expire
    BY <2>15 DEF Expire, dealVars, requestVars, DealsTypeOK, Figures, Envelope
  <2>16. CASE UNCHANGED vars
    BY <2>16 DEF vars, dealVars, requestVars, DealsTypeOK, Figures
  <2> QED
    BY <2>1, <2>2, <2>3, <2>4, <2>5, <2>6, <2>7, <2>8, <2>9, <2>10, <2>11, <2>12, <2>13,
       <2>14, <2>15, <2>16, NextCases
<1> QED
  BY <1>1, <1>2, PTL DEF Spec, Typed

-----------------------------------------------------------------------------
(* What the deals need                                                     *)

\* A need is an amount, no request has more in hand than all of them together.
LEMMA NeedType ==
  ASSUME Typed
  PROVE  /\ \A d \in Deal : NeededFor(d) \in Nat
         /\ \A r \in Request : InHand(r) \in Nat /\ InHand(r) <= InHands
         /\ NeedsOfDeals \in Nat /\ InHands \in Nat
<1> DEFINE need == [d \in Deal |-> NeededFor(d)]
           hand == [r \in Request |-> InHand(r)]
<1>1. ASSUME NEW d \in Deal PROVE NeededFor(d) \in Nat
  <2>1. Total(d) \in Nat /\ returned[d] \in Nat /\ returned[d] <= Total(d)
    BY TotalType DEF Typed, DealsTypeOK, Figures
  <2> QED
    BY <2>1 DEF NeededFor
<1>2. ASSUME NEW r \in Request PROVE InHand(r) \in Nat
  BY DEF Typed, DealsTypeOK, InHand
<1>3. IsFiniteSet(Deal) /\ IsFiniteSet(Request)
  BY DealsAssumption DEF DealsAssumption
<1>4. /\ \A d \in Deal : need[d] = NeededFor(d) /\ need[d] \in Int /\ need[d] >= 0
      /\ \A r \in Request : hand[r] = InHand(r) /\ hand[r] \in Int /\ hand[r] >= 0
  BY <1>1, <1>2
<1> HIDE DEF need, hand
<1>5. SumFunctionOnSet(need, Deal) \in Nat /\ SumFunctionOnSet(hand, Request) \in Nat
  BY <1>3, <1>4, SumType
<1>6. ASSUME NEW r \in Request PROVE hand[r] <= SumFunctionOnSet(hand, Request)
  <2>1. SumFunctionOnSet(hand, Request) = hand[r] + SumFunctionOnSet(hand, Request \ {r})
    BY <1>3, <1>4, SumWithout
  <2>2. IsFiniteSet(Request \ {r})
    BY <1>3, FS_Subset
  <2>3. SumFunctionOnSet(hand, Request \ {r}) \in Int
        /\ SumFunctionOnSet(hand, Request \ {r}) >= 0
    BY <2>2, <1>4, SumType
  <2> QED
    BY <1>4, <2>1, <2>3
<1> QED
  BY <1>1, <1>2, <1>4, <1>5, <1>6 DEF NeedsOfDeals, InHands, need, hand

\* A step that concerns one deal moves the needs of the deals by that of this one.
LEMMA NeedsShift ==
  ASSUME Typed, Typed', NEW d \in Deal,
         \A e \in Deal : e # d => state'[e] = state[e] /\ returned'[e] = returned[e]
  PROVE  NeedsOfDeals' = NeedsOfDeals + NeededFor(d)' - NeededFor(d)
<1> DEFINE need == [e \in Deal |-> NeededFor(e)]
           next == [e \in Deal |-> NeededFor(e)']
<1>1. \A e \in Deal : NeededFor(e) \in Nat /\ NeededFor(e)' \in Nat
  <2>1. ASSUME NEW e \in Deal PROVE NeededFor(e)' \in Nat
    <3>1. Total(e) \in Nat /\ returned'[e] \in Nat /\ returned'[e] <= Total(e)
      BY TotalType DEF Typed, DealsTypeOK, Figures
    <3> QED
      BY <3>1 DEF NeededFor
  <2> QED
    BY <2>1, NeedType
<1>2. \A e \in Deal : e # d => NeededFor(e)' = NeededFor(e)
  BY DEF NeededFor
<1>3. /\ need[d] = NeededFor(d) /\ next[d] = NeededFor(d)'
      /\ \A e \in Deal : need[e] \in Int /\ next[e] \in Int /\ (e # d => next[e] = need[e])
  BY <1>1, <1>2
<1>4. NeedsOfDeals = SumFunctionOnSet(need, Deal) /\ NeedsOfDeals' = SumFunctionOnSet(next, Deal)
  BY DEF NeedsOfDeals
<1> HIDE DEF need, next
<1>5. SumFunctionOnSet(next, Deal) = SumFunctionOnSet(need, Deal) + next[d] - need[d]
  <2>1. IsFiniteSet(Deal)
    BY DealsAssumption DEF DealsAssumption
  <2>2. /\ \A e \in Deal : need[e] \in Int
        /\ \A e \in Deal : next[e] \in Int
        /\ \A e \in Deal \ {d} : next[e] = need[e]
    BY <1>3
  <2> QED
    BY <2>1, <2>2, SumChange
<1> QED
  BY <1>3, <1>4, <1>5

\* A step of one request moves what requests have in hand by what this one has.
LEMMA HandsShift ==
  ASSUME Typed, Typed', NEW r \in Request,
         \A q \in Request : q # r => pc'[q] = pc[q] /\ figure'[q] = figure[q]
  PROVE  InHands' = InHands + InHand(r)' - InHand(r)
<1> DEFINE hand == [q \in Request |-> InHand(q)]
           next == [q \in Request |-> InHand(q)']
<1>1. \A q \in Request : InHand(q) \in Nat /\ InHand(q)' \in Nat
  BY DEF Typed, DealsTypeOK, InHand
<1>2. \A q \in Request : q # r => InHand(q)' = InHand(q)
  BY DEF InHand
<1>3. /\ hand[r] = InHand(r) /\ next[r] = InHand(r)'
      /\ \A q \in Request : hand[q] \in Int /\ next[q] \in Int /\ (q # r => next[q] = hand[q])
  BY <1>1, <1>2
<1>4. InHands = SumFunctionOnSet(hand, Request) /\ InHands' = SumFunctionOnSet(next, Request)
  BY DEF InHands
<1> HIDE DEF hand, next
<1>5. SumFunctionOnSet(next, Request) = SumFunctionOnSet(hand, Request) + next[r] - hand[r]
  <2>1. IsFiniteSet(Request)
    BY DealsAssumption DEF DealsAssumption
  <2>2. /\ \A q \in Request : hand[q] \in Int
        /\ \A q \in Request : next[q] \in Int
        /\ \A q \in Request \ {r} : next[q] = hand[q]
    BY <1>3
  <2> QED
    BY <2>1, <2>2, SumChange
<1> QED
  BY <1>3, <1>4, <1>5

\* No deal is larger than the largest.
LEMMA LargestType == Largest \in Nat /\ \A d \in Deal : Total(d) <= Largest
<1> DEFINE totals == {Total(d) : d \in Deal}
           f == [d \in Deal |-> Total(d)]
<1>1. totals \in SUBSET Nat /\ totals # {}
  BY TotalType, DealsAssumption DEF DealsAssumption
<1>2. IsFiniteSet(totals)
  <2>1. f \in Surjection(Deal, totals)
    BY DEF Surjection
  <2> HIDE DEF f, totals
  <2> QED
    BY <2>1, DealsAssumption, FS_Surjection DEF DealsAssumption
<1>3. Max(totals) \in totals /\ \A x \in totals : x <= Max(totals)
  <2> HIDE DEF totals
  <2> QED
    BY <1>1, <1>2, MaxType
<1> QED
  BY <1>1, <1>3 DEF Largest

\* What a deal needs, state by state.
LEMMA NeedOf ==
  ASSUME NEW d \in Deal
  PROVE  /\ state[d] \in Committed => NeededFor(d) = Total(d)
         /\ state[d] = "terminated" => NeededFor(d) = Total(d) - returned[d]
         /\ state[d] \in {"none", "draft"} => NeededFor(d) = 0
  BY DEF NeededFor, Committed

\* A step that neither draws on the envelope nor changes a need.
LEMMA CoversSame ==
  ASSUME EnvelopeCovers, NeedsOfDeals' = NeedsOfDeals, InHands' = InHands,
         envelope'.committed = envelope.committed, WithinChecks(envelope'),
         UNCHANGED <<crashes, doubts>>
  PROVE  EnvelopeCovers'
  BY DEF EnvelopeCovers, Needed, WithinChecks

\* A request that has nothing in hand, before and after.
LEMMA EmptyHanded ==
  ASSUME Typed, Typed', NEW r \in Request,
         \A q \in Request : q # r => pc'[q] = pc[q] /\ figure'[q] = figure[q],
         pc[r] \notin {"mark", "undo", "return"}, pc'[r] \notin {"mark", "undo", "return"}
  PROVE  InHands' = InHands
<1>1. InHand(r) = 0 /\ InHand(r)' = 0
  BY DEF InHand
<1>2. InHands \in Nat
  BY NeedType
<1> QED
  BY <1>1, <1>2, HandsShift

\* Only r's statement and amount change.
LEMMA OthersStay ==
  ASSUME Typed, NEW r \in Request,
         \/ \E d \in Deal, n \in Nat, l \in STRING : Begin(r, d, n, l)
         \/ Done(r)
  PROVE  \A q \in Request : q # r => pc'[q] = pc[q] /\ figure'[q] = figure[q]
  BY DEF Typed, DealsTypeOK, Begin, Done, Goto

\* What is owed may grow by as much as the slack.
LEMMA Slack ==
  ASSUME NEW c \in Nat, NEW k \in Nat, NEW n \in Nat, NEW h \in Nat, NEW m \in Int, NEW l \in Nat,
         c + k >= n + h, m <= n + l
  PROVE  c + (k + l) >= m + h
  OBVIOUS

\* The envelope of a workspace holds the total of every running deal, what each
\* termination kept and what requests have in hand, exactly, and no more than its
\* ceiling; more after a lost process, and less by at most one deal for each lost
\* answer.  For any deals, milestones and requests, in any order of statements.
THEOREM EnvelopeCoversHolds == Spec => []EnvelopeCovers
<1>1. Init => EnvelopeCovers
  <2> SUFFICES ASSUME Init PROVE EnvelopeCovers
    OBVIOUS
  <2>1. [d \in Deal |-> NeededFor(d)] = [d \in Deal |-> 0]
    BY DEF Init, NeededFor, Committed
  <2>2. [r \in Request |-> InHand(r)] = [r \in Request |-> 0]
    BY DEF Init, InHand
  <2>3. ASSUME NEW S, IsFiniteSet(S) PROVE SumFunctionOnSet([x \in S |-> 0], S) = 0
    BY <2>3, SumOfZeros
  <2>4. Needed = 0
    BY <2>1, <2>2, <2>3, DealsAssumption DEF Needed, NeedsOfDeals, InHands, DealsAssumption
  <2> QED
    BY <2>4, LargestType DEF Init, EnvelopeCovers, WithinChecks, NoEnvelope
<1>2. Typed /\ Typed' /\ EnvelopeCovers /\ [Next]_vars => EnvelopeCovers'
  <2> SUFFICES ASSUME Typed, Typed', EnvelopeCovers, [Next]_vars PROVE EnvelopeCovers'
    OBVIOUS
  <2> DEFINE c == envelope.committed
  <2>0. /\ c \in Nat /\ c' \in Nat /\ envelope.ceiling \in Nat
        /\ NeedsOfDeals \in Nat /\ InHands \in Nat
        /\ doubts \in Nat /\ crashes \in Nat /\ Largest \in Nat /\ doubts * Largest \in Nat
    <3>1. doubts \in Nat /\ crashes \in Nat
      BY DealsAssumption DEF Typed, DealsTypeOK, DealsAssumption
    <3>2. doubts * Largest \in Nat
      BY <3>1, LargestType
    <3> QED
      BY <3>1, <3>2, LargestType, NeedType DEF Typed, DealsTypeOK, Envelope
  <2>1. ASSUME NEW r \in Request, NEW d \in Deal, ReadDraft(r, d) \/ ReadRunning(r, d)
        PROVE  EnvelopeCovers'
    <3>1. PICK n \in Nat, l \in {"commit", "end"} : Begin(r, d, n, l)
      BY <2>1, TotalType DEF ReadDraft, ReadRunning, Typed, DealsTypeOK
    <3>2. InHands' = InHands
      BY <3>1, OthersStay, EmptyHanded DEF Begin, Goto, Typed, DealsTypeOK
    <3>3. NeedsOfDeals' = NeedsOfDeals
      BY <3>1 DEF Begin, dealVars, NeedsOfDeals, NeededFor
    <3> QED
      BY <3>1, <3>2, <3>3, CoversSame DEF Begin, EnvelopeCovers
  <2>2. ASSUME NEW r \in Request, NEW x \in CeilingSet, ReadEnvelope(r, x)
        PROVE  EnvelopeCovers'
    <3>1. x \in Nat /\ Begin(r, AnyDeal, x, "approve")
      BY <2>2, DealsAssumption DEF DealsAssumption, ReadEnvelope
    <3>2. InHands' = InHands
      BY <3>1, AnyDealType, OthersStay, EmptyHanded DEF Begin, Goto, Typed, DealsTypeOK
    <3>3. NeedsOfDeals' = NeedsOfDeals
      BY <3>1 DEF Begin, dealVars, NeedsOfDeals, NeededFor
    <3> QED
      BY <3>1, <3>2, <3>3, CoversSame DEF Begin, EnvelopeCovers
  <2>3. ASSUME NEW r \in Request, NEW x \in {"never", "ahead", "past"}, Approve(r, x)
        PROVE  EnvelopeCovers'
    <3>1. InHands' = InHands
      BY <2>3, OthersStay, EmptyHanded DEF Approve, Done, Goto, Typed, DealsTypeOK
    <3>2. NeedsOfDeals' = NeedsOfDeals
      BY <2>3 DEF Approve, dealVars, NeedsOfDeals, NeededFor
    <3> QED
      BY <2>3, <3>1, <3>2, CoversSame DEF Approve, Approved
  <2>4. ASSUME NEW r \in Request, TryCommit(r) PROVE EnvelopeCovers'
    <3>0. \A q \in Request : q # r => pc'[q] = pc[q] /\ figure'[q] = figure[q]
      BY <2>4 DEF TryCommit, Goto, Typed, DealsTypeOK
    <3>1. InHand(r) = 0 /\ InHand(r)' = figure[r] /\ figure[r] \in Nat
      BY <2>4 DEF TryCommit, Goto, InHand, Typed, DealsTypeOK
    <3>2. InHands' = InHands + figure[r]
      BY <2>0, <2>4, <3>1, <3>0, HandsShift
    <3>3. NeedsOfDeals' = NeedsOfDeals
      BY <2>4 DEF TryCommit, dealVars, NeedsOfDeals, NeededFor
    <3>4. c' = c + figure[r] /\ WithinChecks(envelope')
      BY <2>4, <3>1, EnvelopeType DEF TryCommit, Typed, DealsTypeOK
    <3>5. UNCHANGED <<crashes, doubts>>
      BY <2>4 DEF TryCommit
    <3> QED
      BY <2>0, <3>1, <3>2, <3>3, <3>4, <3>5 DEF EnvelopeCovers, Needed
  <2>5. ASSUME NEW r \in Request, MarkOffered(r) PROVE EnvelopeCovers'
    <3>1. /\ at[r] \in Deal /\ figure[r] = Total(at[r]) /\ figure[r] \in Nat
          /\ state[at[r]] = "draft" /\ state'[at[r]] = "offered"
      BY <2>5 DEF MarkOffered, Typed, DealsTypeOK, Figures
    <3>2. InHand(r) = figure[r] /\ InHand(r)' = 0
      BY <2>5 DEF MarkOffered, Done, Goto, InHand, Typed, DealsTypeOK
    <3>3. InHands' = InHands - figure[r]
      BY <2>0, <2>5, <3>1, <3>2, OthersStay, HandsShift DEF MarkOffered
    <3>4. NeededFor(at[r]) = 0 /\ \A d \in Deal : d = at[r] => NeededFor(d)' = figure[r]
      BY <3>1 DEF NeededFor, Committed
    <3>5. NeedsOfDeals' = NeedsOfDeals + figure[r]
      <4>1. PICK d \in Deal : d = at[r]
        BY <3>1
      <4>2. \A e \in Deal : e # d => state'[e] = state[e] /\ returned'[e] = returned[e]
        BY <2>5, <4>1 DEF MarkOffered, Typed, DealsTypeOK
      <4>3. NeedsOfDeals' = NeedsOfDeals + NeededFor(d)' - NeededFor(d)
        BY <4>2, NeedsShift
      <4> QED
        BY <2>0, <3>1, <3>4, <4>1, <4>3
    <3> QED
      BY <2>0, <2>5, <3>1, <3>3, <3>5
      DEF MarkOffered, EnvelopeCovers, Needed, WithinChecks
  <2>6. ASSUME NEW r \in Request, MarkConflicts(r) PROVE EnvelopeCovers'
    <3>0. \A q \in Request : q # r => pc'[q] = pc[q] /\ figure'[q] = figure[q]
      BY <2>6 DEF MarkConflicts, Goto, Typed, DealsTypeOK
    <3>1. InHand(r)' = InHand(r) /\ InHand(r) \in Nat
      BY <2>6 DEF MarkConflicts, Goto, InHand, Typed, DealsTypeOK
    <3>2. InHands' = InHands
      BY <2>0, <2>6, <3>1, <3>0, HandsShift
    <3>3. NeedsOfDeals' = NeedsOfDeals
      BY <2>6 DEF MarkConflicts, dealVars, NeedsOfDeals, NeededFor
    <3> QED
      BY <2>6, <3>2, <3>3, CoversSame DEF MarkConflicts, EnvelopeCovers
  <2>7. ASSUME NEW r \in Request, MarkFails(r) PROVE EnvelopeCovers'
    <3>0. \A q \in Request : q # r => pc'[q] = pc[q] /\ figure'[q] = figure[q]
      BY <2>7 DEF MarkFails, Goto, Typed, DealsTypeOK
    <3>1. InHand(r)' = InHand(r) /\ InHand(r) \in Nat
      BY <2>7 DEF MarkFails, Goto, InHand, Typed, DealsTypeOK
    <3>2. InHands' = InHands
      BY <2>0, <2>7, <3>1, <3>0, HandsShift
    <3>3. NeedsOfDeals' \in Int /\ NeedsOfDeals' <= NeedsOfDeals + Largest
      <4>1. CASE UNCHANGED state
        <5>1. NeedsOfDeals' = NeedsOfDeals
          BY <2>7, <4>1 DEF MarkFails, NeedsOfDeals, NeededFor
        <5> QED
          BY <5>1, <2>0
      <4>2. CASE state[at[r]] = "draft" /\ state' = [state EXCEPT ![at[r]] = "offered"]
        <5>1. PICK d \in Deal : d = at[r]
          BY DEF Typed, DealsTypeOK
        <5>2. /\ state[d] = "draft" /\ state'[d] = "offered"
              /\ \A e \in Deal : e # d => state'[e] = state[e] /\ returned'[e] = returned[e]
          BY <2>7, <4>2, <5>1 DEF MarkFails, Typed, DealsTypeOK
        <5>3. NeededFor(d) = 0 /\ NeededFor(d)' = Total(d)
          BY <5>2 DEF NeededFor, Committed
        <5>4. NeedsOfDeals' = NeedsOfDeals + NeededFor(d)' - NeededFor(d)
          BY <5>2, NeedsShift
        <5>5. Total(d) \in Nat /\ Total(d) <= Largest
          BY TotalType, LargestType
        <5> QED
          BY <2>0, <5>3, <5>4, <5>5
      <4> QED
        BY <2>7, <4>1, <4>2 DEF MarkFails
    <3>4. doubts' = doubts + 1 /\ doubts' * Largest = doubts * Largest + Largest
      <4>1. doubts' = doubts + 1
        BY <2>7 DEF MarkFails
      <4>2. (doubts + 1) * Largest = doubts * Largest + Largest
        BY <2>0
      <4> QED
        BY <4>1, <4>2
    <3>5. c + doubts * Largest >= NeedsOfDeals + InHands
      BY DEF EnvelopeCovers, Needed
    <3>6. c' = c /\ WithinChecks(envelope') /\ doubts' # 0
      BY <2>0, <2>7, <3>4 DEF MarkFails, EnvelopeCovers
    <3>7. c' + doubts' * Largest >= NeedsOfDeals' + InHands'
      <4> DEFINE k == doubts * Largest
      <4>1. /\ c \in Nat /\ NeedsOfDeals \in Nat /\ InHands \in Nat /\ Largest \in Nat
            /\ k \in Nat /\ c + k >= NeedsOfDeals + InHands
        BY <2>0, <3>5
      <4>2. c + (k + Largest) >= NeedsOfDeals' + InHands
        <5> HIDE DEF c, k
        <5> QED
          BY <3>3, <4>1, Slack, Zenon
      <4> QED
        BY <3>2, <3>4, <3>6, <4>2
    <3> QED
      BY <3>6, <3>7 DEF EnvelopeCovers, Needed
  <2>8. ASSUME NEW r \in Request, MarkTerminated(r) PROVE EnvelopeCovers'
    <3>0. \A q \in Request : q # r => pc'[q] = pc[q] /\ figure'[q] = figure[q]
      BY <2>8 DEF MarkTerminated, Goto, Typed, DealsTypeOK
    <3>1. /\ at[r] \in Deal /\ figure[r] \in Nat
          /\ state[at[r]] \in Committed /\ state'[at[r]] = "terminated"
          /\ returned'[at[r]] = figure[r]
      BY <2>8 DEF MarkTerminated, Typed, DealsTypeOK
    <3>2. InHand(r) = 0 /\ InHand(r)' = figure[r]
      BY <2>8 DEF MarkTerminated, Goto, InHand, Typed, DealsTypeOK
    <3>3. InHands' = InHands + figure[r]
      BY <2>0, <2>8, <3>1, <3>2, <3>0, HandsShift
    <3>4. NeedsOfDeals' = NeedsOfDeals - figure[r]
      <4>1. PICK d \in Deal : d = at[r]
        BY <3>1
      <4>2. \A e \in Deal : e # d => state'[e] = state[e] /\ returned'[e] = returned[e]
        BY <2>8, <4>1 DEF MarkTerminated, Typed, DealsTypeOK
      <4>3. NeedsOfDeals' = NeedsOfDeals + NeededFor(d)' - NeededFor(d)
        BY <4>2, NeedsShift
      <4>4. NeededFor(d) = Total(d) /\ NeededFor(d)' = Total(d) - figure[r]
        BY <3>1, <4>1 DEF NeededFor, Committed
      <4>5. Total(d) \in Nat
        BY TotalType
      <4> QED
        BY <2>0, <3>1, <4>3, <4>4, <4>5
    <3> QED
      BY <2>0, <2>8, <3>1, <3>3, <3>4
      DEF MarkTerminated, EnvelopeCovers, Needed, WithinChecks
  <2>9. ASSUME NEW r \in Request, Release(r) PROVE EnvelopeCovers'
    <3>1. InHand(r) = figure[r] /\ InHand(r)' = 0 /\ figure[r] \in Nat
      BY <2>9 DEF Release, Done, Goto, InHand, Typed, DealsTypeOK
    <3>2. InHands' = InHands - figure[r] /\ figure[r] <= InHands
      BY <2>0, <2>9, <3>1, OthersStay, HandsShift, NeedType DEF Release
    <3>3. NeedsOfDeals' = NeedsOfDeals
      BY <2>9 DEF Release, dealVars, NeedsOfDeals, NeededFor
    <3>4. CASE envelope.there /\ c >= figure[r]
      <4>1. envelope' = Draw(-figure[r])
        BY <2>9, <3>4 DEF Release
      <4>2. c' = c - figure[r] /\ WithinChecks(envelope')
        BY <2>0, <3>1, <3>4, <4>1 DEF Draw, WithinChecks, EnvelopeCovers, Typed, DealsTypeOK, Envelope
      <4>3. UNCHANGED <<crashes, doubts>>
        BY <2>9 DEF Release
      <4> DEFINE k == doubts * Largest
      <4>4. k \in Nat /\ k' = k /\ c + k >= NeedsOfDeals + InHands
        BY <2>0, <4>3 DEF EnvelopeCovers, Needed
      <4>5. c' + k >= NeedsOfDeals' + InHands'
        <5>1. c \in Nat /\ NeedsOfDeals \in Nat /\ InHands \in Nat
          BY <2>0
        <5> HIDE DEF k, c
        <5> QED
          BY <3>1, <3>2, <3>3, <4>2, <4>4, <5>1
      <4>6. crashes = 0 /\ doubts = 0 => c' = Needed'
        BY <2>0, <3>1, <3>2, <3>3, <4>2 DEF EnvelopeCovers, Needed
      <4> QED
        BY <4>2, <4>3, <4>4, <4>5, <4>6 DEF EnvelopeCovers, Needed
    <3>5. CASE c < figure[r]
      <4>1. envelope' = envelope
        BY <2>0, <2>9, <3>1, <3>5 DEF Release
      <4>2. ~(crashes = 0 /\ doubts = 0)
        BY <2>0, <3>1, <3>2, <3>5 DEF EnvelopeCovers, Needed
      <4> QED
        BY <2>0, <2>9, <3>1, <3>2, <3>3, <4>1, <4>2 DEF Release, EnvelopeCovers, Needed
    <3>6. CASE ~envelope.there /\ c >= figure[r]
      <4>1. c = 0 /\ figure[r] = 0
        BY <2>0, <3>1, <3>6 DEF Typed, Figures
      <4>2. envelope' = envelope
        BY <2>9, <3>6 DEF Release
      <4> QED
        BY <2>0, <2>9, <3>2, <3>3, <4>1, <4>2 DEF Release, EnvelopeCovers, Needed
    <3> QED
      BY <2>0, <3>1, <3>4, <3>5, <3>6
  <2>10. ASSUME NEW r \in Request,
                CommitRefused(r) \/ TerminateConflicts(r) \/ ApproveViolates(r) \/ Refuse(r)
         PROVE  EnvelopeCovers'
    <3>1. Done(r) /\ pc[r] \in {"commit", "end", "approve"}
      BY <2>10 DEF CommitRefused, TerminateConflicts, ApproveViolates, Refuse
    <3>2. pc'[r] = "idle"
      BY <3>1 DEF Done, Goto, Typed, DealsTypeOK
    <3>3. InHands' = InHands
      BY <3>1, <3>2, OthersStay, EmptyHanded
    <3>4. UNCHANGED <<dealVars, envelope, crashes, doubts>>
      BY <2>10 DEF CommitRefused, TerminateConflicts, ApproveViolates, Refuse
    <3>5. NeedsOfDeals' = NeedsOfDeals
      BY <3>4 DEF dealVars, NeedsOfDeals, NeededFor
    <3> QED
      BY <3>3, <3>4, <3>5, CoversSame DEF EnvelopeCovers
  <2>11. ASSUME NEW r \in Request, Crash(r) PROVE EnvelopeCovers'
    <3>1. InHand(r)' = 0 /\ InHand(r) \in Nat
      BY <2>11 DEF Crash, Done, Goto, InHand, Typed, DealsTypeOK
    <3>2. InHands' = InHands - InHand(r)
      BY <2>0, <2>11, <3>1, OthersStay, HandsShift DEF Crash
    <3>3. NeedsOfDeals' = NeedsOfDeals
      BY <2>11 DEF Crash, dealVars, NeedsOfDeals, NeededFor
    <3>4. crashes' # 0
      BY <2>0, <2>11 DEF Crash
    <3> QED
      BY <2>0, <2>11, <3>1, <3>2, <3>3, <3>4 DEF Crash, EnvelopeCovers, Needed, WithinChecks
  <2>12. ASSUME NEW d \in Deal, Create(d) \/ Progress(d) PROVE EnvelopeCovers'
    <3>1. InHands' = InHands
      BY <2>12 DEF Create, Progress, requestVars, InHands, InHand
    <3>2. \A e \in Deal : NeededFor(e)' = NeededFor(e)
      BY <2>12 DEF Create, Progress, NeededFor, Committed, Typed, DealsTypeOK
    <3>3. NeedsOfDeals' = NeedsOfDeals
      BY <3>2 DEF NeedsOfDeals
    <3> QED
      BY <2>12, <3>1, <3>3, CoversSame DEF Create, Progress, EnvelopeCovers
  <2>13. ASSUME NEW m \in Milestone, ReleaseMilestone(m) PROVE EnvelopeCovers'
    <3>1. InHands' = InHands /\ NeedsOfDeals' = NeedsOfDeals
      BY <2>13 DEF ReleaseMilestone, requestVars, InHands, InHand, NeedsOfDeals, NeededFor
    <3> QED
      BY <2>13, <3>1, CoversSame DEF ReleaseMilestone, EnvelopeCovers
  <2>14. CASE Expire
    <3>1. InHands' = InHands /\ NeedsOfDeals' = NeedsOfDeals
      BY <2>14 DEF Expire, requestVars, dealVars, InHands, InHand, NeedsOfDeals, NeededFor
    <3>2. c' = c /\ WithinChecks(envelope')
      BY <2>14 DEF Expire, EnvelopeCovers, WithinChecks, Typed, DealsTypeOK, Envelope
    <3> QED
      BY <2>14, <3>1, <3>2, CoversSame DEF Expire
  <2>15. CASE UNCHANGED vars
    <3>1. InHands' = InHands /\ NeedsOfDeals' = NeedsOfDeals
      BY <2>15 DEF vars, requestVars, dealVars, InHands, InHand, NeedsOfDeals, NeededFor
    <3> QED
      BY <2>15, <3>1, CoversSame DEF vars, EnvelopeCovers
  <2> QED
    BY <2>1, <2>2, <2>3, <2>4, <2>5, <2>6, <2>7, <2>8, <2>9, <2>10, <2>11, <2>12, <2>13,
       <2>14, <2>15, NextCases
<1> QED
  BY <1>1, <1>2, DealsTyped, PTL DEF Spec, Typed

-----------------------------------------------------------------------------
(* The split of an amount                                                  *)

\* Weights as Money.allocate takes them: none below zero, some above it.
Weighted(weights) ==
  /\ IsFiniteSet(DOMAIN weights) /\ DOMAIN weights \subseteq Int
  /\ \A i \in DOMAIN weights : weights[i] \in Nat
  /\ AmountsTotal(weights) > 0

\* A division and its remainder.
LEMMA Division ==
  ASSUME NEW x \in Int, NEW w \in Nat, w > 0
  PROVE  x \div w \in Int /\ x % w \in 0..w-1 /\ x = w * (x \div w) + (x % w)
OBVIOUS

\* Whole shares and remainders are what their names say.
LEMMA ShareType ==
  ASSUME NEW weights, Weighted(weights), NEW amount \in Nat, NEW i \in DOMAIN weights
  PROVE  /\ AmountsTotal(weights) \in Nat
         /\ Share(amount, weights, i) \in Int
         /\ Fraction(amount, weights, i) \in 0..AmountsTotal(weights)-1
         /\ amount * weights[i] = AmountsTotal(weights) * Share(amount, weights, i)
                                    + Fraction(amount, weights, i)
<1> DEFINE W == AmountsTotal(weights)
           x == amount * weights[i]
<1>1. IsFiniteSet(DOMAIN weights) /\ \A j \in DOMAIN weights : weights[j] \in Int /\ weights[j] >= 0
  BY DEF Weighted
<1>2. W \in Nat
  BY <1>1, SumType DEF AmountsTotal
<1>3. x \in Int /\ W > 0
  BY DEF Weighted
<1>4. Share(amount, weights, i) = x \div W /\ Fraction(amount, weights, i) = x % W
  BY DEF Share, Fraction
<1> HIDE DEF W, x
<1>5. x \div W \in Int /\ x % W \in 0..W-1 /\ x = W * (x \div W) + (x % W)
  BY <1>2, <1>3, Division
<1> USE DEF W, x
<1> QED
  BY <1>2, <1>4, <1>5

\* What is left over of all entries together is whole units.
LEMMA FractionsTotal ==
  ASSUME NEW weights, Weighted(weights), NEW amount \in Nat
  PROVE  LET frac == [i \in DOMAIN weights |-> Fraction(amount, weights, i)]
         IN  /\ SumFunctionOnSet(frac, DOMAIN weights)
                   = AmountsTotal(weights) * Leftover(amount, weights)
             /\ AmountsTotal([i \in DOMAIN weights |-> Share(amount, weights, i)]) \in Int
<1> DEFINE D == DOMAIN weights
           W == AmountsTotal(weights)
           zero == [i \in D |-> 0]
           scaled == [i \in D |-> amount * weights[i]]
           share == [i \in D |-> Share(amount, weights, i)]
           frac == [i \in D |-> Fraction(amount, weights, i)]
           S == SumFunctionOnSet(share, D)
           F == SumFunctionOnSet(frac, D)
<1>1. IsFiniteSet(D) /\ \A i \in D : weights[i] \in Nat
  BY DEF Weighted
<1>2. W \in Nat /\ W > 0
  BY <1>1, SumType DEF AmountsTotal, Weighted
<1>3. \A i \in D : share[i] \in Int /\ frac[i] \in 0..W-1 /\ scaled[i] = W * share[i] + frac[i]
  BY ShareType
<1>4. \A i \in D : zero[i] = 0 /\ scaled[i] = amount * weights[i] + zero[i]
  BY <1>1
<1>6. W = SumFunctionOnSet(weights, D)
  BY DEF AmountsTotal
<1>7. AmountsTotal([i \in DOMAIN weights |-> Share(amount, weights, i)]) = S
  BY DEF AmountsTotal
<1>8. Leftover(amount, weights) = amount - S
  BY <1>7 DEF Leftover
<1>9. amount \in Int /\ W \in Int
  BY <1>2
<1> HIDE DEF zero, scaled, share, frac, W, D
<1>10. SumFunctionOnSet(zero, D) = 0
  BY <1>1, <1>4, SumOfZeros
<1>11. SumFunctionOnSet(scaled, D) = amount * W + 0
  <2>1. /\ \A i \in D : weights[i] \in Int
        /\ \A i \in D : zero[i] \in Int
        /\ \A i \in D : scaled[i] = amount * weights[i] + zero[i]
    BY <1>1, <1>4
  <2>2. SumFunctionOnSet(scaled, D) = amount * SumFunctionOnSet(weights, D) + SumFunctionOnSet(zero, D)
    BY <1>1, <1>9, <2>1, SumLinear
  <2> QED
    BY <1>6, <1>10, <2>2
<1>12. /\ \A i \in D : share[i] \in Int
       /\ \A i \in D : frac[i] \in Int
       /\ \A i \in D : scaled[i] = W * share[i] + frac[i]
  BY <1>2, <1>3
<1>13. SumFunctionOnSet(scaled, D) = W * S + F
  BY <1>1, <1>9, <1>12, SumLinear
<1>14. S \in Int /\ F \in Int
  BY <1>1, <1>12, SumType
<1> HIDE DEF S, F
<1>17. F = W * (amount - S)
  BY <1>2, <1>11, <1>13, <1>14
<1> QED
  BY <1>7, <1>8, <1>14, <1>17 DEF F, frac, D, W

\* The whole shares leave less than a unit for each entry.
LEMMA LeftoverType ==
  ASSUME NEW weights, Weighted(weights), NEW amount \in Nat
  PROVE  /\ Leftover(amount, weights) \in 0..Cardinality(DOMAIN weights)
         /\ AmountsTotal([i \in DOMAIN weights |-> Share(amount, weights, i)]) \in Int
<1> DEFINE D == DOMAIN weights
           W == AmountsTotal(weights)
           L == Leftover(amount, weights)
           S == AmountsTotal([i \in DOMAIN weights |-> Share(amount, weights, i)])
           n == Cardinality(D)
           frac == [i \in D |-> Fraction(amount, weights, i)]
           F == SumFunctionOnSet(frac, D)
<1>1. IsFiniteSet(D) /\ n \in Nat
  BY FS_CardinalityType DEF Weighted
<1>2. W \in Nat /\ W > 0 /\ W - 1 \in Int
  <2>1. \A i \in D : weights[i] \in Nat
    BY DEF Weighted
  <2> QED
    BY <1>1, <2>1, SumType DEF AmountsTotal, Weighted
<1>3. \A i \in D : frac[i] \in 0..W-1
  BY ShareType
<1>4. F = W * L /\ S \in Int /\ L = amount - S
  BY FractionsTotal DEF Leftover
<1> HIDE DEF frac, D, W, L, n
<1>5. \A i \in D : frac[i] \in Int /\ frac[i] >= 0
  BY <1>2, <1>3
<1>6. /\ \A i \in D : frac[i] \in Int
      /\ \A i \in D : frac[i] <= W - 1
  BY <1>2, <1>3
<1>7. F >= 0
  BY <1>1, <1>5, SumType
<1>8. F <= (W - 1) * n
  BY <1>1, <1>2, <1>6, SumBound DEF n
<1> HIDE DEF S, F
<1>9. L >= 0
  BY <1>2, <1>4, <1>7
<1>10. L <= n
  BY <1>1, <1>2, <1>4, <1>8
<1> QED
  BY <1>1, <1>4, <1>9, <1>10 DEF L, S, n, D

\* Whoever is ahead in the queue for a leftover unit: a strict order, without ties.
LEMMA QueueOrder ==
  ASSUME NEW weights, Weighted(weights), NEW amount \in Nat
  PROVE  LET D == DOMAIN weights
             ahead(i) == Ahead(amount, weights, i)
         IN  /\ \A i \in D : ahead(i) \in SUBSET D /\ i \notin ahead(i)
             /\ \A i, j \in D : i # j => i \in ahead(j) \/ j \in ahead(i)
             /\ \A i, j \in D : i \in ahead(j) => ahead(i) \subseteq ahead(j)
<1>1. \A i \in DOMAIN weights : i \in Int /\ Fraction(amount, weights, i) \in Int
  BY ShareType DEF Weighted
<1> QED
  BY <1>1 DEF Ahead

\* Those who get one of the units that the whole shares leave.
Lucky(amount, weights) ==
  {i \in DOMAIN weights : Cardinality(Ahead(amount, weights, i)) < Leftover(amount, weights)}

\* The parts are the whole shares and one unit more for the lucky, who are as many as
\* the units left.
LEMMA LuckyCount ==
  ASSUME NEW weights, Weighted(weights), NEW amount \in Nat
  PROVE  /\ Cardinality(Lucky(amount, weights)) = Leftover(amount, weights)
         /\ DOMAIN Allocate(amount, weights) = DOMAIN weights
         /\ \A i \in DOMAIN weights : Allocate(amount, weights)[i] =
              Share(amount, weights, i) + (IF i \in Lucky(amount, weights) THEN 1 ELSE 0)
<1> DEFINE D == DOMAIN weights
           L == Leftover(amount, weights)
           ahead == [i \in D |-> Ahead(amount, weights, i)]
<1>1. /\ ahead \in [D -> SUBSET D]
      /\ \A i \in D : i \notin ahead[i]
      /\ \A i, j \in D : i # j => i \in ahead[j] \/ j \in ahead[i]
      /\ \A i, j \in D : i \in ahead[j] => ahead[i] \subseteq ahead[j]
  BY QueueOrder
<1>2. IsFiniteSet(D) /\ L \in 0..Cardinality(D)
  BY LeftoverType DEF Weighted
<1>3. Lucky(amount, weights) = {i \in D : Cardinality(ahead[i]) < L}
  BY DEF Lucky
<1>4. Cardinality(Lucky(amount, weights)) = L
  <2> HIDE DEF ahead, L, D
  <2> QED
    BY <1>1, <1>2, <1>3, RanksFill
<1> QED
  BY <1>4 DEF Allocate, Lucky

\* Money.allocate loses nothing and invents nothing: the parts sum to the amount.
THEOREM AllocateAddsUp ==
  ASSUME NEW weights, Weighted(weights), NEW amount \in Nat
  PROVE  AmountsTotal(Allocate(amount, weights)) = amount
<1> DEFINE D == DOMAIN weights
           L == Leftover(amount, weights)
           T == Lucky(amount, weights)
           share == [i \in D |-> Share(amount, weights, i)]
           unit == [i \in D |-> IF i \in T THEN 1 ELSE 0]
           part == Allocate(amount, weights)
<1>1. IsFiniteSet(D) /\ T \in SUBSET D /\ Cardinality(T) = L
  BY LuckyCount DEF Weighted, Lucky
<1>2. L \in 0..Cardinality(D) /\ AmountsTotal(share) \in Int /\ L = amount - AmountsTotal(share)
  BY LeftoverType DEF Leftover
<1>3. (\A i \in D : share[i] \in Int) /\ (\A i \in D : unit[i] \in Int)
  BY ShareType
<1>4. SumFunctionOnSet(unit, D) = L
  <2>1. \A i \in D : unit[i] = IF i \in T THEN 1 ELSE 0
    OBVIOUS
  <2> HIDE DEF unit, T, D
  <2> QED
    BY <1>1, <2>1, SumCounts
<1>5. DOMAIN part = D /\ \A i \in D : part[i] = 1 * share[i] + unit[i]
  <2>1. DOMAIN part = D /\ \A i \in D : part[i] = share[i] + unit[i]
    BY LuckyCount
  <2> HIDE DEF part, share, unit
  <2> QED
    BY <1>3, <2>1
<1>6. AmountsTotal(part) = 1 * AmountsTotal(share) + SumFunctionOnSet(unit, D)
  <2>1. DOMAIN share = D
    OBVIOUS
  <2> HIDE DEF part, share, unit, D
  <2> QED
    BY <1>1, <1>3, <1>5, <2>1, SumLinear DEF AmountsTotal
<1> QED
  BY <1>2, <1>4, <1>6

\* The lucky are ahead of the others.
LEMMA LuckyFirst ==
  ASSUME NEW weights, Weighted(weights), NEW amount \in Nat,
         NEW i \in Lucky(amount, weights), NEW j \in DOMAIN weights \ Lucky(amount, weights)
  PROVE  \/ Fraction(amount, weights, i) > Fraction(amount, weights, j)
         \/ Fraction(amount, weights, i) = Fraction(amount, weights, j) /\ i < j
<1> DEFINE D == DOMAIN weights
           a == Ahead(amount, weights, i)
           b == Ahead(amount, weights, j)
<1>1. i \in D /\ i # j
  BY DEF Lucky
<1>2. a \in SUBSET D /\ b \in SUBSET D /\ (i \in b \/ j \in a) /\ (j \in a => b \subseteq a)
  BY <1>1, QueueOrder
<1>3. IsFiniteSet(a) /\ IsFiniteSet(b) /\ Cardinality(a) \in Nat /\ Cardinality(b) \in Nat
  BY <1>2, FS_Subset, FS_CardinalityType DEF Weighted
<1>4. Cardinality(a) < Leftover(amount, weights) /\ ~(Cardinality(b) < Leftover(amount, weights))
  BY DEF Lucky
<1>5. ASSUME j \in a PROVE FALSE
  <2>1. Cardinality(b) <= Cardinality(a)
    <3>1. b \in SUBSET a
      BY <1>2, <1>5
    <3> HIDE DEF a, b
    <3> QED
      BY <1>3, <3>1, FS_Subset
  <2>2. Leftover(amount, weights) \in Int
    <3>1. Cardinality(D) \in Nat
      BY FS_CardinalityType DEF Weighted
    <3>2. Leftover(amount, weights) \in 0..Cardinality(D)
      BY LeftoverType
    <3> HIDE DEF D
    <3> QED
      BY <3>1, <3>2
  <2> HIDE DEF a, b
  <2> QED
    BY <1>3, <1>4, <2>1, <2>2
<1>6. i \in b
  BY <1>2, <1>5
<1> QED
  BY <1>6 DEF Ahead

\* A figure between what is left over of the lucky and of the others, twice so that it is
\* a whole number: the lucky have at least that much, the others at most.
LEMMA Between ==
  ASSUME NEW weights, Weighted(weights), NEW amount \in Nat
  PROVE  \E t \in 1..(2 * AmountsTotal(weights) - 1) :
           \A i \in DOMAIN weights :
             /\ i \in Lucky(amount, weights) => 2 * Fraction(amount, weights, i) >= t
             /\ i \notin Lucky(amount, weights) => 2 * Fraction(amount, weights, i) <= t
<1> DEFINE D == DOMAIN weights
           W == AmountsTotal(weights)
           T == Lucky(amount, weights)
           frac == [i \in D |-> Fraction(amount, weights, i)]
           zero == [i \in D |-> 0]
           L == Leftover(amount, weights)
<1>1. IsFiniteSet(D) /\ (\A i \in D : weights[i] \in Nat) /\ T \in SUBSET D
  BY DEF Weighted, Lucky
<1>2. W \in Nat /\ W > 0
  BY <1>1, SumType DEF AmountsTotal, Weighted
<1>3. \A i \in D : frac[i] \in 0..W-1 /\ frac[i] = Fraction(amount, weights, i)
  BY ShareType
<1>4. L \in Nat /\ Cardinality(T) = L /\ IsFiniteSet(T)
  <2>1. Cardinality(T) = L
    BY LuckyCount
  <2>2. IsFiniteSet(T)
    BY <1>1, FS_Subset
  <2> HIDE DEF T, L
  <2> QED
    BY <2>1, <2>2, FS_CardinalityType
<1>5. SumFunctionOnSet(frac, D) = W * L
  BY FractionsTotal
<1>6. CASE T = {}
  <2>1. L = 0
    BY <1>4, <1>6, FS_EmptySet
  <2>2. \A i \in D : frac[i] = 0
    <3>1. SumFunctionOnSet(frac, D) = 0
      BY <1>2, <1>5, <2>1
    <3>2. \A i \in D : frac[i] \in Int /\ frac[i] >= 0
      BY <1>2, <1>3
    <3> HIDE DEF frac, D
    <3> QED
      BY <1>1, <3>1, <3>2, SumNothing
  <2>3. 1 \in 1..(2 * W - 1)
    BY <1>2
  <2> QED
    BY <1>3, <1>6, <2>2, <2>3
<1>7. CASE T # {}
  <2> DEFINE R == {frac[i] : i \in T}
  <2>1. R \in SUBSET Nat /\ R # {}
    <3>1. \A i \in T : frac[i] \in Nat
      BY <1>1, <1>3
    <3> HIDE DEF frac, T
    <3> QED
      BY <1>7, <3>1
  <2>2. PICK m \in R : \A n \in R : m <= n
    BY <2>1, LeastNat
  <2>3. PICK k \in T : m = frac[k]
    BY <2>2
  <2>4. \A i \in T : frac[i] >= m
    BY <1>1, <1>2, <1>3, <2>2, <2>3
  <2>5. \A i \in D \ T : frac[i] <= m
    <3> TAKE i \in D \ T
    <3>1. Fraction(amount, weights, k) >= Fraction(amount, weights, i)
      BY <1>1, <1>2, <1>3, LuckyFirst
    <3> QED
      BY <1>1, <1>3, <2>3, <3>1
  <2>6. m > 0
    <3> SUFFICES ASSUME m = 0 PROVE FALSE
      BY <1>1, <1>2, <1>3, <2>3
    <3> DEFINE unit == [i \in D |-> IF i \in T THEN 1 ELSE 0]
               top == [i \in D |-> (W - 1) * unit[i] + 0]
               gap == [i \in D |-> top[i] - frac[i]]
    <3>1. \A i \in D : unit[i] = IF i \in T THEN 1 ELSE 0
      OBVIOUS
    <3>2. \A i \in D : top[i] = (W - 1) * unit[i] + zero[i]
      OBVIOUS
    <3>3. \A i \in D : top[i] \in Int /\ frac[i] \in Int /\ frac[i] <= top[i]
      BY <1>1, <1>2, <1>3, <2>5
    <3>4. \A i \in D : /\ gap[i] \in Int /\ gap[i] >= 0
                       /\ top[i] = 1 * frac[i] + gap[i]
      BY <3>3
    <3>5. W - 1 \in Int
      BY <1>2
    <3>6. \A i \in D : unit[i] \in Int /\ zero[i] \in Int /\ zero[i] = 0
      OBVIOUS
    <3> HIDE DEF unit, top, gap, frac, zero, D, W, L, T
    <3>7. SumFunctionOnSet(unit, D) = L
      BY <1>1, <1>4, <3>1, SumCounts
    <3>8. SumFunctionOnSet(zero, D) = 0
      BY <1>1, <3>6, SumOfZeros
    <3>9. SumFunctionOnSet(top, D) = (W - 1) * L
      <4>1. /\ \A i \in D : unit[i] \in Int
            /\ \A i \in D : zero[i] \in Int
        BY <3>6
      <4>2. SumFunctionOnSet(top, D) = (W - 1) * SumFunctionOnSet(unit, D) + SumFunctionOnSet(zero, D)
        BY <1>1, <3>2, <3>5, <4>1, SumLinear
      <4> QED
        BY <1>2, <1>4, <3>7, <3>8, <4>2
    <3>10. SumFunctionOnSet(top, D) = 1 * SumFunctionOnSet(frac, D) + SumFunctionOnSet(gap, D)
      <4>1. /\ \A i \in D : frac[i] \in Int
            /\ \A i \in D : gap[i] \in Int
            /\ \A i \in D : top[i] = 1 * frac[i] + gap[i]
        BY <3>3, <3>4
      <4> QED
        BY <1>1, <4>1, SumLinear
    <3>11. SumFunctionOnSet(gap, D) \in Int /\ SumFunctionOnSet(gap, D) >= 0
      BY <1>1, <3>4, SumType
    <3>12. L > 0
      BY <1>4, <1>7, FS_EmptySet
    <3>13. (W - 1) * L = W * L - L /\ W * L \in Int
      BY <1>2, <1>4
    <3> QED
      BY <1>4, <1>5, <3>9, <3>10, <3>11, <3>12, <3>13
  <2>7. m \in 0..W-1
    BY <1>1, <1>3, <2>3
  <2>8. 2 * m \in 1..(2 * W - 1)
    BY <1>2, <2>6, <2>7
  <2>9. \A i \in D : /\ i \in T => 2 * frac[i] >= 2 * m
                     /\ i \notin T => 2 * frac[i] <= 2 * m
    <3> HIDE DEF frac, T, D, W
    <3> QED
      BY <1>2, <1>3, <2>4, <2>5, <2>7
  <2> QED
    BY <1>3, <2>8, <2>9
<1> QED
  BY <1>6, <1>7

\* How far an entry with r left over of W is from its exact share when it gets d units
\* more than the whole ones.
Away(W, r, d) == IF W * d - r < 0 THEN -(W * d - r) ELSE W * d - r

\* What d units are further away than e, less what the difference is worth.
Excess(W, t, r, e, d) == Away(W, r, d) - Away(W, r, e) - (W - t) * (d - e)

\* When each unit is worth W - t, no number of units serves an entry better than the e it
\* gets, and another serves it as well only in a tie, where it is none or one.
LEMMA Cheapest ==
  ASSUME NEW W \in Nat, W > 0, NEW t \in 1..(2 * W - 1), NEW r \in 0..W-1,
         NEW e \in 0..1, e = 1 => 2 * r >= t, e = 0 => 2 * r <= t, NEW d \in Int
  PROVE  /\ Away(W, r, d) \in Int /\ Away(W, r, e) \in Int
         /\ Excess(W, t, r, e, d) \in Int /\ Excess(W, t, r, e, d) >= 0
         /\ Excess(W, t, r, e, d) = 0 => d = e \/ (2 * r = t /\ d \in 0..1)
<1> DEFINE x == W * d
           y == t * d
<1>1. x \in Int /\ y \in Int /\ t \in Nat /\ t > 0 /\ t < 2 * W /\ r \in Nat /\ r < W
  OBVIOUS
<1>2. (W - t) * (d - e) = x - y - (W - t) * e
  OBVIOUS
<1> USE DEF Excess
<1>3. Away(W, r, d) = IF x - r < 0 THEN r - x ELSE x - r
  BY <1>1 DEF Away
<1>4. Away(W, r, e) = IF e = 1 THEN W - r ELSE r
  BY <1>1 DEF Away
<1>5. (W - t) * e = IF e = 1 THEN W - t ELSE 0
  OBVIOUS
<1>6. CASE d = 0
  <2>1. x = 0 /\ y = 0
    BY <1>6
  <2> HIDE DEF x, y
  <2> QED
    BY <1>1, <1>2, <1>3, <1>4, <1>5, <1>6, <2>1
<1>7. CASE d = 1
  <2>1. x = W /\ y = t
    BY <1>7
  <2> HIDE DEF x, y
  <2> QED
    BY <1>1, <1>2, <1>3, <1>4, <1>5, <1>7, <2>1
<1>8. CASE d >= 2
  <2>1. x >= 2 * W /\ y >= 2 * t
    <3>1. W * (d - 2) >= 0 /\ t * (d - 2) >= 0
      BY <1>1, <1>8
    <3>2. W * (d - 2) = x - 2 * W /\ t * (d - 2) = y - 2 * t
      BY <1>1
    <3> HIDE DEF x, y
    <3> QED
      BY <1>1, <3>1, <3>2
  <2> HIDE DEF x, y
  <2> QED
    BY <1>1, <1>2, <1>3, <1>4, <1>5, <1>8, <2>1
<1>9. CASE d <= -1
  <2>1. x <= 0 /\ 2 * x - y < 0
    <3>1. W * (0 - d) >= 0 /\ (2 * W - t) * (0 - d) > 0
      BY <1>1, <1>9
    <3>2. W * (0 - d) = 0 - x /\ (2 * W - t) * (0 - d) = y - 2 * x
      BY <1>1
    <3> HIDE DEF x, y
    <3> QED
      BY <1>1, <3>1, <3>2
  <2> HIDE DEF x, y
  <2> QED
    BY <1>1, <1>2, <1>3, <1>4, <1>5, <1>9, <2>1
<1> QED
  BY <1>6, <1>7, <1>8, <1>9

\* The distance of a split is the sum of what its entries are away.
LEMMA DistanceSums ==
  ASSUME NEW weights, Weighted(weights), NEW amount \in Nat, NEW p,
         DOMAIN p = DOMAIN weights, \A i \in DOMAIN weights : p[i] \in Int
  PROVE  Distance(amount, weights, p) =
           SumFunctionOnSet([i \in DOMAIN weights |->
             Away(AmountsTotal(weights), Fraction(amount, weights, i),
                  p[i] - Share(amount, weights, i))], DOMAIN weights)
<1> DEFINE D == DOMAIN weights
           W == AmountsTotal(weights)
           off(i) == p[i] * W - amount * weights[i]
           given == [i \in D |-> IF off(i) < 0 THEN -off(i) ELSE off(i)]
           away == [i \in D |-> Away(W, Fraction(amount, weights, i),
                                     p[i] - Share(amount, weights, i))]
<1>1. Distance(amount, weights, p) = SumFunctionOnSet(given, D)
  BY DEF Distance, AmountsTotal
<1>2. \A i \in D : given[i] = away[i]
  <2> TAKE i \in D
  <2> DEFINE r == Fraction(amount, weights, i)
             s == Share(amount, weights, i)
             a == amount * weights[i]
  <2>1. W \in Nat /\ s \in Int /\ r \in 0..W-1 /\ a = W * s + r /\ p[i] \in Int
    BY ShareType
  <2>2. off(i) = p[i] * W - a
    OBVIOUS
  <2> HIDE DEF W, s, r, a
  <2>3. p[i] * W - a = W * (p[i] - s) - r
    BY <2>1
  <2>4. off(i) = W * (p[i] - s) - r
    BY <2>2, <2>3
  <2>5. given[i] = IF off(i) < 0 THEN -off(i) ELSE off(i)
    OBVIOUS
  <2>6. away[i] = Away(W, r, p[i] - s)
    BY DEF r, s
  <2> HIDE DEF given, away, off
  <2> QED
    BY <2>4, <2>5, <2>6 DEF Away
<1>3. given = away
  <2>1. DOMAIN given = D /\ DOMAIN away = D
    OBVIOUS
  <2>2. given = [i \in D |-> given[i]] /\ away = [i \in D |-> away[i]]
    OBVIOUS
  <2> HIDE DEF given, away
  <2> QED
    BY <1>2, <2>2
<1> QED
  BY <1>1, <1>3

\* No way to split an amount in whole units is nearer to the exact shares than the one
\* Money.allocate takes, and of equally near ones it favours the earliest entries.
THEOREM AllocateIsNearest ==
  ASSUME NEW weights, Weighted(weights), DOMAIN weights \subseteq Nat, NEW amount \in Nat,
         NEW p \in [DOMAIN weights -> Int], AmountsTotal(p) = amount,
         p # Allocate(amount, weights)
  PROVE  LET part == Allocate(amount, weights)
         IN  \/ Distance(amount, weights, p) > Distance(amount, weights, part)
             \/ /\ Distance(amount, weights, p) = Distance(amount, weights, part)
                /\ FavoursEarlier(part, p)
<1> DEFINE D == DOMAIN weights
           W == AmountsTotal(weights)
           T == Lucky(amount, weights)
           part == Allocate(amount, weights)
           s == [i \in D |-> Share(amount, weights, i)]
           r == [i \in D |-> Fraction(amount, weights, i)]
           dp == [i \in D |-> Away(W, r[i], p[i] - s[i])]
           de == [i \in D |-> Away(W, r[i], part[i] - s[i])]
           moved == [i \in D |-> p[i] - part[i]]
           P == Distance(amount, weights, p)
           E == Distance(amount, weights, part)
<1>1. IsFiniteSet(D) /\ T \in SUBSET D /\ DOMAIN p = D /\ \A i \in D : p[i] \in Int
  BY DEF Weighted, Lucky
<1>2. W \in Nat /\ W > 0
  <2>1. \A i \in D : weights[i] \in Nat
    BY DEF Weighted
  <2> QED
    BY <1>1, <2>1, SumType DEF AmountsTotal, Weighted
<1>3. \A i \in D : s[i] \in Int /\ r[i] \in 0..W-1
  BY ShareType
<1>4. DOMAIN part = D /\ \A i \in D : part[i] = s[i] + (IF i \in T THEN 1 ELSE 0)
  BY LuckyCount
<1>5. \A i \in D : part[i] \in Int
  BY <1>3, <1>4
<1>6. PICK t \in 1..(2 * W - 1) :
        \A i \in D : /\ i \in T => 2 * r[i] >= t
                     /\ i \notin T => 2 * r[i] <= t
  BY Between
<1>7. P = SumFunctionOnSet(dp, D) /\ E = SumFunctionOnSet(de, D)
  <2>1. P = SumFunctionOnSet(dp, D)
    BY <1>1, DistanceSums
  <2>2. E = SumFunctionOnSet(de, D)
    <3>1. DOMAIN part = DOMAIN weights /\ \A i \in DOMAIN weights : part[i] \in Int
      BY <1>4, <1>5
    <3> HIDE DEF part
    <3> QED
      BY <3>1, DistanceSums
  <2> QED
    BY <2>1, <2>2
<1> DEFINE rest == [i \in D |-> dp[i] - de[i]]
           gain == [i \in D |-> rest[i] - (W - t) * moved[i]]
<1>8. \A i \in D : /\ dp[i] \in Int /\ de[i] \in Int
                   /\ moved[i] \in Int /\ moved[i] = p[i] - part[i]
                   /\ rest[i] \in Int /\ rest[i] = dp[i] - de[i]
                   /\ gain[i] \in Int /\ gain[i] = rest[i] - (W - t) * moved[i]
                   /\ gain[i] >= 0
                   /\ gain[i] = 0 => \/ p[i] = part[i]
                                     \/ /\ 2 * r[i] = t
                                        /\ IF i \in T THEN p[i] < part[i] ELSE p[i] > part[i]
  <2> TAKE i \in D
  <2> DEFINE e == IF i \in T THEN 1 ELSE 0
             d == p[i] - s[i]
  <2>1. /\ e \in 0..1 /\ d \in Int /\ r[i] \in 0..W-1
        /\ e = 1 => 2 * r[i] >= t
        /\ e = 0 => 2 * r[i] <= t
    BY <1>1, <1>3, <1>6
  <2>2. part[i] - s[i] = e /\ p[i] - part[i] = d - e
    BY <1>1, <1>3, <1>4
  <2>3. dp[i] = Away(W, r[i], d) /\ de[i] = Away(W, r[i], e)
    BY <2>2
  <2> HIDE DEF d, e, r, W, dp, de, part, s, T, D
  <2> DEFINE x == dp[i]
             y == de[i]
             z == r[i]
  <2>4. /\ x \in Int /\ y \in Int
        /\ x - y - (W - t) * (d - e) \in Int
        /\ x - y - (W - t) * (d - e) >= 0
        /\ x - y - (W - t) * (d - e) = 0 => d = e \/ (2 * z = t /\ d \in 0..1)
    <3>0. x - y - (W - t) * (d - e) = Excess(W, t, z, e, d)
      BY <2>3 DEF Excess
    <3>1. x = Away(W, z, d) /\ y = Away(W, z, e)
      BY <2>3
    <3>2. z \in 0..W-1 /\ (e = 1 => 2 * z >= t) /\ (e = 0 => 2 * z <= t)
      BY <2>1
    <3> HIDE DEF x, y, z
    <3> QED
      BY <1>2, <2>1, <3>0, <3>1, <3>2, Cheapest
  <2>5. moved[i] = d - e /\ moved[i] = p[i] - part[i] /\ rest[i] = dp[i] - de[i]
        /\ gain[i] = rest[i] - (W - t) * moved[i]
    BY <2>2
  <2>6. ASSUME gain[i] = 0
        PROVE  \/ p[i] = part[i]
               \/ /\ 2 * r[i] = t
                  /\ IF i \in T THEN p[i] < part[i] ELSE p[i] > part[i]
    <3>1. d = e \/ (2 * r[i] = t /\ d \in 0..1)
      BY <2>4, <2>5, <2>6
    <3>2. p[i] - part[i] = d - e /\ p[i] \in Int /\ part[i] \in Int
      BY <1>1, <1>5, <2>2
    <3> QED
      BY <2>1, <3>1, <3>2 DEF e
  <2>7. moved[i] \in Int /\ rest[i] \in Int
    BY <2>1, <2>4, <2>5
  <2> HIDE DEF moved, rest, gain
  <2> QED
    BY <2>4, <2>5, <2>6, <2>7
<1> HIDE DEF dp, de, moved, rest, gain, r, s, part, T, W, D, P, E
<1>9. W - t \in Int
  BY <1>2
<1>10. SumFunctionOnSet(moved, D) = 0
  <2>1. SumFunctionOnSet(p, D) = amount
    BY <1>1 DEF AmountsTotal
  <2>2. SumFunctionOnSet(part, D) = amount
    BY <1>4, AllocateAddsUp DEF AmountsTotal, part
  <2>3. /\ \A i \in D : part[i] \in Int
        /\ \A i \in D : moved[i] \in Int
        /\ \A i \in D : p[i] = 1 * part[i] + moved[i]
    BY <1>1, <1>5, <1>8
  <2>4. SumFunctionOnSet(p, D) = 1 * SumFunctionOnSet(part, D) + SumFunctionOnSet(moved, D)
    BY <1>1, <2>3, SumLinear
  <2>5. SumFunctionOnSet(moved, D) \in Int
    BY <1>1, <1>8, SumType
  <2> QED
    BY <2>1, <2>2, <2>4, <2>5
<1>11. SumFunctionOnSet(rest, D) = SumFunctionOnSet(gain, D)
  <2>1. /\ \A i \in D : moved[i] \in Int
        /\ \A i \in D : gain[i] \in Int
        /\ \A i \in D : rest[i] = (W - t) * moved[i] + gain[i]
    BY <1>8, <1>9
  <2>2. SumFunctionOnSet(rest, D) = (W - t) * SumFunctionOnSet(moved, D) + SumFunctionOnSet(gain, D)
    BY <1>1, <1>9, <2>1, SumLinear
  <2>3. SumFunctionOnSet(gain, D) \in Int
    BY <1>1, <1>8, SumType
  <2> QED
    BY <1>9, <1>10, <2>2, <2>3
<1>12. P = E + SumFunctionOnSet(gain, D) /\ E \in Int
  <2>1. /\ \A i \in D : de[i] \in Int
        /\ \A i \in D : rest[i] \in Int
        /\ \A i \in D : dp[i] = 1 * de[i] + rest[i]
    BY <1>8
  <2>2. SumFunctionOnSet(dp, D) = 1 * SumFunctionOnSet(de, D) + SumFunctionOnSet(rest, D)
    BY <1>1, <2>1, SumLinear
  <2>3. SumFunctionOnSet(de, D) \in Int
    BY <1>1, <2>1, SumType
  <2> QED
    BY <1>7, <1>11, <2>2, <2>3
<1>13. SumFunctionOnSet(gain, D) \in Int /\ SumFunctionOnSet(gain, D) >= 0
  BY <1>1, <1>8, SumType
<1>14. ASSUME SumFunctionOnSet(gain, D) = 0
       PROVE  FavoursEarlier(part, p)
  <2>1. \A i \in D : gain[i] = 0
    BY <1>1, <1>8, <1>14, SumNothing
  <2>2. \A i \in D : p[i] # part[i] =>
          2 * r[i] = t /\ IF i \in T THEN p[i] < part[i] ELSE p[i] > part[i]
    BY <1>8, <2>1
  <2> DEFINE off == {i \in D : p[i] # part[i]}
  <2>3. off # {}
    <3>1. p = [i \in D |-> p[i]] /\ part = [i \in D |-> part[i]]
      BY <1>1, <1>4 DEF part, D, Allocate
    <3> QED
      BY <3>1 DEF part
  <2>4. off \in SUBSET Nat
    BY DEF D
  <2>5. PICK i \in off : \A j \in off : i <= j
    <3> HIDE DEF off
    <3> QED
      BY <2>3, <2>4, LeastNat
  <2>6. i \in T
    <3> SUFFICES ASSUME i \notin T PROVE FALSE
      OBVIOUS
    <3>1. moved[i] > 0
      BY <1>1, <1>5, <1>8, <2>2
    <3>2. PICK j \in D : moved[j] < 0
      <4> SUFFICES ASSUME \A j \in D : moved[j] >= 0 PROVE FALSE
        BY <1>8
      <4>1. moved[i] = 0
        BY <1>1, <1>8, <1>10, SumNothing
      <4> QED
        BY <3>1, <4>1
    <3>3. j \in T /\ j \in off
      BY <1>1, <1>5, <1>8, <2>2, <3>2
    <3>4. r[i] = r[j]
      BY <1>3, <2>2, <3>3
    <3>5. r[j] > r[i] \/ j < i
      BY <3>3, LuckyFirst DEF r, T, D
    <3>6. i \in Nat /\ j \in Nat /\ i <= j /\ r[i] \in Int
      BY <1>3, <2>4, <2>5, <3>3
    <3> QED
      BY <3>4, <3>5, <3>6
  <2>7. part[i] > p[i]
    BY <1>1, <1>5, <2>2, <2>6
  <2>8. \A j \in D : j < i => part[j] = p[j]
    <3> TAKE j \in D
    <3>1. j \in Nat /\ i \in Nat
      BY <2>4 DEF D
    <3> QED
      BY <2>5, <3>1
  <2> QED
    BY <1>4, <2>7, <2>8 DEF FavoursEarlier
<1> QED
  BY <1>12, <1>13, <1>14 DEF P, E, part

\* The inputs of the contract are what resolveMilestoneAmounts works on.
LEMMA AuthoredType ==
  ASSUME NEW authored \in Seq(MilestoneInput)
  PROVE  /\ IsFiniteSet(DOMAIN authored) /\ DOMAIN authored \subseteq Int
         /\ \A i \in DOMAIN authored : authored[i] \in MilestoneInput
         /\ \A i \in Fixed(authored) : authored[i].amountMinor \in Int
         /\ \A i \in Percentages(authored) : authored[i].basisPoints \in 1..BasisPoints
         /\ \A i \in DOMAIN authored : authored[i].condition \in Conditions
<1>1. DOMAIN authored = 1..Len(authored) /\ Len(authored) \in Nat
  OBVIOUS
<1>2. IsFiniteSet(DOMAIN authored)
  BY <1>1, FS_Interval
<1>3. \A i \in DOMAIN authored : authored[i] \in MilestoneInput
  OBVIOUS
<1> QED
  BY <1>1, <1>2, <1>3 DEF MilestoneInput, Fixed, Percentages

\* The percentages of a schedule that resolves are weights for what the fixed amounts
\* leave.
LEMMA PercentagesShare ==
  ASSUME NEW authored \in Seq(MilestoneInput), NEW sum \in Int, Resolvable(authored, sum),
         Percentages(authored) # {}
  PROVE  /\ DOMAIN Weights(authored) = Percentages(authored)
         /\ Percentages(authored) \subseteq Nat
         /\ Weighted(Weights(authored))
         /\ sum - FixedTotal(authored) \in Nat
<1> DEFINE X == Fixed(authored)
           P == Percentages(authored)
           weights == Weights(authored)
           fixed == [i \in X |-> authored[i].amountMinor]
<1>1. IsFiniteSet(DOMAIN authored) /\ X \in SUBSET DOMAIN authored /\ P \in SUBSET DOMAIN authored
  BY AuthoredType DEF Fixed, Percentages
<1>2. IsFiniteSet(X) /\ IsFiniteSet(P)
  BY <1>1, FS_Subset
<1>3. DOMAIN weights = P /\ \A i \in P : weights[i] \in Nat
  BY AuthoredType DEF Weights
<1>4. AmountsTotal(weights) > 0
  BY DEF Resolvable, PointsTotal, BasisPoints
<1>5. DOMAIN authored = 1..Len(authored) /\ Len(authored) \in Nat
  OBVIOUS
<1>6. P \subseteq Nat
  BY <1>1, <1>5
<1>7. Weighted(weights)
  BY <1>2, <1>3, <1>4, <1>6 DEF Weighted
<1>8. sum - FixedTotal(authored) \in Nat
  <2>1. \A i \in X : fixed[i] \in Int
    BY AuthoredType
  <2>2. FixedTotal(authored) = SumFunctionOnSet(fixed, X)
    BY DEF FixedTotal, AmountsTotal
  <2> HIDE DEF fixed, X
  <2>3. FixedTotal(authored) \in Int /\ FixedTotal(authored) <= sum
    BY <1>2, <2>1, <2>2, SumType DEF Resolvable
  <2> QED
    BY <2>3
<1> QED
  BY <1>3, <1>6, <1>7, <1>8

\* Fixed amounts and percentages mixed, the amounts of a schedule that resolves sum
\* to the total.
THEOREM ResolvedAddsUp ==
  ASSUME NEW authored \in Seq(MilestoneInput), NEW sum \in Int, Resolvable(authored, sum)
  PROVE  /\ AmountsTotal(Resolved(authored, sum)) = sum
         /\ \A i \in DOMAIN authored : Resolved(authored, sum)[i] \in Int
<1> DEFINE D == DOMAIN authored
           X == Fixed(authored)
           P == Percentages(authored)
           fixed == [i \in X |-> authored[i].amountMinor]
           weights == Weights(authored)
           shares == Allocate(sum - FixedTotal(authored), weights)
           all == Resolved(authored, sum)
<1>1. IsFiniteSet(D) /\ X \in SUBSET D /\ P = D \ X /\ D \subseteq Int
  BY AuthoredType DEF Fixed, Percentages
<1>2. IsFiniteSet(X) /\ IsFiniteSet(P)
  BY <1>1, FS_Subset
<1>3. \A i \in X : fixed[i] \in Int
  BY AuthoredType
<1>4. FixedTotal(authored) = SumFunctionOnSet(fixed, X)
  BY DEF FixedTotal, AmountsTotal
<1>5. FixedTotal(authored) \in Int /\ FixedTotal(authored) <= sum
  <2> HIDE DEF fixed, X
  <2> QED
    BY <1>2, <1>3, <1>4, SumType DEF Resolvable
<1>6. DOMAIN all = D /\ \A i \in D : all[i] = IF i \in X THEN fixed[i] ELSE shares[i]
  BY DEF Resolved
<1>7. ASSUME P # {}
      PROVE  /\ DOMAIN shares = P /\ AmountsTotal(shares) = sum - FixedTotal(authored)
             /\ \A i \in P : shares[i] \in Int
  <2>1. DOMAIN weights = P /\ Weighted(weights) /\ sum - FixedTotal(authored) \in Nat
    BY <1>7, PercentagesShare
  <2>5. AmountsTotal(shares) = sum - FixedTotal(authored)
    BY <2>1, AllocateAddsUp
  <2>6. DOMAIN shares = P
    BY <2>1 DEF Allocate
  <2>7. \A i \in P : shares[i] \in Int
    <3>1. \A i \in P : Share(sum - FixedTotal(authored), weights, i) \in Int
      BY <2>1, ShareType
    <3> QED
      BY <2>1, <3>1 DEF Allocate
  <2> QED
    BY <2>5, <2>6, <2>7
<1> HIDE DEF all, shares, fixed, weights, D, X, P
<1>8. \A i \in D : all[i] \in Int
  BY <1>1, <1>3, <1>6, <1>7
<1>9. SumFunctionOnSet(all, D) = SumFunctionOnSet(all, X) + SumFunctionOnSet(all, P)
  BY <1>1, <1>8, SumSplit
<1>10. SumFunctionOnSet(all, X) = FixedTotal(authored)
  <2>1. \A i \in X : all[i] \in Int /\ all[i] = fixed[i]
    BY <1>1, <1>6, <1>8
  <2> QED
    BY <1>2, <1>4, <2>1, SumSame
<1>11. SumFunctionOnSet(all, P) = sum - FixedTotal(authored)
  <2>1. CASE P = {}
    <3>1. SumFunctionOnSet(all, P) = 0
      BY <1>2, <2>1, SumOfZeros
    <3>2. FixedTotal(authored) = sum
      BY <2>1 DEF Resolvable, P
    <3> QED
      BY <1>5, <3>1, <3>2
  <2>2. CASE P # {}
    <3>1. \A i \in P : all[i] \in Int /\ all[i] = shares[i]
      BY <1>1, <1>6, <1>8
    <3>2. SumFunctionOnSet(all, P) = SumFunctionOnSet(shares, P)
      BY <1>2, <3>1, SumSame
    <3> QED
      BY <1>7, <2>2, <3>2 DEF AmountsTotal
  <2> QED
    BY <2>1, <2>2
<1>12. AmountsTotal(all) = SumFunctionOnSet(all, D)
  BY <1>6 DEF AmountsTotal
<1> QED
  BY <1>5, <1>8, <1>9, <1>10, <1>11, <1>12 DEF all, D

-----------------------------------------------------------------------------
(* The terms of a deal                                                     *)

\* The variables have their types, a deal that is not written has no terms, and an
\* offer was made before today.
TermsTypeOK ==
  /\ stage \in {"none", "draft", "offered", "accepted"}
  /\ IsFiniteSet(DOMAIN milestone)
  /\ \A m \in DOMAIN milestone : milestone[m].amount \in Int /\ milestone[m].condition \in Conditions
  /\ total \in Int
  /\ IsFiniteSet(slots) /\ approved \subseteq slots
  /\ today \in Nat /\ offeredOn \in 0..today
  /\ stage = "none" => milestone = <<>> /\ approved = {}

\* What the brand authors, or the one milestone it stands for, is an input of the
\* contract.
LEMMA AuthoredIsInput ==
  ASSUME NEW draft \in DraftSet
  PROVE  Authored(draft) \in Seq(MilestoneInput) /\ draft.total \in Int
<1>1. draft.schedule \in Seq(MilestoneInput) /\ draft.total \in Int
  BY TermsAssumption DEF TermsAssumption
<1>2. [type |-> "ALL_DELIVERABLES_APPROVED"] \in Conditions
  BY DEF Conditions
<1>3. [kind |-> "fixed", amountMinor |-> draft.total,
       condition |-> [type |-> "ALL_DELIVERABLES_APPROVED"]] \in MilestoneInput
  BY <1>1, <1>2 DEF MilestoneInput
<1> QED
  BY <1>1, <1>3 DEF Authored

\* A deal is written with the amounts its schedule resolves to.
LEMMA DealIsResolved ==
  ASSUME NEW draft \in DraftSet, CreateDeal(draft)
  PROVE  /\ Resolvable(Authored(draft), draft.total)
         /\ DOMAIN milestone' = DOMAIN Resolved(Authored(draft), draft.total)
         /\ DOMAIN milestone' = DOMAIN Authored(draft)
         /\ \A i \in DOMAIN milestone' :
              /\ milestone'[i].amount = Resolved(Authored(draft), draft.total)[i]
              /\ milestone'[i].condition = Authored(draft)[i].condition
              /\ milestone'[i].basisPoints = Points(draft, i)
<1>1. Amounts(draft) # Refused
  BY DEF CreateDeal, NoProblems
<1>2. Resolvable(Authored(draft), draft.total)
  BY <1>1 DEF Amounts, Resolve
<1>3. Amounts(draft) = Resolved(Authored(draft), draft.total)
  BY <1>2 DEF Amounts, Resolve
<1>4. DOMAIN Amounts(draft) = DOMAIN Authored(draft)
  BY <1>3 DEF Resolved
<1>5. milestone' = [i \in DOMAIN Amounts(draft) |->
                     [condition |-> Authored(draft)[i].condition,
                      amount |-> Amounts(draft)[i],
                      basisPoints |-> Points(draft, i)]]
  BY DEF CreateDeal
<1> QED
  BY <1>2, <1>3, <1>4, <1>5

\* The type invariant of the terms.
THEOREM TermsTyped == TermsSpec => []TermsTypeOK
<1>1. TermsInit => TermsTypeOK
  BY FS_EmptySet DEF TermsInit, TermsTypeOK
<1>2. TermsTypeOK /\ [TermsNext]_termVars => TermsTypeOK'
  <2> SUFFICES ASSUME TermsTypeOK, [TermsNext]_termVars PROVE TermsTypeOK'
    OBVIOUS
  <2> USE DEF TermsTypeOK
  <2>1. CASE UNCHANGED termVars
    BY <2>1 DEF termVars, agreementVars, offerVars
  <2>2. ASSUME NEW draft \in DraftSet, CreateDeal(draft) PROVE TermsTypeOK'
    <3>1. /\ Authored(draft) \in Seq(MilestoneInput) /\ draft.total \in Int
          /\ IsFiniteSet(draft.deliverables)
      BY AuthoredIsInput, TermsAssumption DEF TermsAssumption
    <3>2. IsFiniteSet(DOMAIN milestone')
      BY <2>2, <3>1, DealIsResolved, AuthoredType
    <3>3. \A m \in DOMAIN milestone' :
            milestone'[m].amount \in Int /\ milestone'[m].condition \in Conditions
      BY <2>2, <3>1, DealIsResolved, AuthoredType, ResolvedAddsUp
    <3>4. /\ stage = "none" /\ stage' = "draft" /\ total' = draft.total
          /\ slots' = draft.deliverables
          /\ UNCHANGED <<approved, offerVars, today>>
      BY <2>2 DEF CreateDeal
    <3> QED
      BY <3>1, <3>2, <3>3, <3>4 DEF offerVars
  <2>3. CASE Load \/ Offer \/ Accept
    BY <2>3 DEF Load, Offer, Accept, agreementVars, offerVars
  <2>4. ASSUME NEW d \in slots, ApproveWork(d) PROVE TermsTypeOK'
    BY <2>4 DEF ApproveWork, agreementVars, offerVars
  <2>5. CASE DayPasses
    BY <2>5 DEF DayPasses, agreementVars, offerVars
  <2> QED
    BY <2>1, <2>2, <2>3, <2>4, <2>5 DEF TermsNext
<1> QED
  BY <1>1, <1>2, PTL DEF TermsSpec

\* Whatever is authored, the milestones of a stored deal sum to its total.
THEOREM ScheduleAddsUpHolds == TermsSpec => []ScheduleAddsUp
<1>1. TermsInit => ScheduleAddsUp
  <2> SUFFICES ASSUME TermsInit PROVE ScheduleAddsUp
    OBVIOUS
  <2>1. milestone = <<>> /\ total = 0
    BY DEF TermsInit
  <2> DEFINE f == [m \in DOMAIN milestone |-> milestone[m].amount]
  <2>2. DOMAIN f = {}
    BY <2>1
  <2>3. AmountOf(DOMAIN milestone) = SumFunctionOnSet(f, DOMAIN f)
    BY DEF AmountOf, AmountsTotal
  <2> HIDE DEF f
  <2>4. SumFunctionOnSet(f, {}) = 0
    BY FS_EmptySet, SumOfZeros
  <2> QED
    BY <2>1, <2>2, <2>3, <2>4 DEF ScheduleAddsUp
<1>2. ScheduleAddsUp /\ [TermsNext]_termVars => ScheduleAddsUp'
  <2> SUFFICES ASSUME ScheduleAddsUp, [TermsNext]_termVars PROVE ScheduleAddsUp'
    OBVIOUS
  <2>1. ASSUME NEW draft \in DraftSet, CreateDeal(draft) PROVE ScheduleAddsUp'
    <3> DEFINE f == [m \in DOMAIN milestone' |-> milestone'[m].amount]
               all == Resolved(Authored(draft), draft.total)
    <3>1. /\ Authored(draft) \in Seq(MilestoneInput) /\ draft.total \in Int
          /\ Resolvable(Authored(draft), draft.total)
          /\ DOMAIN milestone' = DOMAIN all /\ DOMAIN milestone' = DOMAIN Authored(draft)
          /\ \A i \in DOMAIN milestone' : milestone'[i].amount = all[i]
      BY <2>1, AuthoredIsInput, DealIsResolved
    <3>2. f = [m \in DOMAIN all |-> all[m]]
      BY <3>1
    <3>3. all = [m \in DOMAIN all |-> all[m]]
      BY DEF Resolved
    <3>4. AmountsTotal(f) = draft.total
      BY <3>1, <3>2, <3>3, ResolvedAddsUp
    <3>5. total' = draft.total
      BY <2>1 DEF CreateDeal
    <3> QED
      BY <3>4, <3>5 DEF ScheduleAddsUp, AmountOf, AmountsTotal
  <2>2. CASE UNCHANGED <<milestone, total>>
    BY <2>2 DEF ScheduleAddsUp, AmountOf, AmountsTotal
  <2> QED
    BY <2>1, <2>2 DEF TermsNext, Load, Offer, Accept, ApproveWork, DayPasses,
                      termVars, agreementVars
<1> QED
  BY <1>1, <1>2, PTL DEF TermsSpec

\* Whatever is authored, no other way to share out what the fixed amounts leave is nearer
\* to the percentages, and an equally near one does not favour the earlier milestones more.
THEOREM SplitIsNearestHolds == TermsSpec => []SplitIsNearest
<1> DEFINE shared == {m \in DOMAIN milestone : milestone[m].basisPoints > 0}
           weights == [m \in shared |-> milestone[m].basisPoints]
           parts == [m \in shared |-> milestone[m].amount]
           amount == AmountOf(shared)
<1>1. ASSUME shared = {} PROVE SplitIsNearest
  <2>1. \A p \in Splits(amount, weights) : p = parts
    BY <1>1 DEF Splits
  <2> QED
    BY <2>1 DEF SplitIsNearest
<1>2. TermsInit => SplitIsNearest
  BY <1>1 DEF TermsInit
<1>3. SplitIsNearest /\ [TermsNext]_termVars => SplitIsNearest'
  <2> SUFFICES ASSUME SplitIsNearest, [TermsNext]_termVars PROVE SplitIsNearest'
    OBVIOUS
  <2>1. ASSUME NEW draft \in DraftSet, CreateDeal(draft) PROVE SplitIsNearest'
    <3> DEFINE authored == Authored(draft)
               left == draft.total - FixedTotal(authored)
               P == Percentages(authored)
    <3>1. /\ authored \in Seq(MilestoneInput) /\ draft.total \in Int
          /\ Resolvable(authored, draft.total)
          /\ DOMAIN milestone' = DOMAIN authored
          /\ \A i \in DOMAIN milestone' :
               /\ milestone'[i].amount = Resolved(authored, draft.total)[i]
               /\ milestone'[i].basisPoints = Points(draft, i)
      BY <2>1, AuthoredIsInput, DealIsResolved
    <3>2. shared' = P
      BY <3>1, AuthoredType DEF Points, Percentages
    <3>3. CASE P = {}
      <4>1. \A p \in Splits(amount', weights') : p = parts'
        BY <3>2, <3>3 DEF Splits
      <4> QED
        BY <4>1 DEF SplitIsNearest
    <3>4. CASE P # {}
      <4>1. weights' = Weights(authored)
        BY <3>1, <3>2, AuthoredType DEF Points, Weights, Percentages
      <4>2. /\ DOMAIN Weights(authored) = P /\ P \subseteq Nat
            /\ Weighted(Weights(authored)) /\ left \in Nat
        BY <3>1, <3>4, PercentagesShare
      <4>3. parts' = Allocate(left, Weights(authored))
        <5>1. \A i \in P : milestone'[i].amount = Allocate(left, Weights(authored))[i]
          BY <3>1, <3>2 DEF Resolved, Percentages
        <5>2. Allocate(left, Weights(authored)) = [i \in P |-> Allocate(left, Weights(authored))[i]]
          BY <4>2 DEF Allocate
        <5> QED
          BY <3>2, <5>1, <5>2
      <4>4. amount' = left
        <5>1. amount' = AmountsTotal(parts')
          BY DEF AmountOf
        <5> QED
          BY <4>2, <4>3, <5>1, AllocateAddsUp
      <4>5. ASSUME NEW p \in Splits(amount', weights') \ {parts'}
            PROVE  \/ Distance(amount', weights', p) > Distance(amount', weights', parts')
                   \/ /\ Distance(amount', weights', p) = Distance(amount', weights', parts')
                      /\ FavoursEarlier(parts', p)
        <5>1. p \in [DOMAIN Weights(authored) -> Int] /\ AmountsTotal(p) = left
          BY <4>1, <4>4, <4>5 DEF Splits
        <5>2. p # Allocate(left, Weights(authored))
          BY <4>3, <4>5
        <5> HIDE DEF left, authored
        <5> QED
          BY <4>1, <4>2, <4>3, <4>4, <5>1, <5>2, AllocateIsNearest
      <4> QED
        BY <4>5 DEF SplitIsNearest
    <3> QED
      BY <3>3, <3>4
  <2>2. CASE UNCHANGED milestone
    BY <2>2 DEF SplitIsNearest, AmountOf
  <2> QED
    BY <2>1, <2>2 DEF TermsNext, Load, Offer, Accept, ApproveWork, DayPasses,
                      termVars, agreementVars
<1> QED
  BY <1>2, <1>3, PTL DEF TermsSpec

\* A condition carries the parameters of its type.
LEMMA ConditionType ==
  ASSUME NEW c \in Conditions
  PROVE  /\ c.type = "DELIVERABLES_APPROVED_COUNT" => c.count \in Nat
         /\ c.type = "DATE_REACHED" => c.at \in Int
BY DEF Conditions

\* With nothing approved, more than the deal knew at the start is satisfied only by
\* a date that has come since.
LEMMA OnlyDatesCome ==
  ASSUME NEW c \in Conditions, NEW m, NEW n \in Nat, NEW then \in Int, NEW now \in Int,
         Satisfied(c, m, [approved |-> {}, total |-> n, manual |-> {}, now |-> now]),
         ~SatisfiableAtStart(c, then)
  PROVE  c.type = "DATE_REACHED" /\ c.at > then
<1> DEFINE f == [approved |-> {}, total |-> n, manual |-> {}, now |-> now]
           g == [approved |-> {}, total |-> 0, manual |-> {}, now |-> then]
<1>1. Satisfied(c, m, f) /\ ~Satisfied(c, Disclosure, g)
  BY DEF SatisfiableAtStart, EmptyDeal
<1>2. /\ f.approved = {} /\ f.manual = {} /\ f.total = n
      /\ g.approved = {} /\ g.manual = {} /\ g.now = then
  OBVIOUS
<1>3. Cardinality({}) = 0
  BY FS_EmptySet
<1> HIDE DEF f, g
<1>4. ~(f.total # 0 /\ f.total - Cardinality(f.approved) <= 0)
  BY <1>2, <1>3
<1>5. c.type = "DATE_REACHED" /\ ~(g.now >= c.at)
  BY <1>1, <1>2, <1>4 DEF Satisfied
<1>6. c.at \in Int
  BY <1>5, ConditionType
<1> QED
  BY <1>2, <1>5, <1>6

\* Whatever the terms, what the engine can satisfy of an offered deal before any
\* work is in the figure the brand consented to, but for dates that come later.
THEOREM AdvanceIsConsentedHolds == TermsSpec => []AdvanceIsConsented
<1> DEFINE Consented ==
      stage \in {"offered", "accepted"} => consented = AmountOf(AtStart(offeredOn))
<1>1. TermsInit => Consented
  BY DEF TermsInit
<1>2. Consented /\ [TermsNext]_termVars => Consented'
  <2> SUFFICES ASSUME Consented, [TermsNext]_termVars PROVE Consented'
    OBVIOUS
  <2>1. CASE /\ UNCHANGED <<milestone, consented, offeredOn>>
             /\ stage' = stage \/ (stage = "offered" /\ stage' = "accepted")
    BY <2>1 DEF AmountOf, AmountsTotal, AtStart, Condition
  <2>2. CASE Offer
    <3>1. /\ screen = AmountOf(AtStart(today)) /\ consented' = screen /\ offeredOn' = today
          /\ milestone' = milestone
      BY <2>2 DEF Offer, Advance, agreementVars
    <3> QED
      BY <3>1 DEF AmountOf, AmountsTotal, AtStart, Condition
  <2>3. ASSUME NEW draft \in DraftSet, CreateDeal(draft) PROVE Consented'
    BY <2>3 DEF CreateDeal
  <2>4. ASSUME UNCHANGED termVars \/ Load \/ Accept \/ DayPasses \/ \E d \in slots : ApproveWork(d)
        PROVE  /\ UNCHANGED <<milestone, consented, offeredOn>>
               /\ stage' = stage \/ (stage = "offered" /\ stage' = "accepted")
    BY <2>4 DEF Load, Accept, ApproveWork, DayPasses, termVars, agreementVars, offerVars
  <2> HIDE DEF Consented
  <2> QED
    BY <2>1, <2>2, <2>3, <2>4 DEF TermsNext
<1>3. TermsTypeOK /\ Consented => AdvanceIsConsented
  <2> SUFFICES ASSUME TermsTypeOK, NEW m \in Unlocked({}), m \notin AtStart(offeredOn)
               PROVE  Condition[m].type = "DATE_REACHED" /\ Condition[m].at > offeredOn
    BY DEF AdvanceIsConsented
  <2>1. DOMAIN Condition = DOMAIN milestone
    BY DEF Condition
  <2>2. /\ m \in DOMAIN milestone
        /\ Satisfied(Condition[m], m,
             [approved |-> {}, total |-> Cardinality(slots), manual |-> {}, now |-> today])
    BY <2>1 DEF Unlocked, ToRelease
  <2>3. Condition[m] \in Conditions
    BY <2>2 DEF TermsTypeOK, Condition
  <2>4. ~SatisfiableAtStart(Condition[m], offeredOn)
    BY <2>2 DEF AtStart
  <2>5. Cardinality(slots) \in Nat /\ offeredOn \in Int /\ today \in Int
    BY FS_CardinalityType DEF TermsTypeOK
  <2> QED
    BY <2>2, <2>3, <2>4, <2>5, OnlyDatesCome
<1> QED
  BY <1>1, <1>2, <1>3, TermsTyped, PTL DEF TermsSpec

\* More work and more time satisfy no less.
LEMMA SatisfiedStays ==
  ASSUME NEW c \in Conditions, NEW m, NEW n \in Nat, NEW now \in Int, NEW later \in Int,
         now <= later, NEW B, IsFiniteSet(B), NEW A \in SUBSET B,
         Satisfied(c, m, [approved |-> A, total |-> n, manual |-> {}, now |-> now])
  PROVE  Satisfied(c, m, [approved |-> B, total |-> n, manual |-> {}, now |-> later])
<1> DEFINE f == [approved |-> A, total |-> n, manual |-> {}, now |-> now]
           g == [approved |-> B, total |-> n, manual |-> {}, now |-> later]
<1>1. /\ f.approved = A /\ f.manual = {} /\ f.total = n /\ f.now = now
      /\ g.approved = B /\ g.manual = {} /\ g.total = n /\ g.now = later
  OBVIOUS
<1>2. Satisfied(c, m, f)
  OBVIOUS
<1>3. Cardinality(A) <= Cardinality(B) /\ Cardinality(A) \in Nat /\ Cardinality(B) \in Nat
  BY FS_Subset, FS_CardinalityType
<1>4. /\ c.type = "DELIVERABLES_APPROVED_COUNT" => c.count \in Nat
      /\ c.type = "DATE_REACHED" => c.at \in Int
  BY ConditionType
<1> HIDE DEF f, g
<1>5. Satisfied(c, m, g)
  BY <1>1, <1>2, <1>3, <1>4 DEF Satisfied
<1> QED
  BY <1>5 DEF g

\* Once true, true forever.
THEOREM StaysSatisfiedHolds == TermsSpec => StaysSatisfied
<1>1. TermsTypeOK /\ TermsTypeOK' /\ [TermsNext]_termVars =>
        [stage # "none" => Unlocked(approved) \subseteq Unlocked(approved)']_termVars
  <2> SUFFICES ASSUME TermsTypeOK, TermsTypeOK', TermsNext, stage # "none"
               PROVE  Unlocked(approved) \subseteq Unlocked(approved)'
    OBVIOUS
  <2>1. /\ milestone' = milestone /\ slots' = slots
        /\ approved \subseteq approved' /\ today <= today'
    <3>1. \A draft \in DraftSet : ~CreateDeal(draft)
      BY DEF CreateDeal
    <3> QED
      BY <3>1 DEF TermsNext, Load, Offer, Accept, ApproveWork, DayPasses, agreementVars,
                  TermsTypeOK
  <2>2. SUFFICES ASSUME NEW m \in Unlocked(approved) PROVE m \in Unlocked(approved)'
    OBVIOUS
  <2>3. Condition' = Condition /\ DOMAIN Condition = DOMAIN milestone
    BY <2>1 DEF Condition
  <2>4. /\ m \in DOMAIN milestone
        /\ Satisfied(Condition[m], m,
             [approved |-> approved, total |-> Cardinality(slots), manual |-> {}, now |-> today])
    BY <2>3 DEF Unlocked, ToRelease
  <2>5. Condition[m] \in Conditions
    BY <2>4 DEF TermsTypeOK, Condition
  <2>6. /\ Cardinality(slots) \in Nat /\ today \in Int /\ today' \in Int
        /\ IsFiniteSet(approved')
    <3>1. IsFiniteSet(slots) /\ IsFiniteSet(slots') /\ approved' \in SUBSET slots'
      BY DEF TermsTypeOK
    <3> QED
      BY <3>1, FS_CardinalityType, FS_Subset DEF TermsTypeOK
  <2>7. Satisfied(Condition[m], m,
          [approved |-> approved', total |-> Cardinality(slots), manual |-> {}, now |-> today'])
    BY <2>1, <2>4, <2>5, <2>6, SatisfiedStays
  <2> QED
    BY <2>1, <2>3, <2>4, <2>7 DEF Unlocked, ToRelease
<1> QED
  BY <1>1, TermsTyped, PTL DEF TermsSpec, StaysSatisfied
====
