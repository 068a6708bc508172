------------------------------- MODULE Review -------------------------------
(***************************************************************************)
(* The review of the work of one deal: ReviewService.approve,              *)
(* undoApproval and requestChanges, CreatorService.submit, and the figure  *)
(* ReviewController compares an approval with.                             *)
(*                                                                         *)
(* A call reads, decides on what it read, and writes in a transaction of   *)
(* its own; the calls of reviewers and of the creator interleave between   *)
(* these.  A committed approval is known by the call that wrote it.  No    *)
(* code cancels a deliverable, changes the milestones of an agreement or   *)
(* sets releasedAt; the release job, which is to act on what is satisfied  *)
(* once an approval can no longer be undone, is not written yet.           *)
(***************************************************************************)
EXTENDS Milestones

CONSTANTS
  Deliverable,
  Condition,    \* Condition[m]: the condition of each milestone m of the deal
  Amount,       \* Amount[m]: its amount
  Reviewer,     \* members whose role has deliverable:review
  Limit,        \* Limit[u]: deliverable:release authority of u, 0 for none
  Call,         \* the calls that are made
  Asserted,     \* expectedReleaseMinor of approvals
  NoAssertion,
  LastDay       \* bounds the clock

Milestone == DOMAIN Condition

\* The numbers a condition compares with.
ConditionTypeOK(c) ==
  /\ c.type = "DELIVERABLES_APPROVED_COUNT" => c.count \in Int
  /\ c.type = "DATE_REACHED" => c.at \in Int

ASSUME ReviewAssumption ==
  /\ IsFiniteSet(Deliverable) /\ Deliverable # {} /\ Reviewer # {}
  /\ \A m \in Milestone : ConditionTypeOK(Condition[m])
  /\ Amount \in [Milestone -> Nat \ {0}]
  /\ Limit \in [Reviewer -> Nat]
  /\ Asserted \subseteq Nat \cup {NoAssertion}
  /\ LastDay \in Nat

VARIABLES
  state,        \* deliverable.state
  version,      \* deliverable.version
  submissions,  \* how many submissions a deliverable has: they are versions 1 to this
  approvals,    \* calls that wrote an APPROVED review
  live,         \* those of them with voidedAt null
  undoable,     \* those of them made less than UNDO_WINDOW_MS ago
  open,         \* the deal is accepted or active
  today,
  pc,           \* how far each call has come
  job,          \* what it has read
  outrun        \* history: calls whose facts changed after they read them

workVars == <<state, version, submissions>>
decisionVars == <<approvals, live, undoable>>
callVars == <<pc, job>>
vars == <<workVars, decisionVars, open, today, callVars, outrun>>

AnyDeliverable == CHOOSE d \in Deliverable : TRUE
AnyReviewer == CHOOSE u \in Reviewer : TRUE

NoJob == [of |-> AnyDeliverable, by |-> AnyReviewer, submission |-> 0, version |-> 0,
          seen |-> 0, asserted |-> NoAssertion, moves |-> {}, target |-> {}]

Approved == {d \in Deliverable : state[d] = "approved"}

Facts(approved) ==
  [approved |-> approved, total |-> Cardinality(Deliverable), manual |-> {},
   now |-> today]

\* Mistake: the facts are taken without the approval that is asked for.
WithoutIt(d) == {}

\* wouldSatisfyMilestones.
WouldSatisfy(d) ==
  ToRelease(Condition, {}, Facts(Approved \cup {d}))
    \ ToRelease(Condition, {}, Facts(Approved))

AmountOf(S) == MapThenSumSet(LAMBDA m : Amount[m], S)

\* assertMayApprove: authority is asked for when money moves, for all of it.
MayApprove(u, moves) == moves # {} => Limit[u] > 0 /\ AmountOf(moves) <= Limit[u]

-----------------------------------------------------------------------------
\* Work may already have been handed in for review.
Init ==
  /\ submissions \in [Deliverable -> {0, 1}]
  /\ state = [d \in Deliverable |->
                IF submissions[d] = 0 THEN "pending" ELSE "in_review"]
  /\ version = [d \in Deliverable |-> 0]
  /\ approvals = {} /\ live = {} /\ undoable = {}
  /\ open = TRUE
  /\ today = 0
  /\ pc = [q \in Call |-> "new"]
  /\ job = [q \in Call |-> NoJob]
  /\ outrun = {}

\* The call has read what it needs and goes on to step l.
Begin(q, l, j) ==
  /\ pc[q] = "new"
  /\ pc' = [pc EXCEPT ![q] = l]
  /\ job' = [job EXCEPT ![q] = j]
  /\ UNCHANGED <<workVars, decisionVars, open, today>>

Answer(q, a) == pc' = [pc EXCEPT ![q] = a]

\* The answer is given and what the call had read is forgotten.
Done(q, a) ==
  /\ Answer(q, a)
  /\ job' = [job EXCEPT ![q] = NoJob]
  /\ UNCHANGED <<open, today>>

\* Nothing is written: a guard matched no row, or the transaction rolled back.
Conflict(q) == Done(q, "refused") /\ UNCHANGED <<workVars, decisionVars>>

\* The deliverable is as the call read it.
Unmoved(q) == version[job[q].of] = job[q].version

Move(d, s) ==
  /\ state' = [state EXCEPT ![d] = s]
  /\ version' = [version EXCEPT ![d] = @ + 1]

-----------------------------------------------------------------------------
(* approve                                                                 *)

\* The request names submission n of d, which need not be the latest one: only
\* the deliverable's version is as it is now.
LoadForApproval(q, u, d, n, e) ==
  /\ n \in 1..submissions[d]
  /\ state[d] \notin {"approved", "cancelled"}
  /\ Begin(q, "loaded",
       [NoJob EXCEPT !.of = d, !.by = u, !.submission = n, !.version = version[d],
                     !.seen = submissions[d], !.asserted = e])

\* There is nothing to approve any more.
ApproveTooLate(q, d) ==
  /\ pc[q] = "new"
  /\ state[d] \in {"approved", "cancelled"}
  /\ Conflict(q)

\* The facts, the milestones and the authority the approval takes.
Weigh(q) ==
  LET moves == WouldSatisfy(job[q].of)
  IN  /\ pc[q] = "loaded"
      /\ MayApprove(job[q].by, moves)
      /\ Answer(q, "weighed")
      /\ job' = [job EXCEPT ![q].moves = moves]
      /\ UNCHANGED <<workVars, decisionVars, open, today>>

NotAuthorised(q) ==
  /\ pc[q] = "loaded"
  /\ ~MayApprove(job[q].by, WouldSatisfy(job[q].of))
  /\ Conflict(q)

\* The partial unique index on live approvals.
NoLiveApproval(d) == \A p \in live : job[p].of # d

\* Mistake: the figure is not compared.
ExpectsAnything(q) == TRUE

\* The controller looks at the client's figure when the approval is committed.
AsExpected(q) == job[q].asserted \in {NoAssertion, AmountOf(job[q].moves)}

\* Mistake: neither the version nor the index stops the write.
ApproveUnguarded(q) ==
  /\ pc[q] = "weighed"
  /\ Move(job[q].of, "approved")
  /\ approvals' = approvals \cup {q}
  /\ live' = live \cup {q}
  /\ undoable' = undoable \cup {q}
  /\ Answer(q, IF AsExpected(q) THEN "approved" ELSE "forbidden")
  /\ UNCHANGED <<submissions, job, open, today>>

Approve(q) ==
  /\ pc[q] = "weighed"
  /\ NoLiveApproval(job[q].of) /\ Unmoved(q)
  /\ Move(job[q].of, "approved")
  /\ approvals' = approvals \cup {q}
  /\ live' = live \cup {q}
  /\ undoable' = undoable \cup {q}
  /\ Answer(q, IF AsExpected(q) THEN "approved" ELSE "forbidden")
  /\ UNCHANGED <<submissions, job, open, today>>

ApproveConflicts(q) ==
  /\ pc[q] = "weighed"
  /\ ~(NoLiveApproval(job[q].of) /\ Unmoved(q))
  /\ Conflict(q)

-----------------------------------------------------------------------------
(* undoApproval                                                            *)

FindApproval(q, p) ==
  /\ p \in live \cap undoable
  /\ Begin(q, "undoing", [NoJob EXCEPT !.of = job[p].of, !.target = {p}])

\* There is no such approval, or it is too late to undo it.
UndoTooLate(q, p) ==
  /\ pc[q] = "new"
  /\ p \notin live \cap undoable
  /\ Conflict(q)

\* Mistake: a review that was voided since is voided again.
UndoAgain(q) ==
  /\ pc[q] = "undoing"
  /\ live' = live \ job[q].target
  /\ Move(job[q].of, "in_review")
  /\ Done(q, "undone")
  /\ UNCHANGED <<submissions, approvals, undoable>>

Undo(q) ==
  /\ pc[q] = "undoing"
  /\ job[q].target \subseteq live
  /\ live' = live \ job[q].target
  /\ Move(job[q].of, "in_review")
  /\ Done(q, "undone")
  /\ UNCHANGED <<submissions, approvals, undoable>>

UndoConflicts(q) ==
  /\ pc[q] = "undoing"
  /\ ~ job[q].target \subseteq live
  /\ Conflict(q)

\* UNDO_WINDOW_MS passes.
WindowCloses(p) ==
  /\ p \in undoable
  /\ undoable' = undoable \ {p}
  /\ UNCHANGED <<workVars, approvals, live, open, today, callVars>>

-----------------------------------------------------------------------------
(* requestChanges                                                          *)

\* Whichever submission the request names, the deliverable is sent back.
LoadForChanges(q, d) ==
  /\ submissions[d] > 0
  /\ Begin(q, "returning", [NoJob EXCEPT !.of = d, !.version = version[d]])

\* Mistake: approvedAt is cleared, and the CHECK has nothing to object to.
SendBackApproved(q) ==
  /\ pc[q] = "returning"
  /\ Unmoved(q)
  /\ Move(job[q].of, "changes_requested")
  /\ Done(q, "returned")
  /\ UNCHANGED <<submissions, decisionVars>>

\* deliverable_approved_at_matches_state: an approved deliverable keeps its
\* approvedAt, so it cannot be sent back.
SendBack(q) ==
  /\ pc[q] = "returning"
  /\ Unmoved(q) /\ state[job[q].of] # "approved"
  /\ Move(job[q].of, "changes_requested")
  /\ Done(q, "returned")
  /\ UNCHANGED <<submissions, decisionVars>>

\* The update matched no row, which nobody looks at: only the review is there.
SendBackMisses(q) ==
  /\ pc[q] = "returning"
  /\ ~Unmoved(q)
  /\ Done(q, "returned")
  /\ UNCHANGED <<workVars, decisionVars>>

SendBackViolates(q) ==
  /\ pc[q] = "returning"
  /\ Unmoved(q) /\ state[job[q].of] = "approved"
  /\ Conflict(q)

-----------------------------------------------------------------------------
(* submit                                                                  *)

LoadForSubmit(q, d) ==
  /\ open
  /\ state[d] \notin {"approved", "cancelled"}
  /\ Begin(q, "submitting",
       [NoJob EXCEPT !.of = d, !.version = version[d], !.seen = submissions[d]])

\* The number of the submission is taken from what was read, under a unique
\* index.
Submit(q) ==
  LET d == job[q].of
  IN  /\ pc[q] = "submitting"
      /\ submissions[d] = job[q].seen /\ Unmoved(q)
      /\ submissions' = [submissions EXCEPT ![d] = @ + 1]
      /\ Move(d, "in_review")
      /\ Done(q, "submitted")
      /\ UNCHANGED decisionVars

SubmitConflicts(q) ==
  /\ pc[q] = "submitting"
  /\ ~(submissions[job[q].of] = job[q].seen /\ Unmoved(q))
  /\ Conflict(q)

-----------------------------------------------------------------------------
(* The world around                                                        *)

DealEnds ==
  /\ open
  /\ open' = FALSE
  /\ UNCHANGED <<workVars, decisionVars, today, callVars>>

DayPasses ==
  /\ today < LastDay
  /\ today' = today + 1
  /\ UNCHANGED <<workVars, decisionVars, open, callVars>>

-----------------------------------------------------------------------------
\* A call that has weighed its approval is outrun when the facts change.
Observe ==
  outrun' = IF Facts(Approved)' = Facts(Approved) THEN outrun
            ELSE outrun \cup {q \in Call : pc[q] = "weighed"}

\* A call begins; what it asserts of an approval is one of the figures.
ReadsWith(q, figures) ==
  \/ \E d \in Deliverable :
       \/ \E u \in Reviewer, n \in 1..submissions[d], e \in figures :
            LoadForApproval(q, u, d, n, e)
       \/ ApproveTooLate(q, d)
       \/ LoadForChanges(q, d) \/ LoadForSubmit(q, d)
  \/ \E p \in Call : FindApproval(q, p) \/ UndoTooLate(q, p)

Reads(q) == ReadsWith(q, Asserted)

Writes(q) ==
  \/ Weigh(q) \/ NotAuthorised(q)
  \/ Approve(q) \/ ApproveConflicts(q)
  \/ Undo(q) \/ UndoConflicts(q)
  \/ SendBack(q) \/ SendBackMisses(q) \/ SendBackViolates(q)
  \/ Submit(q) \/ SubmitConflicts(q)

Step ==
  \/ \E q \in Call : Reads(q) \/ Writes(q) \/ WindowCloses(q)
  \/ DealEnds \/ DayPasses

Next == Step /\ Observe

Spec == Init /\ [][Next]_vars

-----------------------------------------------------------------------------
States == {"pending", "in_review", "changes_requested", "approved"}

Progress == {"new", "loaded", "weighed", "undoing", "returning", "submitting",
             "approved", "forbidden", "undone", "returned", "submitted", "refused"}

Job == [of : Deliverable, by : Reviewer, submission : Nat, version : Nat, seen : Nat,
        asserted : Asserted \cup {NoAssertion}, moves : SUBSET Milestone,
        target : SUBSET Call]

ReviewTypeOK ==
  /\ state \in [Deliverable -> States]
  /\ version \in [Deliverable -> Nat]
  /\ submissions \in [Deliverable -> Nat]
  /\ \A d \in Deliverable : state[d] = "pending" <=> submissions[d] = 0
  /\ approvals \subseteq Call
  /\ live \subseteq approvals /\ undoable \subseteq approvals
  /\ open \in BOOLEAN
  /\ today \in 0..LastDay
  /\ pc \in [Call -> Progress]
  /\ job \in [Call -> Job]
  /\ outrun \subseteq Call

\* A deliverable counts toward its milestones exactly when one approval of it is
\* live, whatever approvals, undos, new submissions and requests for changes
\* crossed.  "Two live approvals on one deliverable would make it count twice."
CountsOnce ==
  \A d \in Deliverable :
    LET ofIt == {p \in live : job[p].of = d}
    IN  /\ state[d] = "approved" <=> ofIt # {}
        /\ \A p, q \in ofIt : p = q

\* The work an approval is of is not replaced under it: if the submission that was
\* approved was the latest one when the server read it, it is the latest as long
\* as the approval stands.  Nothing compares it with the latest at that read: an
\* approval of a submission that was superseded before stands as well.
ApprovalNotSuperseded ==
  \A p \in live :
    \/ job[p].submission = submissions[job[p].of]
    \/ job[p].submission < job[p].seen /\ job[p].seen = submissions[job[p].of]

\* A milestone that is satisfied stays so until an approval is undone: neither
\* a late submission nor a late request for changes takes money back.
OnlyUndoTakesBack ==
  [][live \subseteq live' =>
       ToRelease(Condition, {}, Facts(Approved))
         \subseteq ToRelease(Condition, {}, Facts(Approved))']_vars

\* An approval satisfies the milestones its reviewer was held to have authority
\* for, and no other, unless the facts changed after they were weighed.
WeighedAsSatisfied ==
  [][\A q \in approvals' \ approvals :
       q \notin outrun =>
         ToRelease(Condition, {}, Facts(Approved))'
           = ToRelease(Condition, {}, Facts(Approved)) \cup job[q].moves]_vars

=============================================================================
