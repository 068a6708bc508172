---------------------------- MODULE ReviewScreen ----------------------------
(***************************************************************************)
(* A reviewer at the review screen of the console, composed with the       *)
(* server of module Review: the queue ReviewQueueService.build returns,    *)
(* the rows and the collapsed bar the screen makes of it, the batch of     *)
(* approvals with its BULK_CONCURRENCY workers, and the releasing lane.    *)
(*                                                                         *)
(* What is pressed is answered later, against what the server has by then; *)
(* a request or its answer may be lost.  Other people act as well, with    *)
(* calls that no request of this screen is made for.  No checks are        *)
(* computed yet, so a row is in the queue by itself exactly when approving *)
(* it alone would release money.                                           *)
(* The callback of a mutation belongs to the library (TanStack Query): it  *)
(* runs only for the latest request that was made with its hook.           *)
(***************************************************************************)
EXTENDS Review

CONSTANTS
  Me,                \* the reviewer at the screen
  Elsewhere,         \* calls that others may make as well
  BULK_CONCURRENCY,
  Nothing

ASSUME ScreenAssumption ==
  /\ Me \in Reviewer /\ Elsewhere \subseteq Call
  /\ BULK_CONCURRENCY \in Nat \ {0}
  /\ Nothing \notin Call
  /\ {0, NoAssertion} \subseteq Asserted /\ NoAssertion # 0
  /\ \A S \in SUBSET Milestone : AmountOf(S) \in Asserted \ {NoAssertion}

VARIABLES
  page,      \* the queue as it was last loaded
  request,   \* what each call was made for
  answered,  \* calls whose answer the screen has dealt with
  bulk,      \* the batch: what is still to be sent, and the counts of the bar
  lane,      \* approvals that are shown as releasing
  shown,     \* history: approvals that have been in the lane
  latest     \* the latest request made with useApproveSubmission, useUndoApproval

serverVars == vars
screenVars == <<page, request, answered, bulk, lane, shown, latest>>
everything == <<serverVars, screenVars>>

Release(d) == AmountOf(WouldSatisfy(d))

NeedsAttention(d) == Release(d) > 0

\* The latest submission, in a row of its own and in the collapsed bar.
Row(d) == [of |-> d, submission |-> submissions[d], releases |-> Release(d)]
Cleared(d) == [of |-> d, submission |-> submissions[d]]

\* build: work that waits for a decision, in deals that are open.
Queue ==
  LET waiting == IF open THEN {d \in Deliverable : state[d] = "in_review"} ELSE {}
      alone == {d \in waiting : NeedsAttention(d)}
  IN  [rows |-> {Row(d) : d \in alone}, cleared |-> {Cleared(d) : d \in waiting \ alone}]

NoRequest == [for |-> "none", of |-> AnyDeliverable, submission |-> 0,
              target |-> Nothing, expected |-> 0, via |-> "none"]

NoBulk == [on |-> FALSE, todo |-> {}, total |-> 0, done |-> 0, failed |-> 0]

ScreenInit ==
  /\ Init
  /\ page = Queue
  /\ request = [q \in Call |-> NoRequest]
  /\ answered = {}
  /\ bulk = NoBulk
  /\ lane = {} /\ shown = {}
  /\ latest = [approve |-> Nothing, undo |-> Nothing]

-----------------------------------------------------------------------------
(* The screen                                                              *)

\* Nobody has made the call yet.
Unsent(q) == request[q] = NoRequest /\ pc[q] = "new"

InFlight(q) == q \notin answered /\ request[q] # NoRequest

\* Which of the calls that are left is made next makes no difference.
IsNext(q) == Unsent(q) /\ q = CHOOSE free \in Call : Unsent(free)

Send(q, r) ==
  /\ IsNext(q)
  /\ request' = [request EXCEPT ![q] = r]

\* The hook refetches on success, every ten seconds and when the window has the
\* focus.
Refetch ==
  /\ page # Queue
  /\ page' = Queue
  /\ UNCHANGED <<serverVars, request, answered, bulk, lane, shown, latest>>

\* approveRow, on any row that is shown.
ApproveRow(q, row) ==
  /\ row \in page.rows
  /\ Send(q, [NoRequest EXCEPT !.for = "approve", !.of = row.of, !.via = "row",
                               !.submission = row.submission, !.expected = row.releases])
  /\ latest' = [latest EXCEPT !.approve = q]
  /\ UNCHANGED <<serverVars, page, answered, bulk, lane, shown>>

\* approveCleared: nothing happens while there is a batch, finished or not.
ApproveCleared ==
  /\ ~bulk.on /\ page.cleared # {}
  /\ bulk' = [NoBulk EXCEPT !.on = TRUE, !.todo = page.cleared,
                            !.total = Cardinality(page.cleared)]
  /\ UNCHANGED <<serverVars, page, request, answered, lane, shown, latest>>

Busy == {q \in Call : InFlight(q) /\ request[q].via = "bulk"}

\* One of the workers takes the next of the batch.
Shift(q, next) ==
  /\ next \in bulk.todo
  /\ Cardinality(Busy) < BULK_CONCURRENCY
  /\ Send(q, [NoRequest EXCEPT !.for = "approve", !.of = next.of, !.via = "bulk",
                               !.submission = next.submission])
  /\ bulk' = [bulk EXCEPT !.todo = @ \ {next}]
  /\ latest' = [latest EXCEPT !.approve = q]
  /\ UNCHANGED <<serverVars, page, answered, lane, shown>>

UndoRelease(q, p) ==
  /\ p \in lane
  /\ Send(q, [NoRequest EXCEPT !.for = "undo", !.target = p])
  /\ latest' = [latest EXCEPT !.undo = q]
  /\ UNCHANGED <<serverVars, page, answered, bulk, lane, shown>>

SendChanges(q, row) ==
  /\ row \in page.rows
  /\ Send(q, [NoRequest EXCEPT !.for = "changes", !.of = row.of])
  /\ UNCHANGED <<serverVars, page, answered, bulk, lane, shown, latest>>

-----------------------------------------------------------------------------
(* The answers                                                             *)

\* Mistake: what failed is not counted.
CountedIfDone(q, ok) ==
  IF request[q].via # "bulk" THEN bulk
  ELSE IF ok THEN [bulk EXCEPT !.done = @ + 1] ELSE bulk

\* The batch counts what came of one of its approvals.
Counted(q, ok) ==
  IF request[q].via # "bulk" THEN bulk
  ELSE IF ok THEN [bulk EXCEPT !.done = @ + 1] ELSE [bulk EXCEPT !.failed = @ + 1]

Calls(hook, q) == latest[hook] = q

\* Mistake: the row leaves the lane whatever the answer is.
LaneAtOnce(q) ==
  CASE request[q].via = "row" /\ pc[q] = "approved" /\ Calls("approve", q) -> lane \cup {q}
    [] request[q].for = "undo" -> lane \ {request[q].target}
    [] OTHER -> lane

\* Approvals of rows go into the lane, and undone ones leave it.
Lane(q) ==
  CASE request[q].via = "row" /\ pc[q] = "approved" /\ Calls("approve", q) -> lane \cup {q}
    [] request[q].for = "undo" /\ pc[q] = "undone" /\ Calls("undo", q) ->
         lane \ {request[q].target}
    [] OTHER -> lane

Settled == {"approved", "forbidden", "undone", "returned", "refused"}

Answered(q) ==
  /\ InFlight(q) /\ pc[q] \in Settled
  /\ answered' = answered \cup {q}
  /\ bulk' = Counted(q, pc[q] = "approved")
  /\ lane' = Lane(q)
  /\ shown' = shown \cup lane'
  /\ UNCHANGED <<serverVars, page, request, latest>>

\* The request or its answer is lost, which reads as a failure.
Lost(q) ==
  /\ InFlight(q)
  /\ answered' = answered \cup {q}
  /\ bulk' = Counted(q, FALSE)
  /\ UNCHANGED <<serverVars, page, request, lane, shown, latest>>

-----------------------------------------------------------------------------
(* The server                                                              *)

\* A request arrives, in time or too late.
Arrives(q) ==
  LET r == request[q]
  IN  \/ /\ r.for = "approve"
         /\ LoadForApproval(q, Me, r.of, r.submission, r.expected)
            \/ ApproveTooLate(q, r.of)
      \/ r.for = "undo" /\ (FindApproval(q, r.target) \/ UndoTooLate(q, r.target))
      \/ r.for = "changes" /\ LoadForChanges(q, r.of)

Serve(q) == Arrives(q) \/ Writes(q)

\* What others assert decides only the answers they get.
Server ==
  /\ \/ \E q \in Call : Serve(q) \/ WindowCloses(q)
     \/ \E q \in Elsewhere : IsNext(q) /\ ReadsWith(q, {NoAssertion})
     \/ DealEnds \/ DayPasses
  /\ Observe
  /\ UNCHANGED screenVars

Screen ==
  \/ Refetch \/ ApproveCleared
  \/ \E q \in Call :
       \/ \E row \in page.rows : ApproveRow(q, row) \/ SendChanges(q, row)
       \/ \E next \in bulk.todo : Shift(q, next)
       \/ \E p \in lane : UndoRelease(q, p)
       \/ Answered(q) \/ Lost(q)

ScreenNext == Server \/ Screen

\* The server answers and the workers of a batch go on.
ScreenFairness ==
  \A q \in Call :
    /\ WF_everything(Serve(q) /\ Observe /\ UNCHANGED screenVars)
    /\ WF_everything(Answered(q))
    /\ WF_everything(\E next \in bulk.todo : Shift(q, next))

ScreenSpec == ScreenInit /\ [][ScreenNext]_everything /\ ScreenFairness

-----------------------------------------------------------------------------
\* The variables have their types, and the batch loses no submission: what is
\* not counted is under way or still to be sent.
ScreenTypeOK ==
  /\ \A row \in page.rows : row.of \in Deliverable /\ row.releases \in Nat
  /\ \A q \in Call : request[q].for \in {"none", "approve", "undo", "changes"}
  /\ answered \subseteq Call /\ lane \subseteq shown /\ shown \subseteq Call
  /\ \A work \in page.cleared \cup bulk.todo :
       work.of \in Deliverable /\ work.submission \in Nat
  /\ bulk.done + bulk.failed + Cardinality(Busy) + Cardinality(bulk.todo) = bulk.total

\* An approval the screen reports as done satisfied milestones of exactly the
\* amount it showed, unless the facts changed while the server had it: "a stale
\* queue must not approve an amount the reviewer never saw".
ApprovedAsShown ==
  [][\A q \in approvals' \ approvals :
       pc'[q] = "approved" /\ request[q].for = "approve" /\ q \notin outrun =>
         AmountOf(ToRelease(Condition, {}, Facts(Approved))'
                    \ ToRelease(Condition, {}, Facts(Approved))) = request[q].expected]_everything

\* The lane shows what the server has done: a row enters it when its approval is
\* written, and has left it only when the approval is void.
LaneIsTruthful == shown \subseteq approvals /\ (shown \ lane) \cap live = {}

\* A batch comes to an end, whatever fails: the bar counts all of it, unless the
\* calls of the model are used up.
BatchEnds ==
  bulk.on ~> \/ bulk.done + bulk.failed = bulk.total
             \/ bulk.todo # {} /\ \A q \in Call : ~Unsent(q)

-----------------------------------------------------------------------------
(* What a comment of the repository says and the code does not do          *)

\* "A bulk approve that silently moved money would be the single worst defect
\* this screen could have."
BulkMovesNothing ==
  [][\A q \in approvals' \ approvals :
       request[q].via = "bulk" =>
         ToRelease(Condition, {}, Facts(Approved))' \subseteq ToRelease(Condition, {}, Facts(Approved))]_everything
=============================================================================
