---------------------------- MODULE ReviewProofs ----------------------------
(***************************************************************************)
(* What holds of the review of a deal for every set of deliverables,       *)
(* conditions, reviewers and calls.  The versions carry the argument: a    *)
(* call that still finds the version it read has read nothing stale        *)
(* (Reads), and an approval that is live is the one of its deliverable.    *)
(***************************************************************************)
EXTENDS ReviewScreen, TLAPS, FiniteSetTheorems

\* The answers that end a call for good.
Ended == {"approved", "forbidden", "undone", "returned", "submitted", "refused"}

\* Work that a call has read of was handed in, and an approval has its call's answer.
Handed ==
  /\ \A q \in Call :
       pc[q] \in {"loaded", "weighed", "undoing", "returning", "approved", "forbidden"} =>
         submissions[job[q].of] # 0
  /\ \A p \in approvals : pc[p] \in {"approved", "forbidden"}

\* What a call knows that has read.
ReadsOK(q) ==
  /\ pc[q] # "new" => job[q].version <= version[job[q].of]
  /\ pc[q] \in {"loaded", "weighed"} =>
       /\ job[q].submission <= job[q].seen
       /\ Unmoved(q) => submissions[job[q].of] = job[q].seen
  /\ pc[q] = "submitting" /\ Unmoved(q) => state[job[q].of] # "approved"
  /\ pc[q] = "undoing" =>
       \E p \in approvals : job[q].target = {p} /\ job[p].of = job[q].of

KnownOK == \A q \in Call : ReadsOK(q)

-----------------------------------------------------------------------------
\* The steps, one by one.
LEMMA NextCases ==
  ASSUME Next
  PROVE \/ \E q \in Call, d \in Deliverable, u \in Reviewer, e \in Asserted :
             \E n \in 1..submissions[d] : LoadForApproval(q, u, d, n, e)
        \/ \E q \in Call, d \in Deliverable : LoadForChanges(q, d) \/ LoadForSubmit(q, d)
        \/ \E q \in Call, p \in Call : FindApproval(q, p)
        \/ \E q \in Call, d \in Deliverable : ApproveTooLate(q, d)
        \/ \E q \in Call, p \in Call : UndoTooLate(q, p)
        \/ \E q \in Call : Weigh(q) \/ NotAuthorised(q) \/ Approve(q) \/ ApproveConflicts(q)
        \/ \E q \in Call : Undo(q) \/ UndoConflicts(q)
        \/ \E q \in Call : SendBack(q) \/ SendBackMisses(q) \/ SendBackViolates(q)
        \/ \E q \in Call : Submit(q) \/ SubmitConflicts(q) \/ WindowCloses(q)
        \/ DealEnds \/ DayPasses
  BY DEF Next, Step, Reads, ReadsWith, Writes

\* A call that has read nothing has a well-formed job.
LEMMA NoJobType == NoJob \in Job
<1>1. AnyDeliverable \in Deliverable /\ AnyReviewer \in Reviewer
  BY ReviewAssumption DEF ReviewAssumption, AnyDeliverable, AnyReviewer
<1> QED
  BY <1>1 DEF NoJob, Job

\* A step of q is of no other call.
OthersStay(q) == \A r \in Call \ {q} : pc'[r] = pc[r] /\ job'[r] = job[r]

\* A call begins with a read.
LEMMA BeginType ==
  ASSUME ReviewTypeOK, Handed, NEW q \in Call, NEW l \in Progress, NEW j \in Job,
         Begin(q, l, j), outrun' \subseteq Call, submissions[j.of] # 0 \/ l = "submitting"
  PROVE  ReviewTypeOK' /\ Handed'
<1>1. ReviewTypeOK'
  BY DEF ReviewTypeOK, Begin, workVars, decisionVars
<1>2. OthersStay(q) /\ pc'[q] = l /\ job'[q] = j /\ pc[q] = "new"
  BY DEF ReviewTypeOK, Begin, OthersStay
<1> QED
  BY <1>1, <1>2 DEF Begin, workVars, decisionVars, Handed, OthersStay, ReviewTypeOK

\* A call ends, and neither the approvals nor what was handed in change.
LEMMA DoneType ==
  ASSUME ReviewTypeOK, Handed, NEW q \in Call, q \notin approvals,
         NEW a \in {"undone", "returned", "submitted", "refused"}, Done(q, a),
         UNCHANGED approvals, \A d \in Deliverable : submissions[d] # 0 => submissions'[d] # 0
  PROVE  /\ pc' \in [Call -> Progress] /\ job' \in [Call -> Job]
         /\ open' \in BOOLEAN /\ today' \in 0..LastDay
         /\ Handed'
<1>1. pc' \in [Call -> Progress] /\ job' \in [Call -> Job]
  BY NoJobType DEF ReviewTypeOK, Done, Answer, Progress
<1>2. OthersStay(q) /\ pc'[q] = a
  BY DEF ReviewTypeOK, Done, Answer, OthersStay
<1>3. \A r \in Call : job[r].of \in Deliverable
  BY DEF ReviewTypeOK, Job
<1>4. Handed'
  BY <1>2, <1>3 DEF Handed, OthersStay, ReviewTypeOK
<1>5. today' \in 0..LastDay
  BY DEF Done, ReviewTypeOK
<1>6. open' \in BOOLEAN
  BY Zenon DEF Done, ReviewTypeOK
<1> QED
  BY <1>1, <1>4, <1>5, <1>6

\* A call that is refused, or that wrote nothing to the work.
LEMMA ConflictType ==
  ASSUME ReviewTypeOK, Handed, NEW q \in Call, NEW a \in {"returned", "refused"}, Done(q, a),
         UNCHANGED <<workVars, decisionVars>>, outrun' \subseteq Call, q \notin approvals
  PROVE  ReviewTypeOK' /\ Handed'
<1>1. /\ pc' \in [Call -> Progress] /\ job' \in [Call -> Job]
      /\ open' \in BOOLEAN /\ today' \in 0..LastDay /\ Handed'
  BY DoneType DEF workVars, decisionVars
<1> QED
  BY <1>1 DEF ReviewTypeOK, workVars, decisionVars

\* Every step keeps the types, and what a call has read of was handed in.
LEMMA TypeStep ==
  ASSUME ReviewTypeOK, Handed, [Next]_vars
  PROVE  ReviewTypeOK' /\ Handed'
<1>1. CASE UNCHANGED vars
  BY <1>1 DEF vars, workVars, decisionVars, callVars, ReviewTypeOK, Handed
<1>2. CASE Next
  <2>1. outrun' \subseteq Call
    BY <1>2 DEF Next, Observe, ReviewTypeOK
  <2>2. ASSUME NEW q \in Call, NEW d \in Deliverable, NEW u \in Reviewer, NEW e \in Asserted,
               NEW n \in 1..submissions[d], LoadForApproval(q, u, d, n, e)
        PROVE ReviewTypeOK' /\ Handed'
    <3> DEFINE j == [NoJob EXCEPT !.of = d, !.by = u, !.submission = n,
                                  !.version = version[d], !.seen = submissions[d],
                                  !.asserted = e]
    <3>0. n \in Nat /\ version[d] \in Nat /\ submissions[d] \in Nat
      BY DEF ReviewTypeOK
    <3>1. j \in Job /\ j.of = d
      BY <3>0, NoJobType DEF Job
    <3>2. Begin(q, "loaded", j) /\ submissions[d] # 0
      BY <2>2 DEF LoadForApproval, ReviewTypeOK
    <3> HIDE DEF j
    <3> QED
      BY <2>1, <3>1, <3>2, BeginType DEF Progress
  <2>3. ASSUME NEW q \in Call, NEW d \in Deliverable, LoadForChanges(q, d)
        PROVE ReviewTypeOK' /\ Handed'
    <3> DEFINE j == [NoJob EXCEPT !.of = d, !.version = version[d]]
    <3>1. j \in Job /\ j.of = d
      BY NoJobType DEF Job, ReviewTypeOK
    <3>2. Begin(q, "returning", j) /\ submissions[d] # 0
      BY <2>3 DEF LoadForChanges, ReviewTypeOK
    <3> HIDE DEF j
    <3> QED
      BY <2>1, <3>1, <3>2, BeginType DEF Progress
  <2>4. ASSUME NEW q \in Call, NEW d \in Deliverable, LoadForSubmit(q, d)
        PROVE ReviewTypeOK' /\ Handed'
    <3> DEFINE j == [NoJob EXCEPT !.of = d, !.version = version[d], !.seen = submissions[d]]
    <3>1. j \in Job
      BY NoJobType DEF Job, ReviewTypeOK
    <3>2. Begin(q, "submitting", j)
      BY <2>4 DEF LoadForSubmit
    <3> HIDE DEF j
    <3> QED
      BY <2>1, <3>1, <3>2, BeginType DEF Progress
  <2>5. ASSUME NEW q \in Call, NEW p \in Call, FindApproval(q, p)
        PROVE ReviewTypeOK' /\ Handed'
    <3> DEFINE j == [NoJob EXCEPT !.of = job[p].of, !.target = {p}]
    <3>1. j \in Job /\ j.of = job[p].of
      BY NoJobType DEF Job, ReviewTypeOK
    <3>2. Begin(q, "undoing", j) /\ p \in live
      BY <2>5 DEF FindApproval
    <3>3. submissions[job[p].of] # 0
      BY <3>2 DEF Handed, ReviewTypeOK
    <3> HIDE DEF j
    <3> QED
      BY <2>1, <3>1, <3>2, <3>3, BeginType DEF Progress
  <2>6. ASSUME NEW q \in Call, Weigh(q) PROVE ReviewTypeOK' /\ Handed'
    <3> DEFINE moves == WouldSatisfy(job[q].of)
               j == [job[q] EXCEPT !.moves = moves]
    <3>1. moves \subseteq Milestone
      BY DEF WouldSatisfy, ToRelease, Milestone
    <3>2. j \in Job /\ j.of = job[q].of
      BY <3>1 DEF Job, ReviewTypeOK
    <3>3. job' = [job EXCEPT ![q] = j] /\ pc' = [pc EXCEPT ![q] = "weighed"] /\ pc[q] = "loaded"
      BY <2>6 DEF Weigh, Answer
    <3> HIDE DEF j
    <3>4. ReviewTypeOK'
      BY <2>1, <2>6, <3>2, <3>3 DEF Weigh, Progress, workVars, decisionVars, ReviewTypeOK
    <3> QED
      BY <2>6, <3>2, <3>3, <3>4 DEF Weigh, workVars, decisionVars, Handed, ReviewTypeOK
  <2>7. ASSUME NEW q \in Call, Approve(q) PROVE ReviewTypeOK' /\ Handed'
    <3>1. job[q].of \in Deliverable /\ submissions[job[q].of] # 0
      BY <2>7 DEF Job, ReviewTypeOK, Approve, Handed
    <3>2. ReviewTypeOK'
      BY <2>1, <2>7, <3>1 DEF Approve, Move, Answer, Progress, States, ReviewTypeOK
    <3> QED
      BY <2>7, <3>2 DEF Approve, Answer, Handed, ReviewTypeOK
  <2>8. ASSUME NEW q \in Call, Undo(q) PROVE ReviewTypeOK' /\ Handed'
    <3>1. /\ job[q].of \in Deliverable /\ submissions[job[q].of] # 0
          /\ q \notin approvals
      BY <2>8 DEF Job, ReviewTypeOK, Undo, Handed
    <3>2. /\ pc' \in [Call -> Progress] /\ job' \in [Call -> Job]
          /\ open' \in BOOLEAN /\ today' \in 0..LastDay /\ Handed'
      BY <2>8, <3>1, DoneType DEF Undo
    <3> QED
      BY <2>1, <2>8, <3>1, <3>2 DEF Undo, Move, States, ReviewTypeOK
  <2>9. ASSUME NEW q \in Call, SendBack(q) PROVE ReviewTypeOK' /\ Handed'
    <3>1. /\ job[q].of \in Deliverable /\ submissions[job[q].of] # 0
          /\ q \notin approvals
      BY <2>9 DEF Job, ReviewTypeOK, SendBack, Handed
    <3>2. /\ pc' \in [Call -> Progress] /\ job' \in [Call -> Job]
          /\ open' \in BOOLEAN /\ today' \in 0..LastDay /\ Handed'
      BY <2>9, <3>1, DoneType DEF SendBack, decisionVars
    <3> QED
      BY <2>1, <2>9, <3>1, <3>2 DEF SendBack, Move, States, ReviewTypeOK, decisionVars
  <2>10. ASSUME NEW q \in Call, Submit(q) PROVE ReviewTypeOK' /\ Handed'
    <3>1. job[q].of \in Deliverable /\ q \notin approvals
      BY <2>10 DEF Job, ReviewTypeOK, Submit, Handed
    <3>2. /\ submissions' \in [Deliverable -> Nat] /\ submissions'[job[q].of] # 0
          /\ \A d \in Deliverable : d # job[q].of => submissions'[d] = submissions[d]
      BY <2>10, <3>1 DEF Submit, ReviewTypeOK
    <3>3. /\ pc' \in [Call -> Progress] /\ job' \in [Call -> Job]
          /\ open' \in BOOLEAN /\ today' \in 0..LastDay /\ Handed'
      BY <2>10, <3>1, <3>2, DoneType DEF Submit, decisionVars
    <3> QED
      BY <2>1, <2>10, <3>1, <3>2, <3>3 DEF Submit, Move, States, ReviewTypeOK, decisionVars
  <2>11. ASSUME NEW q \in Call, SendBackMisses(q) PROVE ReviewTypeOK' /\ Handed'
    <3>1. q \notin approvals
      BY <2>11 DEF SendBackMisses, Handed
    <3> QED
      BY <2>1, <2>11, <3>1, ConflictType DEF SendBackMisses
  <2>12. ASSUME NEW q \in Call, Conflict(q),
                pc[q] \in {"new", "loaded", "weighed", "undoing", "returning", "submitting"}
         PROVE ReviewTypeOK' /\ Handed'
    <3>1. q \notin approvals
      BY <2>12 DEF Handed
    <3> QED
      BY <2>1, <2>12, <3>1, ConflictType DEF Conflict
  <2>13. ASSUME NEW q \in Call, WindowCloses(q) PROVE ReviewTypeOK' /\ Handed'
    BY <2>1, <2>13 DEF WindowCloses, workVars, callVars, ReviewTypeOK, Handed
  <2>14. CASE DealEnds
    <3>1. open' \in BOOLEAN
      BY <2>14, Zenon DEF DealEnds
    <3> QED
      BY <2>1, <2>14, <3>1 DEF DealEnds, workVars, decisionVars, callVars, ReviewTypeOK, Handed
  <2>15. CASE DayPasses
    <3>1. today' \in 0..LastDay
      BY <2>15, ReviewAssumption DEF DayPasses, ReviewAssumption, ReviewTypeOK
    <3> QED
      BY <2>1, <2>15, <3>1 DEF DayPasses, workVars, decisionVars, callVars, ReviewTypeOK, Handed
  <2> QED
    BY <1>2, <2>2, <2>3, <2>4, <2>5, <2>6, <2>7, <2>8, <2>9, <2>10, <2>11, <2>12, <2>13,
       <2>14, <2>15, NextCases
       DEF NotAuthorised, ApproveConflicts, UndoConflicts, SendBackViolates, SubmitConflicts,
             ApproveTooLate, UndoTooLate
<1> QED
  BY <1>1, <1>2

\* Before any call is made.
LEMMA InitTyped ==
  ASSUME Init
  PROVE  ReviewTypeOK /\ Handed
<1>1. ReviewTypeOK
  BY NoJobType, ReviewAssumption DEF Init, ReviewTypeOK, States, Progress, ReviewAssumption
<1> QED
  BY <1>1 DEF Init, Handed

\* The variables have their types: nothing is in review before work was handed in.
THEOREM ReviewTyped == Spec => [](ReviewTypeOK /\ Handed)
<1>1. Init => ReviewTypeOK /\ Handed
  BY InitTyped
<1>2. ReviewTypeOK /\ Handed /\ [Next]_vars => ReviewTypeOK' /\ Handed'
  BY TypeStep
<1> QED
  BY <1>1, <1>2, PTL DEF Spec
-----------------------------------------------------------------------------
(* Versions                                                                *)

\* A deliverable is as it was, or its version has risen.
Risen == \A d \in Deliverable :
  \/ version'[d] = version[d] /\ state'[d] = state[d] /\ submissions'[d] = submissions[d]
  \/ version'[d] > version[d]

\* An approval stays, with what its call had read.
ApprovalsStay ==
  approvals \subseteq approvals' /\ \A p \in approvals : pc'[p] = pc[p] /\ job'[p] = job[p]

Still == UNCHANGED <<workVars, approvals, live>>

\* What a call takes along to step l is true when it reads it.
WellRead(l, j) ==
  /\ j.version <= version[j.of]
  /\ l = "loaded" => submissions[j.of] = j.seen /\ j.submission <= j.seen
  /\ l = "submitting" => state[j.of] # "approved"
  /\ l = "undoing" => \E p \in approvals : j.target = {p} /\ job[p].of = j.of

\* What a step of a call is: a read, an answer, or one of the writes.
StepOf(q) ==
  \/ \E l \in {"loaded", "returning", "submitting", "undoing"}, j \in Job :
       Begin(q, l, j) /\ WellRead(l, j)
  \/ Weigh(q)
  \/ Approve(q) \/ Undo(q) \/ SendBack(q) \/ Submit(q)
  \/ pc[q] \in {"new", "loaded", "weighed", "undoing", "returning", "submitting"}
       /\ Still /\ \E a \in {"returned", "refused"} : Done(q, a)

\* A call that begins.
LEMMA ReadsStep ==
  ASSUME ReviewTypeOK, Handed, NEW q \in Call, Reads(q)
  PROVE  StepOf(q) /\ pc[q] = "new"
<1>1. ASSUME NEW d \in Deliverable, NEW u \in Reviewer, NEW e \in Asserted,
             NEW n \in 1..submissions[d], LoadForApproval(q, u, d, n, e)
      PROVE StepOf(q)
  <2> DEFINE j == [NoJob EXCEPT !.of = d, !.by = u, !.submission = n,
                                !.version = version[d], !.seen = submissions[d],
                                !.asserted = e]
  <2>0. n \in Nat /\ version[d] \in Nat /\ submissions[d] \in Nat /\ n <= submissions[d]
    BY DEF ReviewTypeOK
  <2>1. /\ j \in Job /\ j.of = d /\ j.version = version[d] /\ j.seen = submissions[d]
        /\ j.submission <= j.seen
    BY <2>0, NoJobType DEF Job
  <2>2. Begin(q, "loaded", j) /\ version[d] \in Nat
    BY <1>1 DEF LoadForApproval, ReviewTypeOK
  <2> HIDE DEF j
  <2> QED
    BY <2>1, <2>2 DEF StepOf, WellRead
<1>2. ASSUME NEW d \in Deliverable, LoadForChanges(q, d) PROVE StepOf(q)
  <2> DEFINE j == [NoJob EXCEPT !.of = d, !.version = version[d]]
  <2>1. j \in Job /\ j.of = d /\ j.version = version[d]
    BY NoJobType DEF Job, ReviewTypeOK
  <2>2. Begin(q, "returning", j) /\ version[d] \in Nat
    BY <1>2 DEF LoadForChanges, ReviewTypeOK
  <2> HIDE DEF j
  <2> QED
    BY <2>1, <2>2 DEF StepOf, WellRead
<1>3. ASSUME NEW d \in Deliverable, LoadForSubmit(q, d) PROVE StepOf(q)
  <2> DEFINE j == [NoJob EXCEPT !.of = d, !.version = version[d], !.seen = submissions[d]]
  <2>1. j \in Job /\ j.of = d /\ j.version = version[d]
    BY NoJobType DEF Job, ReviewTypeOK
  <2>2. Begin(q, "submitting", j) /\ version[d] \in Nat /\ state[d] # "approved"
    BY <1>3 DEF LoadForSubmit, ReviewTypeOK
  <2> HIDE DEF j
  <2> QED
    BY <2>1, <2>2 DEF StepOf, WellRead
<1>4. ASSUME NEW p \in Call, FindApproval(q, p) PROVE StepOf(q)
  <2> DEFINE j == [NoJob EXCEPT !.of = job[p].of, !.target = {p}]
  <2>1. j \in Job /\ j.of = job[p].of /\ j.version = 0 /\ j.target = {p}
    BY NoJobType DEF Job, ReviewTypeOK, NoJob
  <2>2. Begin(q, "undoing", j) /\ p \in approvals /\ version[job[p].of] \in Nat
    BY <1>4 DEF FindApproval, ReviewTypeOK, Job
  <2> HIDE DEF j
  <2> QED
    BY <2>1, <2>2 DEF StepOf, WellRead
<1>5. ASSUME NEW d \in Deliverable, NEW p \in Call, ApproveTooLate(q, d) \/ UndoTooLate(q, p)
      PROVE StepOf(q)
  BY <1>5 DEF ApproveTooLate, UndoTooLate, Conflict, StepOf, Still, decisionVars
<1>6. pc[q] = "new"
  BY DEF Reads, ReadsWith, LoadForApproval, LoadForChanges, LoadForSubmit, FindApproval,
         ApproveTooLate, UndoTooLate, Begin
<1>7. Call # {} /\ Deliverable # {}
  BY ReviewAssumption DEF ReviewAssumption
<1> QED
  BY <1>1, <1>2, <1>3, <1>4, <1>5, <1>6, <1>7 DEF Reads, ReadsWith

\* A call that goes on.
LEMMA WritesStep ==
  ASSUME ReviewTypeOK, Handed, NEW q \in Call, Writes(q)
  PROVE  StepOf(q) /\ pc[q] # "new"
<1>1. CASE NotAuthorised(q) \/ ApproveConflicts(q) \/ UndoConflicts(q)
             \/ SendBackViolates(q) \/ SubmitConflicts(q)
  BY <1>1 DEF NotAuthorised, ApproveConflicts, UndoConflicts, SendBackViolates, SubmitConflicts,
              Conflict, StepOf, Still, decisionVars
<1>2. CASE SendBackMisses(q)
  BY <1>2 DEF SendBackMisses, StepOf, Still, decisionVars
<1>3. CASE Weigh(q) \/ Approve(q) \/ Undo(q) \/ SendBack(q) \/ Submit(q)
  BY <1>3 DEF StepOf, Weigh, Approve, Undo, SendBack, Submit
<1> QED
  BY <1>1, <1>2, <1>3 DEF Writes

\* Nothing that a call knows of changes but by a step of a call.
LEMMA StepCases ==
  ASSUME ReviewTypeOK, Handed, Next
  PROVE  \/ \E q \in Call : StepOf(q)
         \/ Still /\ UNCHANGED callVars
<1>1. ASSUME NEW q \in Call, WindowCloses(q) PROVE Still /\ UNCHANGED callVars
  BY <1>1 DEF WindowCloses, Still
<1>2. ASSUME DealEnds \/ DayPasses PROVE Still /\ UNCHANGED callVars
  BY <1>2 DEF DealEnds, DayPasses, Still, decisionVars
<1> QED
  BY <1>1, <1>2, ReadsStep, WritesStep DEF Next, Step

\* Every step leaves the others alone, and a write raises the version.
LEMMA StepRaises ==
  ASSUME ReviewTypeOK, Handed, NEW q \in Call, StepOf(q)
  PROVE  OthersStay(q) /\ Risen /\ ApprovalsStay
<1>1. job[q].of \in Deliverable
  BY DEF ReviewTypeOK, Job
<1>2. OthersStay(q)
  BY DEF StepOf, Begin, Weigh, Approve, Undo, SendBack, Submit, Done, Answer, OthersStay,
         ReviewTypeOK
<1>3. Risen
  <2>1. CASE UNCHANGED workVars
    BY <2>1 DEF workVars, Risen
  <2>2. ASSUME Approve(q) \/ Undo(q) \/ SendBack(q) PROVE Risen
    BY <1>1, <2>2 DEF Approve, Undo, SendBack, Move, Risen, ReviewTypeOK
  <2>3. ASSUME Submit(q) PROVE Risen
    BY <1>1, <2>3 DEF Submit, Move, Risen, ReviewTypeOK
  <2> QED
    BY <2>1, <2>2, <2>3 DEF StepOf, Begin, Weigh, Still
<1>4. ApprovalsStay
  <2>1. q \notin approvals
    BY DEF StepOf, Begin, Weigh, Approve, Undo, SendBack, Submit, Handed
  <2>2. approvals \subseteq approvals'
    BY DEF StepOf, Begin, Weigh, Approve, Undo, SendBack, Submit, Still, decisionVars
  <2> QED
    BY <1>2, <2>1, <2>2 DEF ApprovalsStay, OthersStay, ReviewTypeOK
<1> QED
  BY <1>2, <1>3, <1>4

\* What another call has read stays as good as its version.
LEMMA OthersReads ==
  ASSUME ReviewTypeOK, Risen, ApprovalsStay, NEW r \in Call, ReadsOK(r),
         pc'[r] = pc[r], job'[r] = job[r], version' \in [Deliverable -> Nat]
  PROVE  ReadsOK(r)'
<1> DEFINE d == job[r].of
<1>1. d \in Deliverable /\ job[r].version \in Nat
  BY DEF ReviewTypeOK, Job
<1>2. version[d] \in Nat /\ version'[d] \in Nat
  BY <1>1 DEF ReviewTypeOK
<1>3. pc[r] # "new" => job'[r].version <= version'[d]
  BY <1>1, <1>2 DEF Risen, ReadsOK
<1>4. pc[r] # "new" /\ version'[d] = job[r].version =>
        /\ version[d] = job[r].version
        /\ state'[d] = state[d] /\ submissions'[d] = submissions[d]
  BY <1>1, <1>2 DEF Risen, ReadsOK
<1>5. pc[r] = "undoing" => \E p \in approvals' : job'[r].target = {p} /\ job'[p].of = job'[r].of
  BY DEF ReadsOK, ApprovalsStay
<1> QED
  BY <1>3, <1>4, <1>5 DEF ReadsOK, Unmoved

\* What the call itself has read is good when it has read it, and when it goes on.
LEMMA OwnReads ==
  ASSUME ReviewTypeOK, Handed, NEW q \in Call, StepOf(q), ReadsOK(q),
         version' \in [Deliverable -> Nat], job' \in [Call -> Job]
  PROVE  ReadsOK(q)'
<1>1. ASSUME NEW l \in {"loaded", "returning", "submitting", "undoing"}, NEW j \in Job,
             Begin(q, l, j), WellRead(l, j)
      PROVE ReadsOK(q)'
  <2>1. pc'[q] = l /\ job'[q] = j /\ \A p \in approvals : job'[p] = job[p]
    BY <1>1 DEF Begin, ReviewTypeOK, Handed
  <2> QED
    BY <1>1, <2>1 DEF Begin, WellRead, ReadsOK, Unmoved, workVars, decisionVars
<1>2. CASE Weigh(q)
  <2>1. /\ pc'[q] = "weighed" /\ job'[q].of = job[q].of /\ job'[q].version = job[q].version
        /\ job'[q].seen = job[q].seen /\ job'[q].submission = job[q].submission
    BY <1>2 DEF Weigh, Answer, ReviewTypeOK, Job
  <2> QED
    BY <1>2, <2>1 DEF Weigh, ReadsOK, Unmoved, workVars
<1>3. CASE Approve(q)
  <2>1. job' = job /\ pc'[q] \in {"approved", "forbidden"} /\ pc[q] # "new"
    BY <1>3 DEF Approve, Answer, ReviewTypeOK
  <2>2. job[q].version <= version'[job[q].of]
    <3>1. job[q].of \in Deliverable /\ job[q].version \in Nat
      BY DEF ReviewTypeOK, Job
    <3> QED
      BY <2>1, <3>1, StepRaises DEF Risen, ReadsOK, ReviewTypeOK
  <2> QED
    BY <2>1, <2>2 DEF ReadsOK
<1>4. ASSUME NEW a \in Ended, Done(q, a) PROVE ReadsOK(q)'
  <2>1. pc'[q] = a /\ job'[q] = NoJob
    BY <1>4 DEF Done, Answer, ReviewTypeOK
  <2>2. job'[q].version = 0 /\ version'[job'[q].of] \in Nat
    BY <2>1 DEF NoJob, Job
  <2> QED
    BY <2>1, <2>2 DEF ReadsOK, Ended
<1> QED
  BY <1>1, <1>2, <1>3, <1>4 DEF StepOf, Undo, SendBack, Submit, Ended

-----------------------------------------------------------------------------
(* What counts                                                             *)

\* A live approval names one of the submissions its call read of, and these are all.
AllSeen ==
  \A p \in live : /\ submissions[job[p].of] = job[p].seen
                   /\ job[p].submission <= job[p].seen

Tallied == KnownOK /\ CountsOnce /\ AllSeen

\* A deliverable counts once, and with all its work, whatever crossed.
LEMMA WritesCount ==
  ASSUME ReviewTypeOK, Handed, Tallied, NEW q \in Call, StepOf(q), ReviewTypeOK'
  PROVE  CountsOnce' /\ AllSeen'
<1> USE DEF Tallied
<1>1. /\ ApprovalsStay /\ OthersStay(q) /\ job[q].of \in Deliverable
      /\ \A p \in live : p \in approvals /\ job'[p] = job[p] /\ job[p].of \in Deliverable
  BY StepRaises DEF ApprovalsStay, ReviewTypeOK, Job
<1>2. CASE UNCHANGED <<state, submissions, live>>
  BY <1>1, <1>2 DEF CountsOnce, AllSeen
<1>3. CASE Approve(q)
  <2>1. /\ live' = live \cup {q} /\ submissions' = submissions /\ job' = job
        /\ state' = [state EXCEPT ![job[q].of] = "approved"]
        /\ NoLiveApproval(job[q].of) /\ submissions[job[q].of] = job[q].seen
        /\ job[q].submission <= job[q].seen
    BY <1>3 DEF Approve, Move, KnownOK, ReadsOK
  <2>2. CountsOnce'
    BY <1>1, <2>1 DEF CountsOnce, NoLiveApproval, ReviewTypeOK
  <2> QED
    BY <2>1, <2>2 DEF AllSeen
<1>4. CASE Undo(q)
  <2>1. PICK p \in approvals : job[q].target = {p} /\ job[p].of = job[q].of
    BY <1>4 DEF Undo, KnownOK, ReadsOK
  <2>2. /\ live' = live \ {p} /\ submissions' = submissions /\ p \in live
        /\ state' = [state EXCEPT ![job[q].of] = "in_review"]
    BY <1>4, <2>1 DEF Undo, Move
  <2>3. CountsOnce'
    BY <1>1, <2>1, <2>2 DEF CountsOnce, ReviewTypeOK
  <2> QED
    BY <1>1, <2>2, <2>3 DEF AllSeen
<1>5. CASE SendBack(q)
  <2>1. /\ live' = live /\ submissions' = submissions /\ state[job[q].of] # "approved"
        /\ state' = [state EXCEPT ![job[q].of] = "changes_requested"]
    BY <1>5 DEF SendBack, Move, decisionVars
  <2>2. CountsOnce'
    BY <1>1, <2>1 DEF CountsOnce, ReviewTypeOK
  <2> QED
    BY <1>1, <2>1, <2>2 DEF AllSeen
<1>6. CASE Submit(q)
  <2>1. /\ live' = live /\ state[job[q].of] # "approved"
        /\ state' = [state EXCEPT ![job[q].of] = "in_review"]
        /\ \A d \in Deliverable : d # job[q].of => submissions'[d] = submissions[d]
    BY <1>6 DEF Submit, Move, decisionVars, KnownOK, ReadsOK, ReviewTypeOK
  <2>2. CountsOnce'
    BY <1>1, <2>1 DEF CountsOnce, ReviewTypeOK
  <2>3. \A p \in live : job[p].of # job[q].of
    BY <1>1, <2>1 DEF CountsOnce
  <2> QED
    BY <1>1, <2>1, <2>2, <2>3 DEF AllSeen
<1> QED
  BY <1>2, <1>3, <1>4, <1>5, <1>6 DEF StepOf, Begin, Weigh, Still, workVars, decisionVars

\* The invariant of the calls.
THEOREM ReviewCounted == Spec => []Tallied
<1>1. Init => Tallied
  <2> SUFFICES ASSUME Init PROVE Tallied
    OBVIOUS
  <2>1. KnownOK
    BY DEF Init, KnownOK, ReadsOK
  <2>2. CountsOnce /\ AllSeen
    BY DEF Init, CountsOnce, AllSeen
  <2> QED
    BY <2>1, <2>2 DEF Tallied
<1>2. ReviewTypeOK /\ Handed /\ Tallied /\ [Next]_vars /\ ReviewTypeOK' => Tallied'
  <2> SUFFICES ASSUME ReviewTypeOK, Handed, Tallied, [Next]_vars, ReviewTypeOK' PROVE Tallied'
    OBVIOUS
  <2>1. CASE Still /\ UNCHANGED callVars
    BY <2>1 DEF Still, workVars, callVars, Tallied, KnownOK, ReadsOK, Unmoved, CountsOnce,
                AllSeen
  <2>2. ASSUME NEW q \in Call, StepOf(q) PROVE Tallied'
    <3>1. ASSUME NEW r \in Call \ {q} PROVE ReadsOK(r)'
      BY <2>2, StepRaises, OthersReads DEF OthersStay, Tallied, KnownOK, ReviewTypeOK
    <3>2. ReadsOK(q)'
      BY <2>2, OwnReads DEF Tallied, KnownOK, ReviewTypeOK
    <3> QED
      BY <2>2, <3>1, <3>2, WritesCount DEF Tallied, KnownOK
  <2>3. CASE UNCHANGED vars
    BY <2>1, <2>3 DEF vars, decisionVars, Still
  <2> QED
    BY <2>1, <2>2, <2>3, StepCases
<1> QED
  BY <1>1, <1>2, ReviewTyped, PTL DEF Spec

\* A deliverable counts toward its milestones exactly when one approval is live.
THEOREM CountsOnceHolds == Spec => []CountsOnce
<1>1. Tallied => CountsOnce
  BY DEF Tallied
<1> QED
  BY <1>1, ReviewCounted, PTL

\* What was approved and was the latest submission then is the latest as long as
\* the approval stands.
THEOREM ApprovalNotSupersededHolds == Spec => []ApprovalNotSuperseded
<1>1. ReviewTypeOK /\ Tallied => ApprovalNotSuperseded
  <2> SUFFICES ASSUME ReviewTypeOK, AllSeen, NEW p \in live
               PROVE  \/ job[p].submission = submissions[job[p].of]
                      \/ /\ job[p].submission < job[p].seen
                         /\ job[p].seen = submissions[job[p].of]
    BY DEF Tallied, ApprovalNotSuperseded
  <2>1. job[p].submission \in Nat /\ job[p].seen \in Nat
    BY DEF ReviewTypeOK, Job
  <2> QED
    BY <2>1 DEF AllSeen
<1> QED
  BY <1>1, ReviewTyped, ReviewCounted, PTL

-----------------------------------------------------------------------------
(* What is satisfied                                                       *)

\* More approvals and a later day satisfy no fewer milestones.
LEMMA MoreSatisfiesMore ==
  ASSUME NEW A, NEW B \in SUBSET Deliverable, A \subseteq B,
         NEW s \in Int, NEW t \in Int, s <= t, NEW n \in Int
  PROVE  ToRelease(Condition, {}, [approved |-> A, total |-> n, manual |-> {}, now |-> s])
           \subseteq
         ToRelease(Condition, {}, [approved |-> B, total |-> n, manual |-> {}, now |-> t])
<1>1. /\ IsFiniteSet(A) /\ IsFiniteSet(B)
      /\ Cardinality(A) \in Nat /\ Cardinality(B) \in Nat /\ Cardinality(A) <= Cardinality(B)
  BY ReviewAssumption, FS_Subset, FS_CardinalityType DEF ReviewAssumption
<1>2. ASSUME NEW m \in Milestone,
             Satisfied(Condition[m], m, [approved |-> A, total |-> n, manual |-> {}, now |-> s])
      PROVE  Satisfied(Condition[m], m, [approved |-> B, total |-> n, manual |-> {}, now |-> t])
  <2>1. ConditionTypeOK(Condition[m])
    BY ReviewAssumption DEF ReviewAssumption
  <2> QED
    BY <1>1, <1>2, <2>1 DEF Satisfied, ConditionTypeOK
<1> QED
  BY <1>2 DEF ToRelease, Milestone

\* How many deliverables there are, for the facts.
LEMMA TotalType == Cardinality(Deliverable) \in Int
  BY ReviewAssumption, FS_CardinalityType DEF ReviewAssumption

\* Whatever comes in between, what is satisfied stays so until an approval is undone.
THEOREM OnlyUndoTakesBackHolds == Spec => OnlyUndoTakesBack
<1> DEFINE P == live \subseteq live' =>
              ToRelease(Condition, {}, Facts(Approved))
                \subseteq ToRelease(Condition, {}, Facts(Approved))'
<1>1. /\ ReviewTypeOK /\ Handed /\ Tallied /\ [Next]_vars /\ ReviewTypeOK' /\ Tallied'
      => [P]_vars
  <2> SUFFICES ASSUME ReviewTypeOK, Handed, Tallied, Next, ReviewTypeOK', Tallied',
                      live \subseteq live'
               PROVE  ToRelease(Condition, {}, Facts(Approved))
                        \subseteq ToRelease(Condition, {}, Facts(Approved))'
    OBVIOUS
  <2>1. \A p \in approvals : job'[p] = job[p]
    BY StepCases, StepRaises DEF ApprovalsStay, callVars
  <2>2. Approved \subseteq Approved' /\ Approved' \subseteq Deliverable
    BY <2>1 DEF Approved, Tallied, CountsOnce, ReviewTypeOK
  <2>3. today \in Int /\ today' \in Int /\ today <= today'
    <3>1. today \in Int /\ today' \in Int
      BY DEF ReviewTypeOK
    <3>2. today' = today \/ today' = today + 1
      BY NextCases DEF ApproveTooLate, UndoTooLate, LoadForApproval, LoadForChanges, LoadForSubmit, FindApproval, Begin, Weigh,
         NotAuthorised, Approve, ApproveConflicts, Undo, UndoConflicts, SendBack, SendBackMisses,
         SendBackViolates, Submit, SubmitConflicts, Conflict, Done, WindowCloses, DealEnds,
         DayPasses
    <3> QED
      BY <3>1, <3>2
  <2> QED
    BY <2>2, <2>3, MoreSatisfiesMore, TotalType DEF Facts
<1> QED
  BY <1>1, ReviewTyped, ReviewCounted, PTL DEF Spec, OnlyUndoTakesBack

\* A call that was not outrun still holds the milestones its approval would satisfy.
Fresh == \A q \in Call :
  pc[q] = "weighed" /\ q \notin outrun => job[q].moves = WouldSatisfy(job[q].of)

\* What a call that was not outrun has weighed is what its approval would satisfy now.
THEOREM ReviewFresh == Spec => []Fresh
<1>1. Init => Fresh
  BY DEF Init, Fresh
<1>2. ReviewTypeOK /\ Handed /\ Fresh /\ [Next]_vars => Fresh'
  <2> SUFFICES ASSUME ReviewTypeOK, Handed, Fresh, [Next]_vars,
                      NEW q \in Call, pc'[q] = "weighed", q \notin outrun'
               PROVE  job'[q].moves = WouldSatisfy(job[q].of)'
    BY DEF Fresh
  <2>1. CASE UNCHANGED vars
    BY <2>1 DEF vars, workVars, callVars, Fresh, WouldSatisfy, Facts, Approved
  <2>2. CASE Next
    <3>1. outrun' = IF Facts(Approved)' = Facts(Approved) THEN outrun
                    ELSE outrun \cup {r \in Call : pc[r] = "weighed"}
      BY <2>2 DEF Next, Observe
    <3>2. CASE pc[q] = "weighed" /\ job'[q] = job[q]
      <4>1. Facts(Approved)' = Facts(Approved) /\ q \notin outrun
        BY <3>1, <3>2
      <4>2. Approved' = Approved /\ today' = today
        <5>1. Facts(Approved).approved = Approved /\ Facts(Approved).now = today
          BY DEF Facts
        <5>2. Facts(Approved)'.approved = Approved' /\ Facts(Approved)'.now = today'
          BY DEF Facts
        <5> QED
          BY <4>1, <5>1, <5>2
      <4> QED
        BY <3>2, <4>1, <4>2 DEF Fresh, WouldSatisfy, Facts
    <3>3. CASE Weigh(q)
      <4>1. /\ job'[q].moves = WouldSatisfy(job[q].of) /\ job'[q].of = job[q].of
            /\ Approved' = Approved /\ today' = today
        BY <3>3 DEF Weigh, workVars, Approved, ReviewTypeOK, Job
      <4> QED
        BY <4>1 DEF WouldSatisfy, Facts
    <3>4. ASSUME NEW r \in Call, StepOf(r) PROVE Weigh(q) \/ (pc[q] = "weighed" /\ job'[q] = job[q])
      <4>1. CASE r # q
        BY <3>4, <4>1, StepRaises DEF OthersStay
      <4>2. CASE r = q
        BY <3>4, <4>2 DEF StepOf, Begin, Approve, Undo, SendBack, Submit, Done, Answer, ReviewTypeOK
      <4> QED
        BY <4>1, <4>2
    <3> QED
      BY <2>2, <3>2, <3>3, <3>4, StepCases DEF callVars
  <2> QED
    BY <2>1, <2>2
<1> QED
  BY <1>1, <1>2, ReviewTyped, PTL DEF Spec

\* An approval that was not outrun satisfies what was weighed, and that is new.
LEMMA ApprovalSatisfies ==
  ASSUME ReviewTypeOK, Handed, Fresh, Next, ReviewTypeOK',
         NEW q \in approvals', q \notin approvals, q \notin outrun
  PROVE  /\ Approve(q)
         /\ ToRelease(Condition, {}, Facts(Approved))'
              = ToRelease(Condition, {}, Facts(Approved)) \cup job[q].moves
         /\ job[q].moves \cap ToRelease(Condition, {}, Facts(Approved)) = {}
<1> DEFINE d == job[q].of
<1>1. PICK r \in Call : StepOf(r)
  BY StepCases DEF Still
<1>2. Approve(q)
  BY <1>1 DEF StepOf, Begin, Weigh, Approve, Undo, SendBack, Submit, Still, decisionVars
<1>3. /\ q \in Call /\ d \in Deliverable /\ today' = today
      /\ state' = [state EXCEPT ![d] = "approved"]
      /\ job[q].moves = WouldSatisfy(d)
  BY <1>2 DEF Approve, Move, Fresh, ReviewTypeOK, Job
<1>4. Approved' = Approved \cup {d}
  BY <1>3 DEF Approved, ReviewTypeOK
<1>5. Facts(Approved)' = Facts(Approved \cup {d})
  BY <1>3, <1>4 DEF Facts
<1>6. ToRelease(Condition, {}, Facts(Approved))
        \subseteq ToRelease(Condition, {}, Facts(Approved \cup {d}))
  <2>1. Approved \cup {d} \subseteq Deliverable /\ today \in Int
    BY <1>3 DEF Approved, ReviewTypeOK
  <2> QED
    BY <2>1, MoreSatisfiesMore, TotalType DEF Facts
<1>7. ToRelease(Condition, {}, Facts(Approved))'
        = ToRelease(Condition, {}, Facts(Approved \cup {d}))
  BY <1>5 DEF ToRelease
<1> QED
  BY <1>2, <1>3, <1>6, <1>7 DEF WouldSatisfy

\* An approval satisfies what its reviewer was held to have authority for.
THEOREM WeighedAsSatisfiedHolds == Spec => WeighedAsSatisfied
<1> DEFINE P == \A q \in approvals' \ approvals :
              q \notin outrun =>
                ToRelease(Condition, {}, Facts(Approved))'
                  = ToRelease(Condition, {}, Facts(Approved)) \cup job[q].moves
<1>1. ReviewTypeOK /\ Handed /\ Fresh /\ [Next]_vars /\ ReviewTypeOK' => [P]_vars
  BY ApprovalSatisfies
<1> QED
  BY <1>1, ReviewTyped, ReviewFresh, PTL DEF Spec, WeighedAsSatisfied

-----------------------------------------------------------------------------
(* The screen: what it keeps                                               *)

\* What a row or a request may say of the money.
Figures == Asserted \ {NoAssertion}

Rows == [of : Deliverable, submission : Nat, releases : Figures]
Works == [of : Deliverable, submission : Nat]

Pages == [rows : SUBSET Rows, cleared : SUBSET Works]

Requests == [for : {"none", "approve", "undo", "changes"}, of : Deliverable,
             submission : Nat, target : Call \cup {Nothing}, expected : Figures,
             via : {"none", "row", "bulk"}]

Batches == [on : BOOLEAN, todo : SUBSET Works, total : Nat, done : Nat,
            failed : Nat]

\* The variables of the screen have their types, and an undo has its approval.
ScreenShape ==
  /\ page \in Pages /\ IsFiniteSet(page.cleared)
  /\ request \in [Call -> Requests]
  /\ \A q \in Call : request[q].for = "undo" => request[q].target \in Call
  /\ answered \subseteq Call /\ lane \subseteq shown /\ shown \subseteq Call
  /\ bulk \in Batches /\ IsFiniteSet(bulk.todo)

\* What is not counted of the batch is under way or still to be sent.
BatchAdds ==
  /\ IsFiniteSet(Busy)
  /\ bulk.done + bulk.failed + Cardinality(Busy) + Cardinality(bulk.todo) = bulk.total
  /\ ~bulk.on => bulk = NoBulk
  /\ \A q \in Call : request[q] = NoRequest => q \notin answered

\* A bulk approval names no money.
LEMMA NothingType ==
  /\ AnyDeliverable \in Deliverable
  /\ 0 \in Figures
  /\ Figures \subseteq Nat
  BY ReviewAssumption, ScreenAssumption
     DEF ReviewAssumption, ScreenAssumption, AnyDeliverable, Figures

\* What an approval would release is a figure.
LEMMA ReleaseType ==
  ASSUME NEW d
  PROVE  Release(d) \in Figures
<1>1. WouldSatisfy(d) \subseteq Milestone
  BY DEF WouldSatisfy, ToRelease, Milestone
<1> QED
  BY <1>1, ScreenAssumption DEF ScreenAssumption, Release, Figures

\* The queue that is loaded is a page.
LEMMA QueueType ==
  ASSUME ReviewTypeOK
  PROVE  Queue \in Pages /\ IsFiniteSet(Queue.cleared)
<1> DEFINE waiting == IF open THEN {d \in Deliverable : state[d] = "in_review"} ELSE {}
           alone == {d \in waiting : NeedsAttention(d)}
           rest == waiting \ alone
           name == [d \in rest |-> Cleared(d)]
<1>1. alone \subseteq Deliverable /\ rest \subseteq Deliverable
  OBVIOUS
<1>2. /\ Queue = [rows |-> {Row(d) : d \in alone}, cleared |-> {Cleared(d) : d \in rest}]
      /\ name \in Surjection(rest, {Cleared(d) : d \in rest})
  BY DEF Queue, Surjection
<1> HIDE DEF waiting, alone, rest, name
<1>3. \A d \in Deliverable : Row(d) \in Rows /\ Cleared(d) \in Works
  BY ReleaseType DEF Row, Cleared, Rows, Works, ReviewTypeOK
<1>4. IsFiniteSet(rest)
  BY <1>1, ReviewAssumption, FS_Subset DEF ReviewAssumption
<1>5. IsFiniteSet({Cleared(d) : d \in rest})
  BY <1>2, <1>4, FS_Surjection
<1>6. {Row(d) : d \in alone} \subseteq Rows /\ {Cleared(d) : d \in rest} \subseteq Works
  BY <1>1, <1>3
<1> QED
  BY <1>2, <1>5, <1>6 DEF Pages

\* A call that is made for nothing, and no batch.
LEMMA NoRequestType == NoRequest \in Requests /\ NoBulk \in Batches
  BY NothingType DEF NoRequest, NoBulk, Requests, Batches

-----------------------------------------------------------------------------
(* The screen implements the review: what it asks for is what a call may do*)

\* A request that arrives is a read of its call.
LEMMA ArrivesReads ==
  ASSUME ScreenShape, NEW q \in Call, Arrives(q)
  PROVE  Reads(q)
<1> DEFINE r == request[q]
<1>1. /\ r.of \in Deliverable /\ r.expected \in Asserted /\ Me \in Reviewer
      /\ r.for = "undo" => r.target \in Call
  BY ScreenAssumption DEF ScreenShape, Requests, Figures, ScreenAssumption
<1>2. CASE LoadForApproval(q, Me, r.of, r.submission, r.expected)
  <2>1. r.submission \in 1..submissions[r.of]
    BY <1>2 DEF LoadForApproval
  <2> QED
    BY <1>1, <1>2, <2>1 DEF Reads, ReadsWith
<1>3. CASE ~LoadForApproval(q, Me, r.of, r.submission, r.expected)
  BY <1>1, <1>3 DEF Arrives, Reads, ReadsWith
<1> QED
  BY <1>2, <1>3

\* What others do at the server is a read of theirs as well.
LEMMA OthersRead ==
  ASSUME NEW q \in Elsewhere, ReadsWith(q, {NoAssertion})
  PROVE  q \in Call /\ Reads(q)
  BY ScreenAssumption DEF ScreenAssumption, Reads, ReadsWith

\* What the server does with a call of the screen, or of others.
ServerStep(q) ==
  \/ Arrives(q)
  \/ Writes(q)
  \/ q \in Elsewhere /\ IsNext(q) /\ Reads(q)

\* The steps of the server are steps of the review.
LEMMA ServerSteps ==
  ASSUME ScreenShape, Server
  PROVE  /\ Next
         /\ \/ \E q \in Call : ServerStep(q)
            \/ \E q \in Call : WindowCloses(q)
            \/ DealEnds \/ DayPasses
<1>1. \A q \in Call : Arrives(q) => Reads(q)
  BY ArrivesReads
<1>2. \A q \in Elsewhere : ReadsWith(q, {NoAssertion}) => q \in Call /\ Reads(q)
  BY OthersRead
<1> QED
  BY <1>1, <1>2 DEF Server, Serve, ServerStep, Next, Step

\* The screen itself leaves the server alone.
LEMMA ScreenLeavesServer ==
  ASSUME Screen
  PROVE  UNCHANGED vars
  BY DEF Screen, Refetch, ApproveCleared, ApproveRow, SendChanges, Shift, UndoRelease, Answered,
         Lost, serverVars

\* A step of the composition is one of the review, or leaves it as it is.
LEMMA StepImplements ==
  ASSUME ScreenShape, [ScreenNext]_everything
  PROVE  [Next]_vars
  BY ServerSteps, ScreenLeavesServer DEF ScreenNext, everything, serverVars

\* The types of the screen's variables are kept by each of its steps.
LEMMA ShapeStep ==
  ASSUME ReviewTypeOK, ScreenShape, [ScreenNext]_everything
  PROVE  ScreenShape'
<1>1. CASE UNCHANGED screenVars
  BY <1>1 DEF screenVars, ScreenShape, Pages, Requests, Batches
<1>2. CASE Refetch
  BY <1>2, QueueType DEF Refetch, ScreenShape
<1>3. CASE ApproveCleared
  <2>1. page.cleared \subseteq Works /\ IsFiniteSet(page.cleared)
    BY DEF ScreenShape, Pages
  <2>2. bulk' \in Batches /\ bulk'.todo = page.cleared
    BY <1>3, <2>1, FS_CardinalityType, NoRequestType DEF ApproveCleared, Batches
  <2> QED
    BY <1>3, <2>1, <2>2 DEF ApproveCleared, ScreenShape
<1>4. ASSUME NEW q \in Call, NEW r \in Requests, Send(q, r),
             r.for = "undo" => r.target \in Call
      PROVE  /\ request' \in [Call -> Requests]
             /\ \A p \in Call : request'[p].for = "undo" => request'[p].target \in Call
  BY <1>4 DEF Send, ScreenShape
<1>5. ASSUME NEW q \in Call, NEW row \in page.rows, ApproveRow(q, row) PROVE ScreenShape'
  <2> DEFINE r == [NoRequest EXCEPT !.for = "approve", !.of = row.of, !.via = "row",
                                    !.submission = row.submission,
                                    !.expected = row.releases]
  <2>1. row \in Rows
    BY DEF ScreenShape, Pages
  <2>2. r \in Requests /\ r.for = "approve"
    BY <2>1, NoRequestType DEF Requests, Rows
  <2>3. Send(q, r)
    BY <1>5 DEF ApproveRow
  <2> HIDE DEF r
  <2> QED
    BY <1>4, <1>5, <2>2, <2>3 DEF ApproveRow, ScreenShape
<1>6. ASSUME NEW q \in Call, NEW next \in bulk.todo, Shift(q, next) PROVE ScreenShape'
  <2> DEFINE r == [NoRequest EXCEPT !.for = "approve", !.of = next.of, !.via = "bulk",
                                    !.submission = next.submission]
  <2>0. next \in Works
    BY DEF ScreenShape, Batches
  <2>1. r \in Requests /\ r.for = "approve"
    BY <2>0, NoRequestType DEF Requests, Works
  <2>2. Send(q, r)
    BY <1>6 DEF Shift
  <2>3. bulk' \in Batches /\ bulk'.todo = bulk.todo \ {next}
    BY <1>6 DEF Shift, ScreenShape, Batches
  <2>4. IsFiniteSet(bulk'.todo)
    BY <2>3, FS_Subset DEF ScreenShape
  <2> HIDE DEF r
  <2> QED
    BY <1>4, <1>6, <2>1, <2>2, <2>3, <2>4 DEF Shift, ScreenShape
<1>7. ASSUME NEW q \in Call, NEW p \in lane, UndoRelease(q, p) PROVE ScreenShape'
  <2> DEFINE r == [NoRequest EXCEPT !.for = "undo", !.target = p]
  <2>1. r \in Requests /\ r.target \in Call
    BY NoRequestType DEF Requests, ScreenShape
  <2>2. Send(q, r)
    BY <1>7 DEF UndoRelease
  <2> HIDE DEF r
  <2> QED
    BY <1>4, <1>7, <2>1, <2>2 DEF UndoRelease, ScreenShape
<1>8. ASSUME NEW q \in Call, NEW row \in page.rows, SendChanges(q, row) PROVE ScreenShape'
  <2> DEFINE r == [NoRequest EXCEPT !.for = "changes", !.of = row.of]
  <2>1. row \in Rows
    BY DEF ScreenShape, Pages
  <2>2. r \in Requests /\ r.for = "changes"
    BY <2>1, NoRequestType DEF Requests, Rows
  <2>3. Send(q, r)
    BY <1>8 DEF SendChanges
  <2> HIDE DEF r
  <2> QED
    BY <1>4, <1>8, <2>2, <2>3 DEF SendChanges, ScreenShape
<1>9. ASSUME NEW q \in Call, NEW ok \in BOOLEAN PROVE Counted(q, ok) \in Batches /\ Counted(q, ok).todo = bulk.todo
  BY DEF Counted, ScreenShape, Batches
<1>10. ASSUME NEW q \in Call, Answered(q) PROVE ScreenShape'
  <2>1. bulk' \in Batches /\ bulk'.todo = bulk.todo
    BY <1>9, <1>10 DEF Answered
  <2>2. lane' \subseteq Call
    BY <1>10 DEF Answered, Lane, ScreenShape
  <2> QED
    BY <1>10, <2>1, <2>2 DEF Answered, ScreenShape
<1>11. ASSUME NEW q \in Call, Lost(q) PROVE ScreenShape'
  <2>1. bulk' \in Batches /\ bulk'.todo = bulk.todo
    BY <1>9, <1>11 DEF Lost
  <2> QED
    BY <1>11, <2>1 DEF Lost, ScreenShape
<1>12. lane \subseteq Call
  BY DEF ScreenShape
<1> QED
  BY <1>1, <1>2, <1>3, <1>5, <1>6, <1>7, <1>8, <1>10, <1>11, <1>12
     DEF ScreenNext, Server, Screen, everything

-----------------------------------------------------------------------------
(* The batch                                                               *)

\* The deliverables that are still to be sent are finite in number.
LEMMA TodoFinite ==
  ASSUME ScreenShape
  PROVE  /\ IsFiniteSet(bulk.todo) /\ IsFiniteSet(page.cleared)
         /\ Cardinality(bulk.todo) \in Nat /\ Cardinality(page.cleared) \in Nat
<1>1. IsFiniteSet(bulk.todo) /\ IsFiniteSet(page.cleared)
  BY DEF ScreenShape
<1> QED
  BY <1>1, FS_CardinalityType

\* A call that is made for something else than the batch changes nothing of it.
LEMMA OtherCallsAside ==
  ASSUME ScreenShape, BatchAdds, NEW q \in Call, NEW r \in Requests, Send(q, r),
         r.via # "bulk", r.for # "none", UNCHANGED <<answered, bulk>>
  PROVE  BatchAdds'
<1>1. request'[q] = r /\ \A p \in Call \ {q} : request'[p] = request[p]
  BY DEF Send, ScreenShape
<1>2. request[q] = NoRequest /\ r # NoRequest /\ NoRequest.via = "none" /\ NoRequest.for = "none"
  BY DEF Send, IsNext, Unsent, NoRequest
<1>3. Busy' = Busy
  BY <1>1, <1>2 DEF Busy, InFlight
<1> QED
  BY <1>1, <1>2, <1>3 DEF BatchAdds

\* The next of the batch goes from what is to be sent to what is under way.
LEMMA ShiftAdds ==
  ASSUME ScreenShape, BatchAdds, NEW q \in Call, NEW next \in bulk.todo, Shift(q, next)
  PROVE  BatchAdds'
<1> DEFINE r == [NoRequest EXCEPT !.for = "approve", !.of = next.of, !.via = "bulk",
                                  !.submission = next.submission]
<1>1. Send(q, r) /\ r.via = "bulk" /\ r.for = "approve" /\ answered' = answered
  BY DEF Shift, NoRequest
<1> HIDE DEF r
<1>2. request'[q] = r /\ \A p \in Call \ {q} : request'[p] = request[p]
  BY <1>1 DEF Send, ScreenShape
<1>3. request[q] = NoRequest /\ r # NoRequest /\ q \notin answered
  BY <1>1 DEF Send, IsNext, Unsent, NoRequest, BatchAdds
<1>4. Busy' = Busy \cup {q} /\ q \notin Busy
  BY <1>1, <1>2, <1>3 DEF Busy, InFlight
<1>5. IsFiniteSet(Busy') /\ Cardinality(Busy') = Cardinality(Busy) + 1
  BY <1>4, FS_AddElement DEF BatchAdds
<1>6. /\ bulk' = [bulk EXCEPT !.todo = bulk.todo \ {next}] /\ next \in bulk.todo
      /\ Cardinality(bulk.todo \ {next}) = Cardinality(bulk.todo) - 1
  BY TodoFinite, FS_RemoveElement DEF Shift
<1>7. /\ bulk'.todo = bulk.todo \ {next} /\ bulk'.on = bulk.on /\ bulk'.total = bulk.total
      /\ bulk'.done = bulk.done /\ bulk'.failed = bulk.failed /\ bulk.on
      /\ bulk.done \in Nat /\ bulk.failed \in Nat /\ Cardinality(Busy) \in Nat
  BY <1>6, FS_CardinalityType DEF ScreenShape, Batches, BatchAdds, NoBulk
<1>8. bulk'.done + bulk'.failed + Cardinality(Busy') + Cardinality(bulk'.todo) = bulk'.total
  BY <1>5, <1>6, <1>7, TodoFinite DEF BatchAdds
<1> QED
  BY <1>1, <1>2, <1>3, <1>5, <1>7, <1>8 DEF BatchAdds

\* An approval of the batch that is dealt with is counted once.
LEMMA AnswerAdds ==
  ASSUME ScreenShape, BatchAdds, NEW q \in Call, NEW ok \in BOOLEAN, InFlight(q),
         answered' = answered \cup {q}, bulk' = Counted(q, ok), request' = request
  PROVE  BatchAdds'
<1>1. \A p \in Call : request'[p] = NoRequest => p \notin answered'
  BY DEF BatchAdds, InFlight
<1>2. CASE request[q].via # "bulk"
  <2>1. bulk' = bulk /\ Busy' = Busy
    BY <1>2 DEF Counted, Busy, InFlight
  <2> QED
    BY <1>1, <2>1 DEF BatchAdds
<1>3. CASE request[q].via = "bulk"
  <2>1. q \in Busy /\ Busy' = Busy \ {q}
    BY <1>3 DEF Busy, InFlight
  <2>2. /\ IsFiniteSet(Busy') /\ Cardinality(Busy') = Cardinality(Busy) - 1
        /\ Cardinality(Busy) \in Nat
    BY <2>1, FS_RemoveElement, FS_CardinalityType DEF BatchAdds
  <2>3. Cardinality(Busy) # 0
    BY <2>1, FS_EmptySet DEF BatchAdds
  <2>4. bulk.on
    <3>1. bulk = NoBulk => Cardinality(Busy) = 0
      BY <2>2, FS_EmptySet DEF NoBulk, BatchAdds
    <3> QED
      BY <2>3, <3>1 DEF BatchAdds
  <2>5. /\ bulk'.on = bulk.on /\ bulk'.total = bulk.total /\ bulk'.todo = bulk.todo
        /\ bulk'.done + bulk'.failed = bulk.done + bulk.failed + 1
        /\ bulk.done + bulk.failed \in Nat
    BY <1>3 DEF Counted, ScreenShape, Batches
  <2>6. bulk'.done \in Nat /\ bulk'.failed \in Nat
    BY <1>3 DEF Counted, ScreenShape, Batches
  <2>7. bulk'.done + bulk'.failed + Cardinality(Busy') + Cardinality(bulk'.todo) = bulk'.total
    BY <2>2, <2>5, <2>6, TodoFinite DEF BatchAdds
  <2> QED
    BY <1>1, <2>2, <2>4, <2>5, <2>7 DEF BatchAdds
<1> QED
  BY <1>2, <1>3

\* No step of the screen loses a submission of the batch, or counts one twice.
LEMMA BatchStep ==
  ASSUME ScreenShape, BatchAdds, [ScreenNext]_everything
  PROVE  BatchAdds'
<1>1. CASE UNCHANGED <<request, answered, bulk>>
  BY <1>1 DEF BatchAdds, Busy, InFlight
<1>2. CASE ApproveCleared
  <2>1. bulk = NoBulk /\ Busy' = Busy /\ UNCHANGED <<request, answered>>
    BY <1>2 DEF ApproveCleared, BatchAdds, Busy, InFlight
  <2>2. Cardinality(Busy) = 0 /\ bulk'.done = 0 /\ bulk'.failed = 0
    BY <1>2, <2>1, FS_EmptySet, FS_CardinalityType DEF ApproveCleared, BatchAdds, NoBulk
  <2>3. /\ bulk'.on /\ bulk'.todo = page.cleared
        /\ bulk'.total = Cardinality(page.cleared)
    BY <1>2 DEF ApproveCleared, NoBulk
  <2> QED
    BY <2>1, <2>2, <2>3, TodoFinite DEF BatchAdds
<1>3. ASSUME NEW q \in Call, NEW row \in page.rows, ApproveRow(q, row) PROVE BatchAdds'
  <2> DEFINE r == [NoRequest EXCEPT !.for = "approve", !.of = row.of, !.via = "row",
                                    !.submission = row.submission,
                                    !.expected = row.releases]
  <2>1. row \in Rows
    BY DEF ScreenShape, Pages
  <2>2. r \in Requests /\ r.for = "approve" /\ r.via = "row"
    BY <2>1, NoRequestType DEF Requests, Rows
  <2>3. Send(q, r)
    BY <1>3 DEF ApproveRow
  <2> HIDE DEF r
  <2> QED
    BY <1>3, <2>2, <2>3, OtherCallsAside DEF ApproveRow
<1>4. ASSUME NEW q \in Call, NEW p \in lane, UndoRelease(q, p) PROVE BatchAdds'
  <2> DEFINE r == [NoRequest EXCEPT !.for = "undo", !.target = p]
  <2>1. r \in Requests /\ r.for = "undo" /\ r.via # "bulk"
    BY NoRequestType DEF Requests, ScreenShape, NoRequest
  <2>2. Send(q, r)
    BY <1>4 DEF UndoRelease
  <2> HIDE DEF r
  <2> QED
    BY <1>4, <2>1, <2>2, OtherCallsAside DEF UndoRelease
<1>5. ASSUME NEW q \in Call, NEW row \in page.rows, SendChanges(q, row) PROVE BatchAdds'
  <2> DEFINE r == [NoRequest EXCEPT !.for = "changes", !.of = row.of]
  <2>1. row \in Rows
    BY DEF ScreenShape, Pages
  <2>2. r \in Requests /\ r.for = "changes" /\ r.via # "bulk"
    BY <2>1, NoRequestType DEF Requests, NoRequest, Rows
  <2>3. Send(q, r)
    BY <1>5 DEF SendChanges
  <2> HIDE DEF r
  <2> QED
    BY <1>5, <2>2, <2>3, OtherCallsAside DEF SendChanges
<1>6. ASSUME NEW q \in Call, Answered(q) \/ Lost(q) PROVE BatchAdds'
  BY <1>6, AnswerAdds DEF Answered, Lost
<1> QED
  BY <1>1, <1>2, <1>3, <1>4, <1>5, <1>6, ShiftAdds
     DEF ScreenNext, Server, Screen, Refetch, everything, screenVars

\* Before anything is pressed.
LEMMA ScreenStarts ==
  ASSUME ScreenInit, ReviewTypeOK
  PROVE  ScreenShape /\ BatchAdds
<1>1. ScreenShape
  BY QueueType, NoRequestType, FS_EmptySet DEF ScreenInit, ScreenShape, NoRequest, NoBulk
<1>2. Busy = {}
  BY DEF ScreenInit, Busy, InFlight
<1>3. BatchAdds
  BY <1>2, FS_EmptySet DEF ScreenInit, BatchAdds, NoBulk
<1> QED
  BY <1>1, <1>3

\* The review and the screen together keep their types.
THEOREM ScreenKept == ScreenSpec => [](ReviewTypeOK /\ Handed /\ ScreenShape /\ BatchAdds)
<1>1. ScreenInit => ReviewTypeOK /\ Handed
  BY InitTyped DEF ScreenInit
<1>2. ScreenInit => ScreenShape /\ BatchAdds
  BY <1>1, ScreenStarts
<1>3. ReviewTypeOK /\ Handed /\ ScreenShape /\ [ScreenNext]_everything
        => ReviewTypeOK' /\ Handed'
  BY StepImplements, TypeStep
<1>4. ReviewTypeOK /\ ScreenShape /\ BatchAdds /\ [ScreenNext]_everything
        => ScreenShape' /\ BatchAdds'
  BY ShapeStep, BatchStep
<1> QED
  BY <1>1, <1>2, <1>3, <1>4, PTL DEF ScreenSpec

\* The screen only asks the server for what module Review lets a call do, so
\* that whatever holds of the review holds under the screen.
THEOREM ScreenImplementsReview == ScreenSpec => Spec
<1>1. ScreenInit => Init
  BY DEF ScreenInit
<1>2. ScreenShape /\ [ScreenNext]_everything => [Next]_vars
  BY StepImplements
<1> QED
  BY <1>1, <1>2, ScreenKept, PTL DEF ScreenSpec, Spec

\* The variables have their types, and the batch loses no submission.
THEOREM ScreenTypeOKHolds == ScreenSpec => []ScreenTypeOK
<1>1. ScreenShape /\ BatchAdds => ScreenTypeOK
  <2> SUFFICES ASSUME ScreenShape, BatchAdds PROVE ScreenTypeOK
    OBVIOUS
  <2>1. \A row \in page.rows : row.of \in Deliverable /\ row.releases \in Nat
    BY NothingType DEF ScreenShape, Pages, Rows
  <2>2. \A work \in page.cleared \cup bulk.todo :
          work.of \in Deliverable /\ work.submission \in Nat
    BY DEF ScreenShape, Pages, Batches, Works
  <2> QED
    BY <2>1, <2>2 DEF ScreenShape, BatchAdds, ScreenTypeOK, Requests
<1> QED
  BY <1>1, ScreenKept, PTL

-----------------------------------------------------------------------------
(* What the reviewer sees                                                  *)

\* How far a call has come agrees with what the screen made it for.
Traced(q) ==
  /\ request[q].for = "undo" => pc[q] \in {"new", "undoing", "undone", "refused"}
  /\ request[q].for = "undo" => request[q].target \in approvals
  /\ request[q].for = "undo" /\ pc[q] = "undoing" => job[q].target = {request[q].target}
  /\ request[q].for = "undo" /\ pc[q] = "undone" => request[q].target \notin live
  /\ request[q].for = "approve" /\ pc[q] \in {"loaded", "weighed"} =>
       job[q].asserted = request[q].expected
  /\ pc[q] = "approved" => q \in approvals

Truthful == LaneIsTruthful /\ \A q \in Call : Traced(q)

\* An approval that was voided is never live again, whatever a call does.
LEMMA VoidStays ==
  ASSUME ReviewTypeOK, Handed, NEW q \in Call, StepOf(q)
  PROVE  approvals \subseteq approvals' /\ live' \cap approvals \subseteq live
<1>1. q \notin approvals
  BY DEF StepOf, Begin, Weigh, Approve, Undo, SendBack, Submit, Handed
<1>2. live' \subseteq live \cup {q}
  BY DEF StepOf, Begin, Weigh, Approve, Undo, SendBack, Submit, Still, decisionVars
<1> QED
  BY <1>1, <1>2, StepRaises DEF ApprovalsStay

\* What the server does is a step of a call.
LEMMA ServerStepOf ==
  ASSUME ReviewTypeOK, Handed, ScreenShape, NEW q \in Call, ServerStep(q)
  PROVE  StepOf(q)
  BY ArrivesReads, ReadsStep, WritesStep DEF ServerStep

\* A call of the screen that is served stays what it was made for.
LEMMA ServedTraced ==
  ASSUME ReviewTypeOK, Handed, ScreenShape, NEW q \in Call, Traced(q), ServerStep(q),
         UNCHANGED screenVars
  PROVE  Traced(q)'
<1>1. request' = request /\ NoRequest.for = "none"
  BY DEF screenVars, NoRequest
<1>2. StepOf(q) /\ approvals \subseteq approvals' /\ live' \cap approvals \subseteq live
  BY ServerStepOf, VoidStays
<1>3. pc'[q] = "approved" => q \in approvals'
  BY <1>2 DEF StepOf, Begin, Weigh, Approve, Undo, SendBack, Submit, Done, Answer, ReviewTypeOK
<1>4. CASE request[q] = NoRequest
  BY <1>1, <1>3, <1>4 DEF Traced
<1>5. CASE Arrives(q)
  <2>1. CASE request[q].for = "approve"
    <3>1. LoadForApproval(q, Me, request[q].of, request[q].submission, request[q].expected)
            \/ ApproveTooLate(q, request[q].of)
      BY <1>5, <2>1 DEF Arrives
    <3>2. \/ pc'[q] = "refused"
          \/ pc'[q] = "loaded" /\ job'[q].asserted = request[q].expected
      BY <3>1 DEF LoadForApproval, ApproveTooLate, Begin, Conflict, Done, Answer, ReviewTypeOK,
                  NoJob
    <3> QED
      BY <1>1, <1>5, <2>1, <3>2 DEF Traced
  <2>2. CASE request[q].for = "undo"
    <3>1. FindApproval(q, request[q].target) \/ UndoTooLate(q, request[q].target)
      BY <1>5, <2>2 DEF Arrives
    <3>2. \/ pc'[q] = "refused"
          \/ pc'[q] = "undoing" /\ job'[q].target = {request[q].target}
      BY <3>1 DEF FindApproval, UndoTooLate, Begin, Conflict, Done, Answer, ReviewTypeOK, NoJob
    <3> QED
      BY <1>1, <1>2, <1>5, <2>2, <3>2 DEF Traced
  <2>3. CASE request[q].for = "changes"
    <3>1. pc'[q] = "returning"
      BY <1>5, <2>3 DEF Arrives, LoadForChanges, Begin, ReviewTypeOK
    <3> QED
      BY <1>1, <1>5, <2>3, <3>1 DEF Traced
  <2> QED
    BY <1>5, <2>1, <2>2, <2>3 DEF Arrives
<1>6. CASE request[q] # NoRequest /\ Writes(q)
  <2>2. CASE request[q].for = "undo"
    <3>1. pc[q] = "undoing" /\ job[q].target = {request[q].target}
      BY <1>6, <2>2 DEF Traced, Writes, Weigh, NotAuthorised, Approve, ApproveConflicts, Undo,
           UndoConflicts, SendBack, SendBackMisses, SendBackViolates, Submit, SubmitConflicts
    <3>2. Undo(q) \/ UndoConflicts(q)
      BY <1>6, <3>1 DEF Writes, Weigh, NotAuthorised, Approve, ApproveConflicts, Undo,
           UndoConflicts, SendBack, SendBackMisses, SendBackViolates, Submit, SubmitConflicts
    <3>3. \/ pc'[q] = "refused"
          \/ pc'[q] = "undone" /\ request[q].target \notin live'
      BY <3>1, <3>2 DEF Undo, UndoConflicts, Conflict, Done, Answer, ReviewTypeOK
    <3> QED
      BY <1>1, <1>2, <1>6, <2>2, <3>3 DEF Traced
  <2>3. CASE request[q].for # "undo"
    <3>1. pc'[q] \in {"loaded", "weighed"} => Weigh(q)
      BY <1>6 DEF Writes, NotAuthorised, Approve, ApproveConflicts, Undo, UndoConflicts, SendBack,
           SendBackMisses, SendBackViolates, Submit, SubmitConflicts, Conflict, Done, Answer,
           ReviewTypeOK
    <3>2. Weigh(q) => pc[q] = "loaded" /\ job'[q].asserted = job[q].asserted
      BY DEF Weigh, ReviewTypeOK, Job
    <3> QED
      BY <1>1, <1>3, <1>6, <2>3, <3>1, <3>2 DEF Traced
  <2> QED
    BY <2>2, <2>3
<1> QED
  BY <1>4, <1>5, <1>6 DEF ServerStep, IsNext, Unsent

\* The calls that are not served stay as they were.
LEMMA OthersTraced ==
  ASSUME ReviewTypeOK, Handed, NEW q \in Call, StepOf(q), NEW r \in Call \ {q}, Traced(r),
         UNCHANGED screenVars
  PROVE  Traced(r)'
  BY StepRaises, VoidStays DEF Traced, OthersStay, screenVars, NoRequest

\* A request is made by a call that is new.
LEMMA SentTraced ==
  ASSUME ScreenShape, \A q \in Call : Traced(q), UNCHANGED vars,
         NEW q \in Call, NEW r \in Requests, Send(q, r), r.for # "none",
         r.for = "undo" => r.target \in approvals
  PROVE  \A p \in Call : Traced(p)'
<1>1. request'[q] = r /\ \A p \in Call \ {q} : request'[p] = request[p]
  BY DEF Send, ScreenShape
<1>2. pc[q] = "new" /\ r # NoRequest
  BY DEF Send, IsNext, Unsent, NoRequest
<1>3. UNCHANGED <<pc, job, approvals, live>>
  BY DEF vars, callVars, decisionVars
<1>4. Traced(q)'
  BY <1>1, <1>2, <1>3 DEF Traced
<1>5. ASSUME NEW p \in Call \ {q} PROVE Traced(p)'
  BY <1>1, <1>3 DEF Traced, NoRequest
<1> QED
  BY <1>4, <1>5

\* No step of the server or of the screen makes the lane untrue.
LEMMA TruthfulStep ==
  ASSUME ReviewTypeOK, Handed, ScreenShape, Truthful, [ScreenNext]_everything
  PROVE  Truthful'
<1>1. \A q \in Call : Traced(q)
  BY DEF Truthful
<1>2. CASE UNCHANGED vars /\ UNCHANGED <<request, lane, shown>>
  BY <1>2 DEF Truthful, LaneIsTruthful, Traced, vars, callVars, decisionVars, NoRequest
<1>3. CASE Server
  <2>1. UNCHANGED screenVars
    BY <1>3 DEF Server
  <2>2. ASSUME NEW q \in Call, ServerStep(q) PROVE Truthful'
    <3>1. StepOf(q)
      BY <2>2, ServerStepOf
    <3>2. \A r \in Call : Traced(r)'
      BY <1>1, <2>1, <2>2, <3>1, ServedTraced, OthersTraced
    <3>3. LaneIsTruthful'
      BY <2>1, <3>1, VoidStays DEF Truthful, LaneIsTruthful, screenVars
    <3> QED
      BY <3>2, <3>3 DEF Truthful
  <2>3. ASSUME (\E q \in Call : WindowCloses(q)) \/ DealEnds \/ DayPasses PROVE Truthful'
    <3>1. UNCHANGED <<approvals, live, pc, job>>
      BY <2>3 DEF WindowCloses, DealEnds, DayPasses, decisionVars, callVars
    <3> QED
      BY <2>1, <3>1 DEF Truthful, LaneIsTruthful, Traced, screenVars, NoRequest
  <2> QED
    BY <1>3, <2>2, <2>3, ServerSteps
<1>4. ASSUME NEW q \in Call, NEW r \in Requests, Send(q, r), r.for # "none",
             r.for = "undo" => r.target \in approvals, UNCHANGED vars,
             UNCHANGED <<lane, shown>>
      PROVE Truthful'
  BY <1>1, <1>4, SentTraced DEF Truthful, LaneIsTruthful, vars, decisionVars
<1>5. CASE Screen
  <2> USE <1>5
  <2>1. UNCHANGED vars
    BY ScreenLeavesServer
  <2>2. ASSUME NEW q \in Call, NEW row \in page.rows, ApproveRow(q, row) PROVE Truthful'
    <3> DEFINE r == [NoRequest EXCEPT !.for = "approve", !.of = row.of, !.via = "row",
                                      !.submission = row.submission,
                                      !.expected = row.releases]
    <3>1. row \in Rows
      BY DEF ScreenShape, Pages
    <3>2. r \in Requests /\ r.for = "approve"
      BY <3>1, NoRequestType DEF Requests, Rows
    <3>3. Send(q, r) /\ UNCHANGED <<lane, shown>>
      BY <2>2 DEF ApproveRow
    <3> HIDE DEF r
    <3> QED
      BY <1>4, <2>1, <3>2, <3>3
  <2>3. ASSUME NEW q \in Call, NEW next \in bulk.todo, Shift(q, next) PROVE Truthful'
    <3> DEFINE r == [NoRequest EXCEPT !.for = "approve", !.of = next.of, !.via = "bulk",
                                      !.submission = next.submission]
    <3>0. next \in Works
      BY DEF ScreenShape, Batches
    <3>1. r \in Requests /\ r.for = "approve"
      BY <3>0, NoRequestType DEF Requests, Works
    <3>2. Send(q, r) /\ UNCHANGED <<lane, shown>>
      BY <2>3 DEF Shift
    <3> HIDE DEF r
    <3> QED
      BY <1>4, <2>1, <3>1, <3>2
  <2>4. ASSUME NEW q \in Call, NEW p \in lane, UndoRelease(q, p) PROVE Truthful'
    <3> DEFINE r == [NoRequest EXCEPT !.for = "undo", !.target = p]
    <3>1. r \in Requests /\ r.for = "undo" /\ r.target = p
      BY NoRequestType DEF Requests, ScreenShape, NoRequest
    <3>2. Send(q, r) /\ UNCHANGED <<lane, shown>>
      BY <2>4 DEF UndoRelease
    <3>3. p \in approvals
      BY DEF Truthful, LaneIsTruthful, ScreenShape
    <3> HIDE DEF r
    <3> QED
      BY <1>4, <2>1, <3>1, <3>2, <3>3
  <2>5. ASSUME NEW q \in Call, NEW row \in page.rows, SendChanges(q, row) PROVE Truthful'
    <3> DEFINE r == [NoRequest EXCEPT !.for = "changes", !.of = row.of]
    <3>1. row \in Rows
      BY DEF ScreenShape, Pages
    <3>2. r \in Requests /\ r.for = "changes"
      BY <3>1, NoRequestType DEF Requests, Rows
    <3>3. Send(q, r) /\ UNCHANGED <<lane, shown>>
      BY <2>5 DEF SendChanges
    <3> HIDE DEF r
    <3> QED
      BY <1>4, <2>1, <3>2, <3>3
  <2>6. ASSUME NEW q \in Call, Answered(q) PROVE Truthful'
    <3>1. \A r \in Call : Traced(r)'
      BY <1>1, <2>1, <2>6 DEF Answered, Traced, vars, callVars, decisionVars, NoRequest
    <3>2. CASE pc[q] = "approved" /\ lane' = lane \cup {q}
      <4>1. q \in approvals /\ shown' \subseteq approvals /\ shown' \ lane' \subseteq shown \ lane
        BY <1>1, <2>6, <3>2 DEF Traced, Answered, Truthful, LaneIsTruthful, ScreenShape
      <4> QED
        BY <2>1, <3>1, <4>1 DEF Truthful, LaneIsTruthful, vars, decisionVars
    <3>3. CASE request[q].for = "undo" /\ pc[q] = "undone" /\ lane' = lane \ {request[q].target}
      <4>1. request[q].target \notin live /\ shown' = shown
        BY <1>1, <2>6, <3>3 DEF Traced, Answered, ScreenShape
      <4> QED
        BY <2>1, <3>1, <3>3, <4>1 DEF Truthful, LaneIsTruthful, vars, decisionVars
    <3>4. CASE lane' = lane
      <4>1. shown' = shown
        BY <2>6, <3>4 DEF Answered, ScreenShape
      <4> QED
        BY <2>1, <3>1, <3>4, <4>1 DEF Truthful, LaneIsTruthful, vars, decisionVars
    <3> QED
      BY <2>6, <3>2, <3>3, <3>4 DEF Answered, Lane
  <2>7. CASE Refetch \/ ApproveCleared \/ \E q \in Call : Lost(q)
    BY <1>2, <2>1, <2>7 DEF Refetch, ApproveCleared, Lost
  <2> QED
    BY <2>2, <2>3, <2>4, <2>5, <2>6, <2>7 DEF Screen
<1> QED
  BY <1>2, <1>3, <1>5 DEF ScreenNext, everything, serverVars, screenVars

\* The invariant of the lane.
THEOREM ScreenTruthful == ScreenSpec => []Truthful
<1>1. ScreenInit => Truthful
  BY DEF ScreenInit, Init, Truthful, LaneIsTruthful, Traced, NoRequest
<1>2. ReviewTypeOK /\ Handed /\ ScreenShape /\ Truthful /\ [ScreenNext]_everything => Truthful'
  BY TruthfulStep
<1> QED
  BY <1>1, <1>2, ScreenKept, PTL DEF ScreenSpec

\* A row is in the lane when its approval is written, and has left it only when
\* the approval is void, however requests and answers cross.
THEOREM LaneIsTruthfulHolds == ScreenSpec => []LaneIsTruthful
<1>1. Truthful => LaneIsTruthful
  BY DEF Truthful
<1> QED
  BY <1>1, ScreenTruthful, PTL

\* An approval that is reported as done moved the amount its row showed.
THEOREM ApprovedAsShownHolds == ScreenSpec => ApprovedAsShown
<1> DEFINE P == \A q \in approvals' \ approvals :
              pc'[q] = "approved" /\ request[q].for = "approve" /\ q \notin outrun =>
                AmountOf(ToRelease(Condition, {}, Facts(Approved))'
                           \ ToRelease(Condition, {}, Facts(Approved))) = request[q].expected
<1>1. /\ ReviewTypeOK /\ Handed /\ Fresh /\ ScreenShape /\ Truthful /\ ReviewTypeOK'
      /\ [ScreenNext]_everything
      => [P]_everything
  <2> SUFFICES ASSUME ReviewTypeOK, Handed, Fresh, ScreenShape, Truthful, ReviewTypeOK',
                      ScreenNext, NEW q \in approvals', q \notin approvals,
                      pc'[q] = "approved", request[q].for = "approve", q \notin outrun
               PROVE  AmountOf(ToRelease(Condition, {}, Facts(Approved))'
                                 \ ToRelease(Condition, {}, Facts(Approved))) = request[q].expected
    OBVIOUS
  <2>1. Next
    BY ScreenLeavesServer, ServerSteps DEF ScreenNext, vars, decisionVars
  <2>2. /\ Approve(q)
        /\ ToRelease(Condition, {}, Facts(Approved))' \ ToRelease(Condition, {}, Facts(Approved))
             = job[q].moves
    BY <2>1, ApprovalSatisfies
  <2>3. q \in Call /\ pc[q] = "weighed" /\ AsExpected(q)
    BY <2>2 DEF Approve, Answer, ReviewTypeOK
  <2>4. job[q].asserted = request[q].expected /\ request[q].expected # NoAssertion
    BY <2>3 DEF Truthful, Traced, ScreenShape, Requests, Figures
  <2> QED
    BY <2>2, <2>3, <2>4 DEF AsExpected
<1>2. ScreenSpec => []Fresh
  BY ScreenImplementsReview, ReviewFresh, PTL
<1> QED
  BY <1>1, <1>2, ScreenKept, ScreenTruthful, PTL DEF ScreenSpec, ApprovedAsShown
=============================================================================
