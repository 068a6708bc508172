-------------------------------- MODULE Mail --------------------------------
(***************************************************************************)
(* Outgoing mail and the list of addresses it is not sent to: the webhook  *)
(* deliveries of the mail provider, stored by WebhookIngestService and     *)
(* interpreted by ResendWebhookService under ResendWebhookPoller, and the  *)
(* jobs of the email queue, which EmailProcessor sends with MailService.   *)
(*                                                                         *)
(* Every worker process has a poller, and there may be more than one.  The *)
(* queue (BullMQ) and the provider are outside of the repository: a job is *)
(* tried again while attempts are left and when its process was lost, and  *)
(* the provider sends once for each idempotency key.                       *)
(***************************************************************************)
EXTENDS Integers, Sequences, SequencesExt, FiniteSets

CONSTANTS
  Address,
  Event,       \* deliveries of the provider, by externalId
  Kind,        \* Kind[e]: what its payload is
  To,          \* To[e]: its recipients
  Poller,      \* worker processes, each with a poller and a worker of the queue
  BatchLimit,  \* how many deliveries a drain takes
  Job,         \* jobs of the email queue
  Recipient,   \* Recipient[j]: the address of the mail
  Intent,      \* Intent[j]: template, address and url of the mail
  LooksUp,     \* jobs that look for their user first
  Attempts,    \* attempts of a job
  MaxCrashes, MaxLifts \* bounds on lost processes and on lifted suppressions

Suppressing == {"permanent", "complaint"}
Kinds == Suppressing \cup {"transient", "unhandled", "garbled"}

ASSUME MailAssumption ==
  /\ Kind \in [Event -> Kinds]
  /\ To \in [Event -> SUBSET Address]
  /\ Recipient \in [Job -> Address]
  /\ LooksUp \subseteq Job
  /\ {BatchLimit, Attempts} \subseteq Nat \ {0}
  /\ IsFiniteSet(Poller) /\ IsFiniteSet(Job)
  /\ {MaxCrashes, MaxLifts} \subseteq Nat

VARIABLES
  inbox,       \* stored deliveries by receivedAt
  status,      \* webhook_event.status, "none" before it is stored
  row,         \* email_suppression, by the unique lower(email)
  batch,       \* what each poller still has of its batch
  left,        \* recipients of the first of it that are still to be suppressed
  creating,    \* those of them for which no row was found
  broken,      \* pollers whose handling of it threw
  job,         \* progress of each job
  tries,       \* attempts made
  keys,        \* idempotency keys the provider has seen
  mails,       \* how many mails of an intent went out
  crossed,     \* history: jobs whose address was suppressed after they looked
  crashes, lifts

eventVars == <<inbox, status>>
pollerVars == <<batch, left, creating, broken>>
jobVars == <<job, tries, keys, mails, crossed>>
bounds == <<crashes, lifts>>
vars == <<eventVars, row, pollerVars, jobVars, bounds>>

\* No row for an address.
NoRow == [is |-> "none", by |-> "none"]

Live(a) == row[a].is = "live"

Pending(e) == status[e] = "pending"

Init ==
  /\ inbox = <<>>
  /\ status = [e \in Event |-> "none"]
  /\ row = [a \in Address |-> NoRow]
  /\ batch = [p \in Poller |-> <<>>]
  /\ left = [p \in Poller |-> {}]
  /\ creating = [p \in Poller |-> {}]
  /\ broken = {}
  /\ job = [j \in Job |-> "waiting"]
  /\ tries = [j \in Job |-> 0]
  /\ keys = {}
  /\ mails = [j \in Job |-> 0]
  /\ crossed = {}
  /\ crashes = 0 /\ lifts = 0

-----------------------------------------------------------------------------
(* Deliveries                                                              *)

\* store: a redelivery hits the unique index and changes nothing.
Receive(e) ==
  /\ status[e] = "none"
  /\ status' = [status EXCEPT ![e] = "pending"]
  /\ inbox' = Append(inbox, e)
  /\ UNCHANGED <<row, pollerVars, jobVars, bounds>>

\* The recipients that handle suppresses, the switch over the types.
ToSuppress(e) == IF Kind[e] \in Suppressing THEN To[e] ELSE {}

\* The poller turns to the first of b, or its drain is over.
Turn(p, b) ==
  /\ batch' = [batch EXCEPT ![p] = b]
  /\ left' = [left EXCEPT ![p] = IF b = <<>> THEN {} ELSE ToSuppress(Head(b))]
  /\ creating' = [creating EXCEPT ![p] = {}]
  /\ broken' = broken \ {p}

\* drain, which does not overlap with itself: the oldest that are pending.
Drain(p) ==
  LET waiting == SelectSeq(inbox, Pending)
  IN  /\ batch[p] = <<>> /\ waiting # <<>>
      /\ Turn(p, SubSeq(waiting, 1, IF Len(waiting) < BatchLimit
                                    THEN Len(waiting) ELSE BatchLimit))
      /\ UNCHANGED <<eventVars, row, jobVars, bounds>>

\* suppress: a live row is left as it is.
FindLive(p, a) ==
  /\ a \in left[p] /\ creating[p] = {}
  /\ Live(a)
  /\ left' = [left EXCEPT ![p] = @ \ {a}]
  /\ UNCHANGED <<eventVars, row, batch, creating, broken, jobVars, bounds>>

FindNone(p, a) ==
  /\ a \in left[p] /\ creating[p] = {}
  /\ ~Live(a)
  /\ creating' = [creating EXCEPT ![p] = {a}]
  /\ UNCHANGED <<eventVars, row, batch, left, broken, jobVars, bounds>>

\* Jobs on their way to an address that is suppressed now.
Cross(a) ==
  crossed' = crossed \cup {j \in Job : Recipient[j] = a /\ job[j] = "sending"}

\* Mistake: the insert overwrites on a conflict.
CreateOrReplace(p, a) ==
  /\ a \in creating[p]
  /\ row' = [row EXCEPT ![a] = [is |-> "live", by |-> Head(batch[p])]]
  /\ left' = [left EXCEPT ![p] = @ \ {a}]
  /\ creating' = [creating EXCEPT ![p] = {}]
  /\ Cross(a)
  /\ UNCHANGED <<eventVars, batch, broken, job, tries, keys, mails, bounds>>

\* Mistake: the rest of the recipients is forgotten.
CreateForOne(p, a) ==
  /\ a \in creating[p] /\ row[a] = NoRow
  /\ row' = [row EXCEPT ![a] = [is |-> "live", by |-> Head(batch[p])]]
  /\ left' = [left EXCEPT ![p] = {}]
  /\ creating' = [creating EXCEPT ![p] = {}]
  /\ Cross(a)
  /\ UNCHANGED <<eventVars, batch, broken, job, tries, keys, mails, bounds>>

Create(p, a) ==
  /\ a \in creating[p] /\ row[a] = NoRow
  /\ row' = [row EXCEPT ![a] = [is |-> "live", by |-> Head(batch[p])]]
  /\ left' = [left EXCEPT ![p] = @ \ {a}]
  /\ creating' = [creating EXCEPT ![p] = {}]
  /\ Cross(a)
  /\ UNCHANGED <<eventVars, batch, broken, job, tries, keys, mails, bounds>>

\* The index has the address already, live or lifted, and handle throws.
CreateConflicts(p, a) ==
  /\ a \in creating[p] /\ row[a] # NoRow
  /\ left' = [left EXCEPT ![p] = {}]
  /\ creating' = [creating EXCEPT ![p] = {}]
  /\ broken' = broken \cup {p}
  /\ UNCHANGED <<eventVars, row, batch, jobVars, bounds>>

\* Mistake: what failed is left for the next tick.
VerdictLater(p, e) ==
  IF p \in broken \/ Kind[e] = "garbled" THEN "pending" ELSE "processed"

\* What the poller makes of the delivery it has handled.
Verdict(p, e) ==
  IF p \in broken \/ Kind[e] = "garbled" THEN "failed"
  ELSE IF Kind[e] = "unhandled" THEN "ignored" ELSE "processed"

\* markProcessed, markIgnored and markFailed.
Mark(p) ==
  LET e == Head(batch[p])
  IN  /\ batch[p] # <<>> /\ left[p] = {}
      /\ status' = IF Pending(e) THEN [status EXCEPT ![e] = Verdict(p, e)] ELSE status
      /\ Turn(p, Tail(batch[p]))
      /\ UNCHANGED <<inbox, row, jobVars, bounds>>

\* The process is lost, or the database is: drain swallows it, and the next
\* tick starts again from what is pending.
PollerFails(p) ==
  /\ crashes < MaxCrashes
  /\ batch[p] # <<>>
  /\ Turn(p, <<>>)
  /\ crashes' = crashes + 1
  /\ UNCHANGED <<eventVars, row, jobVars, lifts>>

\* A human sets liftedAt, "because this must be reversible".
Lift(a) ==
  /\ lifts < MaxLifts
  /\ Live(a)
  /\ row' = [row EXCEPT ![a].is = "lifted"]
  /\ lifts' = lifts + 1
  /\ UNCHANGED <<eventVars, pollerVars, jobVars, crashes>>

-----------------------------------------------------------------------------
(* Mail                                                                    *)

\* A worker process without a job: each takes one at a time.
Idle == Cardinality({j \in Job : job[j] = "sending"}) < Cardinality(Poller)

\* An attempt of j that threw: there may be another.
Thrown(j) ==
  /\ tries' = [tries EXCEPT ![j] = @ + 1]
  /\ job' = [job EXCEPT ![j] = IF tries[j] + 1 < Attempts THEN "waiting" ELSE "failed"]

\* Mistake: send does not look at the list.
PickUnchecked(j) ==
  /\ job[j] = "waiting" /\ Idle
  /\ job' = [job EXCEPT ![j] = "sending"]
  /\ crossed' = crossed \ {j}
  /\ UNCHANGED <<eventVars, row, pollerVars, tries, keys, mails, bounds>>

\* A worker takes a job and finds no live suppression.
Pick(j) ==
  /\ job[j] = "waiting" /\ Idle
  /\ ~Live(Recipient[j])
  /\ job' = [job EXCEPT ![j] = "sending"]
  /\ crossed' = crossed \ {j}
  /\ UNCHANGED <<eventVars, row, pollerVars, tries, keys, mails, bounds>>

\* MailSuppressedError, which the queue cannot tell from any other error.
PickSuppressed(j) ==
  /\ job[j] = "waiting" /\ Idle
  /\ Live(Recipient[j])
  /\ Thrown(j)
  /\ UNCHANGED <<eventVars, row, pollerVars, keys, mails, crossed, bounds>>

\* The user was deleted: the job is complete, and nothing is sent.
NoUser(j) ==
  /\ job[j] = "waiting" /\ Idle /\ j \in LooksUp
  /\ job' = [job EXCEPT ![j] = "dropped"]
  /\ UNCHANGED <<eventVars, row, pollerVars, tries, keys, mails, crossed, bounds>>

\* Mistake: a key per attempt.
KeyOfAttempt(j) == <<Intent[j], tries[j]>>

\* Derived from what is sent, not from the attempt.
IdempotencyKey(j) == <<Intent[j], 0>>

\* The provider sends once for a key.
Accepted(j) ==
  /\ keys' = keys \cup {IdempotencyKey(j)}
  /\ mails' = [mails EXCEPT ![j] = IF IdempotencyKey(j) \in keys THEN @ ELSE @ + 1]

Send(j) ==
  /\ job[j] = "sending"
  /\ Accepted(j)
  /\ job' = [job EXCEPT ![j] = "sent"]
  /\ UNCHANGED <<eventVars, row, pollerVars, tries, crossed, bounds>>

\* The provider resolves with an error, which send throws.
SendFails(j) ==
  /\ job[j] = "sending"
  /\ Thrown(j)
  /\ UNCHANGED <<eventVars, row, pollerVars, keys, mails, crossed, bounds>>

\* The worker is lost, or the answer: the mail may be out, and the stalled job
\* is taken again.
SenderFails(j) ==
  /\ crashes < MaxCrashes
  /\ job[j] = "sending"
  /\ \/ Accepted(j)
     \/ UNCHANGED <<keys, mails>>
  /\ Thrown(j)
  /\ crashes' = crashes + 1
  /\ UNCHANGED <<eventVars, row, pollerVars, crossed, lifts>>

-----------------------------------------------------------------------------
Suppress(p) ==
  \E a \in Address :
    FindLive(p, a) \/ FindNone(p, a) \/ Create(p, a) \/ CreateConflicts(p, a)

Poll(p) == Drain(p) \/ Suppress(p) \/ Mark(p)

Try(j) == Pick(j) \/ PickSuppressed(j) \/ Send(j)

Next ==
  \/ \E e \in Event : Receive(e)
  \/ \E p \in Poller : Poll(p) \/ PollerFails(p)
  \/ \E a \in Address : Lift(a)
  \/ \E j \in Job : Try(j) \/ NoUser(j) \/ SendFails(j) \/ SenderFails(j)

Spec == Init /\ [][Next]_vars

\* The interval of the poller and the worker of the queue go on.
FairSpec ==
  /\ Spec
  /\ \A p \in Poller : WF_vars(Poll(p))
  /\ \A j \in Job : SF_vars(Try(j))

-----------------------------------------------------------------------------
Statuses == {"none", "pending", "processed", "ignored", "failed"}

\* A bounce or a complaint that counts as processed has every one of its
\* recipients on the list, or a human has taken them off, whichever poller, crash
\* or other delivery came in between.
ProcessedIsListed ==
  \A e \in Event :
    status[e] = "processed" /\ Kind[e] \in Suppressing =>
      \A a \in To[e] : row[a] # NoRow

\* "The FIRST suppression is the one that explains why mail stopped": no later
\* delivery rewrites it.
FirstReasonStays ==
  [][\A a \in Address : row[a] # NoRow => row'[a].by = row[a].by]_vars

\* A retry, a stalled job that runs again and a second job of one link send no
\* second mail.
OneMailPerIntent ==
  \A i \in {Intent[j] : j \in Job} :
    LET jobs == {j \in Job : Intent[j] = i}
    IN  \A j, k \in jobs : mails[j] + (IF j = k THEN 0 ELSE mails[k]) <= 1

\* No mail goes to an address on the list, but for one that was on its way when
\* the address came on it.
NoMailToListed ==
  [][\A j \in Job : mails'[j] # mails[j] => ~Live(Recipient[j]) \/ j \in crossed]_vars

\* "What DOES matter is that it always runs": every stored delivery is settled,
\* whatever the handling of those before it came to, and every job ends.
MailSettles ==
  /\ \A e \in Event : Pending(e) ~> status[e] \in {"processed", "ignored", "failed"}
  /\ \A j \in Job : <>(job[j] \in {"sent", "dropped", "failed"})
=============================================================================
