----------------------------- MODULE MailProofs -----------------------------
(***************************************************************************)
(* What holds of the mail and its suppression list for every set of        *)
(* addresses, deliveries, pollers and jobs.  Nothing is said of what a     *)
(* batch is made of, only of the delivery each poller is at (Handles), so  *)
(* the proofs do not need to know what SelectSeq gives.                    *)
(***************************************************************************)
EXTENDS Mail, TLAPS

\* The shape of the variables, as far as the steps depend on it.
Shape ==
  /\ status \in [Event -> Statuses]
  /\ DOMAIN row = Address
  /\ \A a \in Address : row[a] = [is |-> row[a].is, by |-> row[a].by]
  /\ DOMAIN batch = Poller /\ DOMAIN left = Poller /\ DOMAIN creating = Poller
  /\ job \in [Job -> {"waiting", "sending", "sent", "dropped", "failed"}]
  /\ mails \in [Job -> Nat]

\* The delivery a poller is at asks for nothing that is not on the list or still
\* to be put there, unless its handling threw.
Handles ==
  \A p \in Poller :
    batch[p] # <<>> /\ p \notin broken =>
      \A a \in ToSuppress(Head(batch[p])) : a \in left[p] \/ row[a] # NoRow

\* What is creating is left, and only an address of the list is.
Asks == \A p \in Poller : creating[p] \subseteq left[p]

\* A mail that went out left its key with the provider, and is the only one.
Keyed ==
  \A j, k \in Job :
    Intent[j] = Intent[k] /\ mails[j] # 0 =>
      /\ IdempotencyKey(k) \in keys
      /\ mails[j] = 1
      /\ mails[k] # 0 => j = k

\* A job that is sending has looked at the list.
Looked == \A j \in Job : job[j] = "sending" => ~Live(Recipient[j]) \/ j \in crossed

-----------------------------------------------------------------------------
\* The steps, one by one.
LEMMA NextCases ==
  ASSUME Next
  PROVE \/ \E e \in Event : Receive(e)
        \/ \E p \in Poller : Drain(p) \/ Mark(p) \/ PollerFails(p)
        \/ \E p \in Poller, a \in Address :
             FindLive(p, a) \/ FindNone(p, a) \/ Create(p, a) \/ CreateConflicts(p, a)
        \/ \E a \in Address : Lift(a)
        \/ \E j \in Job : Pick(j) \/ PickSuppressed(j) \/ Send(j)
        \/ \E j \in Job : NoUser(j) \/ SendFails(j) \/ SenderFails(j)
  BY DEF Next, Poll, Suppress, Try

\* The variables keep their shape: a status is one there is, a row of the list has
\* its two columns.
THEOREM MailShaped == Spec => []Shape
<1>1. Init => Shape
  BY DEF Init, Shape, NoRow, Statuses
<1>2. Shape /\ [Next]_vars => Shape'
  <2> SUFFICES ASSUME Shape, [Next]_vars PROVE Shape'
    OBVIOUS
  <2> USE DEF Shape, Statuses
  <2>1. CASE UNCHANGED vars
    BY <2>1 DEF vars, eventVars, pollerVars, jobVars
  <2>2. ASSUME NEW e \in Event, Receive(e) PROVE Shape'
    BY <2>2 DEF Receive, pollerVars, jobVars
  <2>3. ASSUME NEW p \in Poller, Drain(p) PROVE Shape'
    BY <2>3 DEF Drain, Turn, eventVars, jobVars
  <2>4. ASSUME NEW p \in Poller, Mark(p) PROVE Shape'
    BY <2>4 DEF Mark, Turn, Verdict, jobVars
  <2>5. ASSUME NEW p \in Poller, PollerFails(p) PROVE Shape'
    BY <2>5 DEF PollerFails, Turn, eventVars, jobVars
  <2>6. ASSUME NEW p \in Poller, NEW a \in Address, FindLive(p, a) PROVE Shape'
    BY <2>6 DEF FindLive, eventVars, jobVars
  <2>7. ASSUME NEW p \in Poller, NEW a \in Address, FindNone(p, a) PROVE Shape'
    BY <2>7 DEF FindNone, eventVars, jobVars
  <2>8. ASSUME NEW p \in Poller, NEW a \in Address, Create(p, a) PROVE Shape'
    BY <2>8 DEF Create, eventVars
  <2>9. ASSUME NEW p \in Poller, NEW a \in Address, CreateConflicts(p, a) PROVE Shape'
    BY <2>9 DEF CreateConflicts, eventVars, jobVars
  <2>10. ASSUME NEW a \in Address, Lift(a) PROVE Shape'
    BY <2>10 DEF Lift, eventVars, pollerVars, jobVars
  <2>11. ASSUME NEW j \in Job, Pick(j) PROVE Shape'
    BY <2>11 DEF Pick, eventVars, pollerVars
  <2>12. ASSUME NEW j \in Job, PickSuppressed(j) PROVE Shape'
    BY <2>12 DEF PickSuppressed, Thrown, eventVars, pollerVars
  <2>13. ASSUME NEW j \in Job, Send(j) PROVE Shape'
    BY <2>13 DEF Send, Accepted, eventVars, pollerVars
  <2>14. ASSUME NEW j \in Job, NoUser(j) PROVE Shape'
    BY <2>14 DEF NoUser, eventVars, pollerVars
  <2>15. ASSUME NEW j \in Job, SendFails(j) PROVE Shape'
    BY <2>15 DEF SendFails, Thrown, eventVars, pollerVars
  <2>16. ASSUME NEW j \in Job, SenderFails(j) PROVE Shape'
    BY <2>16 DEF SenderFails, Thrown, Accepted, eventVars, pollerVars
  <2> QED
    BY <2>1, <2>2, <2>3, <2>4, <2>5, <2>6, <2>7, <2>8, <2>9, <2>10, <2>11, <2>12, <2>13,
       <2>14, <2>15, <2>16, NextCases
<1> QED
  BY <1>1, <1>2, PTL DEF Spec

-----------------------------------------------------------------------------
(* The list                                                                *)

\* The first suppression of an address is the one that stays: no delivery and no
\* human writes over the reason.
THEOREM FirstReasonStaysHolds == Spec => FirstReasonStays
<1> DEFINE P == \A a \in Address : row[a] # NoRow => row'[a].by = row[a].by
<1>1. Shape /\ [Next]_vars => [P]_vars
  <2> SUFFICES ASSUME Shape, Next PROVE P
    OBVIOUS
  <2>1. ASSUME NEW p \in Poller, NEW a \in Address, Create(p, a) PROVE P
    BY <2>1 DEF Create, Shape
  <2>2. ASSUME NEW a \in Address, Lift(a) PROVE P
    BY <2>2 DEF Lift, Shape
  <2>3. CASE row' = row
    BY <2>3
  <2> QED
    BY <2>1, <2>2, <2>3, NextCases DEF Receive, Drain, Mark, PollerFails, FindLive, FindNone,
       CreateConflicts, Pick, PickSuppressed, Send, NoUser, SendFails, SenderFails
<1> QED
  BY <1>1, MailShaped, PTL DEF Spec, FirstReasonStays

\* An address that has a row keeps one.
LEMMA RowsStay ==
  ASSUME Shape, [Next]_vars, NEW a \in Address, row[a] # NoRow
  PROVE  row'[a] # NoRow
<1>1. ASSUME NEW p \in Poller, NEW b \in Address, Create(p, b) PROVE row'[a] # NoRow
  BY <1>1 DEF Create, Shape, NoRow
<1>2. ASSUME NEW b \in Address, Lift(b) PROVE row'[a] # NoRow
  BY <1>2 DEF Lift, Shape, NoRow
<1>3. CASE row' = row
  BY <1>3
<1> QED
  BY <1>1, <1>2, <1>3, NextCases DEF Receive, Drain, Mark, PollerFails, FindLive, FindNone,
     CreateConflicts, Pick, PickSuppressed, Send, NoUser, SendFails, SenderFails, vars

\* The poller has turned to the first of b.
LEMMA TurnHandles ==
  ASSUME Shape, Handles, Asks, NEW p \in Poller, NEW b, Turn(p, b), row' = row
  PROVE  Handles' /\ Asks'
BY DEF Turn, Handles, Asks, Shape

\* What counts as processed is on the list, with every one of its recipients, or a
\* human has taken it off, whichever pollers handled it and whatever was lost.
THEOREM ProcessedIsListedHolds == Spec => []ProcessedIsListed
<1> DEFINE P == Handles /\ Asks /\ ProcessedIsListed
<1>1. Init => P
  BY DEF Init, Handles, Asks, ProcessedIsListed
<1>2. Shape /\ P /\ [Next]_vars => P'
  <2> SUFFICES ASSUME Shape, P, [Next]_vars PROVE P'
    OBVIOUS
  <2>1. ASSUME status' = status PROVE ProcessedIsListed'
    <3>1. \A e \in Event : To[e] \subseteq Address
      BY MailAssumption DEF MailAssumption
    <3> QED
      BY <2>1, <3>1, RowsStay DEF ProcessedIsListed
  <2>2. CASE UNCHANGED vars
    BY <2>2 DEF vars, eventVars, pollerVars, Handles, Asks, ProcessedIsListed
  <2>3. ASSUME NEW e \in Event, Receive(e) PROVE P'
    <3>1. Handles' /\ Asks'
      BY <2>3 DEF Receive, pollerVars, Handles, Asks
    <3>2. ProcessedIsListed'
      BY <2>3 DEF Receive, ProcessedIsListed, Shape
    <3> QED
      BY <3>1, <3>2
  <2>4. ASSUME NEW p \in Poller, Drain(p) PROVE P'
    BY <2>1, <2>4, TurnHandles DEF Drain, eventVars
  <2>5. ASSUME NEW p \in Poller, Mark(p) PROVE P'
    <3>1. Handles' /\ Asks'
      BY <2>5, TurnHandles DEF Mark
    <3>2. ASSUME NEW e \in Event, status'[e] = "processed", Kind[e] \in Suppressing,
                 NEW a \in To[e]
          PROVE  row'[a] # NoRow
      <4>1. a \in Address /\ row' = row
        BY <2>5, MailAssumption DEF Mark, MailAssumption
      <4>2. CASE status[e] = "processed"
        BY <3>2, <4>1, <4>2 DEF ProcessedIsListed
      <4>3. CASE status[e] # "processed"
        <5>1. /\ e = Head(batch[p]) /\ batch[p] # <<>> /\ left[p] = {}
              /\ Verdict(p, e) = "processed"
          BY <2>5, <3>2, <4>3 DEF Mark, Shape
        <5>2. p \notin broken
          BY <5>1 DEF Verdict
        <5> QED
          BY <3>2, <4>1, <5>1, <5>2 DEF Handles, ToSuppress
      <4> QED
        BY <4>2, <4>3
    <3> QED
      BY <3>1, <3>2 DEF ProcessedIsListed
  <2>6. ASSUME NEW p \in Poller, PollerFails(p) PROVE P'
    BY <2>1, <2>6, TurnHandles DEF PollerFails, eventVars
  <2>7. ASSUME NEW p \in Poller, NEW a \in Address, FindLive(p, a) PROVE P'
    <3>1. row[a] # NoRow
      BY <2>7 DEF FindLive, Live, NoRow
    <3> QED
      BY <2>1, <2>7, <3>1 DEF FindLive, eventVars, Handles, Asks, Shape
  <2>8. ASSUME NEW p \in Poller, NEW a \in Address, FindNone(p, a) PROVE P'
    BY <2>1, <2>8 DEF FindNone, eventVars, Handles, Asks, Shape
  <2>9. ASSUME NEW p \in Poller, NEW a \in Address, Create(p, a) PROVE P'
    <3>1. row'[a] # NoRow /\ \A b \in Address : row[b] # NoRow => row'[b] # NoRow
      BY <2>9, RowsStay DEF Create, Shape, NoRow
    <3>2. \A b : b # a => row'[b] = row[b]
      BY <2>9 DEF Create, Shape
    <3> QED
      BY <2>1, <2>9, <3>1, <3>2 DEF Create, eventVars, Handles, Asks, Shape
  <2>10. ASSUME NEW p \in Poller, NEW a \in Address, CreateConflicts(p, a) PROVE P'
    BY <2>1, <2>10 DEF CreateConflicts, eventVars, Handles, Asks, Shape
  <2>11. ASSUME NEW a \in Address, Lift(a) PROVE P'
    <3>1. row'[a] # NoRow
      BY <2>11, RowsStay DEF Lift, Live, NoRow
    <3>2. \A b : b # a => row'[b] = row[b]
      BY <2>11 DEF Lift, Shape
    <3> QED
      BY <2>1, <2>11, <3>1, <3>2 DEF Lift, eventVars, pollerVars, Handles, Asks
  <2>12. ASSUME UNCHANGED <<status, row, pollerVars>> PROVE P'
    BY <2>1, <2>12 DEF pollerVars, Handles, Asks
  <2> QED
    BY <2>2, <2>3, <2>4, <2>5, <2>6, <2>7, <2>8, <2>9, <2>10, <2>11, <2>12, NextCases
       DEF Pick, PickSuppressed, Send, NoUser, SendFails, SenderFails, eventVars
<1> QED
  BY <1>1, <1>2, MailShaped, PTL DEF Spec

-----------------------------------------------------------------------------
(* The mails                                                               *)

\* A job that sends has looked at the list; its address comes on the list after
\* that, or not at all.
LEMMA LookedIsKept ==
  ASSUME Shape, Looked, [Next]_vars PROVE Looked'
<1>1. CASE UNCHANGED vars
  BY <1>1 DEF vars, jobVars, Looked, Live
<1>2. ASSUME NEW p \in Poller, NEW a \in Address, Create(p, a) PROVE Looked'
  <2>1. \A b : b # a => row'[b] = row[b]
    BY <1>2 DEF Create, Shape
  <2> QED
    BY <1>2, <2>1 DEF Create, Cross, Looked, Live
<1>3. ASSUME NEW a \in Address, Lift(a) PROVE Looked'
  <2>1. /\ row'[a].is = "lifted" /\ \A b : b # a => row'[b] = row[b]
    BY <1>3 DEF Lift, Shape
  <2> QED
    BY <1>3, <2>1 DEF Lift, jobVars, Looked, Live
<1>4. ASSUME NEW j \in Job, Pick(j) PROVE Looked'
  <2>1. \A k \in Job : k # j => job'[k] = job[k]
    BY <1>4 DEF Pick, Shape
  <2> QED
    BY <1>4, <2>1 DEF Pick, Looked, Live
<1>5. ASSUME NEW j \in Job, PickSuppressed(j) \/ SendFails(j) PROVE Looked'
  BY <1>5 DEF PickSuppressed, SendFails, Thrown, Shape, Looked, Live
<1>6. ASSUME NEW j \in Job, Send(j) \/ NoUser(j) PROVE Looked'
  BY <1>6 DEF Send, NoUser, Shape, Looked, Live
<1>7. ASSUME NEW j \in Job, SenderFails(j) PROVE Looked'
  BY <1>7 DEF SenderFails, Thrown, Shape, Looked, Live
<1>8. ASSUME UNCHANGED <<row, job, crossed>> PROVE Looked'
  BY <1>8 DEF Looked, Live
<1> QED
  BY <1>1, <1>2, <1>3, <1>4, <1>5, <1>6, <1>7, <1>8, NextCases
     DEF Receive, Drain, Mark, PollerFails, FindLive, FindNone, CreateConflicts, jobVars

\* No mail goes to an address on the list, but one that was on its way.
THEOREM NoMailToListedHolds == Spec => NoMailToListed
<1> DEFINE P == \A j \in Job : mails'[j] # mails[j] => ~Live(Recipient[j]) \/ j \in crossed
<1>1. Init => Looked
  BY DEF Init, Looked
<1>2. Shape /\ Looked /\ [Next]_vars => [P]_vars
  <2> SUFFICES ASSUME Shape, Looked, Next PROVE P
    OBVIOUS
  <2>1. ASSUME NEW j \in Job, Send(j) \/ SenderFails(j) PROVE P
    BY <2>1 DEF Send, SenderFails, Accepted, Shape, Looked
  <2>2. CASE mails' = mails
    BY <2>2
  <2> QED
    BY <2>1, <2>2, NextCases DEF Receive, Drain, Mark, PollerFails, FindLive, FindNone, Create,
       CreateConflicts, Lift, Pick, PickSuppressed, NoUser, SendFails, jobVars
<1> QED
  BY <1>1, <1>2, LookedIsKept, MailShaped, PTL DEF Spec, NoMailToListed

\* A retry, a stalled job and a second job of one link send no second mail.
THEOREM OneMailPerIntentHolds == Spec => []OneMailPerIntent
<1>1. Init => Keyed
  BY DEF Init, Keyed
<1>2. Shape /\ Keyed /\ [Next]_vars => Keyed'
  <2> SUFFICES ASSUME Shape, Keyed, [Next]_vars PROVE Keyed'
    OBVIOUS
  <2>1. ASSUME NEW j \in Job, Accepted(j) PROVE Keyed'
    BY <2>1 DEF Accepted, IdempotencyKey, Keyed, Shape
  <2>2. CASE UNCHANGED <<keys, mails>>
    BY <2>2 DEF Keyed
  <2> QED
    BY <2>1, <2>2, NextCases DEF Receive, Drain, Mark, PollerFails, FindLive, FindNone, Create,
       CreateConflicts, Lift, Pick, PickSuppressed, NoUser, Send, SendFails, SenderFails,
       jobVars, vars
<1>3. Shape /\ Keyed => OneMailPerIntent
  <2> SUFFICES ASSUME Shape, Keyed, NEW j \in Job, NEW k \in Job, Intent[j] = Intent[k]
               PROVE mails[j] + (IF j = k THEN 0 ELSE mails[k]) <= 1
    BY DEF OneMailPerIntent
  <2> QED
    BY DEF Keyed, Shape
<1> QED
  BY <1>1, <1>2, <1>3, MailShaped, PTL DEF Spec
=============================================================================
