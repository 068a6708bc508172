---------------------------- MODULE AccountProofs ----------------------------
(***************************************************************************)
(* What holds of the sensitive requests of a user for every set of         *)
(* requests, addresses, links and secrets, and every limit.  All of it     *)
(* rests on what a request carries from one statement to the next          *)
(* (Carries); the limits need a count of the requests that have passed     *)
(* their check and not yet been counted themselves (Guessing, Checking).   *)
(***************************************************************************)
EXTENDS Account, TLAPS, FiniteSetTheorems

Entering == {"changing", "replacing", "storing"}
Following == {"followed", "confirming"}

\* What a request carries by each stage.
Carries(h) ==
  /\ pc[h] \in {"limiting", "verifying", "spending"} => job[h].for # "none"
  /\ job[h].for = "changing" \/ pc[h] \in Entering \cup Following => job[h].to \in Address
  /\ pc[h] = "storing" => job[h].link \in drawn
  /\ pc[h] \in Following => job[h].link \in Stored
  /\ pc[h] \in {"entered", "swapping"} => job[h].secret \in secrets
  /\ pc[h] = "entered" => job[h].id # Nothing

Carried == \A h \in Handler : Carries(h)

\* Links that can be followed, or will be when their requests have stored them.
Coming == Pending \cup {job[h].link : h \in Storing}

\* Any two of them were drawn by requests that crossed.
AllCrossed == \A l, m \in Coming : l = m \/ {l, m} \in rivals

\* Requests whose code is still to be looked at, and counted if it is wrong.
Guessing == {h \in Handler : pc[h] = "entered" /\ ~TooMany(h)}
Checking == {h \in Handler : pc[h] = "verifying"}

\* From the limit on, what is counted and what may still be is bounded.
Counted ==
  /\ enrolment.attempts >= ENROLMENT_MAX_ATTEMPTS =>
       enrolment.attempts + Cardinality(Guessing)
         <= ENROLMENT_MAX_ATTEMPTS + Cardinality(Handler) - 1
  /\ failures >= MAX_ATTEMPTS =>
       failures + Cardinality(Checking) <= MAX_ATTEMPTS + Cardinality(Handler) - 1

\* A transaction that overlaps with no other deletes all there is.
Alone ==
  ~crossed =>
    /\ \A h \in Handler : InTransaction(h) => job[h].doomed = factor
    /\ \A h, i \in Handler : InTransaction(h) /\ InTransaction(i) => h = i
    /\ \A s, t \in factor : s = t
    /\ flag <=> factor # {}

-----------------------------------------------------------------------------
\* The statements, one by one.
LEMMA NextCases ==
  ASSUME Next
  PROVE \/ \E h \in Handler : AssertNotRateLimited(h) \/ NoFactor(h) \/ Mint(h)
        \/ \E h \in Handler : RecordFailure(h) \/ Consume(h) \/ NoGrant(h)
        \/ \E h \in Handler, p \in {"enrolling", "disabling"}, c \in Codes : StartStepUp(h, p, c)
        \/ \E h \in Handler, a \in Address, c \in Codes : RequestEmailChange(h, a, c)
        \/ \E h \in Handler, l \in Link : CancelEarlier(h, l) \/ FollowLink(h, l)
        \/ \E h \in Handler : CheckTaken(h) \/ Store(h)
        \/ \E h \in Handler : CheckClaimed(h) \/ ConfirmEmailChange(h) \/ ConfirmFails(h)
        \/ \E h \in Handler, c \in Codes : BeginEnrolment(h, c) \/ EnterCode(h, c) \/ Disable(h, c)
        \/ \E h \in Handler, s \in Secret : Enrol(h, s)
        \/ \E h \in Handler : GiveUpEnrolment(h) \/ WrongCode(h) \/ RightCode(h)
        \/ \E h \in Handler : ConfirmEnrolment(h) \/ DropFactor(h) \/ DisableTwoFactor(h)
        \/ \E l \in Link : CancelEmailChange(l)
        \/ \E a \in Address : Claim(a)
        \/ \E g \in grants : GrantExpires(g)
        \/ FailureAges
  BY DEF Next, StepUp, EmailChange, TwoFactor

\* Which statements write what.
LEMMA WriteCases ==
  ASSUME [Next]_vars
  PROVE /\ \/ UNCHANGED linkVars
           \/ \E h \in Handler, l \in Link : CancelEarlier(h, l)
           \/ \E h \in Handler : Store(h) \/ ConfirmEmailChange(h)
           \/ \E l \in Link : CancelEmailChange(l)
           \/ \E a \in Address : Claim(a)
        /\ \/ UNCHANGED factorVars
           \/ \E h \in Handler, s \in Secret : Enrol(h, s)
           \/ \E h \in Handler : GiveUpEnrolment(h) \/ WrongCode(h) \/ RightCode(h)
           \/ \E h \in Handler : DropFactor(h) \/ ConfirmEnrolment(h) \/ DisableTwoFactor(h)
        /\ \/ UNCHANGED failures
           \/ \E h \in Handler : RecordFailure(h)
           \/ FailureAges
  BY NextCases
     DEF vars, linkVars, factorVars, stepUpVars, AssertNotRateLimited, NoFactor, Mint,
         RecordFailure, Consume, NoGrant, StartStepUp, RequestEmailChange, Asks, CheckTaken,
         CancelEarlier, Draw, Store, FollowLink, CheckClaimed, ConfirmEmailChange, ConfirmFails,
         BeginEnrolment, EnterCode, Disable, Enrol, GiveUpEnrolment, WrongCode, RightCode,
         ConfirmEnrolment, DropFactor, Opens, DisableTwoFactor, CancelEmailChange, Claim,
         GrantExpires, FailureAges

\* What a request that was never asked for anything carries.
LEMMA NoJobIsJob == NoJob \in Job
  BY DEF NoJob, Job, Purpose

LinkTypes ==
  /\ email \in Address \ claimed /\ claimed \subseteq Address
  /\ newEmail \in [Link -> Address \cup {Nothing}]
  /\ confirmed \cup cancelled \subseteq Stored
  /\ Stored \subseteq drawn /\ drawn \subseteq Link
  /\ rivals \subseteq SUBSET drawn

FactorTypes ==
  /\ factor \subseteq secrets /\ secrets \subseteq Secret
  /\ flag \in BOOLEAN /\ crossed \in BOOLEAN
  /\ enrolment \in [id : Secret \cup {Nothing}, secret : Secret \cup {Nothing}, attempts : Nat]
  /\ enrolment # NoEnrolment => enrolment.id # Nothing /\ enrolment.secret \in secrets

StepUpTypes == failures \in Nat /\ grants \subseteq Purpose \X (Address \cup {Nothing})

ControlTypes ==
  /\ pc \in [Handler -> Steps]
  /\ job \in [Handler -> Job]
  /\ requests \in 0..MaxRequests

Types == LinkTypes /\ FactorTypes /\ StepUpTypes /\ ControlTypes

LEMMA TypesSuffice == Types => AccountTypeOK
  BY DEF Types, LinkTypes, FactorTypes, StepUpTypes, ControlTypes, AccountTypeOK

\* A request goes on, or begins, with what a request may carry.
LEMMA GoesTyped ==
  ASSUME ControlTypes, NEW h \in Handler, NEW from, NEW to \in Steps, NEW j \in Job,
         Goes(h, from, to, j)
  PROVE ControlTypes'
  BY DEF ControlTypes, Goes

LEMMA BeginTyped ==
  ASSUME ControlTypes, NEW h \in Handler, NEW to \in Steps, NEW j \in Job, Begin(h, to, j)
  PROVE ControlTypes'
<1>1. MaxRequests \in Nat
  BY AccountAssumption
<1> QED
  BY <1>1 DEF ControlTypes, Begin

\* The other requests stay where they are.
LEMMA OthersStay ==
  ASSUME ControlTypes, NEW h \in Handler, NEW i \in Handler \ {h}, NEW from, NEW to, NEW j,
         Goes(h, from, to, j) \/ Begin(h, to, j)
  PROVE pc'[i] = pc[i] /\ job'[i] = job[i]
  BY DEF ControlTypes, Goes, Begin

\* ... and that one is where it went.
LEMMA ItIsThere ==
  ASSUME ControlTypes, NEW h \in Handler, NEW from, NEW to, NEW j,
         Goes(h, from, to, j) \/ Begin(h, to, j)
  PROVE pc'[h] = to /\ job'[h] = j
  BY DEF ControlTypes, Goes, Begin

LEMMA TypesStay == Types /\ Carried /\ [Next]_vars => Types'
<1> SUFFICES ASSUME Types, Carried, [Next]_vars PROVE Types'
  OBVIOUS
<1> USE DEF Types
<1>a. \A h \in Handler : job[h] \in Job /\ Carries(h)
  BY DEF ControlTypes, Carried
<1>c. Codes \subseteq Secret \cup {Nothing}
  BY DEF FactorTypes, Codes
<1>n. NoJob \in Job
  BY NoJobIsJob
<1>0. CASE UNCHANGED vars
  BY <1>0 DEF vars, linkVars, factorVars, stepUpVars, LinkTypes, FactorTypes, StepUpTypes,
              ControlTypes, Stored
<1>l. ASSUME UNCHANGED linkVars PROVE LinkTypes'
  BY <1>l DEF linkVars, LinkTypes, Stored
<1>f. ASSUME UNCHANGED factorVars PROVE FactorTypes'
  BY <1>f DEF factorVars, FactorTypes
<1>s. ASSUME UNCHANGED stepUpVars PROVE StepUpTypes'
  BY <1>s DEF stepUpVars, StepUpTypes
<1>p. ASSUME UNCHANGED <<pc, job, requests>> PROVE ControlTypes'
  BY <1>p DEF ControlTypes
<1>e. ASSUME NEW h \in Handler, NEW from, Ends(h, from) PROVE ControlTypes'
  BY <1>e, <1>n, GoesTyped DEF Ends, Steps
<1>m. ASSUME NEW h \in Handler, NEW from, NEW to \in Steps, Moves(h, from, to) PROVE ControlTypes'
  BY <1>m, <1>a, GoesTyped DEF Moves
<1>1. ASSUME NEW h \in Handler, AssertNotRateLimited(h) PROVE Types'
  BY <1>1, <1>l, <1>f, <1>s, <1>m DEF AssertNotRateLimited, Steps
<1>2. ASSUME NEW h \in Handler, NoFactor(h) PROVE Types'
  BY <1>2, <1>l, <1>f, <1>s, <1>e DEF NoFactor
<1>3. ASSUME NEW h \in Handler, Mint(h) PROVE Types'
  <2>1. ControlTypes'
    BY <1>3, <1>e, <1>m DEF Mint, Steps
  <2>2. GrantOf(h) \in Purpose \X (Address \cup {Nothing})
    BY <1>a DEF GrantOf, Job
  <2>3. StepUpTypes'
    BY <1>3, <2>2 DEF Mint, StepUpTypes
  <2> QED
    BY <1>3, <1>l, <1>f, <2>1, <2>3 DEF Mint
<1>4. ASSUME NEW h \in Handler, RecordFailure(h) PROVE Types'
  BY <1>4, <1>l, <1>f, <1>e DEF RecordFailure, StepUpTypes
<1>5. ASSUME NEW h \in Handler, Consume(h) PROVE Types'
  <2>1. job[h].for \in Steps
    BY <1>5, <1>a DEF Consume, Moves, Goes, Carries, Job, Purpose, Steps
  <2>2. ControlTypes'
    BY <1>5, <2>1, <1>m DEF Consume
  <2> QED
    BY <1>5, <1>l, <1>f, <2>2 DEF Consume, StepUpTypes
<1>6. ASSUME NEW h \in Handler, NoGrant(h) PROVE Types'
  BY <1>6, <1>l, <1>f, <1>s, <1>e DEF NoGrant
<1>7. ASSUME NEW h \in Handler, NEW p \in {"enrolling", "disabling"}, NEW c \in Codes,
             StartStepUp(h, p, c)
      PROVE Types'
  <2>1. [NoJob EXCEPT !.for = p, !.code = c, !.alone = TRUE] \in Job
    BY <1>n, <1>c DEF Job, Purpose
  <2> QED
    BY <1>7, <2>1, <1>l, <1>f, <1>s, BeginTyped DEF StartStepUp, Steps
<1>8. ASSUME NEW h \in Handler, NEW p \in {"changing", "enrolling", "disabling"},
             NEW a \in Address \cup {Nothing}, NEW c \in Codes, Asks(h, p, a, c)
      PROVE Types'
  <2>1. [NoJob EXCEPT !.for = p, !.to = a, !.code = c] \in Job
    BY <1>n, <1>c DEF Job, Purpose
  <2> QED
    BY <1>8, <2>1, <1>l, <1>f, <1>s, BeginTyped DEF Asks, Steps
<1>9. ASSUME NEW h \in Handler, CheckTaken(h) PROVE Types'
  BY <1>9, <1>l, <1>f, <1>s, <1>m DEF CheckTaken, Steps
<1>10. ASSUME NEW h \in Handler, NEW l \in Link, CancelEarlier(h, l) PROVE Types'
  <2>1. [job[h] EXCEPT !.link = l] \in Job
    BY <1>a DEF Job
  <2>2. ControlTypes'
    BY <1>10, <2>1, GoesTyped DEF CancelEarlier, Draw, Steps
  <2>3. \A i \in Storing : job[i].link \in drawn
    BY <1>a DEF Storing, Carries
  <2>4. drawn' = drawn \cup {l} /\ rivals' \subseteq SUBSET drawn'
    BY <1>10, <2>3 DEF CancelEarlier, Draw, LinkTypes
  <2>5. LinkTypes'
    BY <1>10, <2>4 DEF CancelEarlier, LinkTypes, Pending, Stored
  <2> QED
    BY <1>10, <2>2, <2>5, <1>f, <1>s DEF CancelEarlier
<1>11. ASSUME NEW h \in Handler, Store(h) PROVE Types'
  <2>1. job[h].to \in Address /\ job[h].link \in drawn /\ job[h].to # Nothing
    BY <1>11, <1>a, AccountAssumption DEF Store, Ends, Goes, Carries, Entering
  <2>2. Stored' = Stored \cup {job[h].link}
    BY <1>11, <2>1 DEF Store, Stored, LinkTypes
  <2>3. LinkTypes'
    BY <1>11, <2>1, <2>2 DEF Store, LinkTypes
  <2> QED
    BY <1>11, <2>3, <1>f, <1>s, <1>e DEF Store
<1>12. ASSUME NEW h \in Handler, NEW l \in Link, FollowLink(h, l) PROVE Types'
  <2>1. [NoJob EXCEPT !.link = l, !.to = newEmail[l]] \in Job
    BY <1>n DEF Job, LinkTypes
  <2> QED
    BY <1>12, <2>1, <1>l, <1>f, <1>s, BeginTyped DEF FollowLink, Steps
<1>13. ASSUME NEW h \in Handler, CheckClaimed(h) PROVE Types'
  BY <1>13, <1>l, <1>f, <1>s, <1>m DEF CheckClaimed, Steps
<1>14. ASSUME NEW h \in Handler, ConfirmEmailChange(h) PROVE Types'
  <2>1. job[h].to \in Address /\ job[h].link \in Stored
    BY <1>14, <1>a DEF ConfirmEmailChange, Ends, Goes, Carries, Following
  <2>2. LinkTypes'
    BY <1>14, <2>1 DEF ConfirmEmailChange, LinkTypes, Stored
  <2> QED
    BY <1>14, <2>2, <1>f, <1>s, <1>e DEF ConfirmEmailChange
<1>15. ASSUME NEW h \in Handler, ConfirmFails(h) PROVE Types'
  BY <1>15, <1>l, <1>f, <1>s, <1>e DEF ConfirmFails
<1>16. ASSUME NEW h \in Handler, NEW c \in Codes, BeginEnrolment(h, c) PROVE Types'
  <2>1. CASE Begin(h, "enrolling", NoJob) /\ UNCHANGED <<linkVars, factorVars, stepUpVars>>
    BY <2>1, <1>n, <1>l, <1>f, <1>s, BeginTyped DEF Steps
  <2>2. CASE Asks(h, "enrolling", Nothing, c)
    BY <2>2, <1>8
  <2> QED
    BY <1>16, <2>1, <2>2 DEF BeginEnrolment
<1>17. ASSUME NEW h \in Handler, NEW s \in Secret, Enrol(h, s) PROVE Types'
  <2>1. s # Nothing
    BY AccountAssumption
  <2>2. FactorTypes'
    BY <1>17, <2>1 DEF Enrol, FactorTypes
  <2> QED
    BY <1>17, <2>2, <1>l, <1>s, <1>e DEF Enrol
<1>18. ASSUME NEW h \in Handler, NEW c \in Codes, EnterCode(h, c) PROVE Types'
  <2>1. [NoJob EXCEPT !.code = c, !.id = enrolment.id, !.secret = enrolment.secret,
                      !.attempts = enrolment.attempts] \in Job
    BY <1>n, <1>c DEF Job, FactorTypes
  <2> QED
    BY <1>18, <2>1, <1>l, <1>f, <1>s, BeginTyped DEF EnterCode, Steps
<1>19. ASSUME NEW h \in Handler, GiveUpEnrolment(h) PROVE Types'
  BY <1>19, <1>l, <1>s, <1>e DEF GiveUpEnrolment, FactorTypes, NoEnrolment
<1>20. ASSUME NEW h \in Handler, WrongCode(h) PROVE Types'
  <2>1. job[h].id # Nothing
    BY <1>20, <1>a DEF WrongCode, Ends, Goes, Carries
  <2>2. FactorTypes'
    BY <1>20, <2>1 DEF WrongCode, FactorTypes, NoEnrolment
  <2> QED
    BY <1>20, <2>2, <1>l, <1>s, <1>e DEF WrongCode
<1>21. ASSUME NEW h \in Handler, NEW from, NEW to \in Steps, Opens(h, from, to) PROVE Types'
  <2>1. [job[h] EXCEPT !.doomed = factor] \in Job
    BY <1>a DEF Job, FactorTypes
  <2>2. crossed' \in BOOLEAN
    BY <1>21 DEF Opens, FactorTypes
  <2>3. FactorTypes'
    BY <1>21, <2>2 DEF Opens, FactorTypes
  <2> QED
    BY <1>21, <2>1, <2>3, <1>l, <1>s, GoesTyped DEF Opens
<1>22. ASSUME NEW h \in Handler, RightCode(h) \/ DropFactor(h) PROVE Types'
  BY <1>22, <1>21 DEF RightCode, DropFactor, Steps
<1>23. ASSUME NEW h \in Handler, ConfirmEnrolment(h) PROVE Types'
  <2>1. job[h].secret \in secrets
    BY <1>23, <1>a DEF ConfirmEnrolment, Ends, Goes, Carries
  <2>2. FactorTypes'
    BY <1>23, <2>1 DEF ConfirmEnrolment, FactorTypes, NoEnrolment
  <2> QED
    BY <1>23, <2>2, <1>l, <1>s, <1>e DEF ConfirmEnrolment
<1>24. ASSUME NEW h \in Handler, DisableTwoFactor(h) PROVE Types'
  BY <1>24, <1>l, <1>s, <1>e DEF DisableTwoFactor, FactorTypes
<1>25. ASSUME NEW l \in Link, CancelEmailChange(l) PROVE Types'
  BY <1>25, <1>f, <1>s, <1>p DEF CancelEmailChange, LinkTypes, Stored, Pending
<1>26. ASSUME NEW a \in Address, Claim(a) PROVE Types'
  BY <1>26, <1>f, <1>s, <1>p DEF Claim, LinkTypes, Stored, Taken
<1>27. ASSUME NEW g \in grants, GrantExpires(g) PROVE Types'
  BY <1>27, <1>l, <1>f, <1>p DEF GrantExpires, StepUpTypes
<1>28. ASSUME FailureAges PROVE Types'
  BY <1>28, <1>l, <1>f, <1>p DEF FailureAges, StepUpTypes
<1>29. ASSUME NEW h \in Handler, NEW a \in Address, NEW c \in Codes, RequestEmailChange(h, a, c)
       PROVE Types'
  BY <1>29, <1>8 DEF RequestEmailChange
<1>30. ASSUME NEW h \in Handler, NEW c \in Codes, Disable(h, c) PROVE Types'
  BY <1>30, <1>8 DEF Disable
<1> QED
  BY <1>0, <1>1, <1>2, <1>3, <1>4, <1>5, <1>6, <1>7, <1>9, <1>10, <1>11, <1>12, <1>13, <1>14,
     <1>15, <1>16, <1>17, <1>18, <1>19, <1>20, <1>22, <1>23, <1>24, <1>25, <1>26, <1>27,
     <1>28, <1>29, <1>30, NextCases

\* Links stay stored, tokens stay issued, secrets stay handed out.
LEMMA NothingForgotten ==
  ASSUME Types, Carried, [Next]_vars
  PROVE Stored \subseteq Stored' /\ drawn \subseteq drawn' /\ secrets \subseteq secrets'
<1>1. \A h \in Handler : job[h] \in Job /\ Carries(h)
  BY DEF Types, ControlTypes, Carried
<1>2. ASSUME NEW h \in Handler, Store(h)
      PROVE Stored \subseteq Stored' /\ drawn \subseteq drawn' /\ secrets \subseteq secrets'
  <2>1. job[h].to # Nothing
    BY <1>2, <1>1, AccountAssumption DEF Store, Ends, Goes, Carries, Entering
  <2> QED
    BY <1>2, <2>1 DEF Store, Types, LinkTypes, Stored, factorVars
<1>3. ASSUME NEW h \in Handler, NEW l \in Link, CancelEarlier(h, l)
      PROVE Stored \subseteq Stored' /\ drawn \subseteq drawn' /\ secrets \subseteq secrets'
  BY <1>3 DEF CancelEarlier, Draw, Stored, factorVars
<1>4. CASE UNCHANGED <<newEmail, drawn>> /\ secrets \subseteq secrets'
  BY <1>4 DEF Stored
<1>5. secrets \subseteq secrets'
  BY WriteCases DEF factorVars, Enrol, GiveUpEnrolment, WrongCode, RightCode, DropFactor, Opens,
     ConfirmEnrolment, DisableTwoFactor
<1> QED
  BY <1>2, <1>3, <1>4, <1>5, WriteCases
     DEF linkVars, ConfirmEmailChange, CancelEmailChange, Claim

LEMMA CarriedStay == Types /\ Carried /\ [Next]_vars => Carried'
<1> SUFFICES ASSUME Types, Carried, [Next]_vars, NEW i \in Handler PROVE Carries(i)'
  BY DEF Carried
<1>g. Stored \subseteq Stored' /\ drawn \subseteq drawn' /\ secrets \subseteq secrets'
  BY NothingForgotten
<1>i. Carries(i) /\ job[i] \in Job
  BY DEF Carried, Types, ControlTypes
<1>t. ControlTypes
  BY DEF Types
<1>s. ASSUME pc'[i] = pc[i], job'[i] = job[i] PROVE Carries(i)'
  BY <1>s, <1>g, <1>i DEF Carries
<1>o. ASSUME NEW h \in Handler, h # i, NEW from, NEW to, NEW j,
             Goes(h, from, to, j) \/ Begin(h, to, j)
      PROVE Carries(i)'
  BY <1>o, <1>s, <1>t, OthersStay
<1>h. ASSUME NEW from, NEW to, NEW j, Goes(i, from, to, j) \/ Begin(i, to, j)
      PROVE pc'[i] = to /\ job'[i] = j
  BY <1>h, <1>t, ItIsThere
<1>e. ASSUME NEW h \in Handler, NEW from, Ends(h, from) PROVE Carries(i)'
  <2>1. CASE h # i
    BY <2>1, <1>e, <1>o DEF Ends
  <2>2. CASE h = i
    <3>1. pc'[i] = "idle" /\ job'[i] = NoJob
      BY <2>2, <1>e, <1>h DEF Ends
    <3> QED
      BY <3>1 DEF Carries, NoJob, Entering, Following
  <2> QED
    BY <2>1, <2>2
<1>m. ASSUME NEW h \in Handler, NEW from, NEW to, Moves(h, from, to), h = i =>
             \/ to = "idle"
             \/ from \in {"limiting", "verifying"} /\ to \in {"verifying", "spending"}
             \/ from = "spending" /\ to = job[i].for
             \/ from = "changing" /\ to = "replacing"
             \/ from = "followed" /\ to = "confirming"
      PROVE Carries(i)'
  <2>1. CASE h # i
    BY <2>1, <1>m, <1>o DEF Moves
  <2>2. CASE h = i
    <3>1. pc[i] = from /\ pc'[i] = to /\ job'[i] = job[i]
      BY <2>2, <1>m, <1>h DEF Moves, Goes
    <3>2. job[i].for \in {"none", "changing", "enrolling", "disabling"}
      BY <1>i DEF Job, Purpose
    <3> QED
      BY <3>1, <3>2, <2>2, <1>m, <1>g, <1>i DEF Carries, Entering, Following
  <2> QED
    BY <2>1, <2>2
<1>b. ASSUME NEW h \in Handler, NEW to, NEW j, Begin(h, to, j),
             h = i => \/ /\ to = "limiting"
                         /\ j.for # "none"
                         /\ j.for = "changing" => j.to \in Address
                      \/ to = "enrolling" /\ j.for # "changing"
      PROVE Carries(i)'
  <2>1. CASE h # i
    BY <2>1, <1>b, <1>o
  <2>2. CASE h = i
    <3>1. pc'[i] = to /\ job'[i] = j
      BY <2>2, <1>b, <1>h
    <3> QED
      BY <3>1, <2>2, <1>b DEF Carries, Entering, Following
  <2> QED
    BY <2>1, <2>2
<1>1. ASSUME NEW h \in Handler, AssertNotRateLimited(h) PROVE Carries(i)'
  BY <1>1, <1>m DEF AssertNotRateLimited
<1>2. ASSUME NEW h \in Handler, Mint(h) PROVE Carries(i)'
  BY <1>2, <1>m, <1>e DEF Mint
<1>3. ASSUME NEW h \in Handler, Consume(h) PROVE Carries(i)'
  BY <1>3, <1>m DEF Consume
<1>4. ASSUME NEW h \in Handler, CheckTaken(h) \/ CheckClaimed(h) PROVE Carries(i)'
  BY <1>4, <1>m DEF CheckTaken, CheckClaimed
<1>5. ASSUME NEW h \in Handler,
             \/ NoFactor(h) \/ RecordFailure(h) \/ NoGrant(h) \/ Store(h)
             \/ ConfirmEmailChange(h) \/ ConfirmFails(h) \/ GiveUpEnrolment(h) \/ WrongCode(h)
             \/ ConfirmEnrolment(h) \/ DisableTwoFactor(h)
      PROVE Carries(i)'
  BY <1>5, <1>e DEF NoFactor, RecordFailure, NoGrant, Store, ConfirmEmailChange, ConfirmFails,
     GiveUpEnrolment, WrongCode, ConfirmEnrolment, DisableTwoFactor
<1>6. ASSUME NEW h \in Handler, NEW s \in Secret, Enrol(h, s) PROVE Carries(i)'
  BY <1>6, <1>e DEF Enrol
<1>7. ASSUME NEW h \in Handler, NEW p \in {"enrolling", "disabling"}, NEW c, StartStepUp(h, p, c)
      PROVE Carries(i)'
  BY <1>7, <1>b DEF StartStepUp, NoJob
<1>8. ASSUME NEW h \in Handler, NEW p \in {"changing", "enrolling", "disabling"}, NEW a, NEW c,
             p = "changing" => a \in Address, Asks(h, p, a, c)
      PROVE Carries(i)'
  <2> DEFINE j == [NoJob EXCEPT !.for = p, !.to = a, !.code = c]
  <2>1. j.for = p /\ j.to = a
    BY DEF NoJob
  <2> HIDE DEF j
  <2> QED
    BY <1>8, <2>1, <1>b DEF Asks, j
<1>9. ASSUME NEW h \in Handler, NEW l \in Link, CancelEarlier(h, l) PROVE Carries(i)'
  <2>1. CASE h # i
    BY <2>1, <1>9, <1>o DEF CancelEarlier, Draw
  <2>2. CASE h = i
    <3>1. pc'[i] = "storing" /\ job'[i] = [job[i] EXCEPT !.link = l] /\ pc[i] = "replacing"
      BY <2>2, <1>9, <1>h DEF CancelEarlier, Draw, Goes
    <3>2. job'[i].link = l /\ job'[i].to = job[i].to /\ job'[i].for = job[i].for
      BY <3>1, <1>i DEF Job
    <3>3. l \in drawn'
      BY <1>9 DEF CancelEarlier, Draw
    <3> QED
      BY <3>1, <3>2, <3>3, <1>i DEF Carries, Entering, Following
  <2> QED
    BY <2>1, <2>2
<1>10. ASSUME NEW h \in Handler, NEW l \in Link, FollowLink(h, l) PROVE Carries(i)'
  <2>1. CASE h # i
    BY <2>1, <1>10, <1>o DEF FollowLink
  <2>2. CASE h = i
    <3>1. /\ pc'[i] = "followed"
          /\ job'[i] = [NoJob EXCEPT !.link = l, !.to = newEmail[l]]
      BY <2>2, <1>10, <1>h DEF FollowLink
    <3>2. job'[i].link = l /\ job'[i].to = newEmail[l]
      BY <3>1 DEF NoJob
    <3>3. l \in Stored /\ newEmail[l] \in Address
      BY <1>10 DEF FollowLink, Pending, Stored, Types, LinkTypes
    <3> QED
      BY <3>1, <3>2, <3>3, <1>g DEF Carries, Entering, Following
  <2> QED
    BY <2>1, <2>2
<1>11. ASSUME NEW h \in Handler, NEW c, BeginEnrolment(h, c) PROVE Carries(i)'
  BY <1>11, <1>b, <1>8 DEF BeginEnrolment, NoJob
<1>12. ASSUME NEW h \in Handler, NEW c, EnterCode(h, c) PROVE Carries(i)'
  <2>1. CASE h # i
    BY <2>1, <1>12, <1>o DEF EnterCode
  <2>2. CASE h = i
    <3>1. /\ pc'[i] = "entered"
          /\ job'[i] = [NoJob EXCEPT !.code = c, !.id = enrolment.id,
                          !.secret = enrolment.secret, !.attempts = enrolment.attempts]
      BY <2>2, <1>12, <1>h DEF EnterCode
    <3>2. /\ job'[i].id = enrolment.id /\ job'[i].secret = enrolment.secret
          /\ job'[i].for = "none"
      BY <3>1 DEF NoJob
    <3>3. enrolment.id # Nothing /\ enrolment.secret \in secrets
      BY <1>12 DEF EnterCode, Types, FactorTypes
    <3> QED
      BY <3>1, <3>2, <3>3, <1>g DEF Carries, Entering, Following
  <2> QED
    BY <2>1, <2>2
<1>13. ASSUME NEW h \in Handler, NEW from, NEW to, Opens(h, from, to),
              \/ from = "entered" /\ to = "swapping"
              \/ from = "disabling" /\ to = "dropping"
       PROVE Carries(i)'
  <2>1. CASE h # i
    BY <2>1, <1>13, <1>o DEF Opens
  <2>2. CASE h = i
    <3>1. pc'[i] = to /\ job'[i] = [job[i] EXCEPT !.doomed = factor] /\ pc[i] = from
      BY <2>2, <1>13, <1>h DEF Opens, Goes
    <3>2. /\ job'[i].secret = job[i].secret /\ job'[i].to = job[i].to
          /\ job'[i].for = job[i].for
      BY <3>1, <1>i DEF Job
    <3> QED
      BY <3>1, <3>2, <1>13, <1>i, <1>g DEF Carries, Entering, Following
  <2> QED
    BY <2>1, <2>2
<1>14. ASSUME NEW h \in Handler, RightCode(h) \/ DropFactor(h) PROVE Carries(i)'
  BY <1>14, <1>13 DEF RightCode, DropFactor
<1>15. ASSUME NEW h \in Handler, NEW a \in Address, NEW c, RequestEmailChange(h, a, c)
       PROVE Carries(i)'
  BY <1>15, <1>8 DEF RequestEmailChange
<1>16. ASSUME NEW h \in Handler, NEW c, Disable(h, c) PROVE Carries(i)'
  BY <1>16, <1>8 DEF Disable
<1>17. ASSUME UNCHANGED <<pc, job>> PROVE Carries(i)'
  BY <1>17, <1>s
<1> QED
  BY <1>1, <1>2, <1>3, <1>4, <1>5, <1>6, <1>7, <1>9, <1>10, <1>11, <1>12, <1>14, <1>15, <1>16,
     <1>17, NextCases DEF vars, CancelEmailChange, Claim, GrantExpires, FailureAges

LEMMA IndInv == Spec => [](Types /\ Carried)
<1>1. Init => Types /\ Carried
  <2> SUFFICES ASSUME Init PROVE Types /\ Carried
    OBVIOUS
  <2> USE AccountAssumption DEF Init
  <2>1. Stored = {} /\ drawn = {} /\ rivals = {}
    BY DEF Stored
  <2>2. LinkTypes
    <3>1. newEmail \in [Link -> Address \cup {Nothing}]
      OBVIOUS
    <3> QED
      BY <2>1, <3>1 DEF LinkTypes
  <2>3. FactorTypes
    <3>1. flag \in BOOLEAN /\ crossed \in BOOLEAN
      OBVIOUS
    <3>2. factor \subseteq secrets /\ secrets \subseteq Secret
      OBVIOUS
    <3>3. /\ enrolment = NoEnrolment
          /\ NoEnrolment \in [id : Secret \cup {Nothing}, secret : Secret \cup {Nothing}, attempts : Nat]
      BY DEF NoEnrolment
    <3> QED
      BY <3>1, <3>2, <3>3 DEF FactorTypes
  <2>4. StepUpTypes /\ ControlTypes
    BY NoJobIsJob DEF StepUpTypes, ControlTypes, Steps
  <2>5. Carried
    BY DEF Carried, Carries, NoJob, Entering, Following
  <2> QED
    BY <2>2, <2>3, <2>4, <2>5 DEF Types
<1>2. Types /\ Carried /\ [Next]_vars => (Types /\ Carried)'
  BY TypesStay, CarriedStay
<1> QED
  BY <1>1, <1>2, PTL DEF Spec

\* Type correctness: in every reachable state the variables have their types,
\* the address is no other user's, and links that are confirmed or cancelled are
\* stored ones.
THEOREM AccountTyped == Spec => []AccountTypeOK
  BY IndInv, TypesSuffice, PTL

\* "Two clicks of the same link cannot both apply": whenever the address changes
\* a link is used up that was not.
THEOREM LinkWorksOnceHolds == Spec => LinkWorksOnce
<1>1. [Next]_vars => (email' # email => confirmed' # confirmed)
  BY WriteCases DEF linkVars, CancelEarlier, Draw, Store, ConfirmEmailChange, CancelEmailChange, Claim
<1> QED
  BY <1>1, PTL DEF Spec, LinkWorksOnce

-----------------------------------------------------------------------------
\* A step is of one request, and the others stay where they are, or of none.
LEMMA Mover ==
  ASSUME Types, [Next]_vars
  PROVE \/ /\ UNCHANGED <<pc, job>>
           /\ \/ UNCHANGED vars
              \/ \E l \in Link : CancelEmailChange(l)
              \/ \E a \in Address : Claim(a)
              \/ \E g \in grants : GrantExpires(g)
              \/ FailureAges
        \/ \E h \in Handler :
             /\ StepUp(h) \/ EmailChange(h) \/ TwoFactor(h)
             /\ \A i \in Handler \ {h} : pc'[i] = pc[i] /\ job'[i] = job[i]
<1>t. ControlTypes
  BY DEF Types
<1>1. ASSUME NEW h \in Handler, StepUp(h) \/ EmailChange(h) \/ TwoFactor(h), NEW i \in Handler \ {h}
      PROVE pc'[i] = pc[i] /\ job'[i] = job[i]
  <2>1. \/ \E from, to, j : Goes(h, from, to, j)
        \/ \E to, j : Begin(h, to, j)
    BY <1>1 DEF StepUp, EmailChange, TwoFactor, Moves, Ends, AssertNotRateLimited, NoFactor,
         Mint, RecordFailure, Consume, NoGrant, StartStepUp, RequestEmailChange, Asks,
         CheckTaken, CancelEarlier, Draw, Store, FollowLink, CheckClaimed, ConfirmEmailChange,
         ConfirmFails, BeginEnrolment, EnterCode, Disable, Enrol, GiveUpEnrolment, WrongCode,
         RightCode, ConfirmEnrolment, DropFactor, Opens, DisableTwoFactor
  <2> QED
    BY <2>1, <1>t DEF Goes, Begin, ControlTypes
<1>2. ASSUME UNCHANGED vars PROVE UNCHANGED <<pc, job>>
  BY <1>2 DEF vars
<1>3. ASSUME \/ \E l \in Link : CancelEmailChange(l)
             \/ \E a \in Address : Claim(a)
             \/ \E g \in grants : GrantExpires(g)
             \/ FailureAges
      PROVE UNCHANGED <<pc, job>>
  BY <1>3 DEF CancelEmailChange, Claim, GrantExpires, FailureAges
<1> QED
  BY <1>1, <1>2, <1>3 DEF Next

\* Who is about to store a link was about to, or has just drawn it.
LEMMA StoringCases ==
  ASSUME Types, Carried, [Next]_vars, NEW i \in Handler, pc'[i] = "storing"
  PROVE \/ pc[i] = "storing" /\ job'[i] = job[i]
        \/ \E l \in Link : CancelEarlier(i, l)
<1>t. ControlTypes /\ job[i] \in Job
  BY DEF Types, ControlTypes
<1>1. CASE pc'[i] = pc[i] /\ job'[i] = job[i]
  BY <1>1
<1>2. ASSUME NEW from, NEW to, NEW j, Goes(i, from, to, j) \/ Begin(i, to, j)
      PROVE pc'[i] = to
  BY <1>2, <1>t, ItIsThere
<1>3. CASE StepUp(i)
  <2>1. job[i].for # "storing"
    BY <1>t DEF Job, Purpose
  <2> QED
    BY <1>2, <1>3, <2>1 DEF StepUp, Moves, Ends, AssertNotRateLimited, NoFactor, Mint,
       RecordFailure, Consume, NoGrant, StartStepUp
<1>4. CASE EmailChange(i)
  BY <1>2, <1>4 DEF EmailChange, Moves, Ends, RequestEmailChange, Asks, CheckTaken,
     Store, FollowLink, CheckClaimed, ConfirmEmailChange, ConfirmFails
<1>5. CASE TwoFactor(i)
  BY <1>2, <1>5 DEF TwoFactor, Ends, BeginEnrolment, Asks, EnterCode, Disable, Enrol,
     GiveUpEnrolment, WrongCode, RightCode, ConfirmEnrolment, DropFactor, Opens,
     DisableTwoFactor
<1> QED
  BY <1>1, <1>3, <1>4, <1>5, Mover

\* The request that draws l goes on to store it.
LEMMA DrawsIt ==
  ASSUME Types, NEW i \in Handler, NEW l \in Link, CancelEarlier(i, l)
  PROVE  /\ pc'[i] = "storing" /\ job'[i].link = l
         /\ \A h \in Handler \ {i} : pc'[h] = pc[h] /\ job'[h] = job[h]
<1>1. ControlTypes /\ job[i] \in Job
  BY DEF Types, ControlTypes
<1> QED
  BY <1>1 DEF CancelEarlier, Draw, Goes, ControlTypes, Job

\* A link that can be followed could be, or has just been stored.
LEMMA PendingCases ==
  ASSUME Types, Carried, [Next]_vars, NEW l \in Pending', l \notin Pending
  PROVE  \E h \in Storing : l = job[h].link
<1>1. confirmed \subseteq confirmed' /\ cancelled \subseteq cancelled'
  BY WriteCases DEF linkVars, CancelEarlier, Draw, Store, ConfirmEmailChange, CancelEmailChange, Claim
<1>2. newEmail'[l] # newEmail[l]
  BY <1>1 DEF Pending, Stored
<1>3. PICK h \in Handler : Store(h)
  BY <1>2, WriteCases DEF linkVars, CancelEarlier, Draw, ConfirmEmailChange, CancelEmailChange, Claim
<1>4. l = job[h].link
  BY <1>2, <1>3 DEF Store, Types, LinkTypes, Pending, Stored
<1> QED
  BY <1>3, <1>4 DEF Store, Ends, Goes, Storing

LEMMA AllCrossedStays ==
  ASSUME Types, Carried, AllCrossed, [Next]_vars
  PROVE  AllCrossed'
<1>1. rivals \subseteq rivals'
  BY WriteCases DEF linkVars, CancelEarlier, Draw, Store, ConfirmEmailChange, CancelEmailChange,
     Claim
<1>2. ASSUME NEW h \in Handler, NEW l \in Link, CancelEarlier(h, l) PROVE AllCrossed'
  <2>1. Pending' = {}
    BY <1>2 DEF CancelEarlier, Stored, Pending
  <2>2. \A m \in Coming' : m = l \/ \E i \in Storing : m = job[i].link
    BY <1>2, <2>1, DrawsIt DEF Coming, Storing
  <2>3. \A i \in Storing : job[i].link \in Coming /\ {l, job[i].link} \in rivals'
    BY <1>2 DEF CancelEarlier, Draw, Coming
  <2>4. ASSUME NEW m \in Coming', NEW n \in Coming' PROVE m = n \/ {m, n} \in rivals'
    <3>1. CASE m = l
      BY <2>2, <2>3, <3>1
    <3>2. CASE n = l
      <4>1. m = l \/ {l, m} \in rivals'
        BY <2>2, <2>3
      <4>2. {l, m} = {m, n}
        BY <3>2
      <4> QED
        BY <3>2, <4>1, <4>2
    <3>3. CASE m # l /\ n # l
      BY <1>1, <2>2, <2>3, <3>3 DEF AllCrossed
    <3> QED
      BY <3>1, <3>2, <3>3
  <2> QED
    BY <2>4 DEF AllCrossed
<1>3. CASE ~\E h \in Handler, l \in Link : CancelEarlier(h, l)
  <2>1. \A h \in Storing' : h \in Storing /\ job'[h] = job[h]
    BY <1>3, StoringCases DEF Storing
  <2>2. Pending' \subseteq Coming
    BY PendingCases DEF Coming
  <2>3. Coming' \subseteq Coming
    BY <2>1, <2>2 DEF Coming
  <2> QED
    BY <1>1, <2>3 DEF AllCrossed
<1> QED
  BY <1>2, <1>3

\* Two links are live together only if their requests were both between
\* cancelling what was pending and storing their own.
THEOREM LiveLinksCrossedHolds == Spec => []LiveLinksCrossed
<1>1. Init => AllCrossed
  BY DEF Init, AllCrossed, Coming, Pending, Stored, Storing
<1>2. Types /\ Carried /\ AllCrossed /\ [Next]_vars => AllCrossed'
  BY AllCrossedStays
<1>3. AllCrossed => LiveLinksCrossed
  BY DEF AllCrossed, LiveLinksCrossed, Coming
<1> QED
  BY <1>1, <1>2, <1>3, IndInv, PTL DEF Spec

-----------------------------------------------------------------------------
\* A count n that is checked against L before it is raised, by those in H that
\* have passed the check (S).
LEMMA CountStep ==
  ASSUME NEW H, IsFiniteSet(H), NEW S \in SUBSET H, NEW T \in SUBSET H,
         NEW L \in Nat, NEW n \in Nat, NEW k \in Nat,
         n >= L => n + Cardinality(S) <= L + Cardinality(H) - 1,
         \/ T \subseteq S /\ k <= n
         \/ \E h \in S : T \subseteq S \ {h} /\ k = n + 1
         \/ k = n /\ n < L
  PROVE k >= L => k + Cardinality(T) <= L + Cardinality(H) - 1
<1>1. /\ Cardinality(H) \in Nat
      /\ IsFiniteSet(S) /\ Cardinality(S) \in Nat
      /\ IsFiniteSet(T) /\ Cardinality(T) \in Nat
  BY FS_Subset, FS_CardinalityType
<1>2. CASE T \subseteq S /\ k <= n
  <2>1. Cardinality(T) <= Cardinality(S)
    BY <1>1, <1>2, FS_Subset
  <2> QED
    BY <1>1, <1>2, <2>1
<1>3. ASSUME NEW h \in S, T \subseteq S \ {h}, k = n + 1
      PROVE k >= L => k + Cardinality(T) <= L + Cardinality(H) - 1
  <2>1. /\ IsFiniteSet(S \ {h}) /\ Cardinality(S \ {h}) = Cardinality(S) - 1
        /\ IsFiniteSet(H \ {h}) /\ Cardinality(H \ {h}) = Cardinality(H) - 1
    BY <1>1, FS_RemoveElement
  <2>2. Cardinality(T) <= Cardinality(S) - 1
    BY <1>3, <2>1, FS_Subset
  <2>3. Cardinality(T) <= Cardinality(H) - 1
    <3>1. T \in SUBSET (H \ {h})
      BY <1>3
    <3> QED
      BY <3>1, <2>1, FS_Subset
  <2> QED
    BY <1>1, <1>3, <2>2, <2>3
<1> QED
  BY <1>2, <1>3

\* How the codes entered and the attempts of the enrolment change together.
LEMMA GuessingCases ==
  ASSUME Types, Carried, [Next]_vars
  PROVE \/ Guessing' \subseteq Guessing /\ enrolment'.attempts <= enrolment.attempts
        \/ \E h \in Guessing :
             Guessing' \subseteq Guessing \ {h} /\ enrolment'.attempts = enrolment.attempts + 1
        \/ /\ enrolment'.attempts = enrolment.attempts
           /\ enrolment.attempts < ENROLMENT_MAX_ATTEMPTS
<1>t. ControlTypes /\ FactorTypes /\ enrolment.attempts \in Nat
  BY DEF Types, FactorTypes
<1>a. NoEnrolment.attempts = 0
  BY DEF NoEnrolment
<1>1. ASSUME NEW h \in Handler, NEW c \in Codes, EnterCode(h, c),
             ~(enrolment.attempts < ENROLMENT_MAX_ATTEMPTS)
      PROVE Guessing' \subseteq Guessing /\ UNCHANGED enrolment
  <2>1. job'[h].attempts = enrolment.attempts
    <3>1. job'[h] = [NoJob EXCEPT !.code = c, !.id = enrolment.id,
                        !.secret = enrolment.secret, !.attempts = enrolment.attempts]
      BY <1>1, <1>t, ItIsThere DEF EnterCode
    <3> QED
      BY <3>1 DEF NoJob
  <2>2. \A i \in Handler \ {h} : pc'[i] = pc[i] /\ job'[i] = job[i]
    BY <1>1, <1>t, OthersStay DEF EnterCode
  <2>3. ENROLMENT_MAX_ATTEMPTS \in Nat
    BY AccountAssumption
  <2> QED
    BY <1>1, <1>t, <2>1, <2>2, <2>3 DEF EnterCode, Guessing, TooMany, factorVars
<1>2. ASSUME NEW h \in Handler, WrongCode(h)
      PROVE /\ h \in Guessing /\ Guessing' \subseteq Guessing \ {h}
            /\ enrolment'.attempts \in {enrolment.attempts, enrolment.attempts + 1}
  <2>1. pc[h] = "entered" /\ pc'[h] = "idle"
    BY <1>2, <1>t, ItIsThere DEF WrongCode, Ends, Goes
  <2>2. \A i \in Handler \ {h} : pc'[i] = pc[i] /\ job'[i] = job[i]
    BY <1>2, <1>t, OthersStay DEF WrongCode, Ends
  <2> QED
    BY <1>2, <1>t, <2>1, <2>2 DEF WrongCode, Guessing, TooMany, FactorTypes
<1>3. ASSUME \A i \in Handler : pc'[i] = "entered" => pc[i] = "entered" /\ job'[i] = job[i]
      PROVE Guessing' \subseteq Guessing
  BY <1>3 DEF Guessing, TooMany
<1>4. \/ \E h \in Handler, c \in Codes : EnterCode(h, c)
      \/ \A i \in Handler : pc'[i] = "entered" => pc[i] = "entered" /\ job'[i] = job[i]
  <2>1. ASSUME NEW h \in Handler, StepUp(h) PROVE pc'[h] # "entered"
    <3>1. job[h].for # "entered"
      BY <1>t DEF ControlTypes, Job, Purpose
    <3>2. ASSUME NEW from, NEW to, NEW j, Goes(h, from, to, j) \/ Begin(h, to, j)
          PROVE pc'[h] = to
      BY <3>2, <1>t, ItIsThere
    <3> QED
      BY <2>1, <3>1, <3>2 DEF StepUp, Moves, Ends, AssertNotRateLimited, NoFactor, Mint,
         RecordFailure, Consume, NoGrant, StartStepUp
  <2>2. ASSUME NEW h \in Handler, EmailChange(h) PROVE pc'[h] # "entered"
    <3>1. ASSUME NEW from, NEW to, NEW j, Goes(h, from, to, j) \/ Begin(h, to, j)
          PROVE pc'[h] = to
      BY <3>1, <1>t, ItIsThere
    <3> QED
      BY <2>2, <3>1 DEF EmailChange, Moves, Ends, RequestEmailChange, Asks, CheckTaken,
         CancelEarlier, Draw, Store, FollowLink, CheckClaimed, ConfirmEmailChange, ConfirmFails
  <2>3. ASSUME NEW h \in Handler, TwoFactor(h), ~\E c \in Codes : EnterCode(h, c)
        PROVE pc'[h] # "entered"
    <3>1. ASSUME NEW from, NEW to, NEW j, Goes(h, from, to, j) \/ Begin(h, to, j)
          PROVE pc'[h] = to
      BY <3>1, <1>t, ItIsThere
    <3> QED
      BY <2>3, <3>1 DEF TwoFactor, Ends, BeginEnrolment, Asks, Disable, Enrol,
         GiveUpEnrolment, WrongCode, RightCode, ConfirmEnrolment, DropFactor, Opens,
         DisableTwoFactor
  <2> QED
    BY <2>1, <2>2, <2>3, Mover
<1>5. ASSUME ~\E h \in Handler : WrongCode(h)
      PROVE enrolment'.attempts = enrolment.attempts \/ enrolment'.attempts = 0
  <2>1. ASSUME NEW h \in Handler, NEW s \in Secret, Enrol(h, s) PROVE enrolment'.attempts = 0
    BY <2>1 DEF Enrol
  <2>2. ASSUME NEW h \in Handler, GiveUpEnrolment(h) \/ ConfirmEnrolment(h)
        PROVE enrolment'.attempts = 0
    BY <2>2, <1>a DEF GiveUpEnrolment, ConfirmEnrolment
  <2>3. ASSUME NEW h \in Handler, RightCode(h) \/ DropFactor(h) \/ DisableTwoFactor(h)
        PROVE enrolment' = enrolment
    BY <2>3 DEF RightCode, DropFactor, Opens, DisableTwoFactor
  <2>4. UNCHANGED factorVars => enrolment' = enrolment
    BY DEF factorVars
  <2> QED
    BY <1>5, <2>1, <2>2, <2>3, <2>4, WriteCases
<1>6. CASE \E h \in Handler : WrongCode(h)
  BY <1>2, <1>6, <1>t
<1>7. CASE \E h \in Handler, c \in Codes : EnterCode(h, c)
  <2>1. UNCHANGED enrolment
    BY <1>7 DEF EnterCode, factorVars
  <2> QED
    BY <1>1, <1>7, <1>t, <2>1
<1>8. CASE /\ ~\E h \in Handler : WrongCode(h)
           /\ \A i \in Handler : pc'[i] = "entered" => pc[i] = "entered" /\ job'[i] = job[i]
  BY <1>3, <1>5, <1>8, <1>t
<1> QED
  BY <1>4, <1>6, <1>7, <1>8

LEMMA CheckingCases ==
  ASSUME Types, Carried, [Next]_vars
  PROVE \/ Checking' \subseteq Checking /\ failures' <= failures
        \/ \E h \in Checking : Checking' \subseteq Checking \ {h} /\ failures' = failures + 1
        \/ failures' = failures /\ failures < MAX_ATTEMPTS
<1>t. ControlTypes /\ failures \in Nat
  BY DEF Types, StepUpTypes
<1>1. ASSUME NEW h \in Handler, AssertNotRateLimited(h)
      PROVE /\ failures' = failures
            /\ Checking' \subseteq Checking \/ failures < MAX_ATTEMPTS
  <2>1. pc'[h] = IF failures < MAX_ATTEMPTS THEN "verifying" ELSE "idle"
    BY <1>1, <1>t, ItIsThere DEF AssertNotRateLimited, Moves
  <2>2. \A i \in Handler \ {h} : pc'[i] = pc[i]
    BY <1>1, <1>t, OthersStay DEF AssertNotRateLimited, Moves
  <2> QED
    BY <1>1, <2>1, <2>2 DEF AssertNotRateLimited, stepUpVars, Checking
<1>2. ASSUME NEW h \in Handler, RecordFailure(h)
      PROVE h \in Checking /\ Checking' \subseteq Checking \ {h} /\ failures' \in {failures, failures + 1}
  <2>1. pc[h] = "verifying" /\ pc'[h] = "idle"
    BY <1>2, <1>t, ItIsThere DEF RecordFailure, Ends, Goes
  <2>2. \A i \in Handler \ {h} : pc'[i] = pc[i]
    BY <1>2, <1>t, OthersStay DEF RecordFailure, Ends
  <2> QED
    BY <1>2, <2>1, <2>2 DEF RecordFailure, Checking
<1>3. CASE FailureAges
  BY <1>3, <1>t DEF FailureAges, Checking
<1>4. \/ \E h \in Handler : AssertNotRateLimited(h)
      \/ Checking' \subseteq Checking
  <2>1. ASSUME NEW h \in Handler, StepUp(h), ~AssertNotRateLimited(h) PROVE pc'[h] # "verifying"
    <3>1. job[h].for # "verifying"
      BY <1>t DEF ControlTypes, Job, Purpose
    <3>2. ASSUME NEW from, NEW to, NEW j, Goes(h, from, to, j) \/ Begin(h, to, j)
          PROVE pc'[h] = to
      BY <3>2, <1>t, ItIsThere
    <3> QED
      BY <2>1, <3>1, <3>2 DEF StepUp, Moves, Ends, NoFactor, Mint,
         RecordFailure, Consume, NoGrant, StartStepUp
  <2>2. ASSUME NEW h \in Handler, EmailChange(h) PROVE pc'[h] # "verifying"
    <3>1. ASSUME NEW from, NEW to, NEW j, Goes(h, from, to, j) \/ Begin(h, to, j)
          PROVE pc'[h] = to
      BY <3>1, <1>t, ItIsThere
    <3> QED
      BY <2>2, <3>1 DEF EmailChange, Moves, Ends, RequestEmailChange, Asks, CheckTaken,
         CancelEarlier, Draw, Store, FollowLink, CheckClaimed, ConfirmEmailChange, ConfirmFails
  <2>3. ASSUME NEW h \in Handler, TwoFactor(h) PROVE pc'[h] # "verifying"
    <3>1. ASSUME NEW from, NEW to, NEW j, Goes(h, from, to, j) \/ Begin(h, to, j)
          PROVE pc'[h] = to
      BY <3>1, <1>t, ItIsThere
    <3> QED
      BY <2>3, <3>1 DEF TwoFactor, Ends, BeginEnrolment, Asks, EnterCode, Disable, Enrol,
         GiveUpEnrolment, WrongCode, RightCode, ConfirmEnrolment, DropFactor, Opens,
         DisableTwoFactor
  <2> QED
    BY <2>1, <2>2, <2>3, Mover DEF Checking
<1> QED
  BY <1>1, <1>2, <1>3, <1>4, <1>t, WriteCases

LEMMA CountedStays ==
  ASSUME Types, Carried, Types', Counted, [Next]_vars
  PROVE Counted'
<1>1. /\ IsFiniteSet(Handler)
      /\ ENROLMENT_MAX_ATTEMPTS \in Nat /\ MAX_ATTEMPTS \in Nat
  BY AccountAssumption
<1>2. /\ enrolment.attempts \in Nat /\ enrolment'.attempts \in Nat
      /\ failures \in Nat /\ failures' \in Nat
  BY DEF Types, FactorTypes, StepUpTypes
<1>3. /\ Guessing \in SUBSET Handler /\ Guessing' \in SUBSET Handler
      /\ Checking \in SUBSET Handler /\ Checking' \in SUBSET Handler
  BY DEF Guessing, Checking
<1>4. enrolment'.attempts >= ENROLMENT_MAX_ATTEMPTS =>
        enrolment'.attempts + Cardinality(Guessing')
          <= ENROLMENT_MAX_ATTEMPTS + Cardinality(Handler) - 1
  BY <1>1, <1>2, <1>3, GuessingCases, CountStep DEF Counted
<1>5. failures' >= MAX_ATTEMPTS =>
        failures' + Cardinality(Checking') <= MAX_ATTEMPTS + Cardinality(Handler) - 1
  BY <1>1, <1>2, <1>3, CheckingCases, CountStep DEF Counted
<1> QED
  BY <1>4, <1>5 DEF Counted

\* Wrong codes on one enrolment, and wrong step-up codes on record, exceed
\* their limit at most by the requests that were under way together, however
\* many there are: the count is read before the code is looked at.
THEOREM GuessesBoundedHolds ==
  ASSUME Handler # {}
  PROVE Spec => []GuessesBounded
<1>1. Init => Counted
  BY AccountAssumption DEF Init, Counted, NoEnrolment
<1>2. Types /\ Carried /\ Types' /\ Counted /\ [Next]_vars => Counted'
  BY CountedStays
<1>3. Types /\ Counted => GuessesBounded
  <2> SUFFICES ASSUME Types, Counted PROVE GuessesBounded
    OBVIOUS
  <2>1. Cardinality(Handler) \in Nat \ {0}
    BY AccountAssumption, FS_CardinalityType, FS_EmptySet
  <2>2. Cardinality(Guessing) \in Nat /\ Cardinality(Checking) \in Nat
    BY AccountAssumption, FS_Subset, FS_CardinalityType DEF Guessing, Checking
  <2> QED
    BY <2>1, <2>2, AccountAssumption
       DEF Types, FactorTypes, StepUpTypes, Counted, GuessesBounded
<1> QED
  BY <1>1, <1>2, <1>3, IndInv, PTL DEF Spec

-----------------------------------------------------------------------------
LEMMA AloneStays ==
  ASSUME Types, Carried, Alone, [Next]_vars
  PROVE Alone'
<1> SUFFICES ASSUME ~crossed'
             PROVE /\ \A h \in Handler : InTransaction(h)' => job'[h].doomed = factor'
                   /\ \A h, i \in Handler : InTransaction(h)' /\ InTransaction(i)' => h = i
                   /\ \A s, t \in factor' : s = t
                   /\ flag' <=> factor' # {}
  BY DEF Alone
<1>t. ControlTypes /\ FactorTypes
  BY DEF Types
<1>a. ~crossed
  BY WriteCases, <1>t DEF factorVars, Enrol, GiveUpEnrolment, WrongCode, RightCode, DropFactor,
     Opens, ConfirmEnrolment, DisableTwoFactor, FactorTypes
<1>b. /\ \A h \in Handler : InTransaction(h) => job[h].doomed = factor
      /\ \A h, i \in Handler : InTransaction(h) /\ InTransaction(i) => h = i
      /\ \A s, t \in factor : s = t
      /\ flag <=> factor # {}
  BY <1>a DEF Alone
<1>1. ASSUME NEW h \in Handler, NEW from, NEW to, Opens(h, from, to)
      PROVE Alone'
  <2>1. \A i \in Handler : ~InTransaction(i)
    BY <1>1 DEF Opens
  <2>2. job'[h].doomed = factor
    <3>1. job'[h] = [job[h] EXCEPT !.doomed = factor] /\ job[h] \in Job
      BY <1>1, <1>t, ItIsThere DEF Opens, ControlTypes
    <3> QED
      BY <3>1 DEF Job
  <2>3. \A i \in Handler \ {h} : ~InTransaction(i)'
    BY <1>1, <1>t, <2>1, OthersStay DEF Opens, InTransaction
  <2>4. factor' = factor /\ flag' = flag
    BY <1>1 DEF Opens
  <2> QED
    BY <1>b, <2>2, <2>3, <2>4 DEF Alone
<1>2. ASSUME NEW h \in Handler, ConfirmEnrolment(h) \/ DisableTwoFactor(h)
      PROVE Alone'
  <2>1. InTransaction(h) /\ ~InTransaction(h)'
    BY <1>2, <1>t, ItIsThere DEF ConfirmEnrolment, DisableTwoFactor, Ends, Goes, InTransaction
  <2>2. \A i \in Handler \ {h} : ~InTransaction(i)'
    BY <1>2, <1>b, <1>t, <2>1, OthersStay
       DEF ConfirmEnrolment, DisableTwoFactor, Ends, InTransaction
  <2>3. job[h].doomed = factor
    BY <1>b, <2>1
  <2>4. \/ factor' = {job[h].secret} /\ flag' = TRUE
        \/ factor' = {} /\ flag' = FALSE
    BY <1>2, <2>3 DEF ConfirmEnrolment, DisableTwoFactor
  <2> QED
    BY <2>1, <2>2, <2>4 DEF Alone
<1>3. CASE /\ UNCHANGED <<factor, flag>>
           /\ \A i \in Handler : InTransaction(i)' => InTransaction(i) /\ job'[i] = job[i]
  BY <1>b, <1>3
<1>4. \/ UNCHANGED <<factor, flag>>
      \/ \E h \in Handler : ConfirmEnrolment(h) \/ DisableTwoFactor(h)
  BY WriteCases DEF factorVars, Enrol, GiveUpEnrolment, WrongCode, RightCode, DropFactor, Opens
<1>5. \/ \E h \in Handler : RightCode(h) \/ DropFactor(h)
      \/ \A i \in Handler : InTransaction(i)' => InTransaction(i) /\ job'[i] = job[i]
  <2>1. ASSUME NEW h \in Handler, StepUp(h) PROVE ~InTransaction(h)'
    <3>1. job[h].for \notin {"swapping", "dropping"}
      BY <1>t DEF ControlTypes, Job, Purpose
    <3>2. ASSUME NEW from, NEW to, NEW j, Goes(h, from, to, j) \/ Begin(h, to, j)
          PROVE pc'[h] = to
      BY <3>2, <1>t, ItIsThere
    <3> QED
      BY <2>1, <3>1, <3>2 DEF StepUp, Moves, Ends, AssertNotRateLimited, NoFactor, Mint,
         RecordFailure, Consume, NoGrant, StartStepUp, InTransaction
  <2>2. ASSUME NEW h \in Handler, EmailChange(h) PROVE ~InTransaction(h)'
    <3>1. ASSUME NEW from, NEW to, NEW j, Goes(h, from, to, j) \/ Begin(h, to, j)
          PROVE pc'[h] = to
      BY <3>1, <1>t, ItIsThere
    <3> QED
      BY <2>2, <3>1 DEF EmailChange, Moves, Ends, RequestEmailChange, Asks, CheckTaken,
         CancelEarlier, Draw, Store, FollowLink, CheckClaimed, ConfirmEmailChange, ConfirmFails,
         InTransaction
  <2>3. ASSUME NEW h \in Handler, TwoFactor(h), ~RightCode(h), ~DropFactor(h)
        PROVE ~InTransaction(h)'
    <3>1. ASSUME NEW from, NEW to, NEW j, Goes(h, from, to, j) \/ Begin(h, to, j)
          PROVE pc'[h] = to
      BY <3>1, <1>t, ItIsThere
    <3> QED
      BY <2>3, <3>1 DEF TwoFactor, Ends, BeginEnrolment, Asks, EnterCode, Disable, Enrol,
         GiveUpEnrolment, WrongCode, ConfirmEnrolment, DisableTwoFactor, InTransaction
  <2> QED
    BY <2>1, <2>2, <2>3, Mover DEF InTransaction
<1> QED
  BY <1>1, <1>2, <1>3, <1>4, <1>5 DEF Alone, RightCode, DropFactor

\* "A user who re-enrols has one factor, not two", and the flag says whether
\* there is one, as long as no two transactions on the factor overlap.
THEOREM OneFactorHolds == Spec => []OneFactor
<1>1. Init => Alone
  BY DEF Init, Alone, InTransaction
<1>2. Types /\ Carried /\ Alone /\ [Next]_vars => Alone'
  BY AloneStays
<1>3. Alone => OneFactor
  <2> SUFFICES ASSUME Alone, ~crossed PROVE Cardinality(factor) <= 1 /\ (flag <=> factor # {})
    BY DEF OneFactor
  <2>1. (\A s, t \in factor : s = t) /\ (flag <=> factor # {})
    BY DEF Alone
  <2>2. CASE factor = {}
    BY <2>1, <2>2, FS_EmptySet
  <2>3. CASE factor # {}
    <3>1. PICK s \in factor : TRUE
      BY <2>3
    <3>2. factor = {s}
      BY <2>1, <3>1
    <3> QED
      BY <2>1, <3>2, FS_Singleton
  <2> QED
    BY <2>2, <2>3
<1> QED
  BY <1>1, <1>2, <1>3, IndInv, PTL DEF Spec
=============================================================================
