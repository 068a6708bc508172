------------------------------- MODULE Account -------------------------------
(***************************************************************************)
(* The sensitive requests of one user: the change of the address           *)
(* (requestEmailChange, confirmEmailChange, cancelEmailChange), the second *)
(* factor (beginTwoFactorEnrolment, confirmTwoFactorEnrolment,             *)
(* disableTwoFactor) of AccountSecurityService, and the step-up they ask   *)
(* for (StepUpService.mint and consume).                                   *)
(*                                                                         *)
(* A request is a series of statements, and those of other requests come   *)
(* in between.  The transactions that write the factor are two steps: what *)
(* its deleteMany has found, and the commit, which the lock on the user's  *)
(* row puts in an order (READ COMMITTED).                                  *)
(*                                                                         *)
(* A link or an enrolment that expires can no longer be followed or        *)
(* entered, which is the same as nobody doing so: expiry has no state.     *)
(***************************************************************************)
EXTENDS Integers, FiniteSets

CONSTANTS
  Handler,        \* requests that are under way at a time
  Address, FirstAddress,
  Link,           \* tokens of email changes
  Secret, FirstSecret,
  MAX_ATTEMPTS,            \* wrong codes in ATTEMPT_WINDOW_MS
  ENROLMENT_MAX_ATTEMPTS,
  MaxRequests,    \* bounds the requests that are made
  Nothing

ASSUME AccountAssumption ==
  /\ IsFiniteSet(Handler)
  /\ FirstAddress \in Address /\ FirstSecret \in Secret
  /\ Nothing \notin Address \cup Link \cup Secret
  /\ {MAX_ATTEMPTS, ENROLMENT_MAX_ATTEMPTS} \subseteq Nat \ {0}
  /\ MaxRequests \in Nat

VARIABLES
  email,          \* the address of the user
  claimed,        \* addresses of other users
  newEmail,       \* the address each link is for, Nothing before it is stored
  confirmed, cancelled,  \* of the links
  drawn,          \* history: tokens that requests have drawn
  rivals,         \* history: pairs of links whose requests were both between
                  \* cancelling what was pending and storing their own
  factor,         \* secrets in twoFactor
  flag,           \* user.twoFactorEnabled
  enrolment,      \* the row of twoFactorEnrolment
  secrets,        \* secrets handed out
  failures,       \* step-up failures in the window
  grants,         \* what grants that are not spent are for
  pc, job,        \* how far a request has come, and what it has read
  requests,
  crossed         \* history: transactions on the factor have overlapped

linkVars == <<email, claimed, newEmail, confirmed, cancelled, drawn, rivals>>
factorVars == <<factor, flag, enrolment, secrets, crossed>>
stepUpVars == <<failures, grants>>
vars == <<linkVars, factorVars, stepUpVars, pc, job, requests>>

NoEnrolment == [id |-> Nothing, secret |-> Nothing, attempts |-> 0]

NoJob == [for |-> "none", to |-> Nothing, code |-> Nothing, link |-> Nothing,
          id |-> Nothing, secret |-> Nothing, attempts |-> 0, doomed |-> {},
          alone |-> FALSE]

Stored == {l \in Link : newEmail[l] # Nothing}
Pending == Stored \ (confirmed \cup cancelled)

Init ==
  /\ email = FirstAddress /\ claimed = {}
  /\ newEmail = [l \in Link |-> Nothing]
  /\ confirmed = {} /\ cancelled = {}
  /\ drawn = {} /\ rivals = {}
  /\ factor \in {{}, {FirstSecret}} /\ flag = (factor # {})
  /\ enrolment = NoEnrolment
  /\ secrets = {FirstSecret}
  /\ failures = 0 /\ grants = {}
  /\ pc = [h \in Handler |-> "idle"]
  /\ job = [h \in Handler |-> NoJob]
  /\ requests = 0
  /\ crossed = FALSE

\* A code is known by the secret it is from; Nothing is a wrong one.
Codes == secrets \cup {Nothing}

-----------------------------------------------------------------------------
Begin(h, l, j) ==
  /\ pc[h] = "idle" /\ requests < MaxRequests
  /\ pc' = [pc EXCEPT ![h] = l]
  /\ job' = [job EXCEPT ![h] = j]
  /\ requests' = requests + 1

Goes(h, from, to, j) ==
  /\ pc[h] = from
  /\ pc' = [pc EXCEPT ![h] = to]
  /\ job' = [job EXCEPT ![h] = j]
  /\ UNCHANGED requests

Moves(h, from, to) == Goes(h, from, to, job[h])

\* The request is answered.
Ends(h, from) == Goes(h, from, "idle", NoJob)

-----------------------------------------------------------------------------
(* StepUpService                                                           *)

\* A grant is bound to its purpose and, for an address, to that.
GrantOf(h) == <<job[h].for, job[h].to>>

\* assertNotRateLimited.
AssertNotRateLimited(h) ==
  /\ Moves(h, "limiting", IF failures < MAX_ATTEMPTS THEN "verifying" ELSE "idle")
  /\ UNCHANGED <<linkVars, factorVars, stepUpVars>>

NoFactor(h) ==
  /\ Ends(h, "verifying")
  /\ factor = {}
  /\ UNCHANGED <<linkVars, factorVars, stepUpVars>>

\* The code is one of the secret that findFirst returned.  startStepUp leaves
\* the grant to a later request.
Mint(h) ==
  /\ IF job[h].alone THEN Ends(h, "verifying") ELSE Moves(h, "verifying", "spending")
  /\ job[h].code \in factor
  /\ grants' = grants \cup {GrantOf(h)}
  /\ UNCHANGED <<linkVars, factorVars, failures>>

\* The audit record that counts it is best effort: record answers null when it fails.
RecordFailure(h) ==
  /\ Ends(h, "verifying")
  /\ \E s \in factor : job[h].code # s
  /\ failures' \in {failures, failures + 1}
  /\ UNCHANGED <<linkVars, factorVars, grants>>

\* Every grant that matches is spent.
Consume(h) ==
  /\ Moves(h, "spending", job[h].for)
  /\ GrantOf(h) \in grants
  /\ grants' = grants \ {GrantOf(h)}
  /\ UNCHANGED <<linkVars, factorVars, failures>>

NoGrant(h) ==
  /\ Ends(h, "spending")
  /\ GrantOf(h) \notin grants
  /\ UNCHANGED <<linkVars, factorVars, stepUpVars>>

\* A failure is no longer in the window.
FailureAges ==
  /\ failures > 0
  /\ failures' = failures - 1
  /\ UNCHANGED <<linkVars, factorVars, grants, pc, job, requests>>

\* GRANT_TTL_MS passes.
GrantExpires(g) ==
  /\ g \in grants
  /\ grants' = grants \ {g}
  /\ UNCHANGED <<linkVars, factorVars, failures, pc, job, requests>>

\* An unbound grant, which no change of address is satisfied by.
StartStepUp(h, purpose, code) ==
  /\ Begin(h, "limiting", [NoJob EXCEPT !.for = purpose, !.code = code, !.alone = TRUE])
  /\ UNCHANGED <<linkVars, factorVars, stepUpVars>>

\* A request that begins with a step-up.
Asks(h, purpose, a, code) ==
  /\ Begin(h, "limiting", [NoJob EXCEPT !.for = purpose, !.to = a, !.code = code])
  /\ UNCHANGED <<linkVars, factorVars, stepUpVars>>

-----------------------------------------------------------------------------
(* The address                                                             *)

RequestEmailChange(h, a, code) == a # email /\ Asks(h, "changing", a, code)

Taken(a) == a \in claimed \cup {email}

CheckTaken(h) ==
  /\ Moves(h, "changing", IF Taken(job[h].to) THEN "idle" ELSE "replacing")
  /\ UNCHANGED <<linkVars, factorVars, stepUpVars>>

Storing == {h \in Handler : pc[h] = "storing"}

Draw(h, l) ==
  /\ l \notin drawn
  /\ Goes(h, "replacing", "storing", [job[h] EXCEPT !.link = l])
  /\ drawn' = drawn \cup {l}
  /\ rivals' = rivals \cup {{l, job[i].link} : i \in Storing}

\* Mistake: earlier requests are left as they are.
KeepEarlier(h, l) ==
  /\ Draw(h, l)
  /\ UNCHANGED <<email, claimed, newEmail, confirmed, cancelled,
                 factorVars, stepUpVars>>

\* The token l is drawn, and every pending request is cancelled.
CancelEarlier(h, l) ==
  /\ Draw(h, l)
  /\ cancelled' = cancelled \cup Pending
  /\ UNCHANGED <<email, claimed, newEmail, confirmed, factorVars, stepUpVars>>

Store(h) ==
  /\ Ends(h, "storing")
  /\ newEmail' = [newEmail EXCEPT ![job[h].link] = job[h].to]
  /\ UNCHANGED <<email, claimed, confirmed, cancelled, drawn, rivals,
                 factorVars, stepUpVars>>

FollowLink(h, l) ==
  /\ l \in Pending
  /\ Begin(h, "followed", [NoJob EXCEPT !.link = l, !.to = newEmail[l]])
  /\ UNCHANGED <<linkVars, factorVars, stepUpVars>>

CheckClaimed(h) ==
  /\ Moves(h, "followed", IF Taken(job[h].to) THEN "idle" ELSE "confirming")
  /\ UNCHANGED <<linkVars, factorVars, stepUpVars>>

\* Mistake: the transaction does not ask whether the link was used.
ConfirmAgain(h) ==
  /\ Ends(h, "confirming")
  /\ job[h].to \notin claimed
  /\ confirmed' = confirmed \cup {job[h].link}
  /\ email' = job[h].to
  /\ UNCHANGED <<claimed, newEmail, cancelled, drawn, rivals, factorVars, stepUpVars>>

\* confirmedAt is asked for again, cancelledAt is not; user.email is unique.
ConfirmEmailChange(h) ==
  /\ Ends(h, "confirming")
  /\ job[h].link \notin confirmed /\ job[h].to \notin claimed
  /\ confirmed' = confirmed \cup {job[h].link}
  /\ email' = job[h].to
  /\ UNCHANGED <<claimed, newEmail, cancelled, drawn, rivals, factorVars, stepUpVars>>

ConfirmFails(h) ==
  /\ Ends(h, "confirming")
  /\ job[h].link \in confirmed \/ job[h].to \in claimed
  /\ UNCHANGED <<linkVars, factorVars, stepUpVars>>

\* cancelEmailChange, one statement.
CancelEmailChange(l) ==
  /\ l \in Pending
  /\ cancelled' = cancelled \cup {l}
  /\ UNCHANGED <<email, claimed, newEmail, confirmed, drawn, rivals,
                 factorVars, stepUpVars, pc, job, requests>>

\* Somebody else signs up with the address.
Claim(a) ==
  /\ ~Taken(a)
  /\ claimed' = claimed \cup {a}
  /\ UNCHANGED <<email, newEmail, confirmed, cancelled, drawn, rivals,
                 factorVars, stepUpVars, pc, job, requests>>

-----------------------------------------------------------------------------
(* The second factor                                                       *)

\* Without a factor there is no code to ask for.
BeginEnrolment(h, code) ==
  \/ /\ factor = {}
     /\ Begin(h, "enrolling", NoJob)
     /\ UNCHANGED <<linkVars, factorVars, stepUpVars>>
  \/ /\ factor # {}
     /\ Asks(h, "enrolling", Nothing, code)

\* One row for a user: a restart keeps its id and starts counting again.
Enrol(h, s) ==
  /\ s \notin secrets
  /\ Ends(h, "enrolling")
  /\ secrets' = secrets \cup {s}
  /\ enrolment' = [id |-> IF enrolment = NoEnrolment THEN s ELSE enrolment.id,
                   secret |-> s, attempts |-> 0]
  /\ UNCHANGED <<linkVars, factor, flag, crossed, stepUpVars>>

EnterCode(h, code) ==
  /\ enrolment # NoEnrolment
  /\ Begin(h, "entered",
       [NoJob EXCEPT !.code = code, !.id = enrolment.id,
                     !.secret = enrolment.secret, !.attempts = enrolment.attempts])
  /\ UNCHANGED <<linkVars, factorVars, stepUpVars>>

\* Mistake: one more.
TooManyLate(h) == job[h].attempts > ENROLMENT_MAX_ATTEMPTS

TooMany(h) == job[h].attempts >= ENROLMENT_MAX_ATTEMPTS

GiveUpEnrolment(h) ==
  /\ Ends(h, "entered")
  /\ TooMany(h)
  /\ enrolment' = NoEnrolment
  /\ UNCHANGED <<linkVars, factor, flag, secrets, crossed, stepUpVars>>

\* The attempt is counted on the row that was read, if it is still there.
WrongCode(h) ==
  /\ Ends(h, "entered")
  /\ ~TooMany(h) /\ job[h].code # job[h].secret
  /\ enrolment' = IF enrolment.id = job[h].id
                  THEN [enrolment EXCEPT !.attempts = @ + 1] ELSE enrolment
  /\ UNCHANGED <<linkVars, factor, flag, secrets, crossed, stepUpVars>>

InTransaction(h) == pc[h] \in {"swapping", "dropping"}

\* A transaction deletes the factors it finds.  Rows that another one is
\* deleting it waits for, and finds gone.
Opens(h, from, to) ==
  /\ \A i \in Handler : InTransaction(i) => job[i].doomed \cap factor = {}
  /\ Goes(h, from, to, [job[h] EXCEPT !.doomed = factor])
  /\ crossed' = (crossed \/ \E i \in Handler : InTransaction(i))
  /\ UNCHANGED <<linkVars, factor, flag, enrolment, secrets, stepUpVars>>

RightCode(h) ==
  /\ ~TooMany(h) /\ job[h].code = job[h].secret
  /\ Opens(h, "entered", "swapping")

\* Mistake: the factor is added to those there are.
AddFactor(h) ==
  /\ Ends(h, "swapping")
  /\ factor' = factor \cup {job[h].secret}
  /\ flag' = TRUE
  /\ enrolment' = NoEnrolment
  /\ UNCHANGED <<linkVars, secrets, crossed, stepUpVars>>

\* The secret that was verified becomes the factor, whatever the enrolment has
\* become.
ConfirmEnrolment(h) ==
  /\ Ends(h, "swapping")
  /\ factor' = (factor \ job[h].doomed) \cup {job[h].secret}
  /\ flag' = TRUE
  /\ enrolment' = NoEnrolment
  /\ UNCHANGED <<linkVars, secrets, crossed, stepUpVars>>

Disable(h, code) == Asks(h, "disabling", Nothing, code)

DropFactor(h) == Opens(h, "disabling", "dropping")

DisableTwoFactor(h) ==
  /\ Ends(h, "dropping")
  /\ factor' = factor \ job[h].doomed
  /\ flag' = FALSE
  /\ UNCHANGED <<linkVars, enrolment, secrets, crossed, stepUpVars>>

-----------------------------------------------------------------------------
StepUp(h) ==
  \/ AssertNotRateLimited(h) \/ NoFactor(h) \/ Mint(h) \/ RecordFailure(h)
  \/ Consume(h) \/ NoGrant(h)
  \/ \E purpose \in {"enrolling", "disabling"}, code \in Codes :
       StartStepUp(h, purpose, code)

EmailChange(h) ==
  \/ \E a \in Address, code \in Codes : RequestEmailChange(h, a, code)
  \/ \E l \in Link : CancelEarlier(h, l) \/ FollowLink(h, l)
  \/ CheckTaken(h) \/ Store(h)
  \/ CheckClaimed(h) \/ ConfirmEmailChange(h) \/ ConfirmFails(h)

TwoFactor(h) ==
  \/ \E code \in Codes : BeginEnrolment(h, code) \/ EnterCode(h, code) \/ Disable(h, code)
  \/ \E s \in Secret : Enrol(h, s)
  \/ GiveUpEnrolment(h) \/ WrongCode(h)
  \/ RightCode(h) \/ ConfirmEnrolment(h) \/ DropFactor(h) \/ DisableTwoFactor(h)

Next ==
  \/ \E h \in Handler : StepUp(h) \/ EmailChange(h) \/ TwoFactor(h)
  \/ \E l \in Link : CancelEmailChange(l)
  \/ \E a \in Address : Claim(a)
  \/ \E g \in grants : GrantExpires(g)
  \/ FailureAges

Spec == Init /\ [][Next]_vars

-----------------------------------------------------------------------------
Steps == {"idle", "limiting", "verifying", "spending", "changing", "replacing",
          "storing", "followed", "confirming", "enrolling", "entered", "swapping",
          "disabling", "dropping"}

Purpose == {"none", "changing", "enrolling", "disabling"}

Job == [for : Purpose, to : Address \cup {Nothing}, code : Secret \cup {Nothing},
        link : Link \cup {Nothing}, id : Secret \cup {Nothing}, secret : Secret \cup {Nothing}, attempts : Nat,
        doomed : SUBSET Secret, alone : BOOLEAN]

\* The variables have their types, and the address is the user's alone.
AccountTypeOK ==
  /\ email \in Address \ claimed /\ claimed \subseteq Address
  /\ newEmail \in [Link -> Address \cup {Nothing}]
  /\ confirmed \cup cancelled \subseteq Stored
  /\ Stored \subseteq drawn /\ drawn \subseteq Link
  /\ rivals \subseteq SUBSET drawn
  /\ factor \subseteq secrets /\ secrets \subseteq Secret
  /\ flag \in BOOLEAN /\ crossed \in BOOLEAN
  /\ enrolment \in [id : Secret \cup {Nothing}, secret : Secret \cup {Nothing}, attempts : Nat]
  /\ failures \in Nat
  /\ grants \subseteq Purpose \X (Address \cup {Nothing})
  /\ pc \in [Handler -> Steps]
  /\ job \in [Handler -> Job]
  /\ requests \in 0..MaxRequests

\* A link changes the address at most once, however its clicks and other changes
\* of the address cross: "two clicks of the same link cannot both apply".
LinkWorksOnce == [][email' # email => confirmed' # confirmed]_vars

\* "Two live confirmation links mean two addresses that could become the account":
\* two links are live together only if their requests were both between cancelling
\* what was pending and storing their own link.  One request that comes after
\* them leaves its own link as the only one.
LiveLinksCrossed == \A l, m \in Pending : l = m \/ {l, m} \in rivals

\* Wrong codes on one enrolment, and wrong step-up codes on record in one window,
\* exceed their limit at most by the requests that were under way together: the
\* count is read before the code is looked at.
GuessesBounded ==
  /\ enrolment.attempts <= ENROLMENT_MAX_ATTEMPTS + Cardinality(Handler) - 1
  /\ failures <= MAX_ATTEMPTS + Cardinality(Handler) - 1

\* "A user who re-enrols has one factor, not two", and the flag says whether
\* there is one, as long as no two transactions on the factor overlap.
OneFactor ==
  ~crossed => Cardinality(factor) <= 1 /\ (flag <=> factor # {})
=============================================================================
