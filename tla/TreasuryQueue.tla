--------------------------- MODULE TreasuryQueue ---------------------------
(***************************************************************************)
(* The money queue: AllocateBudgetUseCase writes a treasury_command row in *)
(* the api process, TreasuryCommandListener claims rows in every worker    *)
(* process, and AllocateBudgetProcessor checks each one again and posts it *)
(* to the ledger.                                                          *)
(*                                                                         *)
(* Every database call of the processor is a step of its own, so requests, *)
(* workers, administrators and deposits interleave between them.  Workers  *)
(* crash and restart, leases lapse while their holder still runs, and any  *)
(* call may fail.  The ledger is Ledger, which PostEntry implements.       *)
(***************************************************************************)
EXTENDS Integers, FiniteSets

CONSTANTS
  Worker,       \* worker processes
  Request,      \* calls of AllocateBudgetUseCase.execute
  Key,          \* idempotency keys; a key names the row created under it
  Ask,          \* Ask[r]: key, campaign, actor, amount, expected
  Campaign,
  Actor,        \* members of the organisation who ask
  Lot,          \* funding lots, each opened by one deposit
  DepositOf,    \* DepositOf[l]: the amount of that deposit
  Platform,     \* the platform account a deposit is booked against
  LimitSet,     \* limits money authority is granted with, 0 for revoked
  NoExpectation,\* expectedAvailableMinor is null
  NoRequest, NoKey, NoLot,
  MaxAttempts,  \* MAX_ATTEMPTS, 5 in the code
  BatchSize,    \* POLL_BATCH_SIZE, 50 in the code
  MaxHalts,     \* bounds on what the environment does: crashes and shutdowns,
  MaxFaults,    \* failed database calls,
  MaxChanges    \* changes by administrators

Term == [key : Key, campaign : Campaign, actor : Actor, amount : Int,
         expected : Int \cup {NoExpectation}]

ASSUME QueueAssumption ==
  /\ Ask \in [Request -> Term]
  /\ DepositOf \in [Lot -> Nat \ {0}]
  /\ LimitSet \subseteq Nat
  /\ Lot \cap Campaign = {} /\ Platform \notin Lot \cup Campaign
  /\ Key \cap Lot = {}
  /\ NoRequest \notin Request /\ NoKey \notin Key /\ NoLot \notin Lot
  /\ MaxAttempts \in Nat \ {0} /\ BatchSize \in Nat \ {0}
  /\ {MaxHalts, MaxFaults, MaxChanges} \subseteq Nat

VARIABLES
  call,         \* how far each request has come, and its answer
  row,          \* the treasury_command row of each key
  entry, balance, \* the ledger
  permitted,    \* actors whose role has campaign:allocate
  limit,        \* MoneyAuthority.limitMinor of each actor, 0 for none
  closed,       \* campaigns that are cancelled or completed
  pc,           \* the step each worker is at
  batch,        \* the claimed ids a worker's sweep has not run yet
  cur,          \* the command a worker is processing
  lot,          \* orgLot of that run
  stopped,      \* workers told to shut down
  halts, faults, changes,
  refused,      \* history: keys some run was refused for
  lapsed,       \* history: keys whose lease has expired at least once
  barred        \* history: what a run's command has lacked throughout the run

ledgerVars == <<entry, balance>>
adminVars == <<permitted, limit, closed, changes>>
workerVars == <<pc, batch, cur, lot, stopped>>
trouble == <<halts, faults>>
historyVars == <<refused, lapsed, barred>>
vars == <<call, row, ledgerVars, adminVars, workerVars, trouble, historyVars>>

-----------------------------------------------------------------------------
(* The ledger                                                              *)

Account == Lot \cup Campaign \cup {Platform}

DepositMove(l) ==
  [a \in Account |-> IF a \in {l, Platform} THEN DepositOf[l] ELSE 0]

\* Debit the campaign's account, credit the lot: both are debit normal.
AllocationMove(l, c, n) ==
  [a \in Account |-> IF a = c THEN n ELSE IF a = l THEN -n ELSE 0]

Movements ==
  {DepositMove(l) : l \in Lot}
    \cup {AllocationMove(l, Ask[r].campaign, Ask[r].amount) :
            l \in Lot, r \in {q \in Request : Ask[q].amount > 0}}

Books == INSTANCE Ledger WITH
  Source <- Key \cup Lot,
  DebitNormal <- Lot \cup Campaign,
  MayGoNegative <- {Platform}

Posted(s) == entry[s] # Books!Nothing

\* Accounts with role org_lot_available.
OpenLots == {l \in Lot : Posted(l)}

-----------------------------------------------------------------------------
(* Rows and what the state says about them                                 *)

Live == {"pending", "processing"}

Statuses == {"none", "completed", "failed"} \cup Live

\* earlier stands for createdAt: the rows that were there before this one.
NoRow == [ask |-> NoRequest, status |-> "none", attempts |-> 0,
          lease |-> "none", earlier |-> {}]

Terms(k) == Ask[row[k].ask]

Rows == {k \in Key : row[k].status # "none"}

\* Every permission check of a command comes to this.
Permitted(a) == a \in permitted
Trusted(a, n) == limit[a] > 0 /\ n <= limit[a]

\* Mistakes: the lease is not looked at, rows under an expired lease are not
\* taken up.
ClaimableUnderLease(k) ==
  row[k].attempts < MaxAttempts /\ row[k].status \in Live

ClaimablePending(k) ==
  row[k].attempts < MaxAttempts /\ row[k].status = "pending"

\* pending, or processing under a lease that has expired; not exhausted.
Claimable(k) ==
  /\ row[k].attempts < MaxAttempts
  /\ \/ row[k].status = "pending"
     \/ row[k].status = "processing" /\ row[k].lease = "expired"

\* The balance the requester saw is the one the lot has.
Fresh(t) ==
  t.expected = NoExpectation \/ \E l \in OpenLots : balance[l] = t.expected

\* A worker has claimed k and has yet to run it, or is running it.
Holds(w, k) == k \in batch[w] \/ cur[w] = k

Holders(k) == {w \in Worker : Holds(w, k)}

-----------------------------------------------------------------------------
Init ==
  /\ call = [r \in Request |-> "new"]
  /\ row = [k \in Key |-> NoRow]
  /\ Books!Init
  /\ permitted \in SUBSET Actor
  /\ limit \in [Actor -> LimitSet]
  /\ closed = {}
  /\ pc = [w \in Worker |-> "idle"]
  /\ batch = [w \in Worker |-> {}]
  /\ cur = [w \in Worker |-> NoKey]
  /\ lot = [w \in Worker |-> NoLot]
  /\ stopped = {}
  /\ halts = 0 /\ faults = 0 /\ changes = 0
  /\ refused = {} /\ lapsed = {} /\ barred = [w \in Worker |-> {}]

-----------------------------------------------------------------------------
(* The world around the queue                                              *)

\* A deposit opens a lot.  External: the deposit flow is not written yet.
Deposit(l) ==
  /\ Books!Post(l, DepositMove(l))
  /\ UNCHANGED <<call, row, adminVars, workerVars, trouble>>

Change ==
  /\ changes < MaxChanges
  /\ changes' = changes + 1
  /\ UNCHANGED <<call, row, ledgerVars, workerVars, trouble>>

\* A promotion to owner brings the permission.
GainRole(a) ==
  /\ Change
  /\ a \notin permitted
  /\ permitted' = permitted \cup {a}
  /\ UNCHANGED <<limit, closed>>

\* The place in the workspace is taken away: money authority stays.
LeaveWorkspace(a) ==
  /\ Change
  /\ a \in permitted
  /\ permitted' = permitted \ {a}
  /\ UNCHANGED <<limit, closed>>

\* A demotion, or removal from the organisation, revokes money authority in the
\* same transaction.  A demoted member may keep the permission by a workspace
\* role.
Demote(a) ==
  /\ Change
  /\ limit[a] > 0 \/ a \in permitted
  /\ limit' = [limit EXCEPT ![a] = 0]
  /\ permitted' \in {permitted, permitted \ {a}}
  /\ UNCHANGED closed

\* Money authority is granted, or granted anew with another limit.  External:
\* the repository reads and revokes grants, nothing in it writes one.
GrantLimit(a, n) ==
  /\ Change
  /\ limit[a] # n
  /\ limit' = [limit EXCEPT ![a] = n]
  /\ UNCHANGED <<permitted, closed>>

\* CampaignsService.update writes whatever state it is given.
ChangeCampaign(c) ==
  /\ Change
  /\ closed' = IF c \in closed THEN closed \ {c} ELSE closed \cup {c}
  /\ UNCHANGED <<permitted, limit>>

\* LEASE_MS passes.
LeaseExpires(k) ==
  /\ row[k].lease = "live"
  /\ row' = [row EXCEPT ![k] = [@ EXCEPT !.lease = "expired"]]
  /\ UNCHANGED <<call, ledgerVars, adminVars, workerVars, trouble>>

-----------------------------------------------------------------------------
(* AllocateBudgetUseCase.execute                                           *)

Reply(r, answer) == call' = [call EXCEPT ![r] = answer]

ApiOnly == UNCHANGED <<ledgerVars, adminVars, workerVars, trouble>>

Allowed(r) ==
  /\ Ask[r].amount > 0
  /\ Ask[r].campaign \notin closed
  /\ Permitted(Ask[r].actor)
  /\ Trusted(Ask[r].actor, Ask[r].amount)

Admit(r) ==
  /\ call[r] = "new"
  /\ Allowed(r)
  /\ Reply(r, "admitted")
  /\ ApiOnly /\ UNCHANGED row

Deny(r) ==
  /\ call[r] = "new"
  /\ ~Allowed(r)
  /\ Reply(r, "denied")
  /\ ApiOnly /\ UNCHANGED row

\* Mistake: any request with the key counts as a replay.
SameKey(r, q) == Ask[r].key = Ask[q].key

\* The idempotency key is known: the same terms are a replay and are answered
\* like the first call, different terms are refused.
SameRequest(r, q) == Ask[r] = [Ask[q] EXCEPT !.actor = Ask[r].actor]

FindExisting(r) ==
  /\ call[r] = "admitted"
  /\ row[Ask[r].key].status # "none"
  /\ Reply(r, IF SameRequest(r, row[Ask[r].key].ask) THEN "accepted" ELSE "denied")
  /\ ApiOnly /\ UNCHANGED row

FindNothing(r) ==
  /\ call[r] = "admitted"
  /\ row[Ask[r].key].status = "none"
  /\ Reply(r, "creating")
  /\ ApiOnly /\ UNCHANGED row

\* The insert, and the notification that commits with it.
Create(r) ==
  LET k == Ask[r].key
  IN  /\ call[r] = "creating"
      /\ row[k].status = "none"
      /\ row' = [row EXCEPT ![k] =
           [NoRow EXCEPT !.ask = r, !.status = "pending", !.earlier = Rows]]
      /\ Reply(r, "accepted")
      /\ ApiOnly

\* The unique index on idempotencyKey: another call created the row since.
CreateConflicts(r) ==
  /\ call[r] = "creating"
  /\ row[Ask[r].key].status # "none"
  /\ Reply(r, "error")
  /\ ApiOnly /\ UNCHANGED row

-----------------------------------------------------------------------------
(* TreasuryCommandListener                                                 *)

Goto(w, l) ==
  /\ pc' = [pc EXCEPT ![w] = l]
  /\ UNCHANGED <<batch, cur, lot, stopped>>

\* The run is over: sweep goes on with its batch.
Finish(w) ==
  /\ pc' = [pc EXCEPT ![w] = "loop"]
  /\ cur' = [cur EXCEPT ![w] = NoKey]
  /\ lot' = [lot EXCEPT ![w] = NoLot]
  /\ UNCHANGED <<batch, stopped>>

\* The memory of the sweep is gone; the rows stay as they are.
Forget(w) ==
  /\ pc' = [pc EXCEPT ![w] = "idle"]
  /\ batch' = [batch EXCEPT ![w] = {}]
  /\ cur' = [cur EXCEPT ![w] = NoKey]
  /\ lot' = [lot EXCEPT ![w] = NoLot]

\* sweep, begun by the timer, a notification or the start of the process: the
\* UPDATE takes the oldest claimable rows, a batch at most.
Claim(w) ==
  LET waiting == {k \in Rows : Claimable(k)}
  IN  /\ pc[w] = "idle" /\ w \notin stopped
      /\ \E S \in SUBSET waiting \ {{}} :
           /\ Cardinality(S) <= BatchSize
           /\ \A k \in waiting \ S :
                Cardinality(S) = BatchSize /\ S \subseteq row[k].earlier
           /\ row' = [k \in Key |->
                IF k \in S
                THEN [row[k] EXCEPT !.attempts = @ + 1, !.status = "processing",
                                    !.lease = "live"]
                ELSE row[k]]
           /\ batch' = [batch EXCEPT ![w] = S]
      /\ pc' = [pc EXCEPT ![w] = "loop"]
      /\ UNCHANGED <<call, ledgerVars, adminVars, cur, lot, stopped, trouble>>

\* The next command of the batch, in no particular order.
Pick(w) ==
  /\ pc[w] = "loop" /\ w \notin stopped
  /\ \E k \in batch[w] :
       /\ cur' = [cur EXCEPT ![w] = k]
       /\ batch' = [batch EXCEPT ![w] = @ \ {k}]
  /\ pc' = [pc EXCEPT ![w] = "read"]
  /\ UNCHANGED <<call, row, ledgerVars, adminVars, lot, stopped, trouble>>

\* A stopped worker drops what is left of its batch: claimed, and not run.
SweepEnds(w) ==
  /\ pc[w] = "loop"
  /\ batch[w] = {} \/ w \in stopped
  /\ Forget(w)
  /\ UNCHANGED <<call, row, ledgerVars, adminVars, stopped, trouble>>

\* onApplicationShutdown does not wait for the sweep.
Stop(w) ==
  /\ halts < MaxHalts
  /\ w \notin stopped
  /\ stopped' = stopped \cup {w}
  /\ halts' = halts + 1
  /\ UNCHANGED <<call, row, ledgerVars, adminVars, pc, batch, cur, lot, faults>>

\* The process is killed at any point and a new one takes its place.
Crash(w) ==
  /\ halts < MaxHalts
  /\ pc[w] # "idle"
  /\ Forget(w)
  /\ stopped' = stopped \ {w}
  /\ halts' = halts + 1
  /\ UNCHANGED <<call, row, ledgerVars, adminVars, faults>>

Restart(w) ==
  /\ pc[w] = "idle" /\ w \in stopped
  /\ stopped' = stopped \ {w}
  /\ UNCHANGED <<call, row, ledgerVars, adminVars, pc, batch, cur, lot, trouble>>

-----------------------------------------------------------------------------
(* AllocateBudgetProcessor.process                                         *)

ProcessorOnly == UNCHANGED <<call, adminVars, trouble>>

ReadRow(w) ==
  /\ pc[w] = "read"
  /\ \/ row[cur[w]].status \in Live /\ Goto(w, "permission")
     \/ row[cur[w]].status \notin Live /\ Finish(w)
  /\ ProcessorOnly /\ UNCHANGED <<row, ledgerVars>>

\* A check passes and the run goes on, or it throws and the run is refused.
Check(w, at, holds, next) ==
  /\ pc[w] = at
  /\ Goto(w, IF holds THEN next ELSE "failing")
  /\ ProcessorOnly /\ UNCHANGED <<row, ledgerVars>>

CheckPermission(w) ==
  Check(w, "permission", Permitted(Terms(cur[w]).actor), "authority")

\* Mistake: the amount is not passed to hasMoneyAuthority.
CheckGrantOnly(w) ==
  Check(w, "authority", limit[Terms(cur[w]).actor] > 0, "accounts")

CheckAuthority(w) ==
  Check(w, "authority",
        Trusted(Terms(cur[w]).actor, Terms(cur[w]).amount), "accounts")

\* accountForCampaign and orgLotToSpend, which raises unless exactly one lot
\* is open.
DeriveAccounts(w) ==
  /\ pc[w] = "accounts"
  /\ \E l \in OpenLots : OpenLots = {l} /\ lot' = [lot EXCEPT ![w] = l]
  /\ pc' = [pc EXCEPT ![w] =
       IF Terms(cur[w]).expected = NoExpectation THEN "post" ELSE "balance"]
  /\ ProcessorOnly /\ UNCHANGED <<row, ledgerVars, batch, cur, stopped>>

NoLotToSpend(w) ==
  Check(w, "accounts", FALSE, "balance") /\ Cardinality(OpenLots) # 1

ReadBalance(w) ==
  Check(w, "balance", balance[lot[w]] = Terms(cur[w]).expected, "post")

CurrentMove(w) ==
  AllocationMove(lot[w], Terms(cur[w]).campaign, Terms(cur[w]).amount)

Post(w) ==
  /\ pc[w] = "post"
  /\ Books!Post(cur[w], CurrentMove(w))
  /\ Goto(w, "complete")
  /\ ProcessorOnly /\ UNCHANGED row

\* post_entry finds the command posted and returns that entry.
Converge(w) ==
  Check(w, "post", TRUE, "complete") /\ Posted(cur[w])

\* Mistake: the overdraft is swallowed and the run goes on.
SwallowOverdraft(w) ==
  /\ Check(w, "post", TRUE, "complete")
  /\ ~Posted(cur[w])
  /\ balance[lot[w]] < Terms(cur[w]).amount

\* The lot does not hold the amount: the non-negative CHECK.
Overdraw(w) ==
  /\ Check(w, "post", FALSE, "complete")
  /\ ~Posted(cur[w])
  /\ balance[lot[w]] < Terms(cur[w]).amount

\* Guarded on the live statuses.
Complete(w) ==
  LET k == cur[w]
  IN  /\ pc[w] = "complete"
      /\ row' = IF row[k].status \in Live
                THEN [row EXCEPT ![k] = [@ EXCEPT !.status = "completed", !.lease = "none"]]
                ELSE row
      /\ Finish(w)
      /\ ProcessorOnly /\ UNCHANGED ledgerVars

\* Mistake: fail() marks the row whatever its status.
FailAnyRow(w) ==
  /\ pc[w] = "failing"
  /\ row' = [row EXCEPT ![cur[w]].status = "failed"]
  /\ Finish(w)
  /\ ProcessorOnly /\ UNCHANGED ledgerVars

\* fail() is guarded on pending.
RecordFailure(w) ==
  LET k == cur[w]
  IN  /\ pc[w] = "failing"
      /\ row' = IF row[k].status = "pending"
                THEN [row EXCEPT ![k] = [@ EXCEPT !.status = "failed"]]
                ELSE row
      /\ Finish(w)
      /\ ProcessorOnly /\ UNCHANGED ledgerVars

\* A database call throws, for good: the read and fail() throw out of process,
\* the others are caught and recorded.  When the call had been applied all the
\* same, this is that call and then a failure of the next.
DatabaseError(w) ==
  /\ faults < MaxFaults
  /\ pc[w] \notin {"idle", "loop"}
  /\ IF pc[w] \in {"read", "failing"} THEN Finish(w) ELSE Goto(w, "failing")
  /\ faults' = faults + 1
  /\ UNCHANGED <<call, row, ledgerVars, adminVars, halts>>

-----------------------------------------------------------------------------
\* What the run of w lacks at this moment.
Lacking(w) ==
  IF cur[w] = NoKey THEN {}
  ELSE LET t == Terms(cur[w])
       IN  {g \in {"role"} : ~Permitted(t.actor)}
             \cup {g \in {"limit"} : ~Trusted(t.actor, t.amount)}
             \cup {g \in {"balance"} : ~Fresh(t)}

Refusable == {"permission", "authority", "accounts", "balance", "post"}

\* The history variables follow every step.
Observe ==
  /\ refused' = refused \cup
       {cur[w] : w \in {v \in Worker : /\ pc[v] \in Refusable
                                       /\ pc'[v] = "failing"
                                       /\ faults' = faults}}
  /\ lapsed' = lapsed \cup {k \in Key : row'[k].lease = "expired"}
  /\ barred' = [w \in Worker |->
       IF cur[w] = NoKey THEN Lacking(w)' ELSE barred[w] \cap Lacking(w)']

Calls(r) ==
  \/ Admit(r) \/ Deny(r)
  \/ FindExisting(r) \/ FindNothing(r)
  \/ Create(r) \/ CreateConflicts(r)

\* The steps a running worker takes by itself.
Work(w) ==
  \/ Claim(w) \/ Pick(w) \/ SweepEnds(w) \/ Restart(w)
  \/ ReadRow(w) \/ CheckPermission(w) \/ CheckAuthority(w)
  \/ DeriveAccounts(w) \/ NoLotToSpend(w) \/ ReadBalance(w)
  \/ Post(w) \/ Converge(w) \/ Overdraw(w)
  \/ Complete(w) \/ RecordFailure(w)

Trouble(w) == Stop(w) \/ Crash(w) \/ DatabaseError(w)

Administer ==
  \/ \E a \in Actor :
       \/ GainRole(a) \/ LeaveWorkspace(a) \/ Demote(a)
       \/ \E n \in LimitSet : GrantLimit(a, n)
  \/ \E c \in Campaign : ChangeCampaign(c)

Step ==
  \/ \E r \in Request : Calls(r)
  \/ \E w \in Worker : Work(w) \/ Trouble(w)
  \/ \E l \in Lot : Deposit(l)
  \/ \E k \in Key : LeaseExpires(k)
  \/ Administer

Next == Step /\ Observe

Spec == Init /\ [][Next]_vars

\* A worker process keeps running, the poll timer keeps firing, a stopped
\* process is replaced by the next deployment, and time passes.
Fairness ==
  /\ \A w \in Worker : WF_vars(Work(w) /\ Observe)
  /\ \A k \in Key : WF_vars(LeaseExpires(k) /\ Observe)

FairSpec == Spec /\ Fairness

-----------------------------------------------------------------------------
Calling == {"new", "admitted", "creating", "accepted", "denied", "error"}

Steps == {"idle", "loop", "read", "permission", "authority", "accounts",
          "balance", "post", "complete", "failing"}

Row == [ask : Request \cup {NoRequest}, status : Statuses, attempts : 0..MaxAttempts,
        lease : {"none", "live", "expired"}, earlier : SUBSET Key]

RowsTyped ==
  /\ call \in [Request -> Calling]
  /\ row \in [Key -> Row]

WorldTyped ==
  /\ permitted \subseteq Actor /\ closed \subseteq Campaign
  /\ limit \in [Actor -> LimitSet \cup {0}]
  /\ changes \in 0..MaxChanges

WorkTyped ==
  /\ pc \in [Worker -> Steps]
  /\ batch \in [Worker -> SUBSET Key]
  /\ cur \in [Worker -> Key \cup {NoKey}]
  /\ lot \in [Worker -> Lot \cup {NoLot}]
  /\ stopped \subseteq Worker
  /\ halts \in 0..MaxHalts /\ faults \in 0..MaxFaults

HistoryTyped ==
  /\ refused \subseteq Key /\ lapsed \subseteq Key
  /\ barred \in [Worker -> SUBSET {"role", "limit", "balance"}]

TypeOK == RowsTyped /\ Books!TypeOK /\ WorldTyped /\ WorkTyped /\ HistoryTyped

RowCoherent(k) ==
  /\ row[k].status # "none" =>
       row[k].ask \in Request /\ Terms(k).key = k /\ Terms(k).amount > 0
  /\ row[k].status = "none" => row[k] = NoRow
  /\ row[k].status \in {"none", "pending"} => ~Posted(k) /\ Holders(k) = {}
  /\ row[k].lease # "none" => row[k].status = "processing"
  /\ row[k].lease = "expired" => k \in lapsed
  /\ row[k].status = "completed" => Posted(k)
  /\ row[k].status # "failed"

RunCoherent(w) ==
  /\ cur[w] = NoKey <=> pc[w] \in {"idle", "loop"}
  /\ pc[w] = "idle" => batch[w] = {}
  /\ pc[w] \in {"balance", "post"} => lot[w] \in OpenLots
  /\ pc[w] = "complete" => Posted(cur[w])

\* Rows, ledger and workers fit together.  In particular a row that a worker
\* holds is never pending, so fail() finds no row to mark and no command is
\* ever failed.
Coherent ==
  /\ \A r \in Request : call[r] \in {"admitted", "creating"} => Ask[r].amount > 0
  /\ \A k \in Key : RowCoherent(k)
  /\ \A w \in Worker : RunCoherent(w)

\* The row and the ledger never contradict one another: a command that reads
\* completed has its entry, one that reads failed moved no money, whichever of
\* the runs of the command wrote the status last.
RecordMatchesLedger ==
  \A k \in Key : /\ row[k].status = "completed" => Posted(k)
                 /\ row[k].status = "failed" => ~Posted(k)

\* What the ledger holds for a command is the movement its row asks for, from a
\* funding lot to the row's campaign, though every run derives the accounts
\* anew and any of the runs may be the one that posts.
PostedAsAccepted ==
  \A k \in Key : Posted(k) =>
    \E l \in Lot :
      /\ row[k].ask # NoRequest
      /\ entry[k] = AllocationMove(l, Terms(k).campaign, Terms(k).amount)

\* Every caller that was told "accepted" has a row with the terms it asked for,
\* also when several calls raced for one idempotency key.
AcceptedMeansOwnTerms ==
  \A r \in Request : call[r] = "accepted" =>
    LET k == Ask[r].key
    IN  /\ row[k].status # "none"
        /\ Terms(k).campaign = Ask[r].campaign
        /\ Terms(k).amount = Ask[r].amount
        /\ Terms(k).expected = Ask[r].expected

\* The comment on claim(): only one worker may own the command.  While no lease
\* of it has lapsed, no second worker holds it.
ExclusiveUntilLapse ==
  \A k \in Key \ lapsed : \A v, w \in Worker : Holds(v, k) /\ Holds(w, k) => v = w

\* MAX_ATTEMPTS bounds the runs of a command that can ever be under way at once,
\* leases lapsing under slow workers included.
AttemptsBoundHolders ==
  \A k \in Key : Cardinality(Holders(k)) <= row[k].attempts

\* The processor checks again before it posts: each of the role, the limit and
\* the balance the requester saw was in order at some moment of the very run
\* that posts.  What was revoked before the run began is never acted on.
PostsOnFreshGrounds ==
  [][\A w \in Worker : pc[w] = "post" /\ entry'[cur[w]] # entry[cur[w]]
       => barred[w] = {}]_vars

Outcome(k) ==
  CASE row[k].status = "completed" -> "confirmed"
    [] row[k].status = "failed" -> "refused"
    [] row[k].status \in Live /\ Posted(k) -> "allocated"
    [] row[k].status \in Live /\ ~Posted(k) -> "accepted"
    [] row[k].status = "none" -> "none"

Promise == INSTANCE Allocation WITH
  offer <- [k \in Key |-> {row[k].ask} \cap Request],
  outcome <- [k \in Key |-> Outcome(k)],
  funds <- [l \in Lot |-> balance[l]],
  budget <- [c \in Campaign |-> balance[c]]

\* The queue keeps the promise of Allocation: whatever crashes, lapses or is
\* delivered twice, a command moves its amount once and is done for good then.
ImplementsAllocation == Promise!Spec

\* The durable sweep: a command that was written down is completed, or refused
\* by some run, unless as many of its runs were lost to shutdowns, crashes and
\* database errors as it has attempts.
EventuallySettled ==
  \A k \in Key :
    row[k].status = "pending" ~>
      \/ row[k].status = "completed" \/ k \in refused
      \/ halts + faults >= MaxAttempts

-----------------------------------------------------------------------------
(* What comments and tests of the repository say and the code does not do  *)

\* run() swallows the error because "the processor has already recorded the
\* failure reason on the row": nobody holds a refused command that still reads
\* as live.
RefusalIsRecorded ==
  \A k \in refused : Holders(k) = {} => row[k].status \notin Live
=============================================================================
