# Rayi: a verification development

Rayi is a platform on which brands pay creators. A brand funds its organization, allocates budget to campaigns,
offers deals to creators and reviews what they deliver. Everything that moves money goes through a double-entry
ledger in Postgres and a durable queue of commands; who may move it hangs on members, roles, step-up codes and
reviews. This directory holds TLA+ models of that code, the TLC configurations that check them on small instances,
and TLAPS proofs of the properties that matter most.

Paths below are relative to `src/apps/backend/` of the repository unless they start with `src/packages` or
`src/apps/console`.

## 1. Inventory

### The parts, their state and their operations

| Part | Where | State | Operations | What makes it correct |
|---|---|---|---|---|
| Ledger | `prisma/migrations/20260918150000…`, `20260918120000_ledger_core`, `src/ledger/` | `ledger.entry`, `entry_line`, `account_balance`, `balance_snapshot` | `post_entry` (SQL), `LedgerRepository.postEntry` with `withRetry`, `verifyBalance`, `findUnbalancedEntries` | an entry appears whole, once per source, balanced; no account that must stay non-negative is overdrawn; balances and snapshots are explained by the entries; sessions do not deadlock; losing a race is not an error |
| Treasury queue | `src/treasury/` | `treasury_command` rows (status, attempts, lease) | `AllocateBudgetUseCase.execute`, `TreasuryCommandListener.claim/sweep/run`, `AllocateBudgetProcessor.process/fail` | an accepted command moves its amount once or is refused and moves nothing; the row never contradicts the ledger; a run checks role, limit and figure again; nothing is forgotten |
| Account derivation | `20260918140000_ledger_account_derivation` | accounts by owner and role | `org_lot_to_spend`, `account_for_campaign` | the lot to spend is the only one that is open |
| Permissions, money authority | `src/authorization/permission.service.ts` | roles, `money_authority` | `can`, `hasMoneyAuthority` | a role permits the action, an authority row the consequence |
| Budget envelope | `src/api/workspaces/workspaces.service.ts` | `budget_envelope` (ceiling, committed, expiry) | `setEnvelope`, `tryCommit`, `release` | never committed above the ceiling; what is committed is what running deals need |
| Deals | `src/api/deals/deals.service.ts`, `src/apps/console/src/routes/deal.tsx` | `deal.state`, agreement, milestones; the figure on the brand's screen | `preview`, `create`, `offer`, `terminate` | offered once, against headroom that exists; a termination returns the remainder once; the brand consents to all that can leave before any work |
| Milestones, money arithmetic | `src/packages/domain/src` | none (pure) | `evaluateCondition`, `evaluateDeal`, `resolveMilestoneAmounts`, `Money.allocate` | parts sum to the whole and are the nearest there are; conditions are monotone |
| Review | `src/api/deals/review.service.ts`, `src/api/creator/creator.service.ts` | `deliverable` (state, version), `submission`, `review` | `submit`, `approve`, `undoApproval`, `requestChanges` | one live approval per approved deliverable; the work it is of is not replaced under it; money it moves was weighed against authority |
| Review screen | `src/api/deals/review-queue.service.ts`, `src/apps/console/src/routes/review.tsx` | the loaded queue, the batch, the releasing lane | `approveRow`, `approveCleared`, `undoRelease`, `sendChanges` | what is reported approved is what was shown; the lane shows what the server did; a batch ends |
| Members, invitations | `src/api/members/members.service.ts`, `src/api/organization/organization.service.ts` | `member.role`, `invitation`, sessions, `money_authority` | `invite`, `changeRole`, `remove`, `revokeInvitation` | an organization keeps an owner; a demotion takes authority and sessions along; nobody acts on a higher rank; one open invitation per address |
| Step-up | `src/auth/step-up/` | `step_up_grant`, failures in the audit log | `mint`, `consume`, `recordFailure` | guesses are bounded; a grant is for what it was minted for |
| Account security | `src/api/account/account-security.service.ts` | `email_change_request`, `two_factor_enrolment`, `two_factor` | request, confirm and cancel a change of address; begin, confirm, disable a second factor | a link works once; no two links are live unless their requests crossed; one factor |
| Webhooks, mail | `src/api/webhooks/`, `src/worker/queues/email/`, `src/shared/mail/` | `webhook_event`, `email_suppression`, jobs | `store`, `processPending`, `suppress`, `send` | a delivery is acted on once and to the end; a listed address gets no mail; a mail goes out once |
| Audit log | `src/audit/`, `20260918170000…190000` | `audit.event`, a hash chain | `record`, `recordInTransaction`, `verify_chain` | honest writers never break the chain; a chain that verifies and still has a published head has lost nothing up to it |
| Platform snapshot | `src/worker/snapshot/` | – (reads) | `compute`, `checkLedgerHealth` | reports nothing on a ledger that is in order, whenever it runs |
| Payouts, HTTP, tenant isolation, roster, files, the rest of the console | rest | – | – | – |

### How they interact

The api process calls `execute`, which checks and writes a `treasury_command` row; a trigger notifies, and every
worker process sweeps on the notification, on a timer and at its start. A sweep claims rows with one UPDATE (`FOR
UPDATE SKIP LOCKED`), then runs the processor for each: it reads permissions and authority, derives the accounts,
compares the balance, calls `post_entry` and updates the row. Members, workspaces and campaigns change what the
processor reads while it runs. Deals draw on the envelope of their workspace through `BudgetPort`
(`src/api/workspaces/public/budget.port.ts`). Reviews read deals and milestones, ask `hasMoneyAuthority` when an
approval would satisfy a milestone, and write deliverables; the console shows what each approval would release and
sends the figure back with it. Members' calls, changes of address and of the second factor, ceilings and
terminations mint and spend a step-up grant. Sensitive operations write an audit record, some in their own
transaction and some best effort after it. Every worker process polls the stored webhook deliveries, which decide
whom the email queue may write to.

### What is hard

* every service call is a sequence of autocommitted statements or short transactions: two calls interleave between
  any two of them, and a process that dies leaves the first half;
* workers are at-least-once: leases lapse under slow holders, batches are dropped on shutdown, retries run again
  what was done, a mail may have gone out when its answer was lost;
* `post_entry` runs at READ COMMITTED, with a unique index and row locks doing the work of serialization; so do the
  transactions on the second factor and on the audit log;
* figures are read in one statement and acted on in another (balance, ceiling, milestones, owners, ranks, failures
  of a window, a suppression);
* the console acts on a page that was loaded some time ago, with requests and answers that get lost.

`PROJECT.json` lists each such place at its line under "hazards".

## 2. Modules and how they correspond to the code

| Module | Models | Role |
|---|---|---|
| `Ledger` | what `ledger.post_entry` promises | abstract: `Post(s, m)` writes an entry for a source once, with every balance it touches, and never overdraws |
| `PostEntry` | `post_entry` statement by statement, `LedgerRepository.postEntry`, `withRetry`; the ledger queries of the snapshot job | detailed; `EXTENDS Ledger`, implements it (`AtomicPosting == Spec`) |
| `Allocation` | what an accepted command promises | abstract: accept, allocate once, confirm, refuse |
| `TreasuryQueue` | `AllocateBudgetUseCase`, `TreasuryCommandListener`, `AllocateBudgetProcessor`, with the members, limits, campaigns and lots they read | detailed; uses `Ledger` through `Books == INSTANCE Ledger WITH ...`, implements `Allocation` (`ImplementsAllocation`) |
| `Deals` | `DealsService.create/offer/terminate`, `WorkspacesService.setEnvelope/tryCommit/release` | the envelope of one workspace and its deals |
| `Milestones` | `conditions.ts`, `evaluate.ts`, `Money.allocate` | operators only |
| `Terms` | `DealsService.preview/create/get/offer` and the offer screen | the amounts and conditions of one deal; `EXTENDS Milestones` |
| `Review` | `ReviewService`, `CreatorService.submit`, the comparison in `ReviewController` | the work of one deal; `EXTENDS Milestones` |
| `ReviewScreen` | `ReviewQueueService.build`, `review.tsx` | composes a reviewer's screen with `Review` |
| `Members` | `MembersService`, `OrganizationService.revokeInvitation` | members of one organization |
| `Account` | `AccountSecurityService`, `StepUpService` | the sensitive requests of one user |
| `Mail` | webhook ingestion, suppression, poller, email processor, `MailService.send` | mail out and bounces in |
| `AuditLog` | `audit.record`, `audit.verify_chain` | the hash chain under concurrent writers; proved about, in no run |
| `LedgerHealth` | `PlatformSnapshotJob.compute` and `checkLedgerHealth` | the job beside the transactions it reads: `EXTENDS PostEntry, AuditLog`; proved about, in no run |
| `MC…` | – | the instance of a module that TLC checks |
| `Sums` | – | lemmas about sums over finite sets, used by the proofs |
| `LedgerHealthProofs` | – | theorems about `Ledger`, `PostEntry`, `AuditLog` and `LedgerHealth` |
| `DealsProofs`, `ReviewProofs` | – | theorems about `Deals`, `Milestones` and `Terms`; about `Review` and `ReviewScreen` |
| other `…Proofs` | – | theorems about a module |

**PostEntry.** A session is a database transaction of a caller. `pc` is the statement it is at: the lookup of an
existing entry (`FindExisting`, `FindNothing`), the insert of the header, which waits for an uncommitted entry of
the same source (`InsertBlocked`) and loses when that one commits (`LoseTheRace`), one UPDATE of a balance row for
each account in the order of `account_id` (`UpdateBalance`, which waits while another transaction holds the row,
and `Overdraw` when the CHECK fires), and `Commit`. `written` is what the transaction wrote and nobody else sees
yet. `Retry` and `GiveUp` are `withRetry`; `Abandon` is a connection that is lost. `CheckLedgerHealth` is what the
snapshot job computes, from `VerifyBalance` of each account and `FindUnbalancedEntries`; each of its queries reads
one snapshot of the committed rows, and about one account only, so that it is an operator of the state.

**TreasuryQueue.** A request (`call`) goes through `Admit` or `Deny`, the lookup by key, and `Create`, which meets
the unique index (`CreateConflicts`). A row is what `treasury_command` holds. A worker is a process with one
sweep: `Claim` is the one UPDATE, `Pick` the next of the batch, and a run is `ReadRow`, `CheckPermission`,
`CheckAuthority`, `DeriveAccounts`, `ReadBalance`, `Post` (or `Converge`, `Overdraw`), `Complete`, with
`RecordFailure` on a refusal and `DatabaseError` on an error that goes back to the queue. Each is a step of its
own since each is a statement of its own. `LeaseExpires` is time, `Stop`, `Crash` and `Restart` are the process.

**Deals.** A request is at a statement (`pc`), about a deal (`at`) and with an amount it once read (`figure`):
that is all that survives from one statement to the next. `ReadDraft`, `TryCommit`, `MarkOffered` (or
`MarkConflicts`, `MarkFails`) and `Release` are an offer; `ReadRunning`, `MarkTerminated`, `Release` a
termination; `ReadEnvelope` and `Approve` an approval of a ceiling. `Refuse` is any refusal between the read and
the first write, the step-up among them. `Crash` loses the request.

**Milestones, Terms.** `Satisfied` is `evaluateCondition`, one disjunct per type; `SatisfiableAtStart` asks it of a
deal with no work, as `isSatisfiableAtStart` does. `Resolve` is `resolveMilestoneAmounts` on `Allocate`, the largest
remainder, ties to the earliest. In `Terms` a draft is previewed and stored (`CreateDeal`), the brand loads its
screen (`Load`) and offers with the figure the screen had (`Offer`), days pass, and work is approved. `Conditions`
and `MilestoneInput` are what the contract admits (`src/packages/contracts/src/operations/deals.ts`). The split is
compared with a reference that enumerates every way to share out the amount.

**Review.** The submissions of a deliverable are versions, numbered from 1, and a request to approve names one of
them, the latest or an earlier one. A call reads (`LoadForApproval`, `LoadForChanges`, `LoadForSubmit`,
`FindApproval`), weighs what its approval would satisfy against the reviewer's authority (`Weigh`, `NotAuthorised`),
and writes in one transaction guarded by the version it read (`Approve`, `Undo`, `SendBack`, `Submit`, and what they
come to when the guard fails). An approval is named by the call that wrote it; `live` are those that are not voided.
A call whose answer is `forbidden` has approved all the same: the controller compares the reviewer's figure after
the service has committed. `ApproveTooLate` and `UndoTooLate` are refusals before anything is weighed. `outrun` is
history: calls whose facts changed after they were weighed.

**ReviewScreen.** `page` is the queue as it was loaded, `request` what each call was made for, `Serve` the server's
steps of it (those of `Review`), `Answered` the screen's reaction. `Shift` is one of the `BULK_CONCURRENCY` loops of
a batch taking the next row. The callbacks given to `mutate` run for the latest call of a hook only, which is how
the library works (`Calls`); `Lane` adds and removes rows of the releasing lane accordingly. `Elsewhere` are the
calls of other people. Each call may be lost on its way or on its way back (`Lost`).

**Members.** A call reads its actor (`LoadActor`), its target (`LoadTarget`) and the owners (`CountOwners`), passes
or fails a step-up, and writes (`ChangeRole`, `Remove`) without reading again; `job` is what it has read. An
invitation looks for a member with the address (`CheckMember`), revokes what it finds open (`Supersede`) and inserts
(`Invite`), each a statement.

**Account.** A handler is a request; `StartStepUp`, `AssertNotRateLimited`, `Mint`, `RecordFailure`, `Consume` are
the step-up before it, each a statement. A change of address is `CheckTaken`, `CancelEarlier`, `Store` and, by its
link, `FollowLink`, `CheckClaimed`, `ConfirmEmailChange`; `rivals` is history: the pairs of links whose requests
were both between `CancelEarlier` and `Store`. The transactions that write the factor are two steps, since at READ
COMMITTED what a `deleteMany` finds is fixed before the row lock of the user is waited for
(`RightCode`/`ConfirmEnrolment`, `DropFactor`/`DisableTwoFactor`); `crossed` is history: two of them overlapped.

**Mail.** `Receive` stores a delivery once by its external id; a poller drains a batch, and for each delivery looks
up (`FindLive`, `FindNone`) and inserts (`Create`, `CreateConflicts` on the unique index of the address) one
suppression per recipient before it marks it. Each worker process takes one job at a time, and the job looks at the
list (`Pick`) and sends (`Send`); `SendFails` and
`SenderFails` are an answer and a worker that are lost, with or without the mail having gone out. The provider sends
once for each idempotency key, which `MailService.idempotencyKey` makes of the intent and not of the attempt.

**LedgerHealth.** `query` is the query the job is at: `FindEntries`, one `Verify` for each account, `FindBreaks` and
`Store`, each a statement with a snapshot of its own, with any statement of any posting or recording in between.
`report` is put together from them and stored whole; `Fail` leaves the row of the last run. The counts and totals
stored beside the lists are left out.

**AuditLog.** A transaction takes the advisory lock, reads the last hash, inserts and commits, each a step; the lock
is held to the end of the transaction, the caller's own in `recordInTransaction`. The sequence is not given back by
a rollback. sha256 is symbolic, a pair of the previous hash (which has a fixed width) and the text of the event;
`event_hash` concatenates the columns with no delimiter and takes a NULL for an empty string, so that two different
events may have one `Text`, which is a parameter. The hash has no key: `Bypass` puts any set of rows at all in the
place of the log, with links and hashes computed afresh or not, and writers go on from there (`InsertFails` when a
row has been put at their position).

Operators introduced by a comment `Mistake:` are not part of a specification. Each is a plausible wrong version of
the definition after it, and `PROJECT.json` ("mutants") names the property that notices it.

## 3. What the runs check

| Run | Bounds | Shows |
|---|---|---|
| `post_entry` | 2 sessions, 3 sources, 3 accounts, 2 attempts, lost connections, fair | solvent; balances and snapshots explained by entries; the reconciliation reports nothing at any moment; no ring of waits; a refusal means that nothing was posted for the source; the statements implement `Ledger`; every call ends |
| `queue_commands` | 2 workers, 3 requests for 2 keys, a lot that can pay only one command, 1 halt, 2 attempts | row and ledger agree, leases exclude until they lapse, who is told accepted has its own terms in the row, the queue implements `Allocation` |
| `queue_progress` | 2 workers, 1 command, 2 lots, limits 0..2, 1 halt, 1 fault, 1 change by an administrator, fair | a run posts only on a role, a limit and a balance it found in order itself; the command settles unless as many runs were lost as it has attempts |
| `refusal_recorded` | 1 worker, 1 command | a comment says a refusal is on the row; it is not |
| `deals_envelope` | 3 requests, 2 deals of 2 and 1 units, ceilings 2 and 3, 1 lost process, 2 lost answers | never above the ceiling; the envelope holds exactly what deals and requests need, more only after a lost process, less only after a lost answer |
| `terms` | every schedule of up to 3 of 12 kinds of entries, totals 0, 1, 4, 5, no or 2 videos, days 0..2 | amounts add up; the split is the nearest; the brand has consented to what can leave before any work; nothing satisfied is taken back |
| `review` | 2 deliverables, 4 calls of a reviewer without and one with authority, 3 milestones, 1 day | one live approval per approved deliverable, whose work is not replaced under it; only an undo takes back; what an approval satisfies was weighed |
| `review_screen` | a milestone that asks for both of 2 deliverables, 3 calls, of the screen or of others, 1 loop per batch, fair | the lane is truthful, a batch of two ends whatever fails in it, an approval reported as done moved what was shown |
| `bulk_moves_money` | the same milestone, 4 loops per batch, nobody else | comments say the collapsed bar moves no money; two rows together do |
| `members` | 2 owners and an admin, 2 addresses, 3 calls | the last owner, the ranks, the sessions and authorities, the open invitations, each with the one interleaving that the code lets through named in the property |
| `account` | 2 requests at a time, 5 in all, 2 new addresses, 3 links, 2 new secrets, limits of 1 | a link works once; two links are live together only when their requests crossed; guesses exceed their limit by at most the requests under way; one factor |
| `mail` | 2 addresses, a bounce of both and a complaint of one, 2 pollers, 1 job of 2 attempts, 1 lost process, 1 lifted suppression, fair | processed means listed; the first reason stays; one mail per intent; none to listed addresses; deliveries and jobs settle |

**Why the bounds are enough.** The races of `post_entry` are between two sessions on a source or on a row, and the
theorems cover any number of them. In the queue two workers hold one command at once after a lapse, and two attempts
are one more than a lapse needs; the lot has three units and commands ask for two, so a second posting would
overdraw or show. Deals of two and one units with ceilings of two and three have offers that fit alone and not
together. The entries of `terms` include shares that do not divide, ties, a negative and a zero amount, counts of
zero and dates on every day. Two deliverables are what a milestone of two needs to be satisfied by two calls neither
of which satisfies it alone, and what gives the collapsed bar two rows; the run of the screen has one loop for them,
which with lost answers still lets the second approval overtake the first on the server, `bulk_moves_money` has the
code's four, and `ScreenTypeOKHolds` counts the batch for any number; the third and fourth call of `review` undo and
send back in between. Three calls of members are two that cross and one that changed what they read. A limit of one
guess with two requests is passed by one. Every bound is a constant with a guard of its own: `MaxTries`,
`MaxAttempts`, `Attempts`, `BatchLimit`, `BatchSize`, `BULK_CONCURRENCY`, `MAX_ATTEMPTS` and
`ENROLMENT_MAX_ATTEMPTS` are the code's own, at smaller values; `MaxHalts` (stops and crashes), `MaxFaults`
(database errors), `MaxChanges` (administrators), `MaxCrashes`, `MaxDoubts` (lost answers), `MaxLifts`,
`MaxRequests`, `MaxSeq` and `LastDay` bound the environment only.

**Deadlock.** `PostEntry` and `Deals` are checked for it. In the other runs the calls, deliveries and days are
finite, and a state where all of them are used has no successor, so the check is off there; `EventuallySettled`,
`BatchEnds` and `MailSettles` say what is wanted instead.

**Fairness.** `PEFairSpec` assumes `SF` of the statements of each session: Postgres queues waiters for a row, so a
session that can go on again and again does. `FairSpec` of the queue assumes `WF` of the steps of each worker (the
process runs, its poll timer fires even when no notification arrives, and a stopped process is replaced by the
next deployment) and of the lapse of each lease (time passes). `ScreenFairness` assumes `WF` of the server's work on
each call, of its answer (a lost one ends as an error of the network) and of the loops of a batch, which nobody
interrupts. `FairSpec` of `Mail` assumes `WF` of each poller, which its timer wakes, and `SF` of each job: the queue
hands it out again when its worker is lost. Nothing is assumed of requests, administrators, reviewers, crashes or
errors. `Deals`, `Members` and `Account` have no liveness property: nothing in the code picks up a request that was
lost.

### Disagreements between the code and what is said of it

Two have a run and are quoted in `PROJECT.json` ("findings"):

1. `fail()` is guarded on `pending` and every row that is run is `processing`: a refusal is not recorded
   (`refusal_recorded`). So a refused command is claimed again and may be posted later, on other grounds. With a
   `fail()` that wrote any row, a slow run could mark `failed` what another run has posted: that is the mutant of
   `RecordMatchesLedger`.
2. Rows of the collapsed bar release nothing each and can release money together (`bulk_moves_money`).

The others are steps of the models without a property of their own:

* a command posted by a worker that died before completing it is refused by every reclaim, because its own movement
  changed the balance it is compared with (`allocate-budget.processor.ts:113`; `treasury-command.listener.ts:51`
  says it converges);
* the processor does not look at the campaign's state (`allocate-budget.processor.ts:83`;
  `allocate-budget.use-case.ts:105`);
* a process lost inside `offer` leaves a commitment for a draft, and a lost answer to the compare-and-set makes
  `offer` return the money of a deal that is offered (`deals.service.ts:561` and `:582`; `:583` and `:499`). The
  slack of `EnvelopeCovers` is these two and no more;
* authority for an approval is weighed before it is written, so two approvals that each satisfy nothing can satisfy
  a milestone together (`review.service.ts:103`; `docs/02-decisions.md:164`). `WeighedAsSatisfied` says this is the
  only way;
* the reviewer's figure is compared after the approval has committed (`review.controller.ts:127`);
* `approve` loads the submission the request names and never compares it with the latest one, while the version of
  the deliverable is read afresh (`review.service.ts:89` and `:423-437`): from a page that is old enough, a
  submission is approved that has been superseded, and the newer one counts as approved with it.
  `review-queue.service.ts:73-76` says that "showing a superseded attempt would invite a decision on work the
  creator has already replaced". `ApprovalNotSuperseded` says what is left: work that was the latest when the
  service read it is not replaced under its approval;
* `bulk` is never reset, so the collapsed bar works once for each time the screen is opened (`review.tsx:427`);
  approvals of a batch never appear in the releasing lane; a row approved while an earlier answer is awaited takes
  that answer's callback away;
* an address whose suppression was lifted and that bounces again meets the unique index of the lifted row: the
  delivery is marked failed and the address stays off the list (`resend-webhook.service.ts:147-156`; migration
  `20260918105812…:102`, `docs/06-roadmap.md:742`). The poller that loses the insert of a shared delivery marks it
  failed in the same way;
* a send to a suppressed address throws and the job is tried again (`email.processor.ts:28-45`;
  `docs/06-roadmap.md:744`, `mail.service.ts:99`);
* two requests for a change of address that both cancel what is pending before either stores its own leave two live
  links (`account-security.service.ts:124-137`), although the comment at `:121-123` says why there must not be two.
  `LiveLinksCrossed` says that this is the only way, and that a later request leaves its own link alone;
* no route of `account.controller.ts` calls `confirmEmailChange` or `cancelEmailChange`; a confirmation that read
  its link before it was cancelled still applies (`account-security.service.ts:195`);
* two transactions on the second factor that overlap can leave two factors, or a flag that does not agree
  (`account-security.service.ts:427`);
* a step-up failure is counted by its audit record, which is best effort: a wrong code whose record fails does not
  count (`step-up.service.ts:265`; `:237` says the count cannot disagree with the history). The bound of
  `GuessesBounded` is on what is on record;
* `consume` spends every grant that fits, not one (`step-up.service.ts:183`);
* two owners can demote one another at once, and two invitations can be open for one address
  (`members.service.ts:393`, `:123`);
* `audit.event_hash` concatenates its fields with no delimiter and takes a NULL for an empty string
  (`20260918180000…:136-156`), so a change that leaves the text as it is, such as moving characters from one column
  to the next, is not noticed; and it has no key, so a log without a published head proves nothing
  (`20260918190000…:91-94`). `AnchoredLogIsWhole` says what a published head gives;
* `audit.head` returns no row on an empty log, and its comment says a row with a NULL position
  (`20260918190000…:96`); `verify_chain` does not compare the first row with the genesis link even when it starts at
  0, so the removal of a prefix goes unseen like that of a suffix.

## 4. What is proved

All theorems hold for any values of the constants that satisfy the named assumptions of the modules: typing,
disjoint names, positive amounts, finite sets where something is counted or summed. TLC evaluates the assumptions
in the runs. Every safety property and every action property of the runs is stated by a theorem.

**LedgerHealthProofs: the ledger.** The inductive invariant is `PETypeOK /\ Isolation`. `Isolation` says, of every
open transaction, that it owns its source (nothing committed for it, no other open transaction has inserted it),
that what it has written to the rows it visited is the committed balance with its movement applied and is not
overdrawn, and that two open transactions have visited disjoint rows. `Solvent` by itself is not inductive for the
statements: at commit, what is written must still be *current*, and that is what the row locks give. Three lemmas,
one for each statement that matters (insert, update, commit), keep it; `PostEntryImplementsLedger` maps `Commit` to
`Post` and every other step to a stutter, and `PostEntrySolvent` follows from it and from `LedgerSolvent`, the same
fact about the one-step ledger. `PostEntryNoDeadlock` needs only that a session visits accounts in increasing order
(`NextAccountIsSmallest`). `PostEntryExplained` adds that every snapshot row names an entry that is posted
(`Named`): the entry of a commit is new, so it changes the explanation of no earlier row. `LedgerReconciled` is
about the one-step ledger: every entry nets to zero and every balance is the sum of the entries of its account. It
goes over to the statements by `PostEntryImplementsLedger`, and with the snapshots it gives `ReportsAreEmptyHolds`:
each query of the job is empty in every state.

**LedgerHealthProofs: the audit log.** One transaction holds the lock (`Mutual`); what is being recorded comes after
all that is (`Fresh`); rows keep the position, link and hash they were recorded with (`Stored`). `Tight` (the one
being written carries the hash of the newest row) gives that an honest log verifies from every position, although
rolled back transactions leave gaps. `AnchoredLogIsWholeHolds` supposes nothing of a tamperer, who may leave any
rows with a chain computed afresh: if the log verifies and one of its rows has the hash of a row that was recorded,
then, from that row down, each row says what a recorded row says and follows the one it followed, since a hash fixes
the previous hash and the text (the last row up to the head that no recorded row vouches for would have to be linked
to by the next). It says no more than the code gives: the rows after the head, rows removed from the front, and
events with the same text are outside of it. `AuditLog` is in no run; these theorems are all that is said of it.

**LedgerHealthProofs: the job.** The job reads with one query after another while sessions post and record, so its
report describes no single state. `NoFalseAlarmHolds` (invariant `JobInv`) says that a report in the making and the
stored row hold nothing wrong all the same, because each query alone finds nothing in whatever state it meets; a
break of the chain is reported only when somebody has got past the trigger, and that is remembered
(`BypassIsRemembered`). `LedgerHealth` is in no run; it is proved about only.

**TreasuryQueueProofs.** `Coherent` ties a row to the ledger and to the workers that hold it: a row that is absent
or pending has no entry and no holder, a lease stands only on a row that is processing, a completed row and a run
about to complete have their entry, and no row is ever `failed` (see the first disagreement above). From it follow
`QueueRecordMatchesLedger` and the refinement `QueueImplementsAllocation`: the step `Post` is `Allocate`, `Complete`
is `Confirm`, and a second run of a posted command stutters. `QueueExclusive` adds that a holder other than the last
one implies a lapse; `QueueAttemptsBoundHolders` counts holders against attempts; `QueuePostsOnFreshGrounds` needs
the order of the run's stages. `QueueUsesLedger` says that each change the queue makes to the ledger is a `Post` of
a movement that may be asked of it, that is, a step the statements of `post_entry` implement; `QueueSolvent` follows
from it and from the theorem on the abstract ledger.

**DealsProofs.** `EnvelopeCovers` is inductive together with the types and `Figures` (what a request has in hand is
the total of its deal). Its sums over deals and requests are the work: the induction theorems of the library cannot
be instantiated here, so the laws of `SumFunctionOnSet` (what one changed term does to the sum, what a subset sums
to) are proved by a least counterexample among the finite subsets. Each action then shifts the sum of the needs
(`NeedsShift`) and of what is in hand (`HandsShift`) by known amounts, and a move of money from one to the other
leaves the envelope untouched.

**DealsProofs: the amounts of a deal.** `RanksFill` says that the order in which `Money.allocate` hands out the L
units that are left has exactly L entries with fewer than L before them (`LuckyCount`), so that the parts add up
(`AllocateAddsUp`, `ResolvedAddsUp`, `ScheduleAddsUpHolds`). That no split in whole units is nearer goes by a price:
a figure t lies between twice the fractions of the lucky entries and of the others (`Between`); with a unit charged
at W − t no entry is better off with another part (`Cheapest`); what the entries lose adds up to the difference in
distance, since all splits have the same sum. Entries that lose nothing are ties, and there the order of the sort
decides for the earlier (`AllocateIsNearest`, `SplitIsNearestHolds`). `AdvanceIsConsentedHolds` needs that, between
the figure the brand saw and the offer, only days pass (`OnlyDatesCome`); `StaysSatisfiedHolds` that conditions are
monotone in what is approved and in the day (`SatisfiedStays`).

**ReviewProofs.** A call that still finds the version it read has read nothing stale (`ReadsOK`); with it, "approved
exactly when one approval is live" and "the service had seen every submission there is when it read for the live
approval" (`AllSeen`) are inductive (`Tallied`); `ApprovalNotSupersededHolds` follows.
`OnlyUndoTakesBackHolds` and `WeighedAsSatisfiedHolds` add that conditions are monotone in what is approved
(cardinalities of finite subsets) and that a call that was not outrun holds the present facts (`Fresh`).

**ReviewProofs: the screen.** `ScreenImplementsReview` shows that the server behind the screens, lost requests and
answers included, takes only steps of `Review`, so that all that is proved of `Review` holds under the screen.
`ScreenShape` with `BatchAdds` (rows done, failed, under way and to be sent are the batch) gives the types.
`Traced` says how far the service has come with a call agrees with what the screen made it for, and `Truthful` that
approvals that are voided are never live again: `LaneIsTruthfulHolds`. `ApprovedAsShownHolds` then uses `Fresh`.

**MembersProofs.** `Known` says what a call at each stage has read; the exceptions of the properties are exactly
the states in which it is no longer so. `Superseded` says that a call about to insert an invitation has revoked
all it knew of.

**AccountProofs.** `Carries` is what a request holds at each stage. `AllCrossed` says of the links that are live or
about to be stored that any two of them are rivals, which is inductive where the property about live links alone is
not (`LiveLinksCrossedHolds`); `Counted` bounds the requests that have passed the count and are not yet counted
themselves, which are one less than the handlers once the limit is reached; `Alone` says that a transaction on the
factor that overlaps with no other has doomed all there is.

**MailProofs.** `Handles`: a recipient of the delivery a poller is at is listed or still to be listed. `Keyed`: a
mail that went out has left its key. `Looked`: a job that is sending has looked. Nothing is said of how batches are
taken from the inbox (`SelectSeq`), so the theorem of types is the part that the steps depend on (`Shape`).

**Only model-checked.** Liveness (`CallsEnd`, `EventuallySettled`, `BatchEnds`, `MailSettles`), which is out of the
prover's reach, as is anything about `ENABLED`: that sessions never deadlock is proved as the absence of rings of
two and three waiters, and checked by TLC as a deadlock. No module that is proved about reaches a RECURSIVE
operator, and no induction theorem can be instantiated: the laws of sums that the proofs need are those of `Sums`,
by least counterexample.

## 5. What is not modelled, and limits

* One organization, one currency, one workspace. Row-level security, HTTP, authentication, guards, webhook
  signatures, generated code and the reads and single-row writes of the other services and screens are not modelled:
  they have no state that two of their steps could disagree about, or their state is cryptography.
* Payouts: a change of destination holds scheduled payouts, and nothing in `src/` schedules or sends one, so the
  other side of the race is not there.
* Amounts are unbounded integers; a 64-bit overflow raises in Postgres and is one more refusal. Movements that net
  to zero are left out.
* Roles and permission tables are folded into `permitted`, `money_authority` into `limit` (no limit is a large
  number, no row is 0); `money_authority` rows have no writer in the repository but its tests.
* The reads of `execute` before the lookup by key are one step; so are the processor's two account derivations. A
  row that `SKIP LOCKED` passes over for a moment is taken by a later sweep. A claim whose answer is lost is a claim
  and a crash. Shutdown does not await a sweep: `Stop` leaves the loop between two commands.
* Only `ALLOCATE_BUDGET` commands exist, always with a campaign; the refusals for others are left out.
* `accept`, the start of work and the release of milestones have no writer in `src/`; `Progress`, `Accept` and
  `ReleaseMilestone` are external. `completed` and `cancelled` deals have none either. No code accepts an
  invitation. No code computes checks of a submission, so a row of the review queue needs attention only for its
  money.
* Step-ups succeed or fail freely in `Deals` and `Members`; `Account` has their statements. Audit records beside an
  operation have no effect in its model, except for the failures that `Account` counts.
* The catalogue checks of the ledger at boot, `balanceAsOf`, reversal entries and the account-creation helpers are
  not modelled; nor are backup codes, mail templates, the redirection of a staging system, risk flags and sorting of
  the review queue.

## 6. Plan

Done: the ledger, the queue, deals with their terms, review with its screen, members, accounts, mail, the audit log
and the health job, and proofs of the safety of all of them. What is left, in this order:

1. Composition of `TreasuryQueue` with `PostEntry` in place of the one-step `Post`; the refinements on both sides
are proved (`QueueUsesLedger`, `PostEntryImplementsLedger`), so this would show that nothing falls between them. 2.
Payouts and the release of milestones, when there is code that schedules them: a hold against a schedule, a release
against an undo and against a termination. 3. Row-level security, as a relation between the predicate of each
statement and the rows the models let it see.
