---------------------------- MODULE LedgerHealth ----------------------------
(***************************************************************************)
(* The reconciliation of the snapshot job, PlatformSnapshotJob.compute and *)
(* checkLedgerHealth, beside the transactions whose rows it reads: those   *)
(* of PostEntry and those of AuditLog, in any order.                       *)
(*                                                                         *)
(* Each of the job's queries is a statement with a snapshot of its own, so *)
(* that a report is put together from what was committed at many moments.  *)
(* The counts and totals it stores beside the report are left out.         *)
(***************************************************************************)
EXTENDS PostEntry, AuditLog

VARIABLES
  query,       \* the query compute is at, "idle" while it does not run
  unverified,  \* accounts whose balance it has still to verify
  report,      \* what it has found so far
  snapshot     \* the lists of the row of platform_snapshot

jobVars == <<query, unverified, report, snapshot>>
healthVars == <<vars, auditVars, jobVars>>

NothingFound ==
  [unbalancedEntryIds |-> {}, driftedAccountIds |-> {}, auditChainBreaks |-> {}]

HealthInit ==
  /\ PEInit /\ AuditInit
  /\ query = "idle" /\ unverified = {}
  /\ report = NothingFound /\ snapshot = NothingFound

\* The timer fires, and the run before is over.
Compute ==
  /\ query = "idle"
  /\ query' = "entries"
  /\ report' = NothingFound
  /\ UNCHANGED <<unverified, snapshot>>

FindEntries ==
  /\ query = "entries"
  /\ query' = "balances"
  /\ report' = [report EXCEPT !.unbalancedEntryIds = FindUnbalancedEntries]
  /\ unverified' = Account
  /\ UNCHANGED snapshot

Verify(a) ==
  /\ query = "balances" /\ a \in unverified
  /\ unverified' = unverified \ {a}
  /\ report' = [report EXCEPT !.driftedAccountIds = @ \cup {b \in {a} : ~VerifyBalance(b)}]
  /\ UNCHANGED <<query, snapshot>>

FindBreaks ==
  /\ query = "balances" /\ unverified = {}
  /\ query' = "store"
  /\ report' = [report EXCEPT !.auditChainBreaks = VerifyChain(0)]
  /\ UNCHANGED <<unverified, snapshot>>

Store ==
  /\ query = "store"
  /\ query' = "idle"
  /\ snapshot' = report
  /\ UNCHANGED <<unverified, report>>

\* A query fails, or the process stops: the row stays as it was.
Fail ==
  /\ query # "idle"
  /\ query' = "idle"
  /\ UNCHANGED <<unverified, report, snapshot>>

Job ==
  \/ Compute \/ FindEntries \/ FindBreaks \/ Store \/ Fail
  \/ \E a \in unverified : Verify(a)

HealthNext ==
  \/ PENext /\ UNCHANGED <<auditVars, jobVars>>
  \/ AuditNext /\ UNCHANGED <<vars, jobVars>>
  \/ Job /\ UNCHANGED <<vars, auditVars>>

HealthSpec == HealthInit /\ [][HealthNext]_healthVars

\* "Every list it produces must be empty", although its queries fall between any
\* statements of any postings and recordings: no list of a stored report has an
\* entry, but for the chain when somebody got past the trigger of the log.
NoFalseAlarm ==
  /\ snapshot.unbalancedEntryIds = {} /\ snapshot.driftedAccountIds = {}
  /\ snapshot.auditChainBreaks # {} => bypassed
=============================================================================
