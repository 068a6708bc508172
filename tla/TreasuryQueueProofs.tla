------------------------ MODULE TreasuryQueueProofs ------------------------
(***************************************************************************)
(* What is proved of the money queue, for any number of workers, requests, *)
(* keys, crashes and faults.                                               *)
(***************************************************************************)
EXTENDS TreasuryQueue, FiniteSetTheorems, TLAPS

-----------------------------------------------------------------------------
(* Movements                                                               *)

\* The terms of a request.
LEMMA TermsTyped ==
  ASSUME NEW r \in Request
  PROVE  /\ Ask[r].key \in Key /\ Ask[r].campaign \in Campaign
         /\ Ask[r].actor \in Actor /\ Ask[r].amount \in Int
  BY QueueAssumption DEF QueueAssumption, Term

\* A deposit's movement is one the ledger can be asked for, and moves something.
LEMMA DepositMoveTyped ==
  ASSUME NEW l \in Lot
  PROVE  /\ DepositMove(l) \in Movements
         /\ DepositMove(l) \in [Account -> Int]
         /\ DepositMove(l) # Books!Nothing
<1>1. DepositOf[l] \in Int /\ DepositOf[l] # 0 /\ l \in Account
  BY QueueAssumption DEF QueueAssumption, Account
<1>2. DepositMove(l)[l] = DepositOf[l]
  BY <1>1 DEF DepositMove
<1>3. DepositMove(l) # Books!Nothing
  BY <1>1, <1>2 DEF Books!Nothing
<1> QED
  BY <1>1, <1>3 DEF DepositMove, Movements

\* So is an allocation's, for any lot.
LEMMA AllocationMoveTyped ==
  ASSUME NEW l \in Lot, NEW r \in Request, Ask[r].amount > 0
  PROVE  LET m == AllocationMove(l, Ask[r].campaign, Ask[r].amount)
         IN  m \in Movements /\ m \in [Account -> Int] /\ m # Books!Nothing
<1> DEFINE m == AllocationMove(l, Ask[r].campaign, Ask[r].amount)
<1>1. Ask[r].amount \in Int /\ Ask[r].campaign \in Account
  BY TermsTyped DEF Account
<1>2. m[Ask[r].campaign] = Ask[r].amount
  BY <1>1 DEF AllocationMove
<1>3. m # Books!Nothing
  BY <1>1, <1>2 DEF Books!Nothing
<1>4. m \in Movements
  BY DEF Movements
<1> QED
  BY <1>1, <1>3, <1>4 DEF AllocationMove

\* post_entry keeps the ledger typed.
LEMMA PostKeepsLedgerTyped ==
  ASSUME Books!TypeOK, NEW s \in Key \cup Lot, NEW m \in Movements,
         m \in [Account -> Int], Books!Post(s, m)
  PROVE  Books!TypeOK'
  BY DEF Books!TypeOK, Books!Post, Books!Apply

-----------------------------------------------------------------------------
(* Types                                                                   *)

\* The row that is not there yet.
LEMMA NoRowTyped == NoRow \in Row
  BY QueueAssumption DEF NoRow, Row, Statuses, QueueAssumption

\* The updates of a row keep it a row.
LEMMA RowUpdateTyped ==
  ASSUME NEW x \in Row
  PROVE  /\ [x EXCEPT !.lease = "expired"] \in Row
         /\ [x EXCEPT !.status = "failed"] \in Row
         /\ [x EXCEPT !.status = "completed", !.lease = "none"] \in Row
<1> USE DEF Row, Statuses, Live
<1>1. [x EXCEPT !.lease = "expired"] \in Row
  OBVIOUS
<1>2. [x EXCEPT !.status = "failed"] \in Row
  OBVIOUS
<1>3. [x EXCEPT !.status = "completed", !.lease = "none"] \in Row
  OBVIOUS
<1> QED
  BY <1>1, <1>2, <1>3

\* A row as the use-case inserts it.
LEMMA NewRowTyped ==
  ASSUME NEW x \in Row, NEW r \in Request
  PROVE  [x EXCEPT !.ask = r, !.status = "pending", !.earlier = Rows] \in Row
<1>1. Rows \in SUBSET Key
  BY DEF Rows
<1> QED
  BY <1>1 DEF Row, Statuses, Live

\* A row as claim() leaves it: the attempts it counts stay within the bound,
\* since only rows below it are taken.
LEMMA ClaimedRowTyped ==
  ASSUME NEW x \in Row, x.attempts < MaxAttempts
  PROVE  [x EXCEPT !.attempts = @ + 1, !.status = "processing", !.lease = "live"] \in Row
<1> DEFINE n == x.attempts + 1
<1>1. n \in 0..MaxAttempts
  BY QueueAssumption DEF Row, QueueAssumption
<1>2. [x EXCEPT !.attempts = n, !.status = "processing", !.lease = "live"] \in Row
  <2> HIDE DEF n
  <2> QED
    BY <1>1 DEF Row, Statuses, Live
<1> QED
  BY <1>2

\* The initial state is typed.
LEMMA InitTyped == Init => TypeOK
<1> SUFFICES ASSUME Init PROVE TypeOK
  OBVIOUS
<1>1. RowsTyped
  BY NoRowTyped DEF Init, RowsTyped, Calling
<1>2. Books!TypeOK
  BY DEF Init, Books!Init, Books!TypeOK, Books!Nothing
<1>3. WorldTyped /\ HistoryTyped
  BY QueueAssumption DEF Init, WorldTyped, HistoryTyped, QueueAssumption
<1>4. WorkTyped
  BY QueueAssumption DEF Init, WorkTyped, Steps, QueueAssumption
<1> QED
  BY <1>1, <1>2, <1>3, <1>4 DEF TypeOK

\* The use-case keeps calls and rows typed.
LEMMA CallsKeepTypes ==
  ASSUME TypeOK, NEW r \in Request, Calls(r)
  PROVE  RowsTyped'
<1> USE DEF TypeOK
<1>1. ASSUME NEW answer \in Calling, Reply(r, answer) PROVE call' \in [Request -> Calling]
  BY <1>1 DEF Reply, RowsTyped
<1>2. ASSUME Create(r) PROVE row' \in [Key -> Row]
  <2>1. [NoRow EXCEPT !.ask = r, !.status = "pending", !.earlier = Rows] \in Row
    BY NoRowTyped, NewRowTyped
  <2> DEFINE new == [NoRow EXCEPT !.ask = r, !.status = "pending", !.earlier = Rows]
  <2>2. row' = [row EXCEPT ![Ask[r].key] = new]
    BY <1>2 DEF Create
  <2> HIDE DEF new
  <2> QED
    BY <2>1, <2>2 DEF RowsTyped, new
<1>3. ASSUME ~ Create(r) PROVE row' = row
  BY <1>3 DEF Calls, Admit, Deny, FindExisting, FindNothing, CreateConflicts
<1>4. \E answer \in Calling : Reply(r, answer)
  BY DEF Calls, Admit, Deny, FindExisting, FindNothing, Create, CreateConflicts, Calling
<1> QED
  BY <1>1, <1>2, <1>3, <1>4 DEF RowsTyped

\* Listener and processor keep rows typed.
LEMMA WorkKeepsRowsTyped ==
  ASSUME TypeOK, Coherent, NEW w \in Worker, Work(w) \/ Trouble(w)
  PROVE  RowsTyped'
<1> USE DEF TypeOK
<1>1. CASE Claim(w)
  <2> DEFINE Claimed(k) == [row[k] EXCEPT !.attempts = @ + 1, !.status = "processing",
                                          !.lease = "live"]
  <2>1. PICK S \in SUBSET {k \in Rows : Claimable(k)} :
          row' = [k \in Key |-> IF k \in S THEN Claimed(k) ELSE row[k]]
    BY <1>1 DEF Claim
  <2>2. ASSUME NEW k \in S PROVE Claimed(k) \in Row
    <3>1. k \in Key /\ row[k] \in Row /\ row[k].attempts < MaxAttempts
      BY <2>2 DEF Claimable, Rows, RowsTyped
    <3> QED
      BY <3>1, ClaimedRowTyped
  <2>3. call' = call
    BY <1>1 DEF Claim
  <2> HIDE DEF Claimed
  <2> QED
    BY <2>1, <2>2, <2>3 DEF RowsTyped
<1>2. ASSUME NEW k \in Key, NEW x \in Row, row' \in {row, [row EXCEPT ![k] = x]}, call' = call
      PROVE  RowsTyped'
  BY <1>2 DEF RowsTyped
<1>3. CASE Complete(w) \/ RecordFailure(w)
  <2> DEFINE done == [row[cur[w]] EXCEPT !.status = "completed", !.lease = "none"]
             failed == [row[cur[w]] EXCEPT !.status = "failed"]
  <2>1. cur[w] \in Key
    BY <1>3 DEF Complete, RecordFailure, Coherent, RunCoherent, WorkTyped
  <2>2. done \in Row /\ failed \in Row
    BY <2>1, RowUpdateTyped DEF RowsTyped
  <2>3. call' = call /\ row' \in {row, [row EXCEPT ![cur[w]] = done],
                                       [row EXCEPT ![cur[w]] = failed]}
    BY <1>3 DEF Complete, RecordFailure, ProcessorOnly
  <2> HIDE DEF done, failed
  <2> QED
    BY <1>2, <2>1, <2>2, <2>3
<1>4. CASE ~ (Claim(w) \/ Complete(w) \/ RecordFailure(w))
  <2>1. UNCHANGED <<call, row>>
    BY <1>4 DEF Work, Trouble, Pick, SweepEnds, Restart, ReadRow, CheckPermission,
           CheckAuthority, DeriveAccounts, NoLotToSpend, ReadBalance, Post, Converge,
           Overdraw, Check, ProcessorOnly, Stop, Crash, DatabaseError
  <2> QED
    BY <2>1 DEF RowsTyped
<1> QED
  BY <1>1, <1>3, <1>4

\* The command a worker runs has a row, with the terms of a request.
LEMMA RunHasTerms ==
  ASSUME TypeOK, Coherent, NEW w \in Worker, pc[w] \notin {"idle", "loop"}
  PROVE  /\ cur[w] \in Key /\ row[cur[w]].status \in {"processing", "completed"}
         /\ row[cur[w]].ask \in Request
         /\ Terms(cur[w]).key = cur[w] /\ Terms(cur[w]).amount > 0
<1>1. cur[w] \in Key
  BY DEF Coherent, RunCoherent, TypeOK, WorkTyped
<1>2. w \in Holders(cur[w])
  BY DEF Holders, Holds
<1>3. RowCoherent(cur[w]) /\ row[cur[w]].status \in Statuses
  BY <1>1 DEF Coherent, TypeOK, RowsTyped, Row
<1> QED
  BY <1>1, <1>2, <1>3 DEF RowCoherent, Statuses, Live

\* What a run posts is a movement from an open lot, as its row asks.
LEMMA RunPostsMovement ==
  ASSUME TypeOK, Coherent, NEW w \in Worker, Post(w)
  PROVE  /\ lot[w] \in Lot /\ Books!Post(cur[w], CurrentMove(w))
         /\ CurrentMove(w) \in Movements /\ CurrentMove(w) \in [Account -> Int]
         /\ CurrentMove(w) # Books!Nothing
<1>1. lot[w] \in Lot /\ Books!Post(cur[w], CurrentMove(w))
  BY DEF Post, Coherent, RunCoherent, OpenLots
<1>2. row[cur[w]].ask \in Request /\ Terms(cur[w]).amount > 0
  BY RunHasTerms DEF Post
<1> QED
  BY <1>1, <1>2, AllocationMoveTyped DEF CurrentMove, Terms

\* Only post_entry touches the ledger.
LEMMA WorkKeepsLedgerTyped ==
  ASSUME TypeOK, Coherent, NEW w \in Worker, Work(w) \/ Trouble(w)
  PROVE  Books!TypeOK'
<1>1. CASE Post(w)
  <2>1. cur[w] \in Key
    BY <1>1, RunHasTerms DEF Post
  <2> QED
    BY <1>1, <2>1, RunPostsMovement, PostKeepsLedgerTyped DEF TypeOK
<1>2. CASE ~ Post(w)
  <2>1. UNCHANGED <<entry, balance>>
    BY <1>2 DEF Work, Trouble, Claim, Pick, SweepEnds, Restart, ReadRow, CheckPermission,
           CheckAuthority, DeriveAccounts, NoLotToSpend, ReadBalance, Converge,
           Overdraw, Check, Complete, RecordFailure, Stop, Crash, DatabaseError, ledgerVars
  <2> QED
    BY <2>1 DEF TypeOK, Books!TypeOK
<1> QED
  BY <1>1, <1>2

\* Every step leaves a worker at one of its steps.
LEMMA WorkKeepsWorkTyped ==
  ASSUME TypeOK, Coherent, NEW w \in Worker, Work(w) \/ Trouble(w)
  PROVE  WorkTyped'
<1> USE DEF TypeOK, WorkTyped
<1>1. ASSUME NEW l \in Steps, Goto(w, l), UNCHANGED <<halts, faults>> PROVE WorkTyped'
  BY <1>1 DEF Goto
<1>2. ASSUME Finish(w), UNCHANGED <<halts, faults>> PROVE WorkTyped'
  BY <1>2 DEF Finish, Steps
<1>3. ASSUME Forget(w), UNCHANGED <<stopped, halts, faults>> PROVE WorkTyped'
  BY <1>3 DEF Forget, Steps
<1>4. CASE Claim(w)
  BY <1>4 DEF Claim, Rows, Steps, trouble
<1>5. CASE Pick(w)
  BY <1>5 DEF Pick, Steps, trouble
<1>6. CASE SweepEnds(w)
  BY <1>3, <1>6 DEF SweepEnds, trouble
<1>7. CASE Restart(w)
  BY <1>7 DEF Restart, trouble
<1>8. CASE ReadRow(w)
  BY <1>1, <1>2, <1>8 DEF ReadRow, ProcessorOnly, trouble, Steps
<1>9. CASE CheckPermission(w) \/ CheckAuthority(w) \/ NoLotToSpend(w) \/ ReadBalance(w)
             \/ Converge(w) \/ Overdraw(w)
  BY <1>1, <1>9 DEF CheckPermission, CheckAuthority, NoLotToSpend, ReadBalance,
           Converge, Overdraw, Check, ProcessorOnly, trouble, Steps
<1>10. CASE DeriveAccounts(w)
  BY <1>10 DEF DeriveAccounts, OpenLots, ProcessorOnly, trouble, Steps
<1>11. CASE Post(w)
  BY <1>1, <1>11 DEF Post, ProcessorOnly, trouble, Steps
<1>12. CASE Complete(w) \/ RecordFailure(w)
  BY <1>2, <1>12 DEF Complete, RecordFailure, ProcessorOnly, trouble
<1>13. CASE Stop(w)
  BY <1>13, QueueAssumption DEF Stop, QueueAssumption
<1>14. CASE Crash(w)
  BY <1>14, QueueAssumption DEF Crash, Forget, Steps, QueueAssumption
<1>15. CASE DatabaseError(w)
  BY <1>15, QueueAssumption DEF DatabaseError, Goto, Finish, Steps, QueueAssumption
<1> QED
  BY <1>4, <1>5, <1>6, <1>7, <1>8, <1>9, <1>10, <1>11, <1>12, <1>13, <1>14, <1>15
  DEF Work, Trouble

\* Deposits, administrators and the clock keep the types.
LEMMA WorldKeepsTypes ==
  ASSUME TypeOK,
         \/ \E l \in Lot : Deposit(l)
         \/ \E k \in Key : LeaseExpires(k)
         \/ Administer
  PROVE  RowsTyped' /\ Books!TypeOK' /\ WorldTyped' /\ WorkTyped'
<1> USE DEF TypeOK
<1>1. WorkTyped'
  BY DEF WorkTyped, Deposit, LeaseExpires, Administer, GainRole, LeaveWorkspace, Demote, GrantLimit,
         ChangeCampaign, Change, workerVars, trouble
<1>2. ASSUME NEW l \in Lot, Deposit(l) PROVE RowsTyped' /\ Books!TypeOK' /\ WorldTyped'
  <2>1. Books!TypeOK'
    BY <1>2, DepositMoveTyped, PostKeepsLedgerTyped DEF Deposit
  <2>2. UNCHANGED <<call, row, permitted, limit, closed, changes>>
    BY <1>2 DEF Deposit, adminVars
  <2> QED
    BY <2>1, <2>2 DEF RowsTyped, WorldTyped
<1>3. ASSUME NEW k \in Key, LeaseExpires(k) PROVE RowsTyped' /\ Books!TypeOK' /\ WorldTyped'
  <2> DEFINE x == [row[k] EXCEPT !.lease = "expired"]
  <2>1. x \in Row
    BY RowUpdateTyped DEF RowsTyped
  <2>2. row' = [row EXCEPT ![k] = x]
        /\ UNCHANGED <<call, entry, balance, permitted, limit, closed, changes>>
    BY <1>3 DEF LeaseExpires, ledgerVars, adminVars
  <2> HIDE DEF x
  <2> QED
    BY <2>1, <2>2 DEF RowsTyped, WorldTyped, Books!TypeOK
<1>4. ASSUME Administer PROVE RowsTyped' /\ Books!TypeOK' /\ WorldTyped'
  <2>1. UNCHANGED <<call, row, entry, balance>>
    BY <1>4 DEF Administer, GainRole, LeaveWorkspace, Demote, GrantLimit, ChangeCampaign, Change, ledgerVars
  <2>2. changes' \in 0..MaxChanges
    BY <1>4, QueueAssumption
    DEF Administer, GainRole, LeaveWorkspace, Demote, GrantLimit, ChangeCampaign, Change, WorldTyped, QueueAssumption
  <2>3. permitted' \subseteq Actor /\ closed' \subseteq Campaign /\ limit' \in [Actor -> LimitSet \cup {0}]
    BY <1>4 DEF Administer, GainRole, LeaveWorkspace, Demote, GrantLimit, ChangeCampaign, WorldTyped
  <2> QED
    BY <2>1, <2>2, <2>3 DEF RowsTyped, Books!TypeOK, WorldTyped
<1> QED
  BY <1>1, <1>2, <1>3, <1>4

\* The history variables keep their types.
LEMMA ObserveKeepsTypes ==
  ASSUME TypeOK, Coherent, Observe
  PROVE  HistoryTyped'
<1>1. \A w \in Worker : pc[w] \in Refusable => cur[w] \in Key
  BY RunHasTerms DEF Refusable
<1>2. refused' \subseteq Key /\ lapsed' \subseteq Key
  BY <1>1 DEF Observe, TypeOK, HistoryTyped
<1>3. \A w \in Worker : Lacking(w)' \in SUBSET {"role", "limit", "balance"}
  BY DEF Lacking
<1>4. \A w \in Worker : barred[w] \in SUBSET {"role", "limit", "balance"}
  BY DEF TypeOK, HistoryTyped
<1>5. barred' \in [Worker -> SUBSET {"role", "limit", "balance"}]
  BY <1>3, <1>4 DEF Observe
<1> QED
  BY <1>2, <1>5 DEF HistoryTyped

\* Every step keeps the types.
LEMMA NextKeepsTypes ==
  ASSUME TypeOK, Coherent, Next
  PROVE  TypeOK'
<1>1. HistoryTyped'
  BY ObserveKeepsTypes DEF Next
<1>2. CASE \E r \in Request : Calls(r)
  <2>1. RowsTyped'
    BY <1>2, CallsKeepTypes
  <2>2. UNCHANGED <<ledgerVars, adminVars, workerVars, trouble>>
    BY <1>2 DEF Calls, Admit, Deny, FindExisting, FindNothing, Create, CreateConflicts, ApiOnly
  <2> QED
    BY <1>1, <2>1, <2>2 DEF TypeOK, Books!TypeOK, WorldTyped, WorkTyped, ledgerVars,
                            adminVars, workerVars, trouble
<1>3. CASE \E w \in Worker : Work(w) \/ Trouble(w)
  <2>1. RowsTyped' /\ Books!TypeOK' /\ WorkTyped'
    BY <1>3, WorkKeepsRowsTyped, WorkKeepsLedgerTyped, WorkKeepsWorkTyped
  <2>2. UNCHANGED adminVars
    BY <1>3 DEF Work, Trouble, Claim, Pick, SweepEnds, Restart, ReadRow, CheckPermission,
           CheckAuthority, DeriveAccounts, NoLotToSpend, ReadBalance, Post, Converge, Overdraw,
           Check, Complete, RecordFailure, ProcessorOnly, Stop, Crash, DatabaseError
  <2> QED
    BY <1>1, <2>1, <2>2 DEF TypeOK, WorldTyped, adminVars
<1> QED
  BY <1>1, <1>2, <1>3, WorldKeepsTypes DEF Next, Step, TypeOK

-----------------------------------------------------------------------------
(* Coherence, the inductive invariant                                      *)

\* Nothing is ever taken back from the ledger.
LEMMA PostedStays ==
  ASSUME TypeOK, Coherent, Step, NEW s \in Key \cup Lot, Posted(s)
  PROVE  Posted(s)'
<1> USE DEF Posted
<1>1. CASE entry' = entry
  BY <1>1
<1>2. ASSUME NEW l \in Lot, Deposit(l) PROVE Posted(s)'
  BY <1>2, DepositMoveTyped DEF Deposit, Books!Post, TypeOK, Books!TypeOK
<1>3. ASSUME NEW w \in Worker, Post(w) PROVE Posted(s)'
  <2>1. cur[w] \in Key /\ Books!Post(cur[w], CurrentMove(w))
    BY <1>3, RunHasTerms, RunPostsMovement DEF Post
  <2> QED
    BY <2>1 DEF Books!Post, TypeOK, Books!TypeOK
<1> QED
  BY <1>1, <1>2, <1>3
  DEF Step, Calls, Admit, Deny, FindExisting, FindNothing, Create, CreateConflicts, ApiOnly,
      Work, Trouble, Claim, Pick, SweepEnds, Restart, ReadRow, CheckPermission,
      CheckAuthority, DeriveAccounts, NoLotToSpend, ReadBalance, Converge, Overdraw,
      Check, Complete, RecordFailure, ProcessorOnly, Stop, Crash, DatabaseError,
      LeaseExpires, Administer, GainRole, LeaveWorkspace, Demote, GrantLimit, ChangeCampaign, Change, ledgerVars

\* A row that a step leaves alone stays coherent as long as a waiting row is
\* neither posted nor taken up.
LEMMA RowStaysCoherent ==
  ASSUME TypeOK, Coherent, Next, NEW k \in Key, row'[k] = row[k],
         row[k].status \in {"none", "pending"} =>
           entry'[k] = entry[k] /\ Holders(k)' \subseteq Holders(k)
  PROVE  RowCoherent(k)'
<1>1. RowCoherent(k)
  BY DEF Coherent
<1>2. lapsed \subseteq lapsed'
  BY DEF Next, Observe
<1>3. Posted(k) => Posted(k)'
  BY PostedStays DEF Next
<1>4. Terms(k)' = Terms(k)
  BY DEF Terms
<1>5. row[k].status \in {"none", "pending"} => (~Posted(k) /\ Holders(k) = {})'
  BY <1>1 DEF RowCoherent, Posted
<1> QED
  BY <1>1, <1>2, <1>3, <1>4, <1>5 DEF RowCoherent

\* Only a claim gives a worker a command it did not hold.
LEMMA OnlyClaimsHold ==
  ASSUME TypeOK, Coherent, Step, NEW k \in Key, ~ \E w \in Worker : Claim(w)
  PROVE  Holders(k)' \subseteq Holders(k)
<1> SUFFICES ASSUME NEW v \in Worker
             PROVE  batch'[v] \subseteq batch[v] /\ cur'[v] \in {cur[v], NoKey} \cup batch[v]
  BY QueueAssumption DEF Holders, Holds, QueueAssumption
<1> USE DEF TypeOK, WorkTyped
<1>1. CASE UNCHANGED <<batch, cur>>
  BY <1>1
<1>2. ASSUME NEW w \in Worker, Finish(w) \/ Forget(w)
      PROVE  batch'[v] \subseteq batch[v] /\ cur'[v] \in {cur[v], NoKey} \cup batch[v]
  BY <1>2 DEF Finish, Forget
<1>3. ASSUME NEW w \in Worker, Pick(w)
      PROVE  batch'[v] \subseteq batch[v] /\ cur'[v] \in {cur[v], NoKey} \cup batch[v]
  BY <1>3 DEF Pick
<1> QED
  BY <1>1, <1>2, <1>3
  DEF Step, Calls, Admit, Deny, FindExisting, FindNothing, Create, CreateConflicts, ApiOnly,
      Work, Trouble, SweepEnds, Restart, ReadRow, CheckPermission, Goto, Post,
      CheckAuthority, DeriveAccounts, NoLotToSpend, ReadBalance, Converge, Overdraw,
      Check, Complete, RecordFailure, Stop, Crash, DatabaseError, Deposit,
      LeaseExpires, Administer, GainRole, LeaveWorkspace, Demote, GrantLimit, ChangeCampaign, Change, workerVars

\* The use-case creates a row in the state a waiting row has.
LEMMA CallsKeepRowCoherent ==
  ASSUME TypeOK, Coherent, Next, NEW r \in Request, Calls(r), NEW k \in Key
  PROVE  RowCoherent(k)'
<1>1. UNCHANGED <<entry, batch, cur>>
  BY DEF Calls, Admit, Deny, FindExisting, FindNothing, Create, CreateConflicts, ApiOnly,
         ledgerVars, workerVars
<1>2. Holders(k)' = Holders(k) /\ Posted(k)' = Posted(k)
  BY <1>1 DEF Holders, Holds, Posted
<1>3. CASE row'[k] = row[k]
  BY <1>1, <1>2, <1>3, RowStaysCoherent
<1>4. CASE row'[k] # row[k]
  <2> DEFINE new == [NoRow EXCEPT !.ask = r, !.status = "pending", !.earlier = Rows]
  <2>1. Create(r)
    BY <1>4 DEF Calls, Admit, Deny, FindExisting, FindNothing, Create, CreateConflicts
  <2>2. k = Ask[r].key /\ row'[k] = new /\ row[k].status = "none"
    BY <1>4, <2>1 DEF Create, TypeOK, RowsTyped
  <2>3. new.ask = r /\ new.status = "pending" /\ new.lease = "none"
    BY DEF NoRow
  <2>4. Terms(k)' = Ask[r] /\ Ask[r].amount > 0
    BY <2>1, <2>2, <2>3 DEF Create, Terms, Coherent
  <2>5. ~Posted(k) /\ Holders(k) = {}
    BY <2>2 DEF Coherent, RowCoherent
  <2> HIDE DEF new
  <2> QED
    BY <1>2, <2>2, <2>3, <2>4, <2>5 DEF RowCoherent
<1> QED
  BY <1>3, <1>4

\* A lapse is recorded, a deposit posts no command.
LEMMA WorldKeepsRowCoherent ==
  ASSUME TypeOK, Coherent, Next, NEW k \in Key,
         \/ \E l \in Lot : Deposit(l)
         \/ \E j \in Key : LeaseExpires(j)
         \/ Administer
  PROVE  RowCoherent(k)'
<1>1. UNCHANGED <<batch, cur>>
  BY DEF Deposit, LeaseExpires, Administer, GainRole, LeaveWorkspace, Demote, GrantLimit, ChangeCampaign, Change,
         workerVars
<1>2. Holders(k)' = Holders(k)
  BY <1>1 DEF Holders, Holds
<1>3. CASE LeaseExpires(k)
  <2>1. row'[k] = [row[k] EXCEPT !.lease = "expired"] /\ row[k].lease = "live"
        /\ entry' = entry
    BY <1>3 DEF LeaseExpires, ledgerVars, TypeOK, RowsTyped
  <2>2. row[k] \in Row /\ RowCoherent(k)
    BY DEF TypeOK, RowsTyped, Coherent
  <2>3. /\ row'[k].ask = row[k].ask /\ row'[k].status = row[k].status
        /\ row'[k].lease = "expired"
    BY <2>1, <2>2 DEF Row
  <2>4. k \in lapsed'
    BY <2>3 DEF Next, Observe
  <2>5. Terms(k)' = Terms(k) /\ Posted(k)' = Posted(k)
    BY <2>1, <2>3 DEF Terms, Posted
  <2> QED
    BY <1>2, <2>1, <2>2, <2>3, <2>4, <2>5 DEF RowCoherent
<1>4. CASE ~ LeaseExpires(k)
  <2>1. row'[k] = row[k]
    BY <1>4 DEF Deposit, LeaseExpires, Administer, GainRole, LeaveWorkspace, Demote, GrantLimit, ChangeCampaign,
                Change, TypeOK, RowsTyped
  <2>2. entry'[k] = entry[k]
    BY QueueAssumption, DepositMoveTyped
    DEF Deposit, LeaseExpires, Administer, GainRole, LeaveWorkspace, Demote, GrantLimit, ChangeCampaign, Change,
        ledgerVars, Books!Post, TypeOK, Books!TypeOK, QueueAssumption
  <2> QED
    BY <1>2, <2>1, <2>2, RowStaysCoherent
<1> QED
  BY <1>3, <1>4

\* A claim takes rows that wait, and leaves the others alone.
LEMMA ClaimKeepsRowCoherent ==
  ASSUME TypeOK, Coherent, Next, NEW w \in Worker, Claim(w), NEW k \in Key
  PROVE  RowCoherent(k)'
<1> DEFINE Claimed(j) == [row[j] EXCEPT !.attempts = @ + 1, !.status = "processing",
                                        !.lease = "live"]
<1>1. PICK S \in SUBSET {j \in Rows : Claimable(j)} :
        /\ row' = [j \in Key |-> IF j \in S THEN Claimed(j) ELSE row[j]]
        /\ batch' = [batch EXCEPT ![w] = S]
  BY DEF Claim
<1>2. UNCHANGED <<entry, cur>>
  BY DEF Claim, ledgerVars
<1>3. CASE k \in S
  <2>1. row[k] \in Row /\ RowCoherent(k) /\ Claimable(k) /\ row[k].status # "none"
    BY <1>3 DEF TypeOK, RowsTyped, Coherent, Rows
  <2>2. /\ row'[k].ask = row[k].ask /\ row'[k].status = "processing"
        /\ row'[k].lease = "live"
    <3>1. row'[k] = Claimed(k)
      BY <1>1, <1>3
    <3> QED
      BY <2>1, <3>1 DEF Row
  <2>3. Terms(k)' = Terms(k)
    BY <2>2 DEF Terms
  <2> QED
    BY <2>1, <2>2, <2>3 DEF RowCoherent
<1>4. CASE k \notin S
  <2>1. row'[k] = row[k]
    BY <1>1, <1>4
  <2>2. Holders(k)' \subseteq Holders(k)
    BY <1>1, <1>2, <1>4 DEF Holders, Holds, TypeOK, WorkTyped
  <2> QED
    BY <1>2, <2>1, <2>2, RowStaysCoherent
<1> QED
  BY <1>3, <1>4

\* Apart from a claim, a worker touches the row of its own command alone, and
\* completes it only after its entry is posted.
LEMMA WorkKeepsRowCoherent ==
  ASSUME TypeOK, Coherent, Next, NEW w \in Worker, Work(w) \/ Trouble(w), ~ Claim(w),
         NEW k \in Key, Holders(k)' \subseteq Holders(k)
  PROVE  RowCoherent(k)'
<1>1. CASE Complete(w) /\ cur[w] = k
  <2>1. row[k] \in Row /\ RowCoherent(k) /\ row[k].status \in {"processing", "completed"}
        /\ Posted(k)
    BY <1>1, RunHasTerms DEF Complete, TypeOK, RowsTyped, Coherent, RunCoherent
  <2>2. row'[k] \in {row[k], [row[k] EXCEPT !.status = "completed", !.lease = "none"]}
        /\ entry' = entry
    BY <1>1 DEF Complete, ledgerVars, TypeOK, RowsTyped
  <2>3. CASE row'[k] = row[k]
    BY <2>1, <2>3, RowStaysCoherent
  <2>4. CASE row'[k] = [row[k] EXCEPT !.status = "completed", !.lease = "none"]
    <3>1. /\ row'[k].ask = row[k].ask /\ row'[k].status = "completed"
          /\ row'[k].lease = "none"
      BY <2>1, <2>4 DEF Row
    <3>2. Terms(k)' = Terms(k) /\ Posted(k)'
      BY <2>1, <2>2, <3>1 DEF Terms, Posted
    <3> QED
      BY <2>1, <3>1, <3>2 DEF RowCoherent
  <2> QED
    BY <2>2, <2>3, <2>4
<1>2. CASE ~ (Complete(w) /\ cur[w] = k)
  <2>1. row'[k] = row[k]
    <3>1. CASE RecordFailure(w)
      BY <3>1, RunHasTerms DEF RecordFailure
    <3>2. CASE Complete(w)
      BY <1>2, <3>2 DEF Complete, TypeOK, RowsTyped
    <3>3. CASE ~ (RecordFailure(w) \/ Complete(w))
      BY <3>3 DEF Work, Trouble, Pick, SweepEnds, Restart, ReadRow, CheckPermission,
           CheckAuthority, DeriveAccounts, NoLotToSpend, ReadBalance, Post, Converge,
           Overdraw, Check, ProcessorOnly, Stop, Crash, DatabaseError
    <3> QED
      BY <3>1, <3>2, <3>3
  <2>2. ASSUME row[k].status \in {"none", "pending"} PROVE entry'[k] = entry[k]
    <3>1. CASE Post(w)
      <4>1. cur[w] # k /\ Books!Post(cur[w], CurrentMove(w))
        BY <2>2, <3>1, RunHasTerms DEF Post
      <4> QED
        BY <4>1 DEF Books!Post, TypeOK, Books!TypeOK
    <3>2. CASE ~ Post(w)
      BY <3>2 DEF Work, Trouble, Claim, Pick, SweepEnds, Restart, ReadRow, CheckPermission,
           CheckAuthority, DeriveAccounts, NoLotToSpend, ReadBalance, Converge,
           Overdraw, Check, Complete, RecordFailure, Stop, Crash, DatabaseError, ledgerVars
    <3> QED
      BY <3>1, <3>2
  <2> QED
    BY <2>1, <2>2, RowStaysCoherent
<1> QED
  BY <1>1, <1>2

\* Every step keeps every row coherent.
LEMMA NextKeepsRowCoherent ==
  ASSUME TypeOK, Coherent, Next, NEW k \in Key
  PROVE  RowCoherent(k)'
<1>1. CASE \E w \in Worker : Claim(w)
  BY <1>1, ClaimKeepsRowCoherent
<1>2. CASE ~ \E w \in Worker : Claim(w)
  <2>1. Holders(k)' \subseteq Holders(k)
    BY <1>2, OnlyClaimsHold DEF Next
  <2> QED
    BY <1>2, <2>1, CallsKeepRowCoherent, WorldKeepsRowCoherent, WorkKeepsRowCoherent
    DEF Next, Step
<1> QED
  BY <1>1, <1>2

\* A worker that does not move has only to see that the ledger forgets nothing.
LEMMA RunStaysCoherent ==
  ASSUME TypeOK, Coherent, Next, NEW v \in Worker,
         pc'[v] = pc[v], cur'[v] = cur[v], batch'[v] = batch[v], lot'[v] = lot[v]
  PROVE  RunCoherent(v)'
<1>1. RunCoherent(v)
  BY DEF Coherent
<1>2. lot[v] \in OpenLots => lot[v] \in OpenLots'
  BY PostedStays DEF Next, OpenLots
<1>3. pc[v] = "complete" => Posted(cur[v])'
  BY <1>1, RunHasTerms, PostedStays DEF Next, RunCoherent
<1> QED
  BY <1>1, <1>2, <1>3 DEF RunCoherent, Posted

\* A worker's own steps keep its run coherent.
LEMMA OwnStepsKeepRunCoherent ==
  ASSUME TypeOK, Coherent, Next, NEW w \in Worker, Work(w) \/ Trouble(w)
  PROVE  RunCoherent(w)'
<1> USE DEF TypeOK, WorkTyped
<1>1. RunCoherent(w) /\ NoKey \notin Key
  BY QueueAssumption DEF Coherent, QueueAssumption
<1>2. CASE Claim(w) \/ SweepEnds(w) \/ Pick(w)
  <2>1. CASE Claim(w)
    <3>1. pc'[w] = "loop" /\ pc[w] = "idle" /\ cur'[w] = cur[w]
      BY <2>1 DEF Claim
    <3> QED
      BY <1>1, <3>1 DEF RunCoherent
  <2>2. CASE SweepEnds(w)
    BY <1>1, <2>2 DEF SweepEnds, Forget, RunCoherent
  <2>3. CASE Pick(w)
    BY <1>1, <2>3 DEF Pick, RunCoherent
  <2> QED
    BY <1>2, <2>1, <2>2, <2>3
<1>3. CASE Restart(w) \/ Stop(w)
  BY <1>3, RunStaysCoherent DEF Restart, Stop
<1>4. CASE Crash(w)
  BY <1>4 DEF Crash, Forget, RunCoherent
<1>5. ASSUME Finish(w) PROVE RunCoherent(w)'
  BY <1>5 DEF Finish, RunCoherent
<1>6. ASSUME NEW l \in {"permission", "authority", "accounts", "failing"}, Goto(w, l),
             pc[w] \notin {"idle", "loop"}
      PROVE  RunCoherent(w)'
  BY <1>1, <1>6 DEF Goto, RunCoherent
<1>7. CASE ReadRow(w) \/ CheckPermission(w) \/ CheckAuthority(w) \/ DatabaseError(w)
             \/ NoLotToSpend(w) \/ Overdraw(w)
  BY <1>5, <1>6, <1>7 DEF ReadRow, CheckPermission, CheckAuthority, DatabaseError,
     NoLotToSpend, Overdraw, Check
<1>8. CASE DeriveAccounts(w)
  BY <1>1, <1>8 DEF DeriveAccounts, RunCoherent, OpenLots, Posted, ledgerVars
<1>9. CASE ReadBalance(w)
  BY <1>1, <1>9 DEF ReadBalance, Check, Goto, RunCoherent, OpenLots, Posted, ledgerVars
<1>10. CASE Post(w)
  <2>1. Posted(cur[w])'
    <3>1. cur[w] \in Key
      BY <1>10, RunHasTerms DEF Post
    <3>2. Books!Post(cur[w], CurrentMove(w)) /\ CurrentMove(w) # Books!Nothing
      BY <1>10, RunPostsMovement
    <3>3. cur' = cur
      BY <1>10 DEF Post, Goto
    <3> QED
      BY <3>1, <3>2, <3>3 DEF Books!Post, Books!TypeOK, Posted
  <2> QED
    BY <1>1, <1>10, <2>1 DEF Post, Goto, RunCoherent, Posted
<1>11. CASE Converge(w)
  BY <1>1, <1>11 DEF Converge, Check, Goto, RunCoherent, Posted, ledgerVars
<1>12. CASE Complete(w) \/ RecordFailure(w)
  BY <1>5, <1>12 DEF Complete, RecordFailure
<1> QED
  BY <1>2, <1>3, <1>4, <1>7, <1>8, <1>9, <1>10, <1>11, <1>12 DEF Work, Trouble

\* Every step keeps every run coherent.
LEMMA NextKeepsRunCoherent ==
  ASSUME TypeOK, Coherent, Next, NEW v \in Worker
  PROVE  RunCoherent(v)'
<1>1. ASSUME NEW w \in Worker, Work(w) \/ Trouble(w), w # v PROVE RunCoherent(v)'
  <2>1. /\ pc'[v] = pc[v] /\ cur'[v] = cur[v]
        /\ batch'[v] = batch[v] /\ lot'[v] = lot[v]
    BY <1>1 DEF Work, Trouble, Claim, Pick, SweepEnds, Restart, ReadRow, CheckPermission,
           CheckAuthority, DeriveAccounts, NoLotToSpend, ReadBalance, Post, Converge,
           Overdraw, Check, Complete, RecordFailure, Stop, Crash, DatabaseError,
           Goto, Finish, Forget, TypeOK, WorkTyped
  <2> QED
    BY <2>1, RunStaysCoherent
<1>2. ASSUME UNCHANGED workerVars PROVE RunCoherent(v)'
  BY <1>2, RunStaysCoherent DEF workerVars
<1>3. CASE \E w \in Worker : Work(w) \/ Trouble(w)
  BY <1>1, <1>3, OwnStepsKeepRunCoherent
<1>4. CASE ~ \E w \in Worker : Work(w) \/ Trouble(w)
  BY <1>2, <1>4
  DEF Next, Step, Calls, Admit, Deny, FindExisting, FindNothing, Create, CreateConflicts,
      ApiOnly, Deposit, LeaseExpires, Administer, GainRole, LeaveWorkspace, Demote, GrantLimit, ChangeCampaign, Change
<1> QED
  BY <1>3, <1>4

\* Every step keeps Coherent, the inductive invariant.
LEMMA NextKeepsCoherent ==
  ASSUME TypeOK, Coherent, Next
  PROVE  Coherent'
<1>1. ASSUME NEW r \in Request, call'[r] \in {"admitted", "creating"}
      PROVE  Ask[r].amount > 0
  <2>1. call[r] \in {"admitted", "creating"} \/ Allowed(r)
    BY <1>1 DEF Next, Step, Calls, Admit, Deny, FindExisting, FindNothing, Create,
       CreateConflicts, Reply, TypeOK, RowsTyped, Deposit, LeaseExpires, Administer,
       GainRole, LeaveWorkspace, Demote, GrantLimit, ChangeCampaign, Change, Work, Trouble, Claim, Pick,
       SweepEnds, Restart, ReadRow, CheckPermission, CheckAuthority, DeriveAccounts,
       NoLotToSpend, ReadBalance, Post, Converge, Overdraw, Check, Complete,
       RecordFailure, ProcessorOnly, Stop, Crash, DatabaseError
  <2> QED
    BY <2>1 DEF Allowed, Coherent
<1> QED
  BY <1>1, NextKeepsRowCoherent, NextKeepsRunCoherent DEF Coherent

\* Nothing is there at first.
LEMMA InitCoherent == Init => Coherent
  BY QueueAssumption
  DEF Init, Coherent, RowCoherent, RunCoherent, NoRow, Posted, Holders, Holds, Books!Init,
      QueueAssumption

\* A stutter keeps both invariants.
LEMMA StutterKeeps ==
  ASSUME TypeOK, Coherent, UNCHANGED vars
  PROVE  TypeOK' /\ Coherent'
<1>1. TypeOK'
  BY DEF vars, ledgerVars, adminVars, workerVars, trouble, historyVars, TypeOK, RowsTyped,
         Books!TypeOK, WorldTyped, WorkTyped, HistoryTyped
<1>2. \A k \in Key : RowCoherent(k) => RowCoherent(k)'
  BY DEF vars, ledgerVars, workerVars, historyVars, RowCoherent, Terms, Posted, Holders, Holds
<1>3. \A w \in Worker : RunCoherent(w) => RunCoherent(w)'
  BY DEF vars, ledgerVars, workerVars, RunCoherent, OpenLots, Posted
<1>4. call' = call
  BY DEF vars
<1> QED
  BY <1>1, <1>2, <1>3, <1>4 DEF Coherent

-----------------------------------------------------------------------------
(* Theorems                                                                *)

\* Every variable keeps its type: the attempts of a row never exceed
\* MAX_ATTEMPTS, the bound claim() puts on them.
THEOREM QueueTyped == Spec => []TypeOK
<1>1. TypeOK /\ Coherent /\ [Next]_vars => TypeOK' /\ Coherent'
  BY NextKeepsTypes, NextKeepsCoherent, StutterKeeps
<1> QED
  BY <1>1, InitTyped, InitCoherent, PTL DEF Spec

\* Rows, ledger and workers stay coherent.  With it: a worker holds no pending
\* row, so fail(), guarded on pending, never records a failure.
THEOREM QueueCoherent == Spec => []Coherent
<1>1. TypeOK /\ Coherent /\ [Next]_vars => TypeOK' /\ Coherent'
  BY NextKeepsTypes, NextKeepsCoherent, StutterKeeps
<1> QED
  BY <1>1, InitTyped, InitCoherent, PTL DEF Spec

\* A command that reads completed has its entry, one that reads failed moved no
\* money, however many runs of it there were.
THEOREM QueueRecordMatchesLedger == Spec => []RecordMatchesLedger
<1>1. Coherent => RecordMatchesLedger
  BY DEF Coherent, RowCoherent, RecordMatchesLedger
<1> QED
  BY <1>1, QueueCoherent, PTL

-----------------------------------------------------------------------------
(* One owner until a lease lapses                                          *)

\* A command under its first lease, or done with, is not claimable: a claim of
\* it before any lapse finds no other holder.
LEMMA NextKeepsExclusive ==
  ASSUME TypeOK, Coherent, Next, ExclusiveUntilLapse
  PROVE  ExclusiveUntilLapse'
<1> SUFFICES ASSUME NEW k \in Key, k \notin lapsed', NEW u \in Worker, NEW v \in Worker,
                    Holds(u, k)', Holds(v, k)'
             PROVE  u = v
  BY DEF ExclusiveUntilLapse
<1>1. k \notin lapsed
  BY DEF Next, Observe
<1>2. ASSUME Holders(k)' \subseteq Holders(k) PROVE u = v
  BY <1>1, <1>2 DEF Holders, ExclusiveUntilLapse
<1>3. ASSUME NEW w \in Worker, Claim(w) PROVE u = v
  <2>1. PICK S \in SUBSET {j \in Rows : Claimable(j)} : batch' = [batch EXCEPT ![w] = S]
    BY <1>3 DEF Claim
  <2>2. cur' = cur
    BY <1>3 DEF Claim
  <2>3. CASE k \in S
    <3>1. row[k].status = "pending"
      BY <1>1, <2>3 DEF Claimable, Coherent, RowCoherent
    <3>2. Holders(k) = {}
      BY <3>1 DEF Coherent, RowCoherent
    <3> QED
      BY <2>1, <2>2, <3>2 DEF Holders, Holds, TypeOK, WorkTyped
  <2>4. CASE k \notin S
    BY <1>2, <2>1, <2>2, <2>4 DEF Holders, Holds, TypeOK, WorkTyped
  <2> QED
    BY <2>3, <2>4
<1>4. CASE ~ \E w \in Worker : Claim(w)
  BY <1>2, <1>4, OnlyClaimsHold DEF Next
<1> QED
  BY <1>3, <1>4

\* While no lease of a command has lapsed, no two workers hold it: the guards of
\* the UPDATE in claim() are enough for any number of workers and crashes.
THEOREM QueueExclusive == Spec => []ExclusiveUntilLapse
<1>1. Init => ExclusiveUntilLapse
  BY QueueAssumption DEF Init, ExclusiveUntilLapse, Holds, QueueAssumption
<1>2. TypeOK /\ Coherent /\ ExclusiveUntilLapse /\ [Next]_vars => ExclusiveUntilLapse'
  <2>1. ASSUME ExclusiveUntilLapse, UNCHANGED vars PROVE ExclusiveUntilLapse'
    BY <2>1 DEF vars, workerVars, historyVars, ExclusiveUntilLapse, Holds
  <2> QED
    BY <2>1, NextKeepsExclusive
<1> QED
  BY <1>1, <1>2, QueueTyped, QueueCoherent, PTL DEF Spec

-----------------------------------------------------------------------------
(* The ledger holds what was accepted                                      *)

\* All that ever happens to a row.
LEMMA RowChanges ==
  ASSUME TypeOK, Coherent, Step, NEW k \in Key
  PROVE  \/ \E r \in Request : Create(r) /\ k = Ask[r].key
         \/ \E w \in Worker : /\ Claim(w) /\ k \in batch'[w]
                              /\ row'[k] = [row[k] EXCEPT !.attempts = @ + 1,
                                              !.status = "processing", !.lease = "live"]
         \/ row'[k] \in {row[k], [row[k] EXCEPT !.lease = "expired"],
                         [row[k] EXCEPT !.status = "completed", !.lease = "none"],
                         [row[k] EXCEPT !.status = "failed"]}
<1>1. row \in [Key -> Row] /\ batch \in [Worker -> SUBSET Key]
  BY DEF TypeOK, RowsTyped, WorkTyped
<1>2. ASSUME NEW w \in Worker, Claim(w), row'[k] # row[k]
      PROVE  /\ k \in batch'[w]
             /\ row'[k] = [row[k] EXCEPT !.attempts = @ + 1, !.status = "processing",
                                         !.lease = "live"]
  <2> DEFINE Claimed(j) == [row[j] EXCEPT !.attempts = @ + 1, !.status = "processing",
                                          !.lease = "live"]
  <2>1. PICK S : /\ row'[k] = IF k \in S THEN Claimed(k) ELSE row[k]
                 /\ batch' = [batch EXCEPT ![w] = S]
    BY <1>2 DEF Claim
  <2> HIDE DEF Claimed
  <2>2. k \in batch'[w] /\ row'[k] = Claimed(k)
    BY <1>1, <1>2, <2>1
  <2> QED
    BY <2>2 DEF Claimed
<1>3. ASSUME NEW r \in Request, Create(r), k # Ask[r].key PROVE row'[k] = row[k]
  BY <1>1, <1>3 DEF Create
<1>4. ASSUME NEW w \in Worker, Complete(w) \/ RecordFailure(w)
      PROVE  row'[k] \in {row[k], [row[k] EXCEPT !.status = "completed", !.lease = "none"],
                          [row[k] EXCEPT !.status = "failed"]}
  BY <1>1, <1>4 DEF Complete, RecordFailure
<1>5. ASSUME NEW j \in Key, LeaseExpires(j)
      PROVE  row'[k] \in {row[k], [row[k] EXCEPT !.lease = "expired"]}
  BY <1>1, <1>5 DEF LeaseExpires
<1>6. \/ \E r \in Request : Create(r)
      \/ \E w \in Worker : Claim(w) \/ Complete(w) \/ RecordFailure(w)
      \/ \E j \in Key : LeaseExpires(j)
      \/ row' = row
  BY DEF Step, Calls, Admit, Deny, FindExisting, FindNothing, CreateConflicts,
      Work, Trouble, Pick, SweepEnds, Restart, ReadRow, CheckPermission,
      CheckAuthority, DeriveAccounts, NoLotToSpend, ReadBalance, Post, Converge, Overdraw,
      Check, ProcessorOnly, Stop, Crash, DatabaseError, Deposit,
      Administer, GainRole, LeaveWorkspace, Demote, GrantLimit, ChangeCampaign, Change
<1> QED
  BY <1>2, <1>3, <1>4, <1>5, <1>6

\* Such a change keeps the terms and at most counts an attempt.
LEMMA ChangedRow ==
  ASSUME NEW x \in Row,
         NEW y \in {x, [x EXCEPT !.lease = "expired"],
                    [x EXCEPT !.status = "completed", !.lease = "none"],
                    [x EXCEPT !.status = "failed"]}
  PROVE  y.ask = x.ask /\ y.attempts = x.attempts
  BY DEF Row

\* A claim keeps the terms and counts one attempt.
LEMMA ClaimedRow ==
  ASSUME NEW x \in Row
  PROVE  LET y == [x EXCEPT !.attempts = @ + 1, !.status = "processing", !.lease = "live"]
         IN  y.ask = x.ask /\ y.attempts = x.attempts + 1
<1> DEFINE n == x.attempts + 1
           y == [x EXCEPT !.attempts = n, !.status = "processing", !.lease = "live"]
<1>1. y.ask = x.ask /\ y.attempts = n
  <2> HIDE DEF n
  <2> QED
    BY DEF Row
<1> QED
  BY <1>1

\* Once a row is there its terms are fixed.
LEMMA TermsStay ==
  ASSUME TypeOK, Coherent, Step, NEW k \in Key, row[k].ask # NoRequest
  PROVE  row'[k].ask = row[k].ask
<1>1. row[k] \in Row /\ (row[k].status = "none" => row[k] = NoRow)
  BY DEF TypeOK, RowsTyped, Coherent, RowCoherent
<1>2. ASSUME NEW r \in Request, Create(r) PROVE k # Ask[r].key
  BY <1>1, <1>2 DEF Create, NoRow
<1> QED
  BY <1>1, <1>2, RowChanges, ChangedRow, ClaimedRow

\* Each entry stays with the terms it was posted for.
LEMMA NextKeepsPostedAsAccepted ==
  ASSUME TypeOK, Coherent, Next, PostedAsAccepted
  PROVE  PostedAsAccepted'
<1> SUFFICES ASSUME NEW k \in Key, Posted(k)'
             PROVE  \E l \in Lot :
                      /\ row'[k].ask # NoRequest
                      /\ entry'[k] = AllocationMove(l, Ask[row'[k].ask].campaign,
                                                       Ask[row'[k].ask].amount)
  BY DEF PostedAsAccepted, Terms, Posted
<1>1. CASE entry'[k] = entry[k]
  <2>1. PICK l \in Lot : /\ row[k].ask # NoRequest
                         /\ entry[k] = AllocationMove(l, Ask[row[k].ask].campaign,
                                                         Ask[row[k].ask].amount)
    BY <1>1 DEF PostedAsAccepted, Terms, Posted
  <2> QED
    BY <1>1, <2>1, TermsStay DEF Next
<1>2. CASE entry'[k] # entry[k]
  <2>1. PICK w \in Worker : Post(w)
    <3>1. \A l \in Lot : ~ Deposit(l)
      BY <1>2, QueueAssumption
      DEF Deposit, Books!Post, TypeOK, Books!TypeOK, QueueAssumption
    <3> QED
      BY <1>2, <3>1
      DEF Next, Step, Calls, Admit, Deny, FindExisting, FindNothing, Create, CreateConflicts,
          ApiOnly, Work, Trouble, Claim, Pick, SweepEnds, Restart, ReadRow, CheckPermission,
          CheckAuthority, DeriveAccounts, NoLotToSpend, ReadBalance, Converge, Overdraw,
          Check, Complete, RecordFailure, ProcessorOnly, Stop, Crash, DatabaseError,
          LeaseExpires, Administer, GainRole, LeaveWorkspace, Demote, GrantLimit, ChangeCampaign, Change, ledgerVars
  <2>2. lot[w] \in Lot /\ Books!Post(cur[w], CurrentMove(w))
    BY <2>1, RunPostsMovement
  <2>3. k = cur[w] /\ entry'[k] = CurrentMove(w)
    BY <1>2, <2>2 DEF Books!Post, TypeOK, Books!TypeOK
  <2>4. row[k].ask \in Request /\ row' = row
    BY <2>1, <2>3, RunHasTerms DEF Post
  <2> QED
    BY <2>2, <2>3, <2>4, QueueAssumption DEF CurrentMove, Terms, QueueAssumption
<1> QED
  BY <1>1, <1>2

\* What the ledger holds for a command is the movement its row asks for.
THEOREM QueuePostsAsAccepted == Spec => []PostedAsAccepted
<1>1. Init => PostedAsAccepted
  BY DEF Init, Books!Init, PostedAsAccepted, Posted
<1>2. TypeOK /\ Coherent /\ PostedAsAccepted /\ [Next]_vars => PostedAsAccepted'
  <2>1. ASSUME PostedAsAccepted, UNCHANGED vars PROVE PostedAsAccepted'
    BY <2>1 DEF vars, ledgerVars, PostedAsAccepted, Posted, Terms
  <2> QED
    BY <2>1, NextKeepsPostedAsAccepted
<1> QED
  BY <1>1, <1>2, QueueTyped, QueueCoherent, PTL DEF Spec

-----------------------------------------------------------------------------
(* The queue keeps the promise of Allocation                               *)

\* The outcome of a command depends on its status and its entry alone.
LEMMA SameOutcome ==
  ASSUME NEW k \in Key, row[k].status \in Statuses, row'[k].status \in Statuses,
         row'[k].status = row[k].status \/ {row[k].status, row'[k].status} \subseteq Live,
         Posted(k)' = Posted(k)
  PROVE  Outcome(k)' = Outcome(k)
<1>1. CASE {row[k].status, row'[k].status} \subseteq Live
  BY <1>1 DEF Outcome, Live
<1>2. CASE row'[k].status = row[k].status
  BY <1>2 DEF Outcome, Live, Statuses
<1> QED
  BY <1>1, <1>2

\* A step that moves no money and changes no terms and no outcome is a stutter.
LEMMA PromiseStutters ==
  ASSUME \A k \in Key : /\ row'[k].ask = row[k].ask
                        /\ Outcome(k)' = Outcome(k),
         balance' = balance
  PROVE  UNCHANGED Promise!vars
<1>1. [k \in Key |-> {row'[k].ask} \cap Request] = [k \in Key |-> {row[k].ask} \cap Request]
  OBVIOUS
<1>2. [k \in Key |-> Outcome(k)]' = [k \in Key |-> Outcome(k)]
  OBVIOUS
<1>3. UNCHANGED <<[l \in Lot |-> balance[l]], [c \in Campaign |-> balance[c]]>>
  OBVIOUS
<1> QED
  BY <1>1, <1>2, <1>3 DEF Promise!vars

\* Inserting the row is the promise's Accept.
LEMMA CreateAccepts ==
  ASSUME TypeOK, Coherent, NEW r \in Request, Create(r)
  PROVE  Promise!Accept(Ask[r].key, r)
<1> DEFINE k == Ask[r].key
           new == [NoRow EXCEPT !.ask = r, !.status = "pending", !.earlier = Rows]
<1>1. k \in Key /\ row[k].status = "none"
  BY TermsTyped DEF Create
<1>2. row' = [row EXCEPT ![k] = new] /\ UNCHANGED <<entry, balance>>
  BY DEF Create, ApiOnly, ledgerVars
<1>3. new.ask = r /\ new.status = "pending"
  BY DEF NoRow
<1> HIDE DEF new
<1>4. row'[k] = new /\ \A j \in Key \ {k} : row'[j] = row[j]
  BY <1>1, <1>2 DEF TypeOK, RowsTyped
<1>5. ~ Posted(k)
  BY <1>1 DEF Coherent, RowCoherent
<1>6. Outcome(k) = "none" /\ Outcome(k)' = "accepted"
  BY <1>1, <1>2, <1>3, <1>4, <1>5 DEF Outcome, Posted, Live
<1>7. \A j \in Key \ {k} : Outcome(j)' = Outcome(j)
  BY <1>2, <1>4 DEF Outcome, Posted
<1>8. [j \in Key |-> {row'[j].ask} \cap Request]
        = [[j \in Key |-> {row[j].ask} \cap Request] EXCEPT ![k] = {r}]
  BY <1>3, <1>4
<1>9. [j \in Key |-> Outcome(j)]' = [[j \in Key |-> Outcome(j)] EXCEPT ![k] = "accepted"]
  BY <1>6, <1>7
<1>10. UNCHANGED <<[l \in Lot |-> balance[l]], [c \in Campaign |-> balance[c]]>>
  BY <1>2
<1>11. [j \in Key |-> Outcome(j)][k] = "none"
  BY <1>1, <1>6
<1> QED
  BY <1>8, <1>9, <1>10, <1>11 DEF Promise!Accept

\* Posting the entry is the promise's Allocate: the row reads "processing" then,
\* since a completed one has its entry already, and the lot holds the amount.
LEMMA PostAllocates ==
  ASSUME TypeOK, Coherent, NEW w \in Worker, Post(w)
  PROVE  Promise!Allocate(cur[w], row[cur[w]].ask, lot[w])
<1> DEFINE k == cur[w]
           r == row[k].ask
           l == lot[w]
           n == Ask[r].amount
           c == Ask[r].campaign
<1>1. k \in Key /\ r \in Request /\ n > 0 /\ row[k].status \in {"processing", "completed"}
  BY RunHasTerms DEF Post, Terms
<1>2. l \in Lot /\ Books!Post(k, CurrentMove(w)) /\ CurrentMove(w) # Books!Nothing
  BY RunPostsMovement
<1>3. CurrentMove(w) = AllocationMove(l, c, n)
  BY DEF CurrentMove, Terms
<1>4. row' = row /\ k' = k
  BY DEF Post, Goto
<1>5. n \in Int /\ c \in Campaign /\ c \notin Lot /\ l \notin Campaign
  BY <1>1, <1>2, TermsTyped, QueueAssumption DEF QueueAssumption
<1> HIDE DEF k, r, l, n, c
<1>6. /\ ~ Posted(k) /\ Posted(k)'
      /\ \A j \in Key \ {k} : Posted(j)' = Posted(j)
  <2>1. entry[k] = Books!Nothing /\ entry' = [entry EXCEPT ![k] = CurrentMove(w)]
    BY <1>2 DEF Books!Post
  <2> QED
    BY <1>1, <1>2, <1>4, <2>1 DEF Posted, TypeOK, Books!TypeOK
<1>7. row[k].status = "processing"
  BY <1>1, <1>6 DEF Coherent, RowCoherent
<1>8. Outcome(k) = "accepted" /\ Outcome(k)' = "allocated"
  BY <1>4, <1>6, <1>7 DEF Outcome, Live
<1>9. \A j \in Key \ {k} : Outcome(j)' = Outcome(j)
  BY <1>4, <1>6 DEF Outcome
<1>10. /\ \A a \in Lot \ {l} : balance'[a] = balance[a]
       /\ balance'[l] = balance[l] - n
       /\ \A a \in Campaign \ {c} : balance'[a] = balance[a]
       /\ balance'[c] = balance[c] + n
       /\ balance[l] - n >= 0
  <2> DEFINE m == AllocationMove(l, c, n)
  <2>1. /\ \A a \in Account : balance[a] \in Int
        /\ \A a \in Account : balance'[a] = balance[a] + m[a]
        /\ \A a \in Account : m[a] # 0 => Books!Allowed(a, balance[a] + m[a])
    BY <1>2, <1>3 DEF Books!Post, Books!Apply, TypeOK, Books!TypeOK
  <2>2. \A a \in Account : m[a] = IF a = c THEN n ELSE IF a = l THEN -n ELSE 0
    BY DEF AllocationMove
  <2>3. Lot \subseteq Account /\ Campaign \subseteq Account
    BY DEF Account
  <2> HIDE DEF m
  <2>4. balance[l] - n >= 0
    <3>1. m[l] = -n /\ m[l] # 0 /\ l \in Account /\ l # Platform
      BY <1>1, <1>2, <1>5, <2>2, <2>3, QueueAssumption DEF QueueAssumption, n
    <3> QED
      BY <1>5, <2>1, <3>1 DEF Books!Allowed
  <2> QED
    BY <1>2, <1>5, <2>1, <2>2, <2>3, <2>4
<1>11. [j \in Key |-> Outcome(j)]' = [[j \in Key |-> Outcome(j)] EXCEPT ![k] = "allocated"]
  BY <1>4, <1>8, <1>9
<1>12. [a \in Lot |-> balance'[a]] = [[a \in Lot |-> balance[a]] EXCEPT ![l] = @ - n]
  BY <1>2, <1>10
<1>13. [a \in Campaign |-> balance'[a]]
         = [[a \in Campaign |-> balance[a]] EXCEPT ![c] = @ + n]
  BY <1>5, <1>10
<1>14. [j \in Key |-> {row'[j].ask} \cap Request] = [j \in Key |-> {row[j].ask} \cap Request]
  BY <1>4
<1>15. /\ [j \in Key |-> Outcome(j)][k] = "accepted"
       /\ r \in [j \in Key |-> {row[j].ask} \cap Request][k]
       /\ [a \in Lot |-> balance[a]][l] >= n
  <2>1. balance[l] >= n
    <3>1. balance[l] \in Int
      BY <1>2 DEF TypeOK, Books!TypeOK, Account
    <3> QED
      BY <1>5, <1>10, <3>1
  <2> QED
    BY <1>1, <1>2, <1>8, <2>1 DEF r
<1> QED
  BY <1>11, <1>12, <1>13, <1>14, <1>15 DEF Promise!Allocate, k, r, l, n, c

\* Completing the row is the promise's Confirm, or repeats one.
LEMMA CompleteConfirms ==
  ASSUME TypeOK, Coherent, NEW w \in Worker, Complete(w)
  PROVE  Promise!Confirm(cur[w]) \/ UNCHANGED Promise!vars
<1>1. /\ cur[w] \in Key /\ row[cur[w]] \in Row /\ Posted(cur[w])
      /\ row[cur[w]].status \in {"processing", "completed"}
      /\ entry' = entry /\ balance' = balance
  BY RunHasTerms DEF Complete, TypeOK, RowsTyped, Coherent, RunCoherent, ledgerVars
<1>2. PICK k \in Key : k = cur[w]
  BY <1>1
<1>3. CASE row[k].status = "completed"
  <2>1. row' = row
    BY <1>2, <1>3 DEF Complete, Live
  <2>2. \A j \in Key : Outcome(j)' = Outcome(j)
    BY <1>1, <2>1 DEF Outcome, Posted
  <2> QED
    BY <1>1, <2>1, <2>2, PromiseStutters
<1>4. CASE row[k].status = "processing"
  <2> DEFINE done == [row[k] EXCEPT !.status = "completed", !.lease = "none"]
  <2>1. row' = [row EXCEPT ![k] = done]
    BY <1>2, <1>4 DEF Complete, Live
  <2>2. done.ask = row[k].ask /\ done.status = "completed"
    BY <1>1, <1>2 DEF Row
  <2> HIDE DEF done
  <2>3. row'[k] = done /\ \A j \in Key \ {k} : row'[j] = row[j]
    BY <1>2, <2>1 DEF TypeOK, RowsTyped
  <2>4. Outcome(k) = "allocated" /\ Outcome(k)' = "confirmed"
    BY <1>1, <1>2, <1>4, <2>2, <2>3 DEF Outcome, Live
  <2>5. \A j \in Key \ {k} : Outcome(j)' = Outcome(j)
    BY <1>1, <2>3 DEF Outcome, Posted
  <2>6. [j \in Key |-> Outcome(j)]' = [[j \in Key |-> Outcome(j)] EXCEPT ![k] = "confirmed"]
    BY <2>4, <2>5
  <2>7. [j \in Key |-> {row'[j].ask} \cap Request] = [j \in Key |-> {row[j].ask} \cap Request]
    BY <2>2, <2>3
  <2>8. UNCHANGED <<[l \in Lot |-> balance[l]], [c \in Campaign |-> balance[c]]>>
    BY <1>1
  <2>9. [j \in Key |-> Outcome(j)][k] = "allocated"
    BY <2>4
  <2> QED
    BY <1>2, <2>6, <2>7, <2>8, <2>9 DEF Promise!Confirm
<1> QED
  BY <1>1, <1>2, <1>3, <1>4

\* A deposit is the promise's Deposit.
LEMMA DepositDeposits ==
  ASSUME TypeOK, NEW l \in Lot, Deposit(l)
  PROVE  Promise!Deposit(l)
<1>1. /\ row' = row
      /\ entry' = [entry EXCEPT ![l] = DepositMove(l)]
      /\ \A a \in Account : balance'[a] = balance[a] + DepositMove(l)[a]
  BY DEF Deposit, Books!Post, Books!Apply
<1>2. \A a \in Account : balance[a] \in Int
  BY DEF TypeOK, Books!TypeOK
<1>3. /\ \A a \in Lot \ {l} : balance'[a] = balance[a]
      /\ balance'[l] = balance[l] + DepositOf[l]
      /\ \A a \in Campaign : balance'[a] = balance[a]
  <2> DEFINE m == DepositMove(l)
  <2>1. /\ \A a \in Account \ {l, Platform} : m[a] = 0
        /\ m[l] = DepositOf[l]
    BY DEF DepositMove, Account
  <2>2. \A a \in Account : balance'[a] = balance[a] + m[a]
    BY <1>1
  <2>3. Lot \cup Campaign \subseteq Account
    BY DEF Account
  <2>4. /\ \A a \in Lot \ {l} : a \notin {l, Platform}
        /\ \A a \in Campaign : a \notin {l, Platform}
    BY QueueAssumption DEF QueueAssumption
  <2> HIDE DEF m
  <2> QED
    BY <1>2, <2>1, <2>2, <2>3, <2>4
<1>4. \A k \in Key : entry'[k] = entry[k]
  BY <1>1, QueueAssumption DEF TypeOK, Books!TypeOK, QueueAssumption
<1>5. \A k \in Key : Outcome(k)' = Outcome(k)
  BY <1>1, <1>4 DEF Outcome, Posted
<1>6. [a \in Lot |-> balance'[a]] = [[a \in Lot |-> balance[a]] EXCEPT ![l] = @ + DepositOf[l]]
  BY <1>3
<1>7. [a \in Campaign |-> balance'[a]] = [a \in Campaign |-> balance[a]]
  BY <1>3
<1>8. [k \in Key |-> {row'[k].ask} \cap Request] = [k \in Key |-> {row[k].ask} \cap Request]
  BY <1>1
<1>9. [k \in Key |-> Outcome(k)]' = [k \in Key |-> Outcome(k)]
  BY <1>5
<1> QED
  BY <1>6, <1>7, <1>8, <1>9 DEF Promise!Deposit

\* Every step is a step of the promise or a stutter.
LEMMA NextKeepsPromise ==
  ASSUME TypeOK, Coherent, Next
  PROVE  [Promise!Next]_(Promise!vars)
<1>1. ASSUME NEW r \in Request, Create(r) PROVE Promise!Next
  BY <1>1, CreateAccepts, TermsTyped DEF Promise!Next
<1>2. ASSUME NEW w \in Worker, Post(w) PROVE Promise!Next
  <2>1. cur[w] \in Key /\ row[cur[w]].ask \in Request /\ lot[w] \in Lot
    BY <1>2, RunHasTerms, RunPostsMovement DEF Post
  <2>2. Promise!Allocate(cur[w], row[cur[w]].ask, lot[w])
    BY <1>2, PostAllocates
  <2>3. PICK k \in Key, r \in Request, l \in Lot : Promise!Allocate(k, r, l)
    BY <2>1, <2>2 DEF Promise!Allocate
  <2> QED
    BY <2>3 DEF Promise!Next
<1>3. ASSUME NEW w \in Worker, Complete(w) PROVE Promise!Next \/ UNCHANGED Promise!vars
  <2>1. cur[w] \in Key
    BY <1>3, RunHasTerms DEF Complete
  <2> QED
    BY <1>3, <2>1, CompleteConfirms DEF Promise!Next
<1>4. ASSUME NEW l \in Lot, Deposit(l) PROVE Promise!Next
  BY <1>4, DepositDeposits DEF Promise!Next
<1>5. row \in [Key -> Row]
  BY DEF TypeOK, RowsTyped
<1>6. ASSUME entry' = entry, balance' = balance,
             \A k \in Key : /\ row'[k].ask = row[k].ask
                            /\ row'[k].status \in Statuses
                            /\ \/ row'[k].status = row[k].status
                               \/ {row[k].status, row'[k].status} \subseteq Live
      PROVE  UNCHANGED Promise!vars
  <2>1. \A k \in Key : Outcome(k)' = Outcome(k)
    <3>1. \A k \in Key : Posted(k)' = Posted(k) /\ row[k].status \in Statuses
      BY <1>5, <1>6 DEF Posted, Row
    <3> QED
      BY <1>6, <3>1, SameOutcome
  <2> QED
    BY <1>6, <2>1, PromiseStutters
<1>7. ASSUME NEW w \in Worker, Claim(w) PROVE UNCHANGED Promise!vars
  <2> DEFINE Claimed(k) == [row[k] EXCEPT !.attempts = @ + 1, !.status = "processing",
                                          !.lease = "live"]
  <2>1. PICK S \in SUBSET {k \in Rows : Claimable(k)} :
          row' = [k \in Key |-> IF k \in S THEN Claimed(k) ELSE row[k]]
    BY <1>7 DEF Claim
  <2>2. entry' = entry /\ balance' = balance
    BY <1>7 DEF Claim, ledgerVars
  <2>3. \A k \in S : row[k].status \in Live
    BY DEF Claimable, Live
  <2>4. \A k \in Key : Claimed(k).ask = row[k].ask /\ Claimed(k).status = "processing"
    BY <1>5 DEF Row
  <2> HIDE DEF Claimed
  <2> QED
    BY <1>5, <1>6, <2>1, <2>2, <2>3, <2>4 DEF Live, Statuses, Row
<1>8. ASSUME NEW k \in Key, LeaseExpires(k) PROVE UNCHANGED Promise!vars
  <2> DEFINE x == [row[k] EXCEPT !.lease = "expired"]
  <2>1. row' = [row EXCEPT ![k] = x] /\ entry' = entry /\ balance' = balance
    BY <1>8 DEF LeaseExpires, ledgerVars
  <2>2. x.ask = row[k].ask /\ x.status = row[k].status
    BY <1>5 DEF Row
  <2> HIDE DEF x
  <2> QED
    BY <1>5, <1>6, <2>1, <2>2 DEF Row
<1>9. ASSUME UNCHANGED <<row, entry, balance>> PROVE UNCHANGED Promise!vars
  BY <1>5, <1>6, <1>9 DEF Row
<1>10. ASSUME NEW w \in Worker, RecordFailure(w) PROVE UNCHANGED Promise!vars
  BY <1>9, <1>10, RunHasTerms DEF RecordFailure, ledgerVars
<1> QED
  BY <1>1, <1>2, <1>3, <1>4, <1>7, <1>8, <1>9, <1>10
  DEF Next, Step, Calls, Admit, Deny, FindExisting, FindNothing, CreateConflicts, ApiOnly,
      Work, Trouble, Pick, SweepEnds, Restart, ReadRow, CheckPermission,
      CheckAuthority, DeriveAccounts, NoLotToSpend, ReadBalance, Converge, Overdraw,
      Check, ProcessorOnly, Stop, Crash, DatabaseError,
      Administer, GainRole, LeaveWorkspace, Demote, GrantLimit, ChangeCampaign, Change, ledgerVars

\* The queue implements Allocation: of all the runs of a command, across crashes,
\* lapsed leases and redelivered requests, one moves the amount, from a lot that
\* holds it, and "completed" comes after that and is final.
THEOREM QueueImplementsAllocation == Spec => ImplementsAllocation
<1>1. TypeOK /\ Coherent /\ [Next]_vars => [Promise!Next]_(Promise!vars)
  <2>1. ASSUME UNCHANGED vars PROVE UNCHANGED Promise!vars
    BY <2>1, PromiseStutters DEF vars, ledgerVars, Outcome, Posted
  <2> QED
    BY <2>1, NextKeepsPromise
<1>2. Init => Promise!Init
  <2> SUFFICES ASSUME Init PROVE Promise!Init
    OBVIOUS
  <2>1. \A k \in Key : row[k].status = "none" /\ row[k].ask = NoRequest
    BY DEF Init, NoRow
  <2>2. \A k \in Key : Outcome(k) = "none"
    BY <2>1 DEF Outcome, Live
  <2>3. \A a \in Lot \cup Campaign : balance[a] = 0
    BY DEF Init, Books!Init, Books!Nothing, Account
  <2>4. \A k \in Key : {row[k].ask} \cap Request = {}
    BY <2>1, QueueAssumption DEF QueueAssumption
  <2> QED
    BY <2>2, <2>3, <2>4 DEF Promise!Init
<1> QED
  BY <1>1, <1>2, QueueTyped, QueueCoherent, PTL DEF Spec, ImplementsAllocation, Promise!Spec

-----------------------------------------------------------------------------
(* A run posts on grounds it has checked itself                            *)

\* What a run has checked was in order at some moment of the run.
RunGrounded(w) ==
  /\ pc[w] \in {"authority", "accounts", "balance", "post"} => "role" \notin barred[w]
  /\ pc[w] \in {"accounts", "balance", "post"} => "limit" \notin barred[w]
  /\ pc[w] = "post" => "balance" \notin barred[w]

Grounded == \A w \in Worker : RunGrounded(w)

\* What was in order once in a run counts for the rest of it.
LEMMA BarredShrinks ==
  ASSUME Coherent, Next, NEW w \in Worker, pc[w] \notin {"idle", "loop"}
  PROVE  barred'[w] \subseteq barred[w] /\ barred'[w] \subseteq Lacking(w)'
  BY DEF Coherent, RunCoherent, Next, Observe

\* A check that passes clears what it checked.
LEMMA ChecksClear ==
  ASSUME TypeOK, Coherent, Next, NEW w \in Worker
  PROVE  /\ CheckPermission(w) /\ pc'[w] = "authority" => "role" \notin barred'[w]
         /\ CheckAuthority(w) /\ pc'[w] = "accounts" => "limit" \notin barred'[w]
         /\ (DeriveAccounts(w) \/ ReadBalance(w)) /\ pc'[w] = "post"
              => "balance" \notin barred'[w]
<1> USE DEF TypeOK, WorkTyped
<1>1. ASSUME UNCHANGED <<row, entry, balance, permitted, limit, cur>>
      PROVE  Lacking(w)' = Lacking(w)
  BY <1>1 DEF Lacking, Terms, Permitted, Trusted, Fresh, OpenLots, Posted
<1>2. CASE CheckPermission(w)
  <2>1. Lacking(w)' = Lacking(w)
    BY <1>1, <1>2 DEF CheckPermission, Check, Goto, ProcessorOnly, adminVars, ledgerVars
  <2>2. cur[w] # NoKey
    BY <1>2 DEF CheckPermission, Check, Coherent, RunCoherent
  <2>3. pc'[w] = "authority" => Permitted(Terms(cur[w]).actor)
    BY <1>2 DEF CheckPermission, Check, Goto
  <2>4. pc'[w] = "authority" => "role" \notin Lacking(w)
    BY <2>2, <2>3 DEF Lacking
  <2> QED
    BY <1>2, <2>1, <2>4, BarredShrinks
    DEF CheckPermission, CheckAuthority, DeriveAccounts, ReadBalance, Check
<1>3. CASE CheckAuthority(w)
  <2>1. Lacking(w)' = Lacking(w)
    BY <1>1, <1>3 DEF CheckAuthority, Check, Goto, ProcessorOnly, adminVars, ledgerVars
  <2>2. cur[w] # NoKey
    BY <1>3 DEF CheckAuthority, Check, Coherent, RunCoherent
  <2>3. pc'[w] = "accounts" => Trusted(Terms(cur[w]).actor, Terms(cur[w]).amount)
    BY <1>3 DEF CheckAuthority, Check, Goto
  <2>4. pc'[w] = "accounts" => "limit" \notin Lacking(w)
    BY <2>2, <2>3 DEF Lacking
  <2> QED
    BY <1>3, <2>1, <2>4, BarredShrinks
    DEF CheckPermission, CheckAuthority, DeriveAccounts, ReadBalance, Check
<1>4. CASE DeriveAccounts(w) \/ ReadBalance(w)
  <2>1. Lacking(w)' = Lacking(w)
    BY <1>1, <1>4 DEF DeriveAccounts, ReadBalance, Check, Goto, ProcessorOnly, adminVars,
                      ledgerVars
  <2>2. cur[w] # NoKey
    BY <1>4 DEF DeriveAccounts, ReadBalance, Check, Coherent, RunCoherent
  <2>3. pc'[w] = "post" => Fresh(Terms(cur[w]))
    BY <1>4 DEF DeriveAccounts, ReadBalance, Check, Goto, Fresh, Coherent, RunCoherent
  <2>4. pc'[w] = "post" => "balance" \notin Lacking(w)
    BY <2>2, <2>3 DEF Lacking
  <2> QED
    BY <1>4, <2>1, <2>4, BarredShrinks
    DEF CheckPermission, CheckAuthority, DeriveAccounts, ReadBalance, Check
<1> QED
  BY <1>2, <1>3, <1>4

\* How a worker comes to a checked stage: by its own check, or it was there.
LEMMA StagesInOrder ==
  ASSUME TypeOK, Coherent, Next, NEW w \in Worker, pc'[w] # pc[w]
  PROVE  /\ pc'[w] = "authority" => CheckPermission(w)
         /\ pc'[w] = "accounts" => CheckAuthority(w)
         /\ pc'[w] = "balance" => DeriveAccounts(w)
         /\ pc'[w] = "post" => DeriveAccounts(w) \/ ReadBalance(w)
<1> USE DEF TypeOK, WorkTyped
<1>1. PICK v \in Worker : Work(v) \/ Trouble(v)
  BY DEF Next, Step, Calls, Admit, Deny, FindExisting, FindNothing, Create, CreateConflicts,
         ApiOnly, Deposit, LeaseExpires, Administer, GainRole, LeaveWorkspace, Demote, GrantLimit, ChangeCampaign,
         Change, workerVars
<1>2. v = w
  BY <1>1 DEF Work, Trouble, Claim, Pick, SweepEnds, Restart, ReadRow, CheckPermission,
      CheckAuthority, DeriveAccounts, NoLotToSpend, ReadBalance, Post, Converge, Overdraw,
      Check, Complete, RecordFailure, Stop, Crash, DatabaseError, Goto, Finish, Forget
<1>3. pc'[w] \in {"authority", "accounts", "balance", "post"} =>
        CheckPermission(w) \/ CheckAuthority(w) \/ DeriveAccounts(w) \/ ReadBalance(w)
  BY <1>1, <1>2 DEF Work, Trouble, Claim, Pick, SweepEnds, Restart, ReadRow,
      NoLotToSpend, Post, Converge, Overdraw,
      Check, Complete, RecordFailure, Stop, Crash, DatabaseError, Goto, Finish, Forget
<1>4. /\ CheckPermission(w) => pc'[w] \in {"authority", "failing"}
      /\ CheckAuthority(w) => pc'[w] \in {"accounts", "failing"}
      /\ DeriveAccounts(w) => pc'[w] \in {"balance", "post"}
      /\ ReadBalance(w) => pc'[w] \in {"post", "failing"}
  BY DEF CheckPermission, CheckAuthority, DeriveAccounts, ReadBalance, Check, Goto
<1> QED
  BY <1>3, <1>4

\* Every step keeps the runs grounded.
LEMMA NextKeepsGrounded ==
  ASSUME TypeOK, Coherent, Next, Grounded
  PROVE  Grounded'
<1> SUFFICES ASSUME NEW w \in Worker PROVE RunGrounded(w)'
  BY DEF Grounded
<1>1. RunGrounded(w)
  BY DEF Grounded
<1>2. CASE pc'[w] = pc[w]
  BY <1>1, <1>2, BarredShrinks DEF RunGrounded
<1>3. CASE pc'[w] # pc[w]
  <2>1. /\ CheckPermission(w) => pc[w] = "permission"
        /\ CheckAuthority(w) => pc[w] = "authority"
        /\ DeriveAccounts(w) => pc[w] = "accounts"
        /\ ReadBalance(w) => pc[w] = "balance"
    BY DEF CheckPermission, CheckAuthority, DeriveAccounts, ReadBalance, Check
  <2> QED
    BY <1>1, <1>3, <2>1, StagesInOrder, ChecksClear, BarredShrinks DEF RunGrounded
<1> QED
  BY <1>2, <1>3

\* Each of role, limit and figure was in order at some moment of the very run
\* that posts, whatever administrators and other workers do meanwhile.
THEOREM QueuePostsOnFreshGrounds == Spec => PostsOnFreshGrounds
<1>1. Init => Grounded
  BY DEF Init, Grounded, RunGrounded
<1>2. TypeOK /\ Coherent /\ Grounded /\ [Next]_vars => Grounded'
  <2>1. ASSUME Grounded, UNCHANGED vars PROVE Grounded'
    BY <2>1 DEF vars, workerVars, historyVars, Grounded, RunGrounded
  <2> QED
    BY <2>1, NextKeepsGrounded
<1>3. TypeOK /\ Grounded =>
        \A w \in Worker : pc[w] = "post" => barred[w] = {}
  <2> SUFFICES ASSUME TypeOK, Grounded, NEW w \in Worker, pc[w] = "post"
               PROVE  barred[w] = {}
    OBVIOUS
  <2>1. barred[w] \subseteq {"role", "limit", "balance"}
    BY DEF TypeOK, HistoryTyped
  <2> QED
    BY <2>1 DEF Grounded, RunGrounded
<1>4. TypeOK /\ Grounded /\ [Next]_vars =>
        [\A w \in Worker : pc[w] = "post" /\ entry'[cur[w]] # entry[cur[w]]
           => barred[w] = {}]_vars
  BY <1>3
<1> QED
  BY <1>1, <1>2, <1>4, QueueTyped, QueueCoherent, PTL DEF Spec, PostsOnFreshGrounds

-----------------------------------------------------------------------------
(* What a caller was told                                                  *)

\* An accepted call keeps its row, and the row its terms.
LEMMA NextKeepsAccepted ==
  ASSUME TypeOK, Coherent, Next, AcceptedMeansOwnTerms
  PROVE  AcceptedMeansOwnTerms'
<1> SUFFICES ASSUME NEW r \in Request, call'[r] = "accepted"
             PROVE  LET k == Ask[r].key
                    IN  /\ row'[k].status # "none"
                        /\ Ask[row'[k].ask].campaign = Ask[r].campaign
                        /\ Ask[row'[k].ask].amount = Ask[r].amount
                        /\ Ask[row'[k].ask].expected = Ask[r].expected
  BY DEF AcceptedMeansOwnTerms, Terms
<1> DEFINE k == Ask[r].key
<1>1. k \in Key /\ TypeOK' /\ Coherent'
  BY TermsTyped, NextKeepsTypes, NextKeepsCoherent
<1>2. CASE /\ row[k].status # "none"
           /\ Ask[row[k].ask].campaign = Ask[r].campaign
           /\ Ask[row[k].ask].amount = Ask[r].amount
           /\ Ask[row[k].ask].expected = Ask[r].expected
  <2>1. row[k].ask # NoRequest
    BY <1>1, <1>2, QueueAssumption DEF Coherent, RowCoherent, QueueAssumption
  <2>2. row'[k].ask = row[k].ask
    BY <1>1, <2>1, TermsStay DEF Next
  <2>3. row'[k].status # "none"
    <3>1. row'[k].status = "none" => row'[k] = NoRow
      BY <1>1 DEF Coherent, RowCoherent
    <3>2. NoRow.ask = NoRequest
      BY DEF NoRow
    <3> QED
      BY <2>1, <2>2, <3>1, <3>2
  <2> QED
    BY <1>2, <2>2, <2>3
<1>3. CASE call[r] = "accepted"
  BY <1>2, <1>3 DEF AcceptedMeansOwnTerms, Terms
<1>4. CASE call[r] # "accepted"
  <2>1. FindExisting(r) \/ Create(r)
    BY <1>4 DEF Next, Step, Calls, Admit, Deny, FindExisting, FindNothing, Create,
       CreateConflicts, Reply, TypeOK, RowsTyped, Deposit, LeaseExpires, Administer,
       GainRole, LeaveWorkspace, Demote, GrantLimit, ChangeCampaign, Change, Work, Trouble, Claim, Pick,
       SweepEnds, Restart, ReadRow, CheckPermission, CheckAuthority, DeriveAccounts,
       NoLotToSpend, ReadBalance, Post, Converge, Overdraw, Check, Complete,
       RecordFailure, ProcessorOnly, Stop, Crash, DatabaseError
  <2>2. CASE FindExisting(r)
    <3>1. row[k].status # "none" /\ Ask[r] = [Ask[row[k].ask] EXCEPT !.actor = Ask[r].actor]
      BY <2>2 DEF FindExisting, Reply, SameRequest, TypeOK, RowsTyped
    <3>2. row[k].ask \in Request
      BY <1>1, <3>1 DEF Coherent, RowCoherent
    <3>3. Ask[row[k].ask] \in Term
      BY <3>2, QueueAssumption DEF QueueAssumption
    <3> QED
      BY <1>2, <3>1, <3>3 DEF Term
  <2>3. CASE Create(r)
    <3> DEFINE new == [NoRow EXCEPT !.ask = r, !.status = "pending", !.earlier = Rows]
    <3>1. row' = [row EXCEPT ![k] = new]
      BY <2>3 DEF Create
    <3>2. new.ask = r /\ new.status = "pending"
      BY DEF NoRow
    <3> HIDE DEF new
    <3>3. row'[k] = new
      BY <1>1, <3>1 DEF TypeOK, RowsTyped
    <3> QED
      BY <3>2, <3>3
  <2> QED
    BY <2>1, <2>2, <2>3
<1> QED
  BY <1>3, <1>4

\* Whoever was told "accepted" has a row with its own terms, also when several
\* calls raced for the key.
THEOREM QueueAcceptsOwnTerms == Spec => []AcceptedMeansOwnTerms
<1>1. Init => AcceptedMeansOwnTerms
  BY DEF Init, AcceptedMeansOwnTerms
<1>2. TypeOK /\ Coherent /\ AcceptedMeansOwnTerms /\ [Next]_vars => AcceptedMeansOwnTerms'
  <2>1. ASSUME AcceptedMeansOwnTerms, UNCHANGED vars PROVE AcceptedMeansOwnTerms'
    BY <2>1 DEF vars, AcceptedMeansOwnTerms, Terms
  <2> QED
    BY <2>1, NextKeepsAccepted
<1> QED
  BY <1>1, <1>2, QueueTyped, QueueCoherent, PTL DEF Spec

-----------------------------------------------------------------------------
(* Attempts bound the runs under way                                       *)

\* A step keeps the attempts of a row or, when it is a claim of it, counts one
\* more.
LEMMA AttemptsGrow ==
  ASSUME TypeOK, Coherent, Step, NEW k \in Key
  PROVE  \/ /\ row'[k].attempts >= row[k].attempts
            /\ Holders(k)' \subseteq Holders(k)
         \/ \E w \in Worker : /\ row'[k].attempts = row[k].attempts + 1
                              /\ Holders(k)' \subseteq Holders(k) \cup {w}
<1>1. row[k] \in Row /\ row[k].attempts \in Nat
  BY QueueAssumption DEF TypeOK, RowsTyped, Row, QueueAssumption
<1>2. ASSUME NEW r \in Request, Create(r), k = Ask[r].key
      PROVE  row'[k].attempts >= row[k].attempts
  <2> DEFINE new == [NoRow EXCEPT !.ask = r, !.status = "pending", !.earlier = Rows]
  <2>1. row[k] = NoRow
    BY <1>2 DEF Create, Coherent, RowCoherent
  <2>2. new.attempts = NoRow.attempts
    BY DEF NoRow
  <2>3. row' = [row EXCEPT ![k] = new]
    BY <1>2 DEF Create
  <2> HIDE DEF new
  <2>4. row'[k] = new
    BY <2>3 DEF TypeOK, RowsTyped
  <2> QED
    BY <1>1, <2>1, <2>2, <2>4
<1>3. ASSUME NEW w \in Worker, Claim(w), k \in batch'[w]
      PROVE  /\ Holders(k)' \subseteq Holders(k) \cup {w}
             /\ row'[k].attempts = row[k].attempts + 1
  <2>1. PICK S \in SUBSET Rows :
          /\ row'[k] = IF k \in S
                       THEN [row[k] EXCEPT !.attempts = @ + 1, !.status = "processing",
                                           !.lease = "live"]
                       ELSE row[k]
          /\ batch' = [batch EXCEPT ![w] = S]
    BY <1>3 DEF Claim
  <2>2. k \in S /\ cur' = cur
    BY <1>3, <2>1 DEF Claim, TypeOK, WorkTyped
  <2>3. Holders(k)' \subseteq Holders(k) \cup {w}
    BY <2>1, <2>2 DEF Holders, Holds, TypeOK, WorkTyped
  <2>4. row'[k] = [row[k] EXCEPT !.attempts = @ + 1, !.status = "processing", !.lease = "live"]
    BY <2>1, <2>2
  <2> QED
    BY <1>1, <2>3, <2>4, ClaimedRow
<1>4. ASSUME NEW w \in Worker, Claim(w), k \notin batch'[w]
      PROVE  /\ Holders(k)' \subseteq Holders(k)
             /\ row'[k] = row[k]
  <2>1. PICK S \in SUBSET Rows :
          /\ k \notin S => row'[k] = row[k]
          /\ batch' = [batch EXCEPT ![w] = S]
    BY <1>4 DEF Claim
  <2>2. k \notin S /\ cur' = cur
    BY <1>4, <2>1 DEF Claim, TypeOK, WorkTyped
  <2> QED
    BY <2>1, <2>2 DEF Holders, Holds, TypeOK, WorkTyped
<1>5. CASE \E w \in Worker : Claim(w)
  BY <1>1, <1>3, <1>4, <1>5
<1>6. CASE ~ \E w \in Worker : Claim(w)
  <2>1. row'[k].attempts >= row[k].attempts
    <3>1. ASSUME row'[k] \in {row[k], [row[k] EXCEPT !.lease = "expired"],
                      [row[k] EXCEPT !.status = "completed", !.lease = "none"],
                      [row[k] EXCEPT !.status = "failed"]}
          PROVE  row'[k].attempts = row[k].attempts
      BY <1>1, <3>1, ChangedRow
    <3>2. CASE \E r \in Request : Create(r) /\ k = Ask[r].key
      BY <1>2, <3>2
    <3>3. row'[k].attempts = row[k].attempts => row'[k].attempts >= row[k].attempts
      BY <1>1
    <3> QED
      BY <1>6, <3>1, <3>2, <3>3, RowChanges, Zenon
  <2> QED
    BY <1>6, <2>1, OnlyClaimsHold
<1> QED
  BY <1>5, <1>6

\* The holders are finitely many, and counted by the attempts.
AttemptsCount ==
  \A k \in Key : IsFiniteSet(Holders(k)) /\ Cardinality(Holders(k)) <= row[k].attempts

\* A claim adds one holder and one attempt; nothing else adds holders.
LEMMA NextKeepsAttemptsCount ==
  ASSUME TypeOK, Coherent, Next, AttemptsCount
  PROVE  AttemptsCount'
<1> SUFFICES ASSUME NEW k \in Key
             PROVE  IsFiniteSet(Holders(k)') /\ Cardinality(Holders(k)') <= row'[k].attempts
  BY DEF AttemptsCount
<1>1. /\ row[k].attempts \in Nat /\ row'[k].attempts \in Nat
      /\ IsFiniteSet(Holders(k)) /\ Cardinality(Holders(k)) <= row[k].attempts
  BY NextKeepsTypes, QueueAssumption
  DEF TypeOK, RowsTyped, Row, AttemptsCount, QueueAssumption
<1>2. CASE /\ row'[k].attempts >= row[k].attempts
           /\ Holders(k)' \subseteq Holders(k)
  <2>1. IsFiniteSet(Holders(k)') /\ Cardinality(Holders(k)') <= Cardinality(Holders(k))
    BY <1>1, <1>2, FS_Subset
  <2> QED
    BY <1>1, <1>2, <2>1, FS_CardinalityType
<1>3. ASSUME NEW w \in Worker, row'[k].attempts = row[k].attempts + 1,
             Holders(k)' \subseteq Holders(k) \cup {w}
      PROVE  IsFiniteSet(Holders(k)') /\ Cardinality(Holders(k)') <= row'[k].attempts
  <2> DEFINE U == Holders(k) \cup {w}
  <2>1. IsFiniteSet(U) /\ Cardinality(U) <= Cardinality(Holders(k)) + 1
    <3>1. Cardinality(Holders(k)) \in Nat
      BY <1>1, FS_CardinalityType
    <3>2. /\ IsFiniteSet(U)
          /\ Cardinality(U) = IF w \in Holders(k) THEN Cardinality(Holders(k))
                              ELSE Cardinality(Holders(k)) + 1
      BY <1>1, FS_AddElement
    <3> QED
      BY <3>1, <3>2
  <2>2. IsFiniteSet(Holders(k)') /\ Cardinality(Holders(k)') <= Cardinality(U)
    BY <1>3, <2>1, FS_Subset
  <2>3. Cardinality(U) \in Nat /\ Cardinality(Holders(k)) \in Nat
        /\ Cardinality(Holders(k)') \in Nat
    BY <1>1, <2>1, <2>2, FS_CardinalityType
  <2> QED
    BY <1>1, <1>3, <2>1, <2>2, <2>3
<1> QED
  BY <1>2, <1>3, AttemptsGrow DEF Next

\* No more runs of a command are under way at once than it has attempts, so
\* MAX_ATTEMPTS at most, however slow the workers and however short the leases.
THEOREM QueueAttemptsBoundHolders == Spec => []AttemptsBoundHolders
<1>1. Init => AttemptsCount
  <2> SUFFICES ASSUME Init, NEW k \in Key
               PROVE  IsFiniteSet(Holders(k)) /\ Cardinality(Holders(k)) <= row[k].attempts
    BY DEF AttemptsCount
  <2>1. Holders(k) = {} /\ row[k].attempts = 0
    BY QueueAssumption DEF Init, Holders, Holds, NoRow, QueueAssumption
  <2> QED
    BY <2>1, FS_EmptySet
<1>2. TypeOK /\ Coherent /\ AttemptsCount /\ [Next]_vars => AttemptsCount'
  <2>1. ASSUME AttemptsCount, UNCHANGED vars PROVE AttemptsCount'
    BY <2>1 DEF vars, workerVars, AttemptsCount, Holders, Holds
  <2> QED
    BY <2>1, NextKeepsAttemptsCount
<1>3. AttemptsCount => AttemptsBoundHolders
  BY DEF AttemptsCount, AttemptsBoundHolders
<1> QED
  BY <1>1, <1>2, <1>3, QueueTyped, QueueCoherent, PTL DEF Spec

-----------------------------------------------------------------------------
(* The ledger under the queue                                              *)

\* Whatever the queue does to the ledger is one post_entry, of a movement and for a
\* source that it may be asked for.
LEMMA NextPostsOrStays ==
  ASSUME TypeOK, Coherent, [Next]_vars
  PROVE  [Books!Next]_<<entry, balance>>
<1>1. CASE UNCHANGED <<entry, balance>>
  BY <1>1
<1>2. ASSUME NEW l \in Lot, Deposit(l) PROVE Books!Next
  <2>1. Books!Post(l, DepositMove(l)) /\ DepositMove(l) \in Movements
    BY <1>2, DepositMoveTyped DEF Deposit
  <2> QED
    BY <2>1 DEF Books!Next
<1>3. ASSUME NEW w \in Worker, Post(w) PROVE Books!Next
  <2>1. /\ cur[w] \in Key /\ Books!Post(cur[w], CurrentMove(w))
        /\ CurrentMove(w) \in Movements
    BY <1>3, RunHasTerms, RunPostsMovement DEF Post
  <2> QED
    BY <2>1 DEF Books!Next
<1> QED
  BY <1>1, <1>2, <1>3
  DEF Next, Step, Calls, Admit, Deny, FindExisting, FindNothing, Create, CreateConflicts, ApiOnly,
      Work, Trouble, Claim, Pick, SweepEnds, Restart, ReadRow, CheckPermission,
      CheckAuthority, DeriveAccounts, NoLotToSpend, ReadBalance, Converge, Overdraw,
      Check, Complete, RecordFailure, ProcessorOnly, Stop, Crash, DatabaseError,
      LeaseExpires, Administer, GainRole, LeaveWorkspace, Demote, GrantLimit, ChangeCampaign,
      Change, ledgerVars, vars

\* The queue changes the ledger as post_entry's callers do and in no other way, which
\* the statements of PostEntry implement.
THEOREM QueueUsesLedger == Spec => Books!Spec
<1>1. Init => Books!Init
  BY DEF Init
<1>2. TypeOK /\ Coherent /\ [Next]_vars => [Books!Next]_<<entry, balance>>
  BY NextPostsOrStays
<1> QED
  BY <1>1, <1>2, QueueTyped, QueueCoherent, PTL DEF Spec, Books!Spec, Books!ledgerVars

\* No lot and no campaign is overdrawn, whatever runs cross on the balance that each of
\* them compared.
THEOREM QueueSolvent == Spec => []Books!Solvent
<1>1. Init => Books!Solvent
  BY DEF Init, Books!Init, Books!Nothing, Books!Solvent, Books!Allowed
<1>2. Books!TypeOK /\ Books!Solvent /\ [Books!Next]_<<entry, balance>> => Books!Solvent'
  <2> SUFFICES ASSUME Books!TypeOK, Books!Solvent, [Books!Next]_<<entry, balance>>
               PROVE  Books!Solvent'
    OBVIOUS
  <2>1. ASSUME NEW s \in Key \cup Lot, NEW m \in Movements, Books!Post(s, m)
        PROVE  Books!Solvent'
    <3> SUFFICES ASSUME NEW a \in Account PROVE Books!Allowed(a, balance'[a])
      BY DEF Books!Solvent
    <3>1. balance'[a] = balance[a] + m[a] /\ balance[a] \in Int
      BY <2>1 DEF Books!Post, Books!Apply, Books!TypeOK
    <3>2. CASE m[a] # 0
      BY <2>1, <3>1, <3>2 DEF Books!Post
    <3>3. CASE m[a] = 0
      BY <3>1, <3>3 DEF Books!Solvent
    <3> QED
      BY <3>2, <3>3
  <2>2. CASE UNCHANGED <<entry, balance>>
    BY <2>2 DEF Books!Solvent, Books!Allowed
  <2> QED
    BY <2>1, <2>2 DEF Books!Next
<1>3. TypeOK => Books!TypeOK
  BY DEF TypeOK
<1>4. TypeOK /\ Coherent /\ [Next]_vars => [Books!Next]_<<entry, balance>>
  BY NextPostsOrStays
<1> QED
  BY <1>1, <1>2, <1>3, <1>4, QueueTyped, QueueCoherent, PTL DEF Spec, Init
=============================================================================
