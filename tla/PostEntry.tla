----------------------------- MODULE PostEntry -----------------------------
(***************************************************************************)
(* ledger.post_entry as the statements Postgres runs for it, in several    *)
(* sessions at once at READ COMMITTED: look the source up, insert the      *)
(* entry under the unique index, then update the balance rows one by one,  *)
(* in account order, each under its row lock, and commit.  Around it,      *)
(* LedgerRepository.postEntry with its retry of transient failures.        *)
(*                                                                         *)
(* A session may be rolled back at any point, and the other sessions see   *)
(* nothing of a transaction before it commits.                             *)
(***************************************************************************)
EXTENDS Ledger, Sequences

CONSTANTS
  Session,      \* connections that may call post_entry
  MaxTries      \* withRetry's maxAttempts, 5 in the code

\* Account ids are uuids: ordered, here numbers.
ASSUME PostEntryAssumption ==
  /\ Account \subseteq Nat /\ IsFiniteSet(Account) /\ IsFiniteSet(Source)
  /\ MaxTries \in Nat \ {0}

VARIABLES
  history,      \* history[a]: the rows of balance_snapshot, by seq
  pc,           \* the statement each session is at
  src,          \* p_source_type, p_source_id of the session's call
  move,         \* p_lines of the session's call, netted by account
  todo,         \* accounts the balance loop has still to visit
  written,      \* balances the open transaction has written
  tries,        \* withRetry's attempt counter
  answer        \* what the last call returned or threw

vars == <<entry, balance, history, pc, src, move, todo, written, tries, answer>>

States == {"idle", "lookup", "insert", "balances"}
Answers == {"none", "posted", "replayed", "refused", "gaveUp"}

Touched(m) == {a \in Account : m[a] # 0}

\* The transaction of t has inserted its entry row and not ended.
Open(t) == pc[t] = "balances"

\* The rows of account_balance the session holds locked.
Held(t) == IF Open(t) THEN Touched(move[t]) \ todo[t] ELSE {}

\* Mistake: the lines are visited in the caller's order, the account that gains
\* first, not in account order.
CallersOrder(t) ==
  CHOOSE a \in todo[t] : move[t][a] > 0 \/ \A b \in todo[t] : move[t][b] < 0

\* ORDER BY account_id: the canonical lock order.
NextAccount(t) == CHOOSE a \in todo[t] : \A b \in todo[t] : a <= b

\* Mistake: the balance is read and written back without the row's lock.
NoRowLock(a, t) == a \in Account

\* The UPDATE of a's row by t does not wait for another transaction.
Free(a, t) == \A u \in Session \ {t} : a \notin Held(u)

-----------------------------------------------------------------------------
PEInit ==
  /\ Init
  /\ history = [a \in Account |-> <<>>]
  /\ pc = [t \in Session |-> "idle"]
  /\ src \in [Session -> Source]
  /\ move = [t \in Session |-> Nothing]
  /\ todo = [t \in Session |-> {}]
  /\ written = [t \in Session |-> Nothing]
  /\ tries = [t \in Session |-> 0]
  /\ answer = [t \in Session |-> "none"]

\* The call ends: its transaction is over and w is what the caller gets.
Answer(t, w) ==
  /\ answer' = [answer EXCEPT ![t] = w]
  /\ pc' = [pc EXCEPT ![t] = "idle"]
  /\ move' = [move EXCEPT ![t] = Nothing]
  /\ todo' = [todo EXCEPT ![t] = {}]
  /\ written' = [written EXCEPT ![t] = Nothing]
  /\ tries' = [tries EXCEPT ![t] = 0]
  /\ UNCHANGED src

Goto(t, l) ==
  /\ pc' = [pc EXCEPT ![t] = l]
  /\ UNCHANGED <<src, move, tries, answer>>

\* postEntry is called: its own checks of the lines passed, the first attempt
\* starts.
Call(t, s, m) ==
  /\ pc[t] = "idle"
  /\ Balanced(m)
  /\ pc' = [pc EXCEPT ![t] = "lookup"]
  /\ src' = [src EXCEPT ![t] = s]
  /\ move' = [move EXCEPT ![t] = m]
  /\ tries' = [tries EXCEPT ![t] = 1]
  /\ answer' = [answer EXCEPT ![t] = "none"]
  /\ UNCHANGED <<entry, balance, history, todo, written>>

\* postEntry throws UNBALANCED before it reaches the database.
RefuseUnbalanced(t, s, m) ==
  /\ pc[t] = "idle"
  /\ ~Balanced(m)
  /\ src' = [src EXCEPT ![t] = s]
  /\ answer' = [answer EXCEPT ![t] = "refused"]
  /\ UNCHANGED <<entry, balance, history, pc, move, todo, written, tries>>

\* The fast path: an entry for the source is committed already.
FindExisting(t) ==
  /\ pc[t] = "lookup"
  /\ entry[src[t]] # Nothing
  /\ Answer(t, "replayed")
  /\ UNCHANGED <<entry, balance, history>>

FindNothing(t) ==
  /\ pc[t] = "lookup"
  /\ entry[src[t]] = Nothing
  /\ Goto(t, "insert")
  /\ UNCHANGED <<entry, balance, history, todo, written>>

\* Mistake: no unique index on the source.
NoUniqueIndex(t) == FALSE

\* The unique index makes an INSERT wait while another open transaction has
\* inserted the same source.
InsertBlocked(t) == \E u \in Session \ {t} : Open(u) /\ src[u] = src[t]

InsertEntry(t) ==
  /\ pc[t] = "insert"
  /\ ~InsertBlocked(t)
  /\ entry[src[t]] = Nothing
  /\ Goto(t, "balances")
  /\ todo' = [todo EXCEPT ![t] = Touched(move[t])]
  /\ UNCHANGED <<entry, balance, history, written>>

\* Mistake: unique_violation reaches the caller as an error.
RaiseUniqueViolation(t) ==
  /\ pc[t] = "insert"
  /\ ~InsertBlocked(t)
  /\ entry[src[t]] # Nothing
  /\ Answer(t, "refused")
  /\ UNCHANGED <<entry, balance, history>>

\* unique_violation: the winner's entry is committed by now and is the answer.
LoseTheRace(t) ==
  /\ pc[t] = "insert"
  /\ ~InsertBlocked(t)
  /\ entry[src[t]] # Nothing
  /\ Answer(t, "replayed")
  /\ UNCHANGED <<entry, balance, history>>

\* Mistake: the account lacks the non-negative CHECK.
UpdateUnchecked(t) ==
  /\ Open(t) /\ todo[t] # {}
  /\ LET a == NextAccount(t)
     IN  /\ Free(a, t)
         /\ written' = [written EXCEPT ![t][a] = balance[a] + move[t][a]]
         /\ todo' = [todo EXCEPT ![t] = @ \ {a}]
  /\ Goto(t, "balances")
  /\ UNCHANGED <<entry, balance, history>>

\* One iteration of the loop: the row lock is taken, and the delta is added to
\* the value the last committed transaction left.
UpdateBalance(t) ==
  /\ Open(t) /\ todo[t] # {}
  /\ LET a == NextAccount(t)
         n == balance[a] + move[t][a]
     IN  /\ Free(a, t)
         /\ Allowed(a, n)
         /\ written' = [written EXCEPT ![t][a] = n]
         /\ todo' = [todo EXCEPT ![t] = @ \ {a}]
  /\ Goto(t, "balances")
  /\ UNCHANGED <<entry, balance, history>>

\* The CHECK fires: 23514 is terminal, everything of the call is rolled back.
Overdraw(t) ==
  /\ Open(t) /\ todo[t] # {}
  /\ LET a == NextAccount(t)
     IN  Free(a, t) /\ ~Allowed(a, balance[a] + move[t][a])
  /\ Answer(t, "refused")
  /\ UNCHANGED <<entry, balance, history>>

Commit(t) ==
  /\ Open(t) /\ todo[t] = {}
  /\ entry' = [entry EXCEPT ![src[t]] = move[t]]
  /\ balance' = [a \in Account |->
       IF a \in Touched(move[t]) THEN written[t][a] ELSE balance[a]]
  /\ history' = [a \in Account |->
       IF a \in Touched(move[t])
       THEN Append(history[a], [after |-> written[t][a], by |-> src[t]])
       ELSE history[a]]
  /\ Answer(t, "posted")

\* A serialization failure, a deadlock or a lock timeout rolls the transaction
\* back; withRetry starts it again until the attempts are used up.
Retry(t) ==
  /\ pc[t] # "idle" /\ tries[t] < MaxTries
  /\ pc' = [pc EXCEPT ![t] = "lookup"]
  /\ todo' = [todo EXCEPT ![t] = {}]
  /\ written' = [written EXCEPT ![t] = Nothing]
  /\ tries' = [tries EXCEPT ![t] = @ + 1]
  /\ UNCHANGED <<entry, balance, history, src, move, answer>>

GiveUp(t) ==
  /\ pc[t] # "idle" /\ tries[t] = MaxTries
  /\ Answer(t, "gaveUp")
  /\ UNCHANGED <<entry, balance, history>>

\* The process or its connection is lost: Postgres rolls back, nobody is told.
Abandon(t) ==
  /\ pc[t] # "idle"
  /\ Answer(t, "none")
  /\ UNCHANGED <<entry, balance, history>>

Statement(t) ==
  \/ FindExisting(t) \/ FindNothing(t)
  \/ InsertEntry(t) \/ LoseTheRace(t)
  \/ UpdateBalance(t) \/ Overdraw(t) \/ Commit(t)

Trouble(t) == Retry(t) \/ GiveUp(t) \/ Abandon(t)

Calling(t) ==
  \E s \in Source, m \in Movements : Call(t, s, m) \/ RefuseUnbalanced(t, s, m)

PENext == \E t \in Session : Calling(t) \/ Statement(t) \/ Trouble(t)

PESpec == PEInit /\ [][PENext]_vars

\* Postgres runs the statement a session is at, and a session that waits for a
\* lock stands in the queue of that lock: it is not passed over for ever.
Fairness == \A t \in Session : SF_vars(Statement(t))

PEFairSpec == PESpec /\ Fairness

-----------------------------------------------------------------------------
(* The reconciliation the platform snapshot job runs, between any two      *)
(* statements of the sessions: each of its queries reads one snapshot.     *)

\* SUM(natural_minor) of the lines on a.
Computed(a) == SumFunctionOnSet([s \in Source |-> entry[s][a]], Source)

LatestSnapshot(a) == history[a][Len(history[a])].after

\* verifyBalance(a).agrees
VerifyBalance(a) ==
  /\ balance[a] = Computed(a)
  /\ history[a] # <<>> => LatestSnapshot(a) = balance[a]

FindUnbalancedEntries == {s \in Source : ~Balanced(entry[s])}

CheckLedgerHealth ==
  [unbalanced |-> FindUnbalancedEntries, drifted |-> {a \in Account : ~VerifyBalance(a)}]

-----------------------------------------------------------------------------
\* A row of balance_snapshot: balance_after, entry_id.
Snapshot == [after : Int, by : Source]

PETypeOK ==
  /\ TypeOK
  /\ history \in [Account -> Seq(Snapshot)]
  /\ pc \in [Session -> States]
  /\ src \in [Session -> Source]
  /\ move \in [Session -> Movements \cup {Nothing}]
  /\ todo \in [Session -> SUBSET Account]
  /\ written \in [Session -> [Account -> Int]]
  /\ tries \in [Session -> 0..MaxTries]
  /\ answer \in [Session -> Answers]

SoundCall(t) ==
  pc[t] # "idle" => move[t] \in Movements /\ Balanced(move[t]) /\ answer[t] = "none"

OwnsSource(t) == entry[src[t]] = Nothing /\ todo[t] \subseteq Touched(move[t])

WroteCurrent(t) ==
  \A a \in Held(t) : /\ written[t][a] = balance[a] + move[t][a]
                     /\ Allowed(a, written[t][a])
                     /\ \A b \in todo[t] : a < b

Apart(t, u) == src[u] # src[t] /\ Held(u) \cap Held(t) = {}

\* READ COMMITTED with row locks is enough: an open call alone owns the source
\* it inserted and the rows it has visited, it visited them in account order,
\* and what it wrote is still the committed balance plus its movement.
Isolation ==
  \A t \in Session :
    /\ SoundCall(t)
    /\ Open(t) =>
         /\ OwnsSource(t)
         /\ WroteCurrent(t)
         /\ \A u \in Session \ {t} : Open(u) => Apart(t, u)

\* Statement by statement and session by session, post_entry does what Ledger
\* promises: an entry and all its balance movements appear at once, at most
\* once for a source, and never overdraw.
AtomicPosting == Spec

\* A session waits for the session that holds the row, or the source, it needs.
WaitsFor(t, u) ==
  \/ pc[t] = "insert" /\ Open(u) /\ src[u] = src[t]
  \/ Open(t) /\ todo[t] # {} /\ NextAccount(t) \in Held(u)

\* The comment on the balance loop: the sorted order stops two postings that
\* touch the same accounts from deadlocking.  No two open calls wait for one
\* another, and no three in a ring.
NoDeadlock ==
  /\ \A t, u \in Session : t # u => ~(WaitsFor(t, u) /\ WaitsFor(u, t))
  /\ \A t, u, v \in Session : Cardinality({t, u, v}) = 3 =>
       ~(WaitsFor(t, u) /\ WaitsFor(u, v) /\ WaitsFor(v, t))

\* A refusal is never the answer of a call whose source is posted: losing the
\* race converges on the winner's entry (the defect the migration of post_entry
\* was written for).
RefusalMeansNotPosted ==
  [][\A t \in Session :
       pc[t] # "idle" /\ answer'[t] = "refused" => entry'[src[t]] = Nothing]_vars

\* balance_snapshot replays the account: each row is the row before it plus the
\* movement of the entry it names, and the last row is the balance.
SnapshotsExplainBalance ==
  \A a \in Account :
    LET h == history[a]
        before(i) == IF i = 1 THEN 0 ELSE h[i - 1].after
    IN  /\ \A i \in 1..Len(h) : h[i].after = before(i) + entry[h[i].by][a]
        /\ balance[a] = before(Len(h) + 1)

\* "Every list it produces must be empty" (PlatformSnapshotJob), at whatever moment
\* of whatever postings the job runs: no entry is half posted, and no balance has
\* been moved twice or without an entry.
ReportsAreEmpty == CheckLedgerHealth = [unbalanced |-> {}, drifted |-> {}]

\* Every call returns or throws: no session waits for a row lock for ever.
CallsEnd == \A t \in Session : pc[t] # "idle" ~> pc[t] = "idle"
=============================================================================
