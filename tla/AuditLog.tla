------------------------------ MODULE AuditLog ------------------------------
(***************************************************************************)
(* The audit log: audit.record as the statements Postgres runs for it in   *)
(* several transactions at once, and audit.verify_chain over what they     *)
(* leave.  A transaction takes the advisory lock, reads the hash of the    *)
(* last row, inserts its own and commits, alone (AuditService.record) or   *)
(* with what its caller writes (recordInTransaction); the lock is held     *)
(* until the transaction ends.                                             *)
(*                                                                         *)
(* sha256 is symbolic: a hash is the pair of the previous hash, which has  *)
(* a fixed width, and the text of the event.  Different events may have    *)
(* one text.  The hash has no key: whoever gets past the append-only       *)
(* trigger may leave any rows at all, with a chain computed afresh.        *)
(***************************************************************************)
EXTENDS Integers

CONSTANTS
  Writer,       \* transactions that record
  Event,        \* contents of a row: its id, its time and the columns that are hashed
  Text(_),      \* what event_hash concatenates of them, with no delimiter and NULL as ''
  Hash,         \* what a tamperer may write in prev_hash and hash
  MaxSeq        \* bounds the identity column

VARIABLES
  rows,         \* committed rows of audit.event
  nextSeq,      \* the identity column's sequence, which no rollback takes back
  phase,
  event, prev, seq,  \* of the row each transaction is writing
  recorded,     \* history: rows that were committed while the trigger held
  bypassed      \* history: the trigger was got past

chain == <<rows, nextSeq, recorded, bypassed>>
auditVars == <<chain, phase, event, prev, seq>>

\* The genesis link.
Genesis == <<>>

EventHash(p, e) == <<p, Text(e)>>

Row(p, e, n) == [seq |-> n, event |-> e, prev |-> p, hash |-> EventHash(p, e)]

\* ORDER BY seq DESC LIMIT 1: what audit.head publishes and record links to.
Newest(r) == r \in rows /\ \A q \in rows : q.seq <= r.seq

\* Transactions that hold the advisory lock.
Holding == {w \in Writer : phase[w] \in {"reading", "inserting", "inserted"}}

AuditInit ==
  /\ rows = {} /\ nextSeq = 1
  /\ phase = [w \in Writer |-> "idle"]
  /\ event \in [Writer -> Event]
  /\ prev = [w \in Writer |-> Genesis]
  /\ seq = [w \in Writer |-> 0]
  /\ recorded = {}
  /\ bypassed = FALSE

-----------------------------------------------------------------------------
Goes(w, from, to) == phase[w] = from /\ phase' = [phase EXCEPT ![w] = to]

\* audit.record is called.
CallRecord(w, e) ==
  /\ Goes(w, "idle", "locking")
  /\ event' = [event EXCEPT ![w] = e]
  /\ UNCHANGED <<chain, prev, seq>>

\* pg_advisory_xact_lock.
Lock(w) ==
  /\ Goes(w, "locking", "reading")
  /\ Holding = {}
  /\ UNCHANGED <<chain, event, prev, seq>>

\* A statement of its own, with a snapshot of its own.
ReadLast(w) ==
  /\ Goes(w, "reading", "inserting")
  /\ \/ /\ rows = {}
        /\ prev' = [prev EXCEPT ![w] = Genesis]
     \/ \E r \in rows : Newest(r) /\ prev' = [prev EXCEPT ![w] = r.hash]
  /\ UNCHANGED <<chain, event, seq>>

Taken(n) == \E r \in rows : r.seq = n

Insert(w) ==
  /\ Goes(w, "inserting", "inserted")
  /\ nextSeq <= MaxSeq /\ ~Taken(nextSeq)
  /\ seq' = [seq EXCEPT ![w] = nextSeq]
  /\ nextSeq' = nextSeq + 1
  /\ UNCHANGED <<rows, recorded, bypassed, event, prev>>

\* The primary key stops a row at a position that somebody has put one at.
InsertFails(w) ==
  /\ Goes(w, "inserting", "idle")
  /\ nextSeq <= MaxSeq /\ Taken(nextSeq)
  /\ nextSeq' = nextSeq + 1
  /\ UNCHANGED <<rows, recorded, bypassed, event, prev, seq>>

CommitRow(w) ==
  /\ Goes(w, "inserted", "idle")
  /\ LET r == Row(prev[w], event[w], seq[w])
     IN  /\ rows' = rows \cup {r}
         /\ recorded' = IF bypassed THEN recorded ELSE recorded \cup {r}
  /\ UNCHANGED <<nextSeq, bypassed, event, prev, seq>>

\* The statement fails or the caller's transaction is rolled back; record
\* answers null, recordInTransaction throws.
Rollback(w) ==
  /\ phase[w] # "idle"
  /\ phase' = [phase EXCEPT ![w] = "idle"]
  /\ UNCHANGED <<chain, event, prev, seq>>

\* The trigger is off, which waits for rows that are not committed: whatever
\* rows are wanted take the place of those there were.
Bypass ==
  /\ \A w \in Writer : phase[w] # "inserted"
  /\ \E forged \in SUBSET [seq : Int, event : Event, prev : Hash, hash : Hash] :
       /\ \A r, q \in forged : r.seq = q.seq => r = q
       /\ rows' = forged
  /\ bypassed' = TRUE
  /\ UNCHANGED <<nextSeq, recorded, phase, event, prev, seq>>

AuditNext ==
  \/ \E w \in Writer : \/ \E e \in Event : CallRecord(w, e)
                       \/ Lock(w) \/ ReadLast(w) \/ Insert(w) \/ InsertFails(w)
                       \/ CommitRow(w) \/ Rollback(w)
  \/ Bypass

AuditSpec == AuditInit /\ [][AuditNext]_auditVars

-----------------------------------------------------------------------------
(* audit.verify_chain                                                      *)

\* q comes next to r in the order of positions.
NextIn(S, r, q) ==
  /\ r.seq < q.seq
  /\ ~\E m \in S : r.seq < m.seq /\ m.seq < q.seq

\* The row the loop comes to after r.
NextTo(r, q) == NextIn(rows, r, q)

\* A row does not match its hash, or the row before it in scope.
Broken(q, from) ==
  \/ q.hash # EventHash(q.prev, q.event)
  \/ \E r \in rows : r.seq > from /\ NextTo(r, q) /\ q.prev # r.hash

\* The loop stops at the first it finds.
VerifyChain(from) ==
  LET bad == {q \in rows : q.seq > from /\ Broken(q, from)}
  IN  {q \in bad : \A r \in bad : q.seq <= r.seq}

-----------------------------------------------------------------------------
IsRow(r) == r = [seq |-> r.seq, event |-> r.event, prev |-> r.prev, hash |-> r.hash]

\* The variables have their types, and what was recorded is below the sequence.
AuditTypeOK ==
  /\ nextSeq \in Nat \ {0}
  /\ \A r \in rows \cup recorded : IsRow(r) /\ r.seq \in Int /\ r.event \in Event
  /\ \A r \in recorded : r.seq \in 1..nextSeq - 1
  /\ phase \in [Writer -> {"idle", "locking", "reading", "inserting", "inserted"}]
  /\ event \in [Writer -> Event]
  /\ seq \in [Writer -> Nat] /\ DOMAIN prev = Writer
  /\ bypassed \in BOOLEAN

\* An alarm is never a false one: as long as the trigger has held, the chain
\* verifies, from wherever it is started and whatever was rolled back or written
\* side by side ("a tamper alarm that fires on honest data is one people learn
\* to ignore").
HonestLogVerifies == ~bypassed => \A from \in 0..nextSeq : VerifyChain(from) = {}

\* A row says what another one says, as far as the hash can tell.
Says(r, o) ==
  r.prev = o.prev /\ r.hash = o.hash /\ Text(r.event) = Text(o.event)

\* "A log that has lost its newest rows can no longer produce the head that was
\* published": whatever a tamperer has done and however the chain was computed
\* afresh, if the log verifies and one of its rows has the hash of a row that was
\* recorded while the trigger held, then each row up to that one says what a
\* recorded row says, and between two of them no recorded row is missing.
AnchoredLogIsWhole ==
  \A head \in recorded, b \in rows :
    VerifyChain(0) = {} /\ b.hash = head.hash =>
      \A q \in rows : q.seq \in 1..b.seq =>
        \E p \in recorded :
          /\ Says(q, p) /\ p.seq <= head.seq
          /\ \A r \in rows : r.seq > 0 /\ NextTo(r, q) =>
               \E o \in recorded : Says(r, o) /\ NextIn(recorded, o, p)

\* Positions are handed out in the order of the commits, so whoever has read the
\* log up to one of them has missed no row below it, as long as the trigger holds.
AppendsAtTheEnd ==
  [][\A q \in recorded' \ recorded : \A r \in recorded : r.seq < q.seq]_auditVars
=============================================================================
