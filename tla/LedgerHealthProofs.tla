------------------------- MODULE LedgerHealthProofs -------------------------
(***************************************************************************)
(* What is proved of the ledger, of post_entry, of the audit log and of    *)
(* the job that reconciles both, for every value of the constants.         *)
(*                                                                         *)
(* An honest log verifies because the one writer that holds the lock has   *)
(* linked to the newest row (Tight); a log that verifies is whole up to a  *)
(* head that was published because each hash tells what the row before     *)
(* says, whoever computed it (BeforeIt).                                   *)
(***************************************************************************)
EXTENDS LedgerHealth, Sums

-----------------------------------------------------------------------------
(* Ledger                                                                  *)

\* The movement that touches no account is a movement.
LEMMA NothingType == Nothing \in [Account -> Int]
  BY DEF Nothing

\* A movement gives an integer for every account.
LEMMA MovementsType == Movements \cup {Nothing} \subseteq [Account -> Int]
  BY LedgerAssumption, NothingType DEF LedgerAssumption

\* Ledger's type invariant: entries are movements callers may ask for, balances
\* are integers.
THEOREM LedgerTyped == Spec => []TypeOK
<1>1. Init => TypeOK
  BY NothingType DEF Init, TypeOK
<1>2. TypeOK /\ [Next]_ledgerVars => TypeOK'
  <2> SUFFICES ASSUME TypeOK, [Next]_ledgerVars PROVE TypeOK'
    OBVIOUS
  <2>1. CASE Next
    <3> PICK s \in Source, m \in Movements : Post(s, m)
      BY <2>1 DEF Next
    <3>1. m \in [Account -> Int]
      BY MovementsType
    <3> QED
      BY <3>1 DEF TypeOK, Post, Apply
  <2>2. CASE UNCHANGED ledgerVars
    BY <2>2 DEF TypeOK, ledgerVars
  <2> QED
    BY <2>1, <2>2
<1> QED
  BY <1>1, <1>2, PTL DEF Spec

\* No posting overdraws an account that may not be negative.
THEOREM LedgerSolvent == Spec => []Solvent
<1>1. Init => Solvent
  BY DEF Init, Solvent, Allowed, Nothing
<1>2. TypeOK /\ Solvent /\ [Next]_ledgerVars => Solvent'
  <2> SUFFICES ASSUME TypeOK, Solvent, [Next]_ledgerVars PROVE Solvent'
    OBVIOUS
  <2>1. CASE Next
    <3> PICK s \in Source, m \in Movements : Post(s, m)
      BY <2>1 DEF Next
    <3>1. m \in [Account -> Int]
      BY MovementsType
    <3> SUFFICES ASSUME NEW a \in Account PROVE Allowed(a, balance'[a])
      BY DEF Solvent, Allowed
    <3>2. balance'[a] = balance[a] + m[a]
      BY DEF Post, Apply
    <3>3. CASE m[a] = 0
      BY <3>1, <3>2, <3>3 DEF TypeOK, Solvent
    <3>4. CASE m[a] # 0
      BY <3>2, <3>4 DEF Post
    <3> QED
      BY <3>3, <3>4
  <2>2. CASE UNCHANGED ledgerVars
    BY <2>2 DEF Solvent, Allowed, ledgerVars
  <2> QED
    BY <2>1, <2>2
<1> QED
  BY <1>1, <1>2, LedgerTyped, PTL DEF Spec

\* What the reconciliation looks for in the ledger: every entry balances, and
\* every balance is the sum of the entries on its account.
Reconciled ==
  /\ \A s \in Source : Balanced(entry[s])
  /\ \A a \in Account : balance[a] = Computed(a)

\* The movement that touches no account balances.
LEMMA NothingBalances == Balanced(Nothing)
<1>1. \A a \in Account : Signed(Nothing)[a] = 0
  <2>1. \A n \in Int : -n = 0 - n
    OBVIOUS
  <2>2. \A a \in Account : Nothing[a] \in Int /\ Nothing[a] = 0
    BY DEF Nothing
  <2>3. \A a \in Account :
          Signed(Nothing)[a] = IF a \in DebitNormal THEN Nothing[a] ELSE 0 - Nothing[a]
    BY <2>1, <2>2 DEF Signed
  <2> QED
    BY <2>2, <2>3
<1>2. IsFiniteSet(Account)
  BY PostEntryAssumption DEF PostEntryAssumption
<1> QED
  BY <1>1, <1>2, SumOfZeros DEF Balanced

\* A posting adds its movement to what the entries on an account sum to.
LEMMA PostAdds ==
  ASSUME TypeOK, NEW s \in Source, NEW m \in [Account -> Int], Post(s, m), NEW a \in Account
  PROVE  Computed(a)' = Computed(a) + m[a] /\ Computed(a) \in Int
<1> DEFINE f == [x \in Source |-> entry[x][a]]
           g == [x \in Source |-> entry'[x][a]]
<1>1. IsFiniteSet(Source)
  BY PostEntryAssumption DEF PostEntryAssumption
<1>2. entry[s] = Nothing /\ entry' = [entry EXCEPT ![s] = m]
  BY DEF Post
<1>3. \A x \in Source : entry[x] \in [Account -> Int]
  BY MovementsType DEF TypeOK
<1>4. \A x \in Source : entry'[x] = IF x = s THEN m ELSE entry[x]
  BY <1>2 DEF TypeOK
<1>5. (\A x \in Source : f[x] \in Int) /\ (\A x \in Source : g[x] \in Int)
  BY <1>3, <1>4
<1>6. f[s] = 0 /\ g[s] = m[a]
  BY <1>2, <1>4 DEF Nothing
<1>7. \A x \in Source \ {s} : g[x] = f[x]
  BY <1>4
<1>8. Computed(a) = SumFunctionOnSet(f, Source) /\ Computed(a)' = SumFunctionOnSet(g, Source)
  BY DEF Computed
<1> HIDE DEF f, g
<1>9. SumFunctionOnSet(f, Source) \in Int
  BY <1>1, <1>5, SumType
<1>10. SumFunctionOnSet(g, Source) = SumFunctionOnSet(f, Source) + g[s] - f[s]
  BY <1>1, <1>5, <1>7, SumChange
<1> QED
  BY <1>6, <1>8, <1>9, <1>10

\* No posting leaves an entry out of balance, or a balance its entries do not
\* sum to.
THEOREM LedgerReconciled == Spec => []Reconciled
<1>1. Init => Reconciled
  <2> SUFFICES ASSUME Init PROVE Reconciled
    OBVIOUS
  <2>1. ASSUME NEW a \in Account PROVE balance[a] = Computed(a)
    <3> DEFINE f == [x \in Source |-> entry[x][a]]
    <3>1. \A x \in Source : f[x] = 0
      BY DEF Init, Nothing
    <3>2. IsFiniteSet(Source)
      BY PostEntryAssumption DEF PostEntryAssumption
    <3>3. Computed(a) = SumFunctionOnSet(f, Source)
      BY DEF Computed
    <3> HIDE DEF f
    <3>4. Computed(a) = 0
      BY <3>1, <3>2, <3>3, SumOfZeros
    <3> QED
      BY <3>4 DEF Init, Nothing
  <2>2. \A s \in Source : Balanced(entry[s])
    BY NothingBalances DEF Init
  <2> QED
    BY <2>1, <2>2 DEF Reconciled
<1>2. TypeOK /\ Reconciled /\ [Next]_ledgerVars => Reconciled'
  <2> SUFFICES ASSUME TypeOK, Reconciled, [Next]_ledgerVars PROVE Reconciled'
    OBVIOUS
  <2>1. CASE Next
    <3> PICK s \in Source, m \in Movements : Post(s, m)
      BY <2>1 DEF Next
    <3>1. m \in [Account -> Int]
      BY MovementsType
    <3>2. Balanced(m) /\ entry' = [entry EXCEPT ![s] = m] /\ balance' = Apply(m)
      BY DEF Post
    <3>3. \A x \in Source : Balanced(entry'[x])
      BY <3>2 DEF TypeOK, Reconciled
    <3>4. ASSUME NEW a \in Account PROVE balance'[a] = Computed(a)'
      <4>1. balance'[a] = balance[a] + m[a]
        BY <3>2 DEF Apply
      <4> QED
        BY <3>1, <4>1, PostAdds DEF Reconciled
    <3>5. (\A x \in Source : Balanced(entry[x]))'
      BY <3>3 DEF Balanced, Signed
    <3> QED
      BY <3>4, <3>5 DEF Reconciled
  <2>2. CASE UNCHANGED ledgerVars
    BY <2>2 DEF Reconciled, Computed, Balanced, Signed, ledgerVars
  <2> QED
    BY <2>1, <2>2
<1> QED
  BY <1>1, <1>2, LedgerTyped, PTL DEF Spec

-----------------------------------------------------------------------------
(* The order of the locks                                                  *)

\* ORDER BY account_id: the account a session updates next is the smallest of
\* those it has left.
LEMMA NextAccountIsSmallest ==
  ASSUME NEW t \in Session, todo[t] \in SUBSET Account, todo[t] # {}
  PROVE  NextAccount(t) \in todo[t] /\ \A b \in todo[t] : NextAccount(t) <= b
<1>1. \E a \in todo[t] : \A b \in todo[t] : a <= b
  BY PostEntryAssumption, LeastNat DEF PostEntryAssumption
<1> QED
  BY <1>1 DEF NextAccount

-----------------------------------------------------------------------------
(* post_entry                                                              *)

\* The type invariant of post_entry's sessions.
THEOREM PostEntryTyped == PESpec => []PETypeOK
<1>1. PEInit => PETypeOK
  <2> SUFFICES ASSUME PEInit PROVE PETypeOK
    OBVIOUS
  <2>1. TypeOK
    BY NothingType DEF PEInit, Init, TypeOK
  <2> QED
    BY <2>1, NothingType, PostEntryAssumption
    DEF PEInit, PETypeOK, States, Answers, PostEntryAssumption
<1>2. PETypeOK /\ [PENext]_vars => PETypeOK'
  <2> SUFFICES ASSUME PETypeOK, [PENext]_vars PROVE PETypeOK'
    OBVIOUS
  <2> USE NothingType DEF PETypeOK, TypeOK, States, Answers
  <2>1. CASE UNCHANGED vars
    BY <2>1 DEF vars
  <2>2. ASSUME NEW t \in Session, Calling(t) PROVE PETypeOK'
    <3>1. 1 \in 0..MaxTries
      BY PostEntryAssumption DEF PostEntryAssumption
    <3>2. ASSUME NEW s \in Source, NEW m \in Movements, Call(t, s, m)
          PROVE PETypeOK'
      BY <3>1, <3>2 DEF Call
    <3>3. ASSUME NEW s \in Source, NEW m \in Movements, RefuseUnbalanced(t, s, m)
          PROVE PETypeOK'
      BY <3>3 DEF RefuseUnbalanced
    <3> QED
      BY <2>2, <3>2, <3>3 DEF Calling
  <2>3. ASSUME NEW t \in Session, NEW w \in Answers, Answer(t, w),
               TypeOK', history' \in [Account -> Seq(Snapshot)]
        PROVE PETypeOK'
    <3>1. /\ answer' = [answer EXCEPT ![t] = w]
          /\ pc' = [pc EXCEPT ![t] = "idle"]
          /\ move' = [move EXCEPT ![t] = Nothing]
          /\ todo' = [todo EXCEPT ![t] = {}]
          /\ written' = [written EXCEPT ![t] = Nothing]
          /\ tries' = [tries EXCEPT ![t] = 0]
          /\ src' = src
      BY <2>3 DEF Answer
    <3>2. 0 \in 0..MaxTries
      BY PostEntryAssumption DEF PostEntryAssumption
    <3>3. pc' \in [Session -> States] /\ answer' \in [Session -> Answers]
      BY <3>1
    <3>4. move' \in [Session -> Movements \cup {Nothing}] /\ todo' \in [Session -> SUBSET Account]
      BY <3>1
    <3>5. written' \in [Session -> [Account -> Int]] /\ tries' \in [Session -> 0..MaxTries]
      BY <3>1, <3>2
    <3> QED
      BY <2>3, <3>1, <3>3, <3>4, <3>5
  <2>9. ASSUME NEW t \in Session, FindExisting(t) \/ LoseTheRace(t) \/ Overdraw(t)
                                    \/ GiveUp(t) \/ Abandon(t)
        PROVE PETypeOK'
    <3>1. TypeOK' /\ history' \in [Account -> Seq(Snapshot)]
      BY <2>9 DEF FindExisting, LoseTheRace, Overdraw, GiveUp, Abandon
    <3>2. \E w \in Answers : Answer(t, w)
      BY <2>9 DEF FindExisting, LoseTheRace, Overdraw, GiveUp, Abandon
    <3> QED
      BY <2>3, <3>1, <3>2
  <2>4. ASSUME NEW t \in Session, FindNothing(t) PROVE PETypeOK'
    <3>1. /\ pc' = [pc EXCEPT ![t] = "insert"]
          /\ UNCHANGED <<entry, balance, history, src, move, todo, written, tries, answer>>
      BY <2>4 DEF FindNothing, Goto
    <3> QED
      BY <3>1
  <2>5. ASSUME NEW t \in Session, InsertEntry(t) PROVE PETypeOK'
    BY <2>5 DEF InsertEntry, Goto, Touched
  <2>6. ASSUME NEW t \in Session, UpdateBalance(t) PROVE PETypeOK'
    <3>1. NextAccount(t) \in Account
      BY <2>6, NextAccountIsSmallest DEF UpdateBalance
    <3>2. balance[NextAccount(t)] + move[t][NextAccount(t)] \in Int
      <4>1. move[t] \in [Account -> Int]
        BY MovementsType
      <4> QED
        BY <3>1, <4>1
    <3> DEFINE a == NextAccount(t)
               n == balance[a] + move[t][a]
    <3>3. /\ written' = [written EXCEPT ![t][a] = n]
          /\ todo' = [todo EXCEPT ![t] = @ \ {a}]
          /\ pc' = [pc EXCEPT ![t] = "balances"]
          /\ UNCHANGED <<entry, balance, history, src, move, tries, answer>>
      BY <2>6 DEF UpdateBalance, Goto
    <3>4. a \in Account /\ n \in Int
      BY <3>1, <3>2
    <3> QED
      BY <3>3, <3>4
  <2>7. ASSUME NEW t \in Session, Commit(t) PROVE PETypeOK'
    <3>1. \A a \in Account : written[t][a] \in Int
      OBVIOUS
    <3>2. history' \in [Account -> Seq(Snapshot)]
      <4>1. \A a \in Account : [after |-> written[t][a], by |-> src[t]] \in Snapshot
        BY <3>1 DEF Snapshot
      <4>2. \A a \in Account :
              Append(history[a], [after |-> written[t][a], by |-> src[t]]) \in Seq(Snapshot)
        BY <4>1
      <4> QED
        BY <2>7, <4>2 DEF Commit
    <3>3. TypeOK'
      BY <2>7, <3>1 DEF Commit
    <3>4. Answer(t, "posted")
      BY <2>7 DEF Commit
    <3> QED
      BY <2>3, <3>2, <3>3, <3>4
  <2>8. ASSUME NEW t \in Session, Retry(t) PROVE PETypeOK'
    <3>1. tries[t] + 1 \in 0..MaxTries
      BY <2>8, PostEntryAssumption DEF Retry, PostEntryAssumption
    <3> QED
      BY <2>8, <3>1 DEF Retry
  <2> QED
    BY <2>1, <2>2, <2>3, <2>4, <2>5, <2>6, <2>7, <2>8, <2>9
    DEF PENext, Statement, Trouble
<1> QED
  BY <1>1, <1>2, PTL DEF PESpec

-----------------------------------------------------------------------------
(* Isolation, the inductive invariant                                      *)

SameSession(u) ==
  /\ pc'[u] = pc[u] /\ src'[u] = src[u] /\ move'[u] = move[u]
  /\ todo'[u] = todo[u] /\ written'[u] = written[u] /\ answer'[u] = answer[u]

\* A session whose transaction is not open disturbs nobody as long as it leaves
\* the ledger alone.
LEMMA ClosedDisturbsNobody ==
  ASSUME Isolation, NEW t \in Session, pc'[t] # "balances", SoundCall(t)',
         \A u \in Session \ {t} : SameSession(u),
         UNCHANGED <<entry, balance>>
  PROVE  Isolation'
<1> SUFFICES ASSUME NEW v \in Session
             PROVE  (/\ SoundCall(v)
                     /\ Open(v) =>
                          /\ OwnsSource(v)
                          /\ WroteCurrent(v)
                          /\ \A u \in Session \ {v} : Open(u) => Apart(v, u))'
  BY DEF Isolation
<1>1. CASE v = t
  BY <1>1 DEF Open
<1>2. CASE v # t
  <2>1. SameSession(v)
    BY <1>2
  <2>2. SoundCall(v)'
    BY <2>1 DEF SameSession, SoundCall, Isolation
  <2>3. ASSUME Open(v)' PROVE Open(v) /\ OwnsSource(v)' /\ Held(v)' = Held(v)
    BY <2>1, <2>3 DEF SameSession, Open, OwnsSource, Isolation, Held
  <2>4. ASSUME Open(v)' PROVE WroteCurrent(v)'
    <3>1. WroteCurrent(v) /\ Held(v)' = Held(v)
      BY <2>3, <2>4 DEF Isolation
    <3> QED
      BY <2>1, <3>1 DEF WroteCurrent, SameSession, Allowed
  <2>5. ASSUME Open(v)', NEW u \in Session \ {v}, Open(u)' PROVE Apart(v, u)'
    <3>1. u # t
      BY <2>5 DEF Open
    <3>2. SameSession(u) /\ Open(u) /\ Held(u)' = Held(u)
      BY <2>5, <3>1 DEF SameSession, Open, Held
    <3>3. Apart(v, u)
      BY <2>3, <2>5, <3>2 DEF Isolation
    <3> QED
      BY <2>1, <2>3, <2>5, <3>2, <3>3 DEF Apart, SameSession
  <2> QED
    BY <2>2, <2>3, <2>4, <2>5
<1> QED
  BY <1>1, <1>2

\* One session's statement leaves every other session as it is.
LEMMA OthersAreTheSame ==
  ASSUME PETypeOK, NEW t \in Session, Calling(t) \/ Statement(t) \/ Trouble(t)
  PROVE  \A u \in Session \ {t} : SameSession(u)
<1> SUFFICES ASSUME NEW u \in Session \ {t} PROVE SameSession(u)
  OBVIOUS
<1> USE DEF SameSession, PETypeOK
<1>1. CASE Calling(t)
  BY <1>1 DEF Calling, Call, RefuseUnbalanced
<1>2. ASSUME NEW w, Answer(t, w) PROVE SameSession(u)
  BY <1>2 DEF Answer
<1>3. CASE Statement(t)
  <2>1. CASE FindNothing(t) \/ InsertEntry(t)
    BY <2>1 DEF FindNothing, InsertEntry, Goto
  <2>2. CASE UpdateBalance(t)
    BY <2>2 DEF UpdateBalance, Goto
  <2>3. CASE FindExisting(t) \/ LoseTheRace(t) \/ Overdraw(t) \/ Commit(t)
    BY <2>3, <1>2 DEF FindExisting, LoseTheRace, Overdraw, Commit
  <2> QED
    BY <1>3, <2>1, <2>2, <2>3 DEF Statement
<1>4. CASE Trouble(t)
  BY <1>4, <1>2 DEF Trouble, Retry, GiveUp, Abandon
<1> QED
  BY <1>1, <1>3, <1>4

\* The insert finds no row under the unique index, so no other session has the
\* source open.
LEMMA InsertKeepsIsolation ==
  ASSUME PETypeOK, Isolation, NEW t \in Session, InsertEntry(t)
  PROVE  Isolation'
<1>1. \A u \in Session \ {t} : SameSession(u)
  BY OthersAreTheSame DEF Statement
<1>2. /\ pc'[t] = "balances" /\ todo'[t] = Touched(move[t])
      /\ src'[t] = src[t] /\ move'[t] = move[t] /\ answer'[t] = answer[t]
      /\ UNCHANGED <<entry, balance, written>>
      /\ entry[src[t]] = Nothing /\ ~InsertBlocked(t) /\ pc[t] = "insert"
  BY DEF InsertEntry, Goto, PETypeOK
<1>3. Held(t)' = {}
  BY <1>2 DEF Held, Touched
<1>4. ASSUME NEW u \in Session \ {t}, Open(u)'
      PROVE  Open(u) /\ Held(u)' = Held(u) /\ src'[u] # src'[t]
  BY <1>1, <1>2, <1>4 DEF SameSession, Open, Held, InsertBlocked
<1>5. ASSUME NEW v \in Session
      PROVE  (/\ SoundCall(v)
              /\ Open(v) =>
                   /\ OwnsSource(v)
                   /\ WroteCurrent(v)
                   /\ \A u \in Session \ {v} : Open(u) => Apart(v, u))'
  <2>1. CASE v = t
    <3>1. SoundCall(t)'
      BY <1>2 DEF SoundCall, Isolation
    <3>2. OwnsSource(t)' /\ WroteCurrent(t)'
      BY <1>2, <1>3 DEF OwnsSource, WroteCurrent, Touched
    <3>3. ASSUME NEW u \in Session \ {t}, Open(u)' PROVE Apart(t, u)'
      BY <1>3, <1>4, <3>3 DEF Apart
    <3> QED
      BY <2>1, <3>1, <3>2, <3>3
  <2>2. CASE v # t
    <3>1. SameSession(v)
      BY <1>1, <2>2
    <3>2. SoundCall(v)'
      BY <3>1 DEF SameSession, SoundCall, Isolation
    <3>3. ASSUME Open(v)' PROVE OwnsSource(v)' /\ WroteCurrent(v)'
      <4>1. OwnsSource(v) /\ WroteCurrent(v) /\ Held(v)' = Held(v)
        BY <1>4, <2>2, <3>3 DEF Isolation
      <4> QED
        BY <1>2, <3>1, <4>1 DEF OwnsSource, WroteCurrent, SameSession, Allowed
    <3>4. ASSUME Open(v)', NEW u \in Session \ {v}, Open(u)' PROVE Apart(v, u)'
      <4>1. CASE u = t
        BY <1>3, <1>4, <2>2, <3>4, <4>1 DEF Apart
      <4>2. CASE u # t
        <5>1. Apart(v, u) /\ Held(v)' = Held(v) /\ Held(u)' = Held(u)
          BY <1>4, <2>2, <3>4, <4>2 DEF Isolation
        <5> QED
          BY <1>1, <3>1, <4>2, <5>1 DEF Apart, SameSession
      <4> QED
        BY <4>1, <4>2
    <3> QED
      BY <3>2, <3>3, <3>4
  <2> QED
    BY <2>1, <2>2
<1> QED
  BY <1>5 DEF Isolation

\* An update waits for the row lock, so it adds to the balance as committed or
\* as this session wrote it.
LEMMA UpdateKeepsIsolation ==
  ASSUME PETypeOK, Isolation, NEW t \in Session, UpdateBalance(t)
  PROVE  Isolation'
<1> DEFINE a == NextAccount(t)
           n == balance[a] + move[t][a]
<1>1. \A u \in Session \ {t} : SameSession(u)
  BY OthersAreTheSame DEF Statement
<1>2. /\ pc[t] = "balances" /\ pc'[t] = "balances"
      /\ src'[t] = src[t] /\ move'[t] = move[t] /\ answer'[t] = answer[t]
      /\ UNCHANGED <<entry, balance>>
      /\ todo[t] # {} /\ todo'[t] = todo[t] \ {a} /\ written' = [written EXCEPT ![t][a] = n]
      /\ Free(a, t) /\ Allowed(a, n)
  BY DEF UpdateBalance, Goto, PETypeOK, Open
<1>3. a \in todo[t] /\ a \in Account /\ \A b \in todo[t] : a <= b
  BY <1>2, NextAccountIsSmallest DEF PETypeOK
<1>4. OwnsSource(t) /\ WroteCurrent(t) /\ SoundCall(t)
      /\ \A u \in Session \ {t} : Open(u) => Apart(t, u) /\ Apart(u, t)
  BY <1>2 DEF Isolation, Open
<1>5. Held(t)' = Held(t) \cup {a}
  BY <1>2, <1>3, <1>4 DEF Held, Open, Touched, OwnsSource
<1>6. ASSUME NEW u \in Session \ {t}, Open(u)'
      PROVE  Open(u) /\ Held(u)' = Held(u) /\ a \notin Held(u)
  BY <1>1, <1>2, <1>6 DEF SameSession, Open, Held, Free
<1>7. WroteCurrent(t)'
  <2> SUFFICES ASSUME NEW b \in Held(t) \cup {a}
               PROVE  /\ written'[t][b] = balance[b] + move[t][b]
                      /\ Allowed(b, written'[t][b])
                      /\ \A c \in todo'[t] : b < c
    BY <1>2, <1>5 DEF WroteCurrent, Allowed
  <2>1. CASE b = a
    <3>1. written'[t][a] = n
      BY <1>2, <1>3 DEF PETypeOK
    <3>2. \A c \in todo'[t] : a < c
      <4> SUFFICES ASSUME NEW c \in todo[t], c # a PROVE a < c
        BY <1>2
      <4>1. a \in Nat /\ c \in Nat
        BY <1>3, PostEntryAssumption DEF PETypeOK, PostEntryAssumption
      <4> HIDE DEF a
      <4> QED
        BY <1>3, <4>1
    <3> QED
      BY <1>2, <2>1, <3>1, <3>2
  <2>2. CASE b # a
    <3>1. written'[t][b] = written[t][b] /\ b \in Held(t)
      BY <1>2, <2>2 DEF PETypeOK
    <3> QED
      BY <1>2, <1>4, <3>1 DEF WroteCurrent
  <2> QED
    BY <2>1, <2>2
<1>8. ASSUME NEW v \in Session
      PROVE  (/\ SoundCall(v)
              /\ Open(v) =>
                   /\ OwnsSource(v)
                   /\ WroteCurrent(v)
                   /\ \A u \in Session \ {v} : Open(u) => Apart(v, u))'
  <2>1. CASE v = t
    <3>1. SoundCall(t)'
      BY <1>2, <1>4 DEF SoundCall
    <3>2. OwnsSource(t)'
      BY <1>2, <1>4 DEF OwnsSource, Touched
    <3>3. ASSUME NEW u \in Session \ {t}, Open(u)' PROVE Apart(t, u)'
      BY <1>1, <1>2, <1>4, <1>5, <1>6, <3>3 DEF Apart, SameSession
    <3> QED
      BY <1>7, <2>1, <3>1, <3>2, <3>3
  <2>2. CASE v # t
    <3>1. SameSession(v)
      BY <1>1, <2>2
    <3>2. SoundCall(v)'
      BY <3>1 DEF SameSession, SoundCall, Isolation
    <3>3. ASSUME Open(v)' PROVE OwnsSource(v)' /\ WroteCurrent(v)'
      <4>1. OwnsSource(v) /\ WroteCurrent(v) /\ Held(v)' = Held(v)
        BY <1>6, <2>2, <3>3 DEF Isolation
      <4> QED
        BY <1>2, <3>1, <4>1 DEF OwnsSource, WroteCurrent, SameSession, Allowed
    <3>4. ASSUME Open(v)', NEW u \in Session \ {v}, Open(u)' PROVE Apart(v, u)'
      <4>1. CASE u = t
        BY <1>2, <1>4, <1>5, <1>6, <2>2, <3>1, <3>4, <4>1 DEF Apart, SameSession
      <4>2. CASE u # t
        <5>1. Apart(v, u) /\ Held(v)' = Held(v) /\ Held(u)' = Held(u)
          BY <1>6, <2>2, <3>4, <4>2 DEF Isolation
        <5> QED
          BY <1>1, <3>1, <4>2, <5>1 DEF Apart, SameSession
      <4> QED
        BY <4>1, <4>2
    <3> QED
      BY <3>2, <3>3, <3>4
  <2> QED
    BY <2>1, <2>2
<1> QED
  BY <1>8 DEF Isolation

\* A commit publishes balances of accounts that no other open session wrote.
LEMMA CommitKeepsIsolation ==
  ASSUME PETypeOK, Isolation, NEW t \in Session, Commit(t)
  PROVE  Isolation'
<1>1. \A u \in Session \ {t} : SameSession(u)
  BY OthersAreTheSame DEF Statement
<1>2. pc[t] = "balances" /\ pc'[t] = "idle" /\ todo[t] = {}
  BY DEF Commit, Answer, Open, PETypeOK
<1>3. /\ entry' = [entry EXCEPT ![src[t]] = move[t]]
      /\ balance' = [b \in Account |->
           IF b \in Touched(move[t]) THEN written[t][b] ELSE balance[b]]
  BY DEF Commit
<1>4. Held(t) = Touched(move[t])
  BY <1>2 DEF Held, Open
<1>5. ASSUME NEW u \in Session \ {t}, Open(u)'
      PROVE  Open(u) /\ Held(u)' = Held(u) /\ Apart(t, u)
  BY <1>1, <1>2, <1>5 DEF SameSession, Open, Held, Isolation
<1>6. ASSUME NEW v \in Session
      PROVE  (/\ SoundCall(v)
              /\ Open(v) =>
                   /\ OwnsSource(v)
                   /\ WroteCurrent(v)
                   /\ \A u \in Session \ {v} : Open(u) => Apart(v, u))'
  <2>1. CASE v = t
    BY <1>2, <2>1 DEF SoundCall, Open
  <2>2. CASE v # t
    <3>1. SameSession(v)
      BY <1>1, <2>2
    <3>2. SoundCall(v)'
      BY <3>1 DEF SameSession, SoundCall, Isolation
    <3> SUFFICES ASSUME Open(v)'
                 PROVE  (/\ OwnsSource(v)
                         /\ WroteCurrent(v)
                         /\ \A u \in Session \ {v} : Open(u) => Apart(v, u))'
      BY <3>2
    <3>3. Open(v) /\ Held(v)' = Held(v) /\ Apart(t, v) /\ OwnsSource(v) /\ WroteCurrent(v)
      BY <1>5, <2>2 DEF Isolation
    <3>4. OwnsSource(v)'
      BY <1>3, <3>1, <3>3 DEF OwnsSource, Apart, SameSession, PETypeOK, TypeOK
    <3>5. \A b \in Held(v) : balance'[b] = balance[b]
      BY <1>3, <1>4, <3>3 DEF Apart, Held, Touched
    <3>6. WroteCurrent(v)'
      BY <3>1, <3>3, <3>5 DEF WroteCurrent, SameSession, Allowed
    <3>7. ASSUME NEW u \in Session \ {v}, Open(u)' PROVE Apart(v, u)'
      <4>1. u # t
        BY <1>2, <3>7 DEF Open
      <4>2. Apart(v, u) /\ Held(u)' = Held(u)
        BY <1>5, <3>3, <3>7, <4>1 DEF Isolation
      <4> QED
        BY <1>1, <3>1, <3>3, <4>1, <4>2 DEF Apart, SameSession
    <3> QED
      BY <3>4, <3>6, <3>7
  <2> QED
    BY <2>1, <2>2
<1> QED
  BY <1>6 DEF Isolation

\* No interleaving of open calls breaks the isolation each of them relies on.
THEOREM PostEntryIsolated == PESpec => []Isolation
<1>1. PEInit => Isolation
  BY DEF PEInit, Isolation, SoundCall, Open
<1>2. PETypeOK /\ Isolation /\ [PENext]_vars => Isolation'
  <2> SUFFICES ASSUME PETypeOK, Isolation, [PENext]_vars PROVE Isolation'
    OBVIOUS
  <2>1. CASE UNCHANGED vars
    BY <2>1 DEF vars, Isolation, SoundCall, OwnsSource, WroteCurrent, Apart,
                Open, Held, Touched, Allowed
  <2>2. ASSUME NEW t \in Session, Calling(t) PROVE Isolation'
    <3>1. pc'[t] # "balances" /\ SoundCall(t)'
      BY <2>2 DEF Calling, Call, RefuseUnbalanced, SoundCall, PETypeOK
    <3>2. UNCHANGED <<entry, balance>>
      BY <2>2 DEF Calling, Call, RefuseUnbalanced
    <3> QED
      BY <2>2, <3>1, <3>2, OthersAreTheSame, ClosedDisturbsNobody
  <2>3. ASSUME NEW t \in Session, FindExisting(t) \/ FindNothing(t) \/ LoseTheRace(t)
                                    \/ Overdraw(t) \/ Trouble(t)
        PROVE Isolation'
    <3>1. \A u \in Session \ {t} : SameSession(u)
      BY <2>3, OthersAreTheSame DEF Statement
    <3>2. UNCHANGED <<entry, balance>>
      BY <2>3 DEF FindExisting, FindNothing, LoseTheRace, Overdraw, Trouble,
                  Retry, GiveUp, Abandon
    <3>3. CASE \E w \in Answers : Answer(t, w)
      <4>1. pc'[t] = "idle"
        BY <3>3 DEF Answer, PETypeOK
      <4> QED
        BY <3>1, <3>2, <4>1, ClosedDisturbsNobody DEF SoundCall
    <3>4. CASE FindNothing(t)
      <4>1. pc'[t] = "insert" /\ pc[t] # "idle" /\ UNCHANGED <<move, answer>>
        BY <3>4 DEF FindNothing, Goto, PETypeOK
      <4> QED
        BY <3>1, <3>2, <4>1, ClosedDisturbsNobody DEF SoundCall, Isolation
    <3>5. CASE Retry(t)
      <4>1. pc'[t] = "lookup" /\ pc[t] # "idle" /\ UNCHANGED <<move, answer>>
        BY <3>5 DEF Retry, PETypeOK
      <4> QED
        BY <3>1, <3>2, <4>1, ClosedDisturbsNobody DEF SoundCall, Isolation
    <3> QED
      BY <2>3, <3>3, <3>4, <3>5 DEF FindExisting, LoseTheRace, Overdraw, Trouble,
                                    GiveUp, Abandon, Answers
  <2> QED
    BY <2>1, <2>2, <2>3, InsertKeepsIsolation, UpdateKeepsIsolation,
       CommitKeepsIsolation DEF PENext, Statement
<1> QED
  BY <1>1, <1>2, PostEntryTyped, PTL DEF PESpec

\* The statements, run side by side and rolled back anywhere, do what Ledger
\* promises: every step posts one entry whole, or leaves the ledger alone.
THEOREM PostEntryImplementsLedger == PESpec => AtomicPosting
<1>1. PEInit => Init
  BY DEF PEInit
<1>2. PETypeOK /\ Isolation /\ [PENext]_vars => [Next]_ledgerVars
  <2> SUFFICES ASSUME PETypeOK, Isolation, [PENext]_vars PROVE [Next]_ledgerVars
    OBVIOUS
  <2>1. CASE UNCHANGED vars
    BY <2>1 DEF vars, ledgerVars
  <2>2. ASSUME NEW t \in Session, Commit(t) PROVE Next
    <3> DEFINE m == move[t]
    <3>1. /\ pc[t] = "balances" /\ todo[t] = {}
          /\ entry' = [entry EXCEPT ![src[t]] = m]
          /\ balance' = [b \in Account |->
               IF b \in Touched(m) THEN written[t][b] ELSE balance[b]]
      BY <2>2 DEF Commit, Open
    <3>2. SoundCall(t) /\ OwnsSource(t) /\ WroteCurrent(t) /\ Held(t) = Touched(m)
      BY <3>1 DEF Isolation, Open, Held
    <3>3. m \in Movements /\ Balanced(m) /\ entry[src[t]] = Nothing /\ src[t] \in Source
      BY <3>1, <3>2 DEF SoundCall, OwnsSource, PETypeOK
    <3>4. m \in [Account -> Int]
      BY <3>3, MovementsType
    <3>5. \A b \in Account : m[b] # 0 => Allowed(b, balance[b] + m[b])
      BY <3>2 DEF WroteCurrent, Touched
    <3>6. balance' = Apply(m)
      <4> SUFFICES ASSUME NEW b \in Account PROVE balance'[b] = balance[b] + m[b]
        BY <3>1 DEF Apply
      <4>1. CASE b \in Touched(m)
        BY <3>1, <3>2, <4>1 DEF WroteCurrent
      <4>2. CASE b \notin Touched(m)
        BY <3>1, <3>4, <4>2 DEF Touched, PETypeOK, TypeOK
      <4> QED
        BY <4>1, <4>2
    <3>7. Post(src[t], m)
      BY <3>1, <3>3, <3>5, <3>6 DEF Post
    <3> QED
      BY <3>3, <3>7 DEF Next
  <2>3. ASSUME NEW t \in Session, Calling(t) \/ Statement(t) \/ Trouble(t), ~ Commit(t)
        PROVE UNCHANGED ledgerVars
    BY <2>3 DEF Calling, Call, RefuseUnbalanced, Statement, FindExisting, FindNothing,
                InsertEntry, LoseTheRace, UpdateBalance, Overdraw, Trouble, Retry,
                GiveUp, Abandon, ledgerVars
  <2> QED
    BY <2>1, <2>2, <2>3 DEF PENext
<1> QED
  BY <1>1, <1>2, PostEntryTyped, PostEntryIsolated, PTL DEF PESpec, AtomicPosting, Spec

\* However the sessions interleave, no account is overdrawn that may not be.
THEOREM PostEntrySolvent == PESpec => []Solvent
  BY PostEntryImplementsLedger, LedgerSolvent, PTL DEF AtomicPosting

\* The sorted lock order excludes deadlock: no two calls wait for one another,
\* and no three wait in a ring.
THEOREM PostEntryNoDeadlock == PESpec => []NoDeadlock
<1>1. PETypeOK /\ Isolation => NoDeadlock
  <2> SUFFICES ASSUME PETypeOK, Isolation PROVE NoDeadlock
    OBVIOUS
  <2>1. ASSUME NEW t \in Session, NEW u \in Session, NEW v \in Session,
               WaitsFor(t, u), WaitsFor(u, v)
        PROVE  /\ Open(u) /\ todo[u] # {} /\ NextAccount(u) \in Held(v)
    BY <2>1 DEF WaitsFor, Open, Held
  <2>2. ASSUME NEW t \in Session, NEW u \in Session,
               Open(t), todo[t] # {}, Open(u), todo[u] # {}, NextAccount(t) \in Held(u)
        PROVE  /\ NextAccount(t) < NextAccount(u)
               /\ NextAccount(t) \in Nat /\ NextAccount(u) \in Nat
    <3>1. NextAccount(t) \in todo[t] /\ NextAccount(u) \in todo[u]
      BY <2>2, NextAccountIsSmallest DEF PETypeOK
    <3>2. WroteCurrent(u)
      BY <2>2 DEF Isolation
    <3>3. NextAccount(t) \in Account /\ NextAccount(u) \in Account
      BY <3>1 DEF PETypeOK
    <3> QED
      BY <2>2, <3>1, <3>2, <3>3, PostEntryAssumption DEF WroteCurrent, PostEntryAssumption
  <2>3. ASSUME NEW t \in Session, NEW u \in Session,
               WaitsFor(t, u), WaitsFor(u, t)
        PROVE  FALSE
    <3>1. /\ Open(u) /\ todo[u] # {} /\ NextAccount(u) \in Held(t)
          /\ Open(t) /\ todo[t] # {} /\ NextAccount(t) \in Held(u)
      BY <2>1, <2>3
    <3>2. /\ NextAccount(t) < NextAccount(u) /\ NextAccount(u) < NextAccount(t)
          /\ NextAccount(t) \in Nat /\ NextAccount(u) \in Nat
      BY <2>2, <3>1
    <3> QED
      BY <3>2
  <2>4. ASSUME NEW t \in Session, NEW u \in Session, NEW v \in Session,
               WaitsFor(t, u), WaitsFor(u, v), WaitsFor(v, t)
        PROVE  FALSE
    <3>1. /\ Open(u) /\ todo[u] # {} /\ NextAccount(u) \in Held(v)
          /\ Open(v) /\ todo[v] # {} /\ NextAccount(v) \in Held(t)
          /\ Open(t) /\ todo[t] # {} /\ NextAccount(t) \in Held(u)
      BY <2>1, <2>4
    <3>2. /\ NextAccount(t) < NextAccount(u)
          /\ NextAccount(u) < NextAccount(v) /\ NextAccount(v) < NextAccount(t)
          /\ NextAccount(t) \in Nat /\ NextAccount(u) \in Nat /\ NextAccount(v) \in Nat
      BY <2>2, <3>1
    <3> QED
      BY <3>2
  <2> QED
    BY <2>3, <2>4 DEF NoDeadlock
<1> QED
  BY <1>1, PostEntryTyped, PostEntryIsolated, PTL

\* A call that began its transaction and was refused leaves its source unposted:
\* whoever loses a race is answered with the winner's entry instead.
THEOREM PostEntryRefusal == PESpec => RefusalMeansNotPosted
<1>1. PETypeOK /\ Isolation /\ [PENext]_vars =>
        [\A t \in Session :
           pc[t] # "idle" /\ answer'[t] = "refused" => entry'[src[t]] = Nothing]_vars
  <2> SUFFICES ASSUME PETypeOK, Isolation, PENext, NEW t \in Session,
                      pc[t] # "idle", answer'[t] = "refused"
               PROVE  entry'[src[t]] = Nothing
    OBVIOUS
  <2>1. PICK u \in Session : Calling(u) \/ Statement(u) \/ Trouble(u)
    BY DEF PENext
  <2>2. answer[t] = "none"
    BY DEF Isolation, SoundCall
  <2>3. u = t
    BY <2>1, <2>2, OthersAreTheSame DEF SameSession
  <2>4. ASSUME NEW w, Answer(t, w) PROVE w = "refused"
    BY <2>4 DEF Answer, PETypeOK
  <2>5. Overdraw(t)
    <3>1. ~ Calling(t)
      BY DEF Calling, Call, RefuseUnbalanced
    <3>2. CASE answer' = answer
      BY <2>2, <3>2
    <3>3. CASE Statement(t)
      BY <2>4, <3>2, <3>3 DEF Statement, FindExisting, FindNothing, InsertEntry, Goto,
                              LoseTheRace, UpdateBalance, Commit
    <3>4. CASE Trouble(t)
      BY <2>4, <3>2, <3>4 DEF Trouble, Retry, GiveUp, Abandon
    <3> QED
      BY <2>1, <2>3, <3>1, <3>3, <3>4
  <2>6. OwnsSource(t) /\ entry' = entry
    BY <2>5 DEF Overdraw, Isolation
  <2> QED
    BY <2>6 DEF OwnsSource
<1> QED
  BY <1>1, PostEntryTyped, PostEntryIsolated, PTL DEF PESpec, RefusalMeansNotPosted

-----------------------------------------------------------------------------
(* The snapshots                                                           *)

\* Rows of balance_snapshot name entries that are posted.
Named ==
  \A a \in Account : \A i \in 1..Len(history[a]) : entry[history[a][i].by] # Nothing

\* The ledger's rows change in a commit only.
LEMMA OnlyCommitPosts ==
  ASSUME [PENext]_vars
  PROVE  (\E t \in Session : Commit(t)) \/ UNCHANGED <<entry, balance, history>>
BY DEF PENext, vars, Calling, Call, RefuseUnbalanced, Statement, FindExisting, FindNothing,
       InsertEntry, LoseTheRace, UpdateBalance, Overdraw, Trouble, Retry, GiveUp, Abandon

\* However the sessions interleave, the history of an account adds up, row by row,
\* to its balance.
THEOREM PostEntryExplained == PESpec => []SnapshotsExplainBalance
<1> DEFINE P == SnapshotsExplainBalance /\ Named
<1>1. PEInit => P
  BY DEF PEInit, Init, Nothing, SnapshotsExplainBalance, Named
<1>2. PETypeOK /\ Isolation /\ P /\ [PENext]_vars => P'
  <2> SUFFICES ASSUME PETypeOK, Isolation, P, [PENext]_vars PROVE P'
    OBVIOUS
  <2>1. CASE UNCHANGED <<entry, balance, history>>
    BY <2>1 DEF SnapshotsExplainBalance, Named
  <2>2. ASSUME NEW t \in Session, Commit(t) PROVE P'
    <3>1. /\ entry' = [entry EXCEPT ![src[t]] = move[t]]
          /\ src[t] \in Source /\ entry[src[t]] = Nothing
          /\ Open(t) /\ todo[t] = {} /\ Held(t) = Touched(move[t])
      BY <2>2 DEF Commit, PETypeOK, Isolation, OwnsSource, Held
    <3>2. /\ entry \in [Source -> [Account -> Int]] /\ move[t] \in [Account -> Int]
          /\ balance \in [Account -> Int]
      BY MovementsType DEF PETypeOK, TypeOK
    <3>3. move[t] # Nothing
      BY <3>1, LedgerAssumption DEF Isolation, SoundCall, Open, LedgerAssumption
    <3>4. ASSUME NEW a \in Account
          PROVE  /\ history[a] \in Seq(Snapshot) /\ Len(history[a]) \in Nat
                 /\ \A i \in 1..Len(history[a]) :
                      /\ history[a][i].by \in Source /\ history[a][i].by # src[t]
                      /\ history[a][i].after \in Int
                      /\ entry'[history[a][i].by] = entry[history[a][i].by]
      <4>1. history[a] \in Seq(Snapshot)
        BY DEF PETypeOK
      <4>2. \A i \in 1..Len(history[a]) : history[a][i] \in Snapshot
        BY <4>1
      <4>3. \A i \in 1..Len(history[a]) :
              history[a][i].by \in Source /\ history[a][i].after \in Int
        BY <4>2 DEF Snapshot
      <4>4. \A i \in 1..Len(history[a]) : history[a][i].by # src[t]
        BY <3>1 DEF Named
      <4>5. Len(history[a]) \in Nat
        BY <4>1
      <4>6. \A s \in Source : s # src[t] => entry'[s] = entry[s]
        BY <3>1, <3>2
      <4> QED
        BY <4>1, <4>3, <4>4, <4>5, <4>6
    <3>5. ASSUME NEW a \in Account, a \notin Touched(move[t])
          PROVE  history'[a] = history[a] /\ balance'[a] = balance[a]
      BY <2>2, <3>5 DEF Commit
    <3> DEFINE row(a) == [after |-> written[t][a], by |-> src[t]]
    <3>6. ASSUME NEW a \in Account, a \in Touched(move[t])
          PROVE  /\ history'[a] = Append(history[a], row(a)) /\ balance'[a] = row(a).after
                 /\ row(a).after = balance[a] + move[t][a] /\ row(a).by = src[t]
      BY <2>2, <3>1, <3>6 DEF Commit, Isolation, WroteCurrent
    <3> HIDE DEF row
    <3>7. ASSUME NEW a \in Account, a \in Touched(move[t])
          PROVE  /\ Len(history'[a]) = Len(history[a]) + 1
                 /\ \A i \in 1..Len(history[a]) : history'[a][i] = history[a][i]
                 /\ history'[a][Len(history[a]) + 1] = row(a)
      BY <3>4, <3>6, <3>7
    <3>8. Named'
      <4> SUFFICES ASSUME NEW a \in Account, NEW i \in 1..Len(history'[a])
                   PROVE  entry'[history'[a][i].by] # Nothing
        BY DEF Named
      <4>1. CASE a \notin Touched(move[t])
        BY <3>4, <3>5, <4>1 DEF Named
      <4>2. CASE a \in Touched(move[t]) /\ i \in 1..Len(history[a])
        <5>1. history'[a][i] = history[a][i]
          BY <3>7, <4>2
        <5>2. entry[history[a][i].by] # Nothing /\ entry'[history[a][i].by] = entry[history[a][i].by]
          BY <3>4, <4>2 DEF Named
        <5> QED
          BY <5>1, <5>2
      <4>3. CASE a \in Touched(move[t]) /\ i = Len(history[a]) + 1
        BY <3>1, <3>2, <3>3, <3>6, <3>7, <4>3
      <4> QED
        BY <3>4, <3>7, <4>1, <4>2, <4>3
    <3>9. ASSUME NEW a \in Account
          PROVE  /\ \A i \in 1..Len(history'[a]) :
                      history'[a][i].after =
                        (IF i = 1 THEN 0 ELSE history'[a][i - 1].after) + entry'[history'[a][i].by][a]
                 /\ balance'[a] =
                      IF Len(history'[a]) + 1 = 1 THEN 0 ELSE history'[a][Len(history'[a])].after
      <4> DEFINE h == history[a]
      <4>1. /\ \A i \in 1..Len(h) :
                 h[i].after = (IF i = 1 THEN 0 ELSE h[i - 1].after) + entry[h[i].by][a]
            /\ balance[a] = IF Len(h) + 1 = 1 THEN 0 ELSE h[Len(h)].after
        BY <3>4 DEF SnapshotsExplainBalance
      <4>2. CASE a \notin Touched(move[t])
        <5>1. \A i \in 1..Len(h) : entry'[h[i].by] = entry[h[i].by]
          BY <3>4
        <5>2. history'[a] = h /\ balance'[a] = balance[a]
          BY <3>5, <4>2
        <5> QED
          BY <4>1, <5>1, <5>2
      <4>3. CASE a \in Touched(move[t])
        <5>1. ASSUME NEW i \in 1..Len(h)
              PROVE  history'[a][i].after =
                       (IF i = 1 THEN 0 ELSE history'[a][i - 1].after) + entry'[history'[a][i].by][a]
          <6>1. /\ history'[a][i] = h[i] /\ entry'[h[i].by] = entry[h[i].by]
                /\ i # 1 => history'[a][i - 1] = h[i - 1]
            BY <3>4, <3>7, <4>3
          <6> QED
            BY <4>1, <6>1
        <5>2. LET i == Len(h) + 1
              IN  history'[a][i].after =
                    (IF i = 1 THEN 0 ELSE history'[a][i - 1].after) + entry'[history'[a][i].by][a]
          <6>1. entry'[src[t]][a] = move[t][a]
            BY <3>1, <3>2
          <6> QED
            BY <3>4, <3>6, <3>7, <4>1, <4>3, <6>1
        <5>3. Len(h) \in Nat /\ Len(history'[a]) = Len(h) + 1
          BY <3>4, <3>7, <4>3
        <5>4. balance'[a] = history'[a][Len(h) + 1].after
          BY <3>6, <3>7, <4>3
        <5>5. \A i \in 1..Len(h) + 1 : i \in 1..Len(h) \/ i = Len(h) + 1
          BY <5>3
        <5> HIDE DEF h
        <5> QED
          BY <5>1, <5>2, <5>3, <5>4, <5>5
      <4> QED
        BY <4>2, <4>3
    <3>10. SnapshotsExplainBalance'
      <4>1. \A a \in Account : Len(history'[a]) \in Nat
        BY <3>4, <3>5, <3>7
      <4>2. ASSUME NEW a \in Account
            PROVE  history'[a][Len(history'[a]) + 1 - 1] = history'[a][Len(history'[a])]
        BY <4>1
      <4> QED
        BY <3>9, <4>2 DEF SnapshotsExplainBalance
    <3> QED
      BY <3>8, <3>10
  <2> QED
    BY <2>1, <2>2, OnlyCommitPosts
<1> QED
  BY <1>1, <1>2, PostEntryTyped, PostEntryIsolated, PTL DEF PESpec

-----------------------------------------------------------------------------
(* The reconciliation                                                      *)

\* A ledger whose balances and snapshots are explained verifies, account by
\* account.
LEMMA ExplainedVerifies ==
  ASSUME PETypeOK, Reconciled, SnapshotsExplainBalance, NEW a \in Account
  PROVE  VerifyBalance(a)
<1>1. balance[a] = Computed(a)
  BY DEF Reconciled
<1>2. ASSUME history[a] # <<>> PROVE LatestSnapshot(a) = balance[a]
  <2>1. history[a] \in Seq(Snapshot)
    BY DEF PETypeOK
  <2>2. Len(history[a]) \in Nat /\ Len(history[a]) # 0
    BY <1>2, <2>1
  <2>3. Len(history[a]) + 1 # 1 /\ Len(history[a]) + 1 - 1 = Len(history[a])
    BY <2>2
  <2>4. balance[a] = IF Len(history[a]) + 1 = 1 THEN 0
                     ELSE history[a][Len(history[a]) + 1 - 1].after
    BY DEF SnapshotsExplainBalance
  <2> QED
    BY <2>3, <2>4 DEF LatestSnapshot
<1> QED
  BY <1>1, <1>2 DEF VerifyBalance

\* Between any two statements of any sessions, the reconciliation finds nothing.
THEOREM ReportsAreEmptyHolds == PESpec => []ReportsAreEmpty
<1>1. PETypeOK /\ Reconciled /\ SnapshotsExplainBalance => ReportsAreEmpty
  BY ExplainedVerifies
  DEF ReportsAreEmpty, CheckLedgerHealth, FindUnbalancedEntries, Reconciled
<1>2. PESpec => []Reconciled
  BY PostEntryImplementsLedger, LedgerReconciled, PTL DEF AtomicPosting
<1> QED
  BY <1>1, <1>2, PostEntryTyped, PostEntryExplained, PTL

-----------------------------------------------------------------------------
(* The audit log                                                           *)

\* One transaction at a time holds the lock.
Mutual == \A v, w \in Writer :
  phase[v] \in {"reading", "inserting", "inserted"} /\ phase[w] \in {"reading", "inserting", "inserted"}
    => v = w

\* As long as the trigger holds, what is being written comes after all there is.
Fresh ==
  \A w \in Writer : phase[w] = "inserted" =>
    /\ seq[w] \in 1..nextSeq - 1
    /\ \A r \in recorded : r.seq < seq[w]
    /\ \A r \in rows : r.seq # seq[w]

\* What was recorded has its hash, and a position names one row.
Stored ==
  /\ \A r \in recorded : r.hash = EventHash(r.prev, r.event)
  /\ \A r, q \in rows : r.seq = q.seq => r = q
  /\ ~bypassed => rows = recorded

\* The row with link p, which comes after those of S, carries the hash of the one
\* before it.
Linked(S, p, r) ==
  \/ p = Genesis /\ \A o \in S : o.seq >= r
  \/ \E o \in S : p = o.hash /\ o.seq < r /\ \A m \in S : m.seq <= o.seq \/ m.seq >= r

\* The recorded rows are a chain, and the row that is being written links to the
\* newest of them for as long as the trigger holds.
Tight ==
  /\ \A q \in recorded : Linked(recorded, q.prev, q.seq)
  /\ ~bypassed => \A w \in Writer : phase[w] \in {"inserting", "inserted"} =>
       Linked(recorded, prev[w], nextSeq)

Inv == AuditTypeOK /\ Mutual /\ Fresh /\ Stored

-----------------------------------------------------------------------------
\* The steps of a writer, and a change past the trigger.
LEMMA NextCases ==
  ASSUME AuditNext
  PROVE \/ \E w \in Writer, e \in Event : CallRecord(w, e)
        \/ \E w \in Writer : Lock(w) \/ ReadLast(w) \/ Insert(w)
        \/ \E w \in Writer : InsertFails(w) \/ CommitRow(w) \/ Rollback(w)
        \/ Bypass
  BY DEF AuditNext

\* The variables have their types, one transaction holds the lock, what is being
\* written comes after what is recorded, and that is what the log holds for as
\* long as the trigger does.
THEOREM AuditTyped ==
  AuditSpec => []Inv
<1>1. AuditInit => Inv
  <2> SUFFICES ASSUME AuditInit PROVE Inv
    OBVIOUS
  <2>1. AuditTypeOK
    <3>1. seq \in [Writer -> Nat] /\ DOMAIN prev = Writer
      BY DEF AuditInit
    <3>2. phase \in [Writer -> {"idle", "locking", "reading", "inserting", "inserted"}]
      BY DEF AuditInit
    <3>3. rows = {} /\ recorded = {} /\ nextSeq = 1 /\ event \in [Writer -> Event]
      BY DEF AuditInit
    <3>4. bypassed \in BOOLEAN
      BY Zenon DEF AuditInit
    <3> QED
      BY <3>1, <3>2, <3>3, <3>4 DEF AuditTypeOK
  <2>2. Mutual /\ Fresh /\ Stored
    BY DEF AuditInit, Mutual, Fresh, Stored
  <2> QED
    BY <2>1, <2>2 DEF Inv
<1>2. Inv /\ [AuditNext]_auditVars => Inv'
  <2> SUFFICES ASSUME Inv, [AuditNext]_auditVars PROVE Inv'
    OBVIOUS
  <2> USE DEF Inv
  <2>1. CASE UNCHANGED auditVars
    BY <2>1 DEF auditVars, chain, AuditTypeOK, Mutual, Fresh, Stored
  <2>2. ASSUME NEW w \in Writer, NEW e \in Event, CallRecord(w, e) PROVE Inv'
    <3>1. AuditTypeOK'
      BY <2>2 DEF CallRecord, Goes, AuditTypeOK, chain
    <3>2. Mutual'
      BY <2>2 DEF CallRecord, Goes, AuditTypeOK, Mutual
    <3>3. Fresh'
      BY <2>2 DEF CallRecord, Goes, AuditTypeOK, chain, Fresh
    <3>4. Stored'
      BY <2>2 DEF CallRecord, chain, Stored
    <3> QED
      BY <3>1, <3>2, <3>3, <3>4
  <2>3. ASSUME NEW w \in Writer, Lock(w) PROVE Inv'
    <3>1. AuditTypeOK'
      BY <2>3 DEF Lock, Goes, AuditTypeOK, chain
    <3>2. Mutual'
      BY <2>3 DEF Lock, Goes, AuditTypeOK, Mutual, Holding
    <3>3. Fresh'
      BY <2>3 DEF Lock, Goes, AuditTypeOK, chain, Fresh
    <3>4. Stored'
      BY <2>3 DEF Lock, chain, Stored
    <3> QED
      BY <3>1, <3>2, <3>3, <3>4
  <2>4. ASSUME NEW w \in Writer, ReadLast(w) PROVE Inv'
    <3>0. DOMAIN prev' = Writer
      BY <2>4 DEF ReadLast, AuditTypeOK
    <3>1. AuditTypeOK'
      BY <2>4, <3>0 DEF ReadLast, Goes, AuditTypeOK, chain
    <3>2. Mutual'
      BY <2>4 DEF ReadLast, Goes, AuditTypeOK, Mutual
    <3>3. Fresh'
      BY <2>4 DEF ReadLast, Goes, AuditTypeOK, chain, Fresh
    <3>4. Stored'
      BY <2>4 DEF ReadLast, chain, Stored
    <3> QED
      BY <3>1, <3>2, <3>3, <3>4
  <2>5. ASSUME NEW w \in Writer, Insert(w) PROVE Inv'
    <3>1. AuditTypeOK'
      BY <2>5 DEF Insert, Goes, AuditTypeOK
    <3>2. Mutual'
      BY <2>5 DEF Insert, Goes, AuditTypeOK, Mutual
    <3>3. Fresh'
      <4>1. \A v \in Writer : phase[v] = "inserted" => FALSE
        BY <2>5 DEF Insert, Goes, Mutual
      <4>2. /\ seq'[w] \in 1..nextSeq' - 1 /\ \A r \in recorded : r.seq < seq'[w]
            /\ \A r \in rows : r.seq # seq'[w]
        BY <2>5 DEF Insert, AuditTypeOK, Taken
      <4>3. \A v \in Writer : phase'[v] = "inserted" => v = w
        BY <2>5, <4>1 DEF Insert, Goes, AuditTypeOK
      <4> QED
        BY <2>5, <4>2, <4>3 DEF Insert, Fresh
    <3>4. Stored'
      BY <2>5 DEF Insert, Stored
    <3> QED
      BY <3>1, <3>2, <3>3, <3>4
  <2>6. ASSUME NEW w \in Writer, InsertFails(w) PROVE Inv'
    <3>1. AuditTypeOK'
      BY <2>6 DEF InsertFails, Goes, AuditTypeOK
    <3>2. Mutual'
      BY <2>6 DEF InsertFails, Goes, AuditTypeOK, Mutual
    <3>3. Fresh'
      BY <2>6 DEF InsertFails, Goes, AuditTypeOK, Fresh
    <3>4. Stored'
      BY <2>6 DEF InsertFails, Stored
    <3> QED
      BY <3>1, <3>2, <3>3, <3>4
  <2>7. ASSUME NEW w \in Writer, CommitRow(w) PROVE Inv'
    <3> DEFINE r0 == Row(prev[w], event[w], seq[w])
    <3>1. /\ rows' = rows \cup {r0}
          /\ recorded' = IF bypassed THEN recorded ELSE recorded \cup {r0}
          /\ phase[w] = "inserted" /\ phase' = [phase EXCEPT ![w] = "idle"]
          /\ UNCHANGED <<nextSeq, bypassed, event, prev, seq>>
      BY <2>7 DEF CommitRow, Goes
    <3>2. /\ IsRow(r0) /\ r0.seq = seq[w] /\ r0.event = event[w] /\ r0.prev = prev[w]
          /\ r0.hash = EventHash(prev[w], event[w])
      BY DEF Row, IsRow
    <3>3. /\ seq[w] \in 1..nextSeq - 1 /\ \A r \in recorded : r.seq < seq[w]
          /\ \A r \in rows : r.seq # seq[w]
      BY <3>1 DEF Fresh
    <3> HIDE DEF r0
    <3>4. recorded' \subseteq recorded \cup {r0}
      BY <3>1
    <3>5. AuditTypeOK'
      <4>1. \A r \in recorded' : r.seq \in 1..nextSeq' - 1
        BY <3>1, <3>2, <3>3, <3>4 DEF AuditTypeOK
      <4>2. \A r \in rows' \cup recorded' : IsRow(r) /\ r.seq \in Int /\ r.event \in Event
        BY <3>1, <3>2, <3>3, <3>4 DEF AuditTypeOK
      <4> QED
        BY <3>1, <4>1, <4>2 DEF AuditTypeOK
    <3>6. Mutual'
      BY <3>1 DEF AuditTypeOK, Mutual
    <3>7. Fresh'
      <4>1. \A v \in Writer : phase'[v] # "inserted"
        BY <3>1 DEF AuditTypeOK, Mutual
      <4> QED
        BY <4>1 DEF Fresh
    <3>8. Stored'
      <4>1. \A r, q \in rows' : r.seq = q.seq => r = q
        BY <3>1, <3>2, <3>3 DEF Stored
      <4> QED
        BY <3>1, <3>2, <3>4, <4>1 DEF Stored
    <3> QED
      BY <3>5, <3>6, <3>7, <3>8
  <2>8. ASSUME NEW w \in Writer, Rollback(w) PROVE Inv'
    <3>1. AuditTypeOK'
      BY <2>8 DEF Rollback, AuditTypeOK, chain
    <3>2. Mutual'
      BY <2>8 DEF Rollback, AuditTypeOK, Mutual
    <3>3. Fresh'
      BY <2>8 DEF Rollback, AuditTypeOK, chain, Fresh
    <3>4. Stored'
      BY <2>8 DEF Rollback, chain, Stored
    <3> QED
      BY <3>1, <3>2, <3>3, <3>4
  <2>9. ASSUME Bypass PROVE Inv'
    <3>1. /\ bypassed' = TRUE
          /\ UNCHANGED <<nextSeq, recorded, phase, event, prev, seq>>
          /\ \A w \in Writer : phase[w] # "inserted"
          /\ rows' \in SUBSET [seq : Int, event : Event, prev : Hash, hash : Hash]
          /\ \A r, q \in rows' : r.seq = q.seq => r = q
      BY <2>9 DEF Bypass
    <3>2. \A r \in rows' : IsRow(r) /\ r.seq \in Int /\ r.event \in Event
      BY <3>1 DEF IsRow
    <3>3. AuditTypeOK'
      BY <3>1, <3>2 DEF AuditTypeOK
    <3>4. Mutual' /\ Fresh' /\ Stored'
      BY <3>1 DEF Mutual, Fresh, Stored
    <3> QED
      BY <3>3, <3>4
  <2> QED
    BY <2>1, <2>2, <2>3, <2>4, <2>5, <2>6, <2>7, <2>8, <2>9, NextCases
<1> QED
  BY <1>1, <1>2, PTL DEF AuditSpec

-----------------------------------------------------------------------------
\* Rows are added at the end: positions are in the order of the commits.
THEOREM AppendsAtTheEndHolds == AuditSpec => AppendsAtTheEnd
<1> DEFINE P == \A q \in recorded' \ recorded : \A r \in recorded : r.seq < q.seq
<1>1. Inv /\ [AuditNext]_auditVars => [P]_auditVars
  <2> SUFFICES ASSUME Inv, AuditNext PROVE P
    BY DEF auditVars
  <2>1. ASSUME NEW w \in Writer, CommitRow(w) PROVE P
    <3>1. recorded' \ recorded \subseteq {Row(prev[w], event[w], seq[w])} /\ phase[w] = "inserted"
      BY <2>1 DEF CommitRow, Goes
    <3> QED
      BY <3>1 DEF Row, Inv, Fresh
  <2>2. ~(\E w \in Writer : CommitRow(w)) => recorded' = recorded
    BY NextCases DEF CallRecord, Lock, ReadLast, Insert, InsertFails, Rollback, Bypass, chain
  <2> QED
    BY <2>1, <2>2
<1> QED
  BY <1>1, AuditTyped, PTL DEF AuditSpec, AppendsAtTheEnd

-----------------------------------------------------------------------------
\* A step that records nothing leaves the chain as it is, and the row that is
\* being written as well if it moves neither link nor lock.
LEMMA TightKept ==
  ASSUME Inv, Tight, recorded' = recorded, nextSeq' >= nextSeq, nextSeq' \in Nat,
         ~bypassed' => ~bypassed,
         \A w \in Writer : phase'[w] \in {"inserting", "inserted"} =>
           phase[w] \in {"inserting", "inserted"} /\ prev'[w] = prev[w]
  PROVE  Tight'
<1>1. \A r \in recorded : r.seq \in Nat /\ r.seq < nextSeq
  BY DEF Inv, AuditTypeOK
<1>2. nextSeq \in Nat
  BY DEF Inv, AuditTypeOK
<1>3. \A w \in Writer : ~bypassed' /\ phase'[w] \in {"inserting", "inserted"} =>
        Linked(recorded, prev[w], nextSeq)
  BY DEF Tight
<1>4. \A p : Linked(recorded, p, nextSeq) => Linked(recorded, p, nextSeq')
  BY <1>1, <1>2 DEF Linked
<1> QED
  BY <1>3, <1>4 DEF Tight

\* The recorded rows are a chain.
THEOREM AuditChained == AuditSpec => []Tight
<1>1. AuditInit => Tight
  BY DEF AuditInit, Tight
<1>2. Inv /\ Tight /\ [AuditNext]_auditVars => Tight'
  <2> SUFFICES ASSUME Inv, Tight, [AuditNext]_auditVars PROVE Tight'
    OBVIOUS
  <2> USE DEF Inv
  <2>0. nextSeq \in Nat /\ nextSeq >= nextSeq /\ nextSeq + 1 >= nextSeq /\ nextSeq + 1 \in Nat
    BY DEF AuditTypeOK
  <2>1. CASE UNCHANGED auditVars
    BY <2>0, <2>1, TightKept DEF auditVars, chain
  <2>2. ASSUME NEW w \in Writer, NEW e \in Event, CallRecord(w, e) PROVE Tight'
    BY <2>0, <2>2, TightKept DEF CallRecord, Goes, AuditTypeOK, chain
  <2>3. ASSUME NEW w \in Writer, Lock(w) PROVE Tight'
    BY <2>0, <2>3, TightKept DEF Lock, Goes, AuditTypeOK, chain
  <2>4. ASSUME NEW w \in Writer, ReadLast(w) PROVE Tight'
    <3>1. /\ recorded' = recorded /\ nextSeq' = nextSeq /\ bypassed' = bypassed
          /\ phase[w] = "reading" /\ phase' = [phase EXCEPT ![w] = "inserting"]
      BY <2>4 DEF ReadLast, Goes, chain
    <3>2. \A v \in Writer : phase'[v] \in {"inserting", "inserted"} => v = w
      BY <3>1 DEF AuditTypeOK, Mutual
    <3>3. ~bypassed => Linked(recorded, prev'[w], nextSeq)
      <4> SUFFICES ASSUME ~bypassed PROVE Linked(recorded, prev'[w], nextSeq)
        OBVIOUS
      <4>1. rows = recorded /\ \A r \in recorded : r.seq \in Nat /\ r.seq < nextSeq
        BY DEF Stored, AuditTypeOK
      <4>2. \/ rows = {} /\ prev'[w] = Genesis
            \/ \E r \in rows : Newest(r) /\ prev'[w] = r.hash
        BY <2>4 DEF ReadLast, AuditTypeOK
      <4> QED
        BY <4>1, <4>2 DEF Linked, Newest
    <3> QED
      BY <3>1, <3>2, <3>3 DEF Tight
  <2>5. ASSUME NEW w \in Writer, Insert(w) PROVE Tight'
    BY <2>0, <2>5, TightKept DEF Insert, Goes, AuditTypeOK
  <2>6. ASSUME NEW w \in Writer, InsertFails(w) PROVE Tight'
    BY <2>0, <2>6, TightKept DEF InsertFails, Goes, AuditTypeOK
  <2>7. ASSUME NEW w \in Writer, CommitRow(w) PROVE Tight'
    <3> DEFINE r0 == Row(prev[w], event[w], seq[w])
    <3>1. /\ recorded' = IF bypassed THEN recorded ELSE recorded \cup {r0}
          /\ phase[w] = "inserted" /\ phase' = [phase EXCEPT ![w] = "idle"]
          /\ UNCHANGED <<nextSeq, bypassed, prev>>
      BY <2>7 DEF CommitRow, Goes
    <3>2. r0.seq = seq[w] /\ r0.prev = prev[w]
      BY DEF Row
    <3> HIDE DEF r0
    <3>3. CASE bypassed
      BY <2>0, <3>1, <3>3, TightKept DEF AuditTypeOK
    <3>4. CASE ~bypassed
      <4>1. /\ seq[w] \in Nat /\ seq[w] < nextSeq
            /\ \A r \in recorded : r.seq \in Nat /\ r.seq < seq[w]
        BY <3>1 DEF Fresh, AuditTypeOK
      <4>2. Linked(recorded, prev[w], nextSeq)
        BY <3>1, <3>4 DEF Tight
      <4>3. Linked(recorded \cup {r0}, r0.prev, r0.seq)
        BY <2>0, <3>2, <4>1, <4>2 DEF Linked
      <4>4. ASSUME NEW q \in recorded PROVE Linked(recorded \cup {r0}, q.prev, q.seq)
        <5>1. Linked(recorded, q.prev, q.seq)
          BY DEF Tight
        <5> QED
          BY <3>2, <4>1, <5>1 DEF Linked
      <4>5. \A v \in Writer : phase'[v] \notin {"inserting", "inserted"}
        BY <3>1 DEF AuditTypeOK, Mutual
      <4> QED
        BY <3>1, <3>4, <4>3, <4>4, <4>5 DEF Tight
    <3> QED
      BY <3>3, <3>4
  <2>8. ASSUME NEW w \in Writer, Rollback(w) PROVE Tight'
    BY <2>0, <2>8, TightKept DEF Rollback, AuditTypeOK, chain
  <2>9. ASSUME Bypass PROVE Tight'
    BY <2>0, <2>9, TightKept DEF Bypass
  <2> QED
    BY <2>1, <2>2, <2>3, <2>4, <2>5, <2>6, <2>7, <2>8, <2>9, NextCases
<1> QED
  BY <1>1, <1>2, AuditTyped, PTL DEF AuditSpec

\* No alarm on honest data: as long as the trigger has held, verify_chain finds
\* nothing, wherever it starts, after any interleaving and any rollbacks.
THEOREM HonestLogVerifiesHolds == AuditSpec => []HonestLogVerifies
<1>1. Inv /\ Tight => HonestLogVerifies
  <2> SUFFICES ASSUME Inv, Tight, ~bypassed, NEW from \in 0..nextSeq, NEW q \in rows
               PROVE ~Broken(q, from)
    BY DEF HonestLogVerifies, VerifyChain
  <2>1. rows = recorded /\ q.hash = EventHash(q.prev, q.event)
    BY DEF Inv, Stored
  <2>2. ASSUME NEW r \in rows, NextTo(r, q) PROVE q.prev = r.hash
    <3>1. Linked(recorded, q.prev, q.seq)
      BY <2>1 DEF Tight
    <3>2. \A m \in recorded : m.seq \in Nat
      BY DEF Inv, AuditTypeOK
    <3>3. r \in recorded /\ r.seq < q.seq /\ q \in recorded
          /\ \A m \in recorded : ~(r.seq < m.seq /\ m.seq < q.seq)
      BY <2>1, <2>2 DEF NextTo, NextIn
    <3>4. \A m \in recorded : m.seq = r.seq => m = r
      BY <2>1 DEF Inv, Stored
    <3> QED
      BY <3>1, <3>2, <3>3, <3>4 DEF Linked
  <2> QED
    BY <2>1, <2>2 DEF Broken
<1> QED
  BY <1>1, AuditTyped, AuditChained, PTL

-----------------------------------------------------------------------------
\* A set of rows that is not empty has a first one.
LEMMA FirstExists ==
  ASSUME NEW S, S # {}, \A r \in S : r.seq \in Nat
  PROVE  \E q \in S : \A r \in S : q.seq <= r.seq
<1> DEFINE Seqs == {r.seq : r \in S}
<1>1. Seqs \in SUBSET Nat /\ Seqs # {}
  OBVIOUS
<1>2. PICK n \in Seqs : \A m \in Seqs : n <= m
  <2> HIDE DEF Seqs
  <2> QED
    BY <1>1, LeastNat
<1> QED
  BY <1>2

\* A set of rows that is not empty and ends somewhere has a last one.
LEMMA LastExists ==
  ASSUME NEW S, S # {}, NEW n \in Nat, \A r \in S : r.seq \in 0..n
  PROVE  \E q \in S : \A r \in S : r.seq <= q.seq
<1> DEFINE Left == {n - r.seq : r \in S}
<1>1. Left \in SUBSET Nat /\ Left # {}
  OBVIOUS
<1>2. PICK m \in Left : \A k \in Left : m <= k
  <2> HIDE DEF Left
  <2> QED
    BY <1>1, LeastNat
<1>3. PICK q \in S : m = n - q.seq
  BY <1>2
<1>4. ASSUME NEW r \in S PROVE r.seq <= q.seq
  <2>1. n - q.seq <= n - r.seq
    BY <1>2, <1>3
  <2> QED
    BY <2>1
<1> QED
  BY <1>4

\* verify_chain answers nothing only when there is nothing to find.
LEMMA FindsWhatThereIs ==
  ASSUME Inv, VerifyChain(0) = {}, NEW q \in rows, q.seq > 0
  PROVE  ~Broken(q, 0)
<1> DEFINE bad == {r \in rows : r.seq > 0 /\ Broken(r, 0)}
<1>1. \A r \in rows : r.seq \in Int
  BY DEF Inv, AuditTypeOK
<1>2. bad = {}
  <2> SUFFICES ASSUME bad # {} PROVE FALSE
    OBVIOUS
  <2>1. \A r \in bad : r.seq \in Nat
    BY <1>1
  <2>2. VerifyChain(0) = {r \in bad : \A m \in bad : r.seq <= m.seq}
    BY DEF VerifyChain
  <2> HIDE DEF bad
  <2>3. \E r \in bad : \A m \in bad : r.seq <= m.seq
    BY <2>1, FirstExists
  <2> QED
    BY <2>2, <2>3
<1> QED
  BY <1>2

\* In a log that verifies, the row before one that says what p says says what is
\* recorded before p.
LEMMA BeforeIt ==
  ASSUME Inv, Tight, VerifyChain(0) = {},
         NEW q \in rows, NEW p \in recorded, Says(q, p),
         NEW r \in rows, r.seq > 0, NextTo(r, q)
  PROVE  \E o \in recorded : Says(r, o) /\ NextIn(recorded, o, p)
<1>1. r.seq \in Int /\ q.seq \in Int /\ r.seq < q.seq
  BY DEF Inv, AuditTypeOK, NextTo, NextIn
<1>2. q.prev = r.hash
  BY <1>1, FindsWhatThereIs DEF Broken
<1>3. r.hash = EventHash(r.prev, r.event)
  BY FindsWhatThereIs DEF Broken
<1>4. p.prev = <<r.prev, Text(r.event)>>
  BY <1>2, <1>3 DEF Says, EventHash
<1>5. p.prev # Genesis
  BY <1>4 DEF Genesis
<1>6. PICK o \in recorded : /\ p.prev = o.hash /\ o.seq < p.seq
                            /\ \A m \in recorded : m.seq <= o.seq \/ m.seq >= p.seq
  BY <1>5 DEF Tight, Linked
<1>7. o.hash = <<o.prev, Text(o.event)>>
  BY DEF Inv, Stored, EventHash
<1>8. o.prev = r.prev /\ Text(o.event) = Text(r.event)
  BY <1>4, <1>6, <1>7
<1>9. Says(r, o)
  BY <1>2, <1>6, <1>8 DEF Says
<1>10. NextIn(recorded, o, p)
  <2>1. \A m \in recorded : m.seq \in Int
    BY DEF Inv, AuditTypeOK
  <2> QED
    BY <1>6, <2>1 DEF NextIn
<1> QED
  BY <1>9, <1>10

\* Two rows that match their hash and have the same one say the same, as the hash
\* of the row before has a fixed width.
LEMMA SameTextSays ==
  ASSUME NEW r, NEW o, r.hash = o.hash,
         r.hash = <<r.prev, Text(r.event)>>, o.hash = <<o.prev, Text(o.event)>>
  PROVE  Says(r, o)
<1>1. <<r.prev, Text(r.event)>> = <<o.prev, Text(o.event)>>
  OBVIOUS
<1>2. r.prev = o.prev /\ Text(r.event) = Text(o.event)
  BY <1>1
<1> QED
  BY <1>2 DEF Says

\* A log that verifies and that still has a head which was published is whole up
\* to it, whatever was done to its rows and their hashes.  By the last of the
\* rows up to the head that says nothing that is recorded: the row after it does,
\* and links to it.
THEOREM AnchoredLogIsWholeHolds == AuditSpec => []AnchoredLogIsWhole
<1>1. Inv /\ Tight => AnchoredLogIsWhole
  <2> SUFFICES ASSUME Inv, Tight, NEW head \in recorded, NEW b \in rows,
                      VerifyChain(0) = {}, b.hash = head.hash
               PROVE  \A q \in rows : q.seq \in 1..b.seq =>
                        \E p \in recorded :
                          /\ Says(q, p) /\ p.seq <= head.seq
                          /\ \A r \in rows : r.seq > 0 /\ NextTo(r, q) =>
                               \E o \in recorded : Says(r, o) /\ NextIn(recorded, o, p)
    BY DEF AnchoredLogIsWhole
  <2> DEFINE Vouched(q) == \E p \in recorded : Says(q, p) /\ p.seq <= head.seq
             bad == {q \in rows : q.seq \in 1..b.seq /\ ~Vouched(q)}
  <2>1. /\ \A r \in rows : r.seq \in Int
        /\ \A r \in recorded : r.seq \in Int
        /\ \A r, q \in rows : r.seq = q.seq => r = q
    BY DEF Inv, AuditTypeOK, Stored
  <2>2. b.seq > 0 => Vouched(b)
    <3> SUFFICES ASSUME b.seq > 0 PROVE Vouched(b)
      OBVIOUS
    <3>1. b.hash = <<b.prev, Text(b.event)>>
      BY FindsWhatThereIs DEF Broken, EventHash
    <3>2. head.hash = <<head.prev, Text(head.event)>>
      BY DEF Inv, Stored, EventHash
    <3>3. Says(b, head)
      BY <3>1, <3>2, SameTextSays
    <3> QED
      BY <2>1, <3>3
  <2>3. bad = {}
    <3> SUFFICES ASSUME bad # {} PROVE FALSE
      OBVIOUS
    <3>1. b.seq \in Nat /\ \A q \in bad : q.seq \in 0..b.seq
      BY <2>1
    <3>2. PICK r \in bad : \A q \in bad : q.seq <= r.seq
      <4> HIDE DEF bad
      <4> QED
        BY <3>1, LastExists
    <3>3. r \in rows /\ r.seq \in 1..b.seq /\ ~Vouched(r)
      BY <3>2
    <3>4. r.seq < b.seq
      <4>1. r # b
        BY <2>1, <2>2, <3>3
      <4> QED
        BY <2>1, <3>3, <4>1
    <3> DEFINE above == {m \in rows : r.seq < m.seq}
    <3>5. above # {} /\ \A m \in above : m.seq \in Nat
      BY <2>1, <3>3, <3>4
    <3>6. PICK q \in above : \A m \in above : q.seq <= m.seq
      <4> HIDE DEF above
      <4> QED
        BY <3>5, FirstExists
    <3>7. q \in rows /\ NextTo(r, q) /\ q.seq \in 1..b.seq /\ q.seq > r.seq
      BY <2>1, <3>3, <3>4, <3>6 DEF NextTo, NextIn
    <3>8. Vouched(q)
      BY <2>1, <3>2, <3>3, <3>7
    <3>9. PICK p \in recorded : Says(q, p) /\ p.seq <= head.seq
      BY <3>8
    <3>10. PICK o \in recorded : Says(r, o) /\ NextIn(recorded, o, p)
      BY <3>3, <3>7, <3>9, BeforeIt
    <3>11. o.seq <= head.seq
      BY <2>1, <3>9, <3>10 DEF NextIn
    <3> QED
      BY <3>3, <3>10, <3>11
  <2>4. ASSUME NEW q \in rows, q.seq \in 1..b.seq
        PROVE \E p \in recorded :
                /\ Says(q, p) /\ p.seq <= head.seq
                /\ \A r \in rows : r.seq > 0 /\ NextTo(r, q) =>
                     \E o \in recorded : Says(r, o) /\ NextIn(recorded, o, p)
    <3>1. PICK p \in recorded : Says(q, p) /\ p.seq <= head.seq
      BY <2>3, <2>4
    <3> QED
      BY <3>1, BeforeIt
  <2> QED
    BY <2>4
<1> QED
  BY <1>1, AuditTyped, AuditChained, PTL

-----------------------------------------------------------------------------
(* The snapshot job                                                        *)

\* What the job has found, and what it has stored, while it runs beside the
\* ledger and the log.
NothingWrong(r) ==
  /\ r.unbalancedEntryIds = {} /\ r.driftedAccountIds = {}
  /\ r.auditChainBreaks # {} => bypassed

IsReport(r) ==
  r = [unbalancedEntryIds |-> r.unbalancedEntryIds,
       driftedAccountIds |-> r.driftedAccountIds, auditChainBreaks |-> r.auditChainBreaks]

JobInv ==
  /\ IsReport(report) /\ NothingWrong(report) /\ NothingWrong(snapshot)
  /\ unverified \subseteq Account

\* A switch of the trigger is remembered.
LEMMA BypassIsRemembered ==
  ASSUME [AuditNext]_auditVars, bypassed
  PROVE  bypassed'
  BY DEF AuditNext, auditVars, chain, CallRecord, Lock, ReadLast, Insert,
         InsertFails, CommitRow, Rollback, Bypass

\* A step of the system is one of post_entry, one of the log or one of the job,
\* and the others stand still.
LEMMA HealthSteps ==
  ASSUME [HealthNext]_healthVars
  PROVE  /\ [PENext]_vars /\ [AuditNext]_auditVars
         /\ \/ Job /\ UNCHANGED <<vars, auditVars>>
            \/ UNCHANGED jobVars
  BY DEF HealthNext, healthVars

\* A list of a stored report is never a false alarm: whatever is posted and
\* recorded between the job's queries, no balance and no entry is reported, and a
\* break of the chain only when somebody got past the trigger.
THEOREM NoFalseAlarmHolds == HealthSpec => []NoFalseAlarm
<1>1. HealthSpec => PESpec /\ AuditSpec
  <2>1. HealthInit => PEInit /\ AuditInit
    BY DEF HealthInit
  <2>2. [HealthNext]_healthVars => [PENext]_vars /\ [AuditNext]_auditVars
    BY HealthSteps
  <2> QED
    BY <2>1, <2>2, PTL DEF HealthSpec, PESpec, AuditSpec
<1>2. HealthInit => JobInv
  BY DEF HealthInit, JobInv, IsReport, NothingWrong, NothingFound
<1>3. ReportsAreEmpty /\ HonestLogVerifies /\ AuditTypeOK /\ JobInv
        /\ [HealthNext]_healthVars => JobInv'
  <2> SUFFICES ASSUME ReportsAreEmpty, HonestLogVerifies, AuditTypeOK, JobInv,
                      [HealthNext]_healthVars
               PROVE  JobInv'
    OBVIOUS
  <2>1. CASE UNCHANGED jobVars
    <3>1. bypassed => bypassed'
      BY HealthSteps, BypassIsRemembered
    <3> QED
      BY <2>1, <3>1 DEF jobVars, JobInv, IsReport, NothingWrong
  <2>2. CASE Job /\ UNCHANGED <<vars, auditVars>>
    <3> USE DEF JobInv, IsReport, NothingWrong
    <3>1. bypassed' = bypassed
      BY <2>2 DEF auditVars, chain
    <3>2. FindUnbalancedEntries = {} /\ \A a \in Account : VerifyBalance(a)
      <4>1. CheckLedgerHealth.unbalanced = {} /\ CheckLedgerHealth.drifted = {}
        BY DEF ReportsAreEmpty
      <4> QED
        BY <4>1 DEF CheckLedgerHealth
    <3>3. VerifyChain(0) # {} => bypassed
      <4>1. 0 \in 0..nextSeq
        BY DEF AuditTypeOK
      <4> QED
        BY <4>1 DEF HonestLogVerifies
    <3>4. CASE Compute
      BY <3>1, <3>4 DEF Compute, NothingFound
    <3>5. CASE FindEntries
      BY <3>1, <3>2, <3>5 DEF FindEntries
    <3>6. ASSUME NEW a \in unverified, Verify(a) PROVE JobInv'
      <4>1. {b \in {a} : ~VerifyBalance(b)} = {}
        BY <3>2
      <4> QED
        BY <3>1, <3>6, <4>1 DEF Verify
    <3>7. CASE FindBreaks
      BY <3>1, <3>3, <3>7 DEF FindBreaks
    <3>8. CASE Store \/ Fail
      BY <3>1, <3>8 DEF Store, Fail
    <3> QED
      BY <2>2, <3>4, <3>5, <3>6, <3>7, <3>8 DEF Job
  <2> QED
    BY <2>1, <2>2, HealthSteps
<1>4. JobInv => NoFalseAlarm
  BY DEF JobInv, NothingWrong, NoFalseAlarm
<1>5. Inv => AuditTypeOK
  BY DEF Inv
<1> QED
  BY <1>1, <1>2, <1>3, <1>4, <1>5, ReportsAreEmptyHolds, HonestLogVerifiesHolds, AuditTyped,
     PTL DEF HealthSpec
=============================================================================
