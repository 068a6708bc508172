------------------------------- MODULE Ledger -------------------------------
(***************************************************************************)
(* What ledger.post_entry promises its callers: an entry is posted whole   *)
(* or not at all, once for each source, only when it balances and only     *)
(* when no account that must stay non-negative would be overdrawn.         *)
(*                                                                         *)
(* This is the abstract specification.  PostEntry describes the SQL that   *)
(* keeps the promise when sessions run it side by side, and TreasuryQueue  *)
(* uses the promise when it moves a campaign's budget.                     *)
(*                                                                         *)
(* A movement gives, for every account, the sum of the natural_minor of    *)
(* the entry's lines on it (zero where there is none).                     *)
(***************************************************************************)
EXTENDS Integers, FiniteSetsExt

CONSTANTS
  Account,      \* rows of ledger.account
  DebitNormal,  \* accounts whose normal_balance is debit
  MayGoNegative,\* accounts created with allow_negative
  Source,       \* (source_type, source_id) pairs
  Movements     \* the movements callers ask for

Nothing == [a \in Account |-> 0]

ASSUME LedgerAssumption ==
  /\ DebitNormal \subseteq Account
  /\ MayGoNegative \subseteq Account
  /\ Movements \subseteq [Account -> Int] \ {Nothing}

VARIABLES
  entry,        \* entry[s]: the movement posted for s, Nothing before that
  balance       \* account_balance.balance_minor

ledgerVars == <<entry, balance>>

\* signed_minor of the account's lines: debits positive, credits negative.
Signed(m) == [a \in Account |-> IF a \in DebitNormal THEN m[a] ELSE -m[a]]

Balanced(m) == SumFunctionOnSet(Signed(m), Account) = 0

\* The CHECK account_balance_non_negative for the value n of account a.
Allowed(a, n) == a \in MayGoNegative \/ n >= 0

Apply(m) == [a \in Account |-> balance[a] + m[a]]

-----------------------------------------------------------------------------
Init ==
  /\ entry = [s \in Source |-> Nothing]
  /\ balance = Nothing

Post(s, m) ==
  /\ entry[s] = Nothing
  /\ Balanced(m)
  /\ \A a \in Account : m[a] # 0 => Allowed(a, balance[a] + m[a])
  /\ entry' = [entry EXCEPT ![s] = m]
  /\ balance' = Apply(m)

\* A replay and a refusal leave the ledger as it is: both are stutters.
Next == \E s \in Source, m \in Movements : Post(s, m)

Spec == Init /\ [][Next]_ledgerVars

-----------------------------------------------------------------------------
TypeOK ==
  /\ entry \in [Source -> Movements \cup {Nothing}]
  /\ balance \in [Account -> Int]

\* The storage engine's solvency rule (account_balance_non_negative): no
\* interleaving of postings leaves an account below zero that may not be.
Solvent == \A a \in Account : Allowed(a, balance[a])
=============================================================================
