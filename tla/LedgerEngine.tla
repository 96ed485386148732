---------------------------- MODULE LedgerEngine ---------------------------
(***************************************************************************)
(* core/ledger_engine.py: an append-only list of entries, chained account  *)
(* by account through hashes, and the verification that reads it back.     *)
(*                                                                         *)
(* The hash of an entry covers a fresh entry id, so that no two are equal: *)
(* hashes are the numbers 1, 2, ... in the order they are computed, also   *)
(* those of entries that are built and then thrown away.  0 stands for the *)
(* 64 zeros before the first entry of an account.  Entries are not altered *)
(* here (they are frozen), so recomputing a hash always confirms it.       *)
(***************************************************************************)
EXTENDS Bookkeeping, FiniteSetsExt

CONSTANTS
  Calls,        \* the posting calls that may be made, see LinesOf
  Owners,       \* the users whose wallets are posted to
  MaxCalls,     \* bound on the number of calls
  MaxTime       \* bound on the clock

ASSUME BoundsAssumption == MaxCalls \in Nat /\ MaxTime \in Nat

VARIABLES
  entries,   \* _entries: [journal, account, side, amount, at, prev, hash]
  heads,     \* _account_heads: account -> hash of its latest entry
  journals,  \* _journals: the ids of the recorded journals
  hashes,    \* how many hashes have been computed
  calls,     \* how many calls have been made; the id of the latest
  outcome,   \* how the latest call ended
  rejected   \* <<call, account>>: the accounts of the journals found unbalanced,
             \* which the code does not keep; for ChainHolds

vars == <<entries, heads, journals, hashes, calls, outcome, rejected>>

CallIds  == 1 .. MaxCalls
Accounts == {Wallet(u) : u \in Owners}
              \cup {ExpenseClearing(n) : n \in CallIds}
              \cup {SettlementClearing(n) : n \in CallIds}

\* The lines that call number n posts.  A clearing account is named after the
\* call, as the code names it after a fresh uuid.  Mutant: all settlements
\* clear through one account.
LinesOfShared(call, n) ==
  CASE call.op = "expense" ->
         ExpenseLines(call.payer, call.splits, ExpenseClearing(n))
    [] call.op = "settlement" ->
         SettlementLines(call.payer, call.payee, call.amount,
                         SettlementClearing(1))
    [] call.op = "journal" -> call.lines
LinesOf(call, n) ==
  CASE call.op = "expense" ->
         ExpenseLines(call.payer, call.splits, ExpenseClearing(n))
    [] call.op = "settlement" ->
         SettlementLines(call.payer, call.payee, call.amount,
                         SettlementClearing(n))
    [] call.op = "journal" -> call.lines

\* The callers pass users and whole cents, and post no journal of their own on
\* a clearing account.
WalletLines == [account : {Wallet(u) : u \in Owners},
                side : {"DEBIT", "CREDIT"}, amount : Int]
ASSUME CallsAssumption ==
  \A call \in Calls :
    \/ /\ call.op = "expense" /\ call.payer \in Owners
       /\ call.splits \in Seq([user : Owners, amount : Int])
    \/ /\ call.op = "settlement" /\ {call.payer, call.payee} \subseteq Owners
       /\ call.amount \in Int
    \/ call.op = "journal" /\ call.lines \in Seq(WalletLines)

Init ==
  /\ entries = << >>
  /\ heads = [a \in Accounts |-> 0]
  /\ journals = << >>
  /\ hashes = 0
  /\ calls = 0
  /\ outcome = "none"
  /\ rejected = {}

\* The lines before line i of the same journal on the same account.
Before(lines, i) == {k \in 1 .. i - 1 : lines[k].account = lines[i].account}

\* prev_hash of line i: the head of its account, which the lines before it have
\* already moved.  Mutant: the heads are read before the loop.
HeadBeforeJournal(lines, i) == heads[lines[i].account]
PrevHash(lines, i) ==
  IF Before(lines, i) = {} THEN heads[lines[i].account]
                           ELSE hashes + Max(Before(lines, i))

Built(lines, t) ==
  [i \in DOMAIN lines |->
     [journal |-> calls + 1, account |-> lines[i].account,
      side |-> lines[i].side, amount |-> lines[i].amount,
      at |-> t, prev |-> PrevHash(lines, i), hash |-> hashes + i]]

\* _account_heads after the loop.
HeadsAfter(lines) ==
  [a \in Accounts |-> IF On(lines, a) = {} THEN heads[a]
                                           ELSE hashes + Max(On(lines, a))]

\* ValueError: raised before anything is built.  Mutant: no check of amounts.
AnyAmount(lines)   == TRUE
PostAllowed(lines) == AmountsValid(lines)

\* assert_balanced.
AssertBalanced(lines) == IsBalanced(lines)

Refuse(call) ==
  /\ calls < MaxCalls
  /\ ~PostAllowed(LinesOf(call, calls + 1))
  /\ outcome' = "ValueError"
  /\ calls' = calls + 1
  /\ UNCHANGED <<entries, heads, journals, hashes, rejected>>

\* post_journal builds every entry and moves the heads as it goes; only then is
\* the journal's balance asserted, and an unbalanced one dropped.  time.time() is
\* the clock of the host, which may be set back.
Post(call) ==
  LET lines == LinesOf(call, calls + 1) IN
  /\ calls < MaxCalls
  /\ PostAllowed(lines)
  /\ \/ /\ AssertBalanced(lines)
        /\ \E t \in 0 .. MaxTime : entries' = entries \o Built(lines, t)
        /\ journals' = Append(journals, calls + 1)
        /\ outcome' = "posted"
        /\ UNCHANGED rejected
     \/ /\ ~AssertBalanced(lines)
        /\ outcome' = "LedgerImbalanceError"
        /\ rejected' = rejected \cup {<<calls + 1, lines[i].account>> : i \in DOMAIN lines}
        /\ UNCHANGED <<entries, journals>>
  /\ heads' = HeadsAfter(lines)
  /\ hashes' = hashes + Len(lines)
  /\ calls' = calls + 1

Finished == calls = MaxCalls /\ UNCHANGED vars

Next ==
  \/ \E call \in Calls : Refuse(call) \/ Post(call)
  \/ Finished

Spec == Init /\ [][Next]_vars

-----------------------------------------------------------------------------
(* What verify_chain_integrity and audit_report say. *)

\* The entries of i's account that come before i when the account is sorted by
\* created_at (the sort is stable).
AuditedBefore(i) ==
  {k \in DOMAIN entries :
     /\ entries[k].account = entries[i].account
     /\ \/ entries[k].at < entries[i].at
        \/ entries[k].at = entries[i].at /\ k < i}

\* The hash the audit expects as prev_hash of entry i: that of the entry right
\* before it.
ExpectedPrev(i) ==
  IF AuditedBefore(i) = {} THEN 0
  ELSE LET last == CHOOSE k \in AuditedBefore(i) :
                     AuditedBefore(i) \ {k} = AuditedBefore(k)
       IN  entries[last].hash

-----------------------------------------------------------------------------
(* What is true of the ledger. *)

Outcomes == {"none", "posted", "ValueError", "LedgerImbalanceError"}
Entries  == [journal : Nat, account : Accounts, side : {"DEBIT", "CREDIT"},
             amount : Nat \ {0}, at : Nat, prev : Nat, hash : Nat \ {0}]

\* Type invariant; "All amounts are integer cents", at least one each.
TypeOK ==
  /\ entries \in Seq(Entries)
  /\ heads \in [Accounts -> Nat]
  /\ journals \in Seq(CallIds)
  /\ hashes \in Nat /\ calls \in 0 .. MaxCalls
  /\ outcome \in Outcomes
  /\ rejected \subseteq CallIds \X Accounts

\* verify_chain_integrity finds no error.
ChainIntact == \A i \in DOMAIN entries : entries[i].prev = ExpectedPrev(i)

\* The clock did not go back between two entries of an account.
InClockOrder ==
  \A i, k \in DOMAIN entries :
    i < k /\ entries[i].account = entries[k].account => entries[i].at <= entries[k].at

\* Nothing was posted to an account after a journal on it was rejected, whose
\* entries are in no list but which left its hashes in the heads.
NothingAfterRejected ==
  \A r \in rejected, i \in DOMAIN entries :
    entries[i].account = r[2] => entries[i].journal < r[1]

\* When a ledger nobody tampered with passes the audit: if and only if the clock
\* did not go back between two entries of an account, by which the audit sorts
\* them, and no entry followed a rejected journal on its account.  Several
\* journals of one moment, several lines of a journal on one account, calls that
\* are refused and journals that are rejected do no harm by themselves.
ChainHolds == ChainIntact <=> InClockOrder /\ NothingAfterRejected

\* A clearing account is opened and closed within one journal: it never keeps
\* a balance, and no second journal touches it.
ClearingAccountsClose ==
  \A a \in Accounts : a[1] # "USER_WALLET" =>
    /\ Balance(entries, a) = 0
    /\ \A i, k \in On(entries, a) : entries[i].journal = entries[k].journal
=============================================================================
