---------------------------- MODULE Bookkeeping ----------------------------
(***************************************************************************)
(* The money functions of the engine, as pure operators: how an expense is *)
(* split (services/expense_service.py), which ledger lines an expense or a *)
(* settlement posts (core/ledger_engine.py) and how net balances are read  *)
(* off the stored expenses (core/debt_simplifier.py).                      *)
(*                                                                         *)
(* A body is the validated payload of POST /groups/{id}/expenses:          *)
(*   [group, payer, total, type, given]                                    *)
(* where given is a sequence of [user, amount] (EXACT), of [user, pct]     *)
(* (PERCENTAGE) or << >>.  A share is [user, amount], amounts in cents.    *)
(* A line is [account, side, amount], an account <<type, owner>>.          *)
(***************************************************************************)
EXTENDS Integers, Sequences, Functions

\* Percentages are counted in thousandths of a percent; the code accepts a
\* total within 0.01 of 100.0.
Hundred      == 100000
PctTolerance == 10

\* The code multiplies, divides and adds up floats.  For totals below 10^10
\* cents their error is too small to change anything but two things, which
\* depend on the very numbers: int() of a share that should be a whole number
\* of cents may lose one of them (10000 cents at 0.57% are 56), and percentages
\* that miss a hundred by exactly the tolerance may pass or not.
CONSTANTS
  ShortProducts,  \* <<total, pct>>: int(total * pct / 100) is a cent short
  PassingLists    \* the lists of percentages at the tolerance that pass

ASSUME FloatsAssumption ==
  /\ ShortProducts \subseteq Int \X Int
  /\ \A f \in ShortProducts : f[1] * f[2] # 0 /\ (f[1] * f[2]) % Hundred = 0

\* The sum of the amounts of rows (shares, lines or entries), of those whose
\* numbers are in the set at, or of all.
AmountSum(rows, at) == SumFunctionOnSet([i \in DOMAIN rows |-> rows[i].amount], at)
Total(rows)         == AmountSum(rows, DOMAIN rows)

\* The shares of the others than u, and those of u.
Others(splits, u)   == {i \in DOMAIN splits : splits[i].user # u}
SharesOf(splits, u) == {i \in DOMAIN splits : splits[i].user = u}

\* Python's int() drops the fraction, so it rounds towards zero.
Truncated(n, d) == IF n >= 0 THEN n \div d ELSE -((-n) \div d)

\* The first users take a cent of the remainder each.
SplitEqual(total, users) ==
  LET n == Len(users) IN
  [i \in 1 .. n |->
     [user   |-> users[i],
      amount |-> total \div n + (IF i <= total % n THEN 1 ELSE 0)]]

\* int(total * percentage / 100).
PercentageShare(total, pct) ==
  LET x    == total * pct
      part == Truncated(x, Hundred)
  IN  IF <<total, pct>> \notin ShortProducts THEN part
      ELSE IF x > 0 THEN part - 1 ELSE part + 1

\* Every share is truncated except the last one, which absorbs the rest.
\* Mutants: the last share is truncated like the others; shares are rounded up.
SplitAllTruncated(total, given) ==
  [i \in DOMAIN given |->
     [user |-> given[i].user, amount |-> PercentageShare(total, given[i].pct)]]
SplitRoundedUp(total, given) ==
  LET n       == Len(given)
      part(i) == -((-total * given[i].pct) \div Hundred)
      rest    == total - SumFunction([i \in 1 .. n - 1 |-> part(i)])
  IN  [i \in 1 .. n |->
         [user   |-> given[i].user,
          amount |-> IF i = n THEN rest ELSE part(i)]]
SplitPercentage(total, given) ==
  LET n       == Len(given)
      part(i) == PercentageShare(total, given[i].pct)
      rest    == total - SumFunction([i \in 1 .. n - 1 |-> part(i)])
  IN  [i \in 1 .. n |->
         [user   |-> given[i].user,
          amount |-> IF i = n THEN rest ELSE part(i)]]

\* The checks the three split functions make before they return.
SplitAccepted(body) ==
  CASE body.type = "EQUAL" -> TRUE
    [] body.type = "EXACT" ->
         body.given # << >> /\ Total(body.given) = body.total
    [] body.type = "PERCENTAGE" ->
         /\ body.given # << >>
         /\ LET pcts == [i \in DOMAIN body.given |-> body.given[i].pct]
                off  == SumFunction(pcts) - Hundred
            IN  \/ off \in 1 - PctTolerance .. PctTolerance - 1
                \/ off \in {-PctTolerance, PctTolerance} /\ pcts \in PassingLists
    [] OTHER -> FALSE

Splits(body, members) ==
  CASE body.type = "EQUAL"      -> SplitEqual(body.total, members)
    [] body.type = "EXACT"      -> body.given
    [] body.type = "PERCENTAGE" -> SplitPercentage(body.total, body.given)

-----------------------------------------------------------------------------

Wallet(u)               == <<"USER_WALLET", u>>
ExpenseClearing(id)     == <<"EXPENSE_CLEARING", id>>
SettlementClearing(id)  == <<"SETTLEMENT_CLEARING", id>>

Debit(account, amount) ==
  [account |-> account, side |-> "DEBIT", amount |-> amount]
Credit(account, amount) ==
  [account |-> account, side |-> "CREDIT", amount |-> amount]

\* One debtor's share is owed to the clearing account, and what was cleared to
\* the payer.
Owes(split, clearing) ==
  <<Debit(Wallet(split.user), split.amount), Credit(clearing, split.amount)>>
PaidBack(payer, total, clearing) ==
  <<Debit(clearing, total), Credit(Wallet(payer), total)>>

\* The lines after the loop over the splits, which skips the payer's own.
OwedLines(payer, splits, clearing) ==
  LET after[n \in 0 .. Len(splits)] ==
        IF n = 0 THEN << >>
        ELSE IF splits[n].user = payer THEN after[n - 1]
        ELSE after[n - 1] \o Owes(splits[n], clearing)
  IN  after[Len(splits)]

\* post_expense_journal: each debtor against the clearing account, then the
\* clearing account against the payer, if anything is owed.  Mutant: the
\* payer's own share is skipped only after the total is raised.
ExpenseLinesWhole(payer, splits, clearing) ==
  OwedLines(payer, splits, clearing) \o PaidBack(payer, Total(splits), clearing)
ExpenseLines(payer, splits, clearing) ==
  LET total == AmountSum(splits, Others(splits, payer))
  IN  OwedLines(payer, splits, clearing)
        \o IF total > 0 THEN PaidBack(payer, total, clearing) ELSE << >>

\* post_settlement_journal: through a clearing account of its own.
SettlementLines(payer, payee, amount, clearing) ==
  << Debit(Wallet(payer), amount),  Credit(clearing, amount),
     Debit(clearing, amount),       Credit(Wallet(payee), amount) >>

\* The sum of one side, of the lines whose numbers are in the set at.
SideTotal(lines, at, side) == AmountSum(lines, {i \in at : lines[i].side = side})

IsBalanced(lines) ==
  SideTotal(lines, DOMAIN lines, "DEBIT") = SideTotal(lines, DOMAIN lines, "CREDIT")
AmountsValid(lines) == \A i \in DOMAIN lines : lines[i].amount >= 1

\* The lines on account a.
On(lines, a) == {i \in DOMAIN lines : lines[i].account = a}

\* get_account_balance: credits minus debits of one account.
Balance(lines, a) ==
  SideTotal(lines, On(lines, a), "CREDIT") - SideTotal(lines, On(lines, a), "DEBIT")

-----------------------------------------------------------------------------

\* What a transaction, [payer, splits], adds to the net balance of u: the payer
\* is owed what the others owe.
NetOf(tx, u) ==
  IF tx.payer = u THEN AmountSum(tx.splits, Others(tx.splits, u))
                  ELSE -AmountSum(tx.splits, SharesOf(tx.splits, u))

\* compute_net_balances for one user; txs is a sequence of transactions.
NetBalance(txs, u) == SumFunction([i \in DOMAIN txs |-> NetOf(txs[i], u)])
=============================================================================
