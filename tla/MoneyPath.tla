----------------------------- MODULE MoneyPath -----------------------------
(***************************************************************************)
(* The money of one expense on its way from POST expenses to GET simplify: *)
(* the service splits the total and asks the ledger for its lines, the     *)
(* stored splits become net balances, and DebtSimplifier turns those into  *)
(* a plan.  The benchmark and the tests call simplify with vectors of      *)
(* their own, which need not add up to zero.                               *)
(***************************************************************************)
EXTENDS DebtSimplifier, Bookkeeping

CONSTANT Expenses   \* [roster, body]: expenses the service accepts

\* What CreateExpenseRequest and the service's checks say of an expense, as far as
\* it matters: the total is at least one cent, the payer and those who share it
\* are users, and exact shares and percentages may be negative.
Acceptable(x) ==
  /\ x.roster \in Seq(Users) /\ x.roster # << >>
  /\ x.body.payer \in Users
  /\ x.body.total \in Nat /\ x.body.total >= 1
  /\ x.body.type = "EXACT" => x.body.given \in Seq([user : Users, amount : Int])
  /\ x.body.type = "PERCENTAGE" => x.body.given \in Seq([user : Users, pct : Int])
  /\ SplitAccepted(x.body)

ASSUME ExpensesAssumption == \A x \in Expenses : Acceptable(x)

VARIABLES
  expense,   \* the expense, if the balances come from one
  shares,    \* its splits, once computed
  lines      \* the lines of its journal

pathVars == <<vars, expense, shares, lines>>

Clearing == ExpenseClearing("this expense")

PathInit ==
  /\ \/ net \in Nets  /\ expense = << >>
     \/ net = Nobody /\ expense \in {<<x>> : x \in Expenses}
  /\ shares = << >> /\ lines = << >>
  /\ pc = "start"
  /\ creditors = Nobody /\ debtors = Nobody /\ settlements = << >>

Computed == shares # << >>

\* create_expense: the splits, and what the ledger is asked to post.
SplitAndPost ==
  /\ expense # << >> /\ ~Computed
  /\ LET x == Head(expense) IN
     /\ shares' = Splits(x.body, x.roster)
     /\ lines'  = ExpenseLines(x.body.payer, shares', Clearing)
     /\ net'    = [u \in Users |->
                     NetBalance(<<[payer |-> x.body.payer, splits |-> shares']>>, u)]
  /\ UNCHANGED <<expense, pc, creditors, debtors, settlements>>

\* GET simplify, and callers with their own vectors.
Simplify ==
  /\ expense = << >> \/ Computed
  /\ Next
  /\ UNCHANGED <<expense, shares, lines>>

PathNext == SplitAndPost \/ Simplify

PathSpec == PathInit /\ [][PathNext]_pathVars

-----------------------------------------------------------------------------

Asked == Head(expense).body

\* However the total is split, the shares add up to it to the cent
\* (_split_equal, _split_exact, _split_percentage).
SharesAddUp == Computed => Total(shares) = Asked.total

\* Floats, int() and the tolerance together cost nobody more than they should
\* (_split_percentage): a percentage share is nearer to zero than the exact one, by
\* a cent at most.  The last one is off by no more than a cent for each other
\* share, upwards for those that are positive and downwards for the negative
\* ones, and by the total's part of the tolerance.
PercentageSharesAreClose ==
  Computed /\ Asked.type = "PERCENTAGE" =>
    LET n        == Len(shares)
        off(i)   == Asked.total * Asked.given[i].pct - Hundred * shares[i].amount
        raised   == {i \in 1 .. n - 1 : Asked.given[i].pct < 0}
        slack    == PctTolerance * Asked.total
        highest  == Cardinality(raised) * Hundred + slack
        lowest   == (n - 1 - Cardinality(raised)) * Hundred + slack
    IN  /\ \A i \in 1 .. n - 1 :
             off(i) \in IF i \in raised THEN -Hundred .. 0 ELSE 0 .. Hundred
        /\ -lowest <= off(n) /\ off(n) <= highest

\* Three readings of an expense agree: what the plan of GET simplify makes each
\* user pay or receive is that user's wallet balance in the ledger, and the
\* balances never fail to cancel.  Shares of zero or less, and an expense with
\* nothing owed, which has no closing lines, must not tell them apart; the
\* ledger refuses lines below one cent.
PlanSettlesLedger ==
  expense # << >> =>
    /\ pc # "raised"
    /\ pc = "done" /\ AmountsValid(lines) =>
         \A u \in Users : Balance(lines, Wallet(u)) = Received(u) - Sent(u)
=============================================================================
