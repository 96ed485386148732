--------------------------- MODULE MCLedgerEngine --------------------------
(***************************************************************************)
(* Instances of LedgerEngine for TLC.  The service's calls are expenses    *)
(* with zero, one and two debtors, one with a share of zero cents (which   *)
(* the ledger refuses) and two settlements; the tests of the repository    *)
(* post journals of their own, balanced or not.                            *)
(***************************************************************************)
EXTENDS LedgerEngine

Share(u, n) == [user |-> u, amount |-> n]
Expense(payer, splits) == [op |-> "expense", payer |-> payer, splits |-> splits]

ServiceCalls ==
  { Expense("ann", <<Share("ann", 3), Share("bob", 2), Share("cem", 2)>>),
    Expense("bob", <<Share("ann", 1), Share("bob", 1)>>),
    Expense("bob", <<Share("bob", 5)>>),
    Expense("ann", <<Share("ann", 1), Share("bob", 0)>>),
    [op |-> "settlement", payer |-> "bob", payee |-> "ann", amount |-> 2],
    [op |-> "settlement", payer |-> "cem", payee |-> "ann", amount |-> 1] }

Unbalanced ==
  [op |-> "journal",
   lines |-> <<Debit(Wallet("ann"), 5), Credit(Wallet("bob"), 4)>>]
AllCalls == ServiceCalls \cup {Unbalanced}

MCOwners == {"ann", "bob", "cem"}
=============================================================================
