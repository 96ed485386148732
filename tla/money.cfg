SPECIFICATION PathSpec
CONSTANTS
  N = 5
  MaxNet = 3
  Users <- MCUsers
  Nets <- MCNets
  Expenses <- MCExpenses
  ShortProducts <- MCShortProducts
  PassingLists <- MCPassingLists
INVARIANTS
  SharesAddUp
  PercentageSharesAreClose
  PlanSettlesLedger
  PlanSettlesEveryone
  AtMostNMinusOne
  NoPairTwice
