SPECIFICATION Spec
CONSTANTS
  Calls <- AllCalls
  Owners <- MCOwners
  MaxCalls = 4
  MaxTime = 2
  ShortProducts = {}
  PassingLists = {}
INVARIANTS
  TypeOK
  ChainHolds
  ClearingAccountsClose
