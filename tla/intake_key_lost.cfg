SPECIFICATION Spec
CONSTANTS
  r1 = r1
  r2 = r2
  k1 = k1
  Requests = {r1, r2}
  Keys = {k1}
  NoKey = NoKey
  Bodies <- FewBodies
  Users <- MCUsers
  InitialMembers <- MCMembers
  KeyLoss = TRUE
  CacheFaults = FALSE
  ShortProducts = {}
  PassingLists = {}
INVARIANTS
  OneJournalPerExpense
