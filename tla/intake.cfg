SPECIFICATION Spec
CONSTANTS
  r1 = r1
  r2 = r2
  r3 = r3
  k1 = k1
  k2 = k2
  Requests = {r1, r2, r3}
  Keys = {k1, k2}
  NoKey = NoKey
  Bodies <- MCBodies
  Users <- MCUsers
  InitialMembers <- MCMembers
  KeyLoss = FALSE
  CacheFaults = TRUE
  ShortProducts = {}
  PassingLists = {}
SYMMETRY RequestSymmetry
INVARIANTS
  TypeOK
  OneJournalPerExpense
  OneEventPerExpense
  LedgerMatchesStore
  ConfirmationsAreCurrent
  LockIsExclusive
PROPERTIES
  CachedResponseIsFinal
