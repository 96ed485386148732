SPECIFICATION FairSpec
CONSTANTS
  Readers = {"ann", "bob"}
  TTL = 2
  Latency = 1
  MaxExpenses = 2
INVARIANTS
  TypeOK
  StaleForAMinute
  SettledIsShown
PROPERTIES
  ReadsNeverGoBack
  EveryExpenseShows
