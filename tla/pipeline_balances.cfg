SPECIFICATION Spec
CONSTANTS
  Groups = {"trip", "flat"}
  Amounts <- UpAndDown
  MaxPosts = 2
  Capacity = 1
  CacheFaults = FALSE
  Shutdowns = FALSE
INVARIANTS
  BalancesShowWhatIsOwed
