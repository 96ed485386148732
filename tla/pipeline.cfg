SPECIFICATION FairSpec
CONSTANTS
  Groups = {"trip", "flat"}
  Amounts <- UpAndDown
  MaxPosts = 3
  Capacity = 1
  CacheFaults = TRUE
  Shutdowns = TRUE
INVARIANTS
  TypeOK
  InOrderOnce
  AnnouncedIsSettled
PROPERTIES
  EveryEventHandled
