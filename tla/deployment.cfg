SPECIFICATION FairSpec
CONSTANTS
  Processes = {"p", "q"}
  UserIds = {"ann", "bob"}
  GroupIds = {"trip"}
  Emails = {"a", "b"}
  Requests = {"r1", "r2"}
  Keys = {"k"}
  NoKey = NoKey
  GroupOf <- MCGroupOf
  PayerOf <- MCPayerOf
INVARIANTS
  TypeOK
  MembersAreKnown
  StoreRemembersBookings
  OnlyTheAbortedLeaveLocks
PROPERTIES
  HonoursContract
  EveryRequestAnswered
