SPECIFICATION LockFairSpec
CONSTANTS
  Writers = {1, 2, 3, 4}
  Delta <- MCDelta
  Deltas = {2}
  MaxRetries = 2
INVARIANTS
  OnlyBeatenGiveUp
PROPERTIES
  UpdatesAreAtomic
  EnoughCommit
