SPECIFICATION Spec
CONSTANTS
  N = 5
  MaxNet = 4
  Users <- MCUsers
  Nets <- MCNets
INVARIANTS
  PlanIsMinimal
