------------------------ MODULE MCOptimisticLocking ------------------------
(***************************************************************************)
(* An instance of OptimisticLocking for TLC: one writer more than can      *)
(* always succeed, whose deltas make every set of commits tell apart.      *)
(***************************************************************************)
EXTENDS OptimisticLocking

MCDelta == [w \in Writers |-> 10^w]
=============================================================================
