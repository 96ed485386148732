-------------------------- MODULE MCDebtSimplifier --------------------------
(***************************************************************************)
(* Instances of DebtSimplifier for TLC.  The runs take every vector of net *)
(* balances up to a bound, those that do not add up to zero included.      *)
(***************************************************************************)
EXTENDS DebtSimplifier

CONSTANTS N, MaxNet

MCUsers == 1 .. N
MCNets  == [MCUsers -> -MaxNet .. MaxNet]
=============================================================================
