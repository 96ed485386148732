---------------------------- MODULE MCDeployment ---------------------------
(***************************************************************************)
(* Instances of Deployment for TLC: Ann and Bob may register in the same   *)
(* process or not, and with the same e-mail where the processes differ;    *)
(* Ann pays the expense of every key.                                      *)
(***************************************************************************)
EXTENDS Deployment

MCGroupOf == [k \in Keys |-> CHOOSE g \in GroupIds : TRUE]
MCPayerOf == [k \in Keys |-> "ann"]
=============================================================================
