------------------------ MODULE MCSettlementPipeline -----------------------
(***************************************************************************)
(* Instances of SettlementPipeline for TLC: a queue for one event, so that *)
(* the relay has to wait, and expenses that can cancel out.                *)
(***************************************************************************)
EXTENDS SettlementPipeline

UpAndDown == {1, -1}
=============================================================================
