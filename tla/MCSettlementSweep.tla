------------------------- MODULE MCSettlementSweep -------------------------
(* Instances of SettlementSweep for TLC. *)
EXTENDS SettlementSweep
==============================================================================
