------------------------------ MODULE MCGateway ------------------------------
(* Instances of Gateway for TLC. *)
EXTENDS Gateway, TLC

HandlerSymmetry == Permutations(Handlers)
==============================================================================
