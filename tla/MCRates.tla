------------------------------- MODULE MCRates -------------------------------
(* Instances of Rates for TLC. *)
EXTENDS Rates, TLC

MCCryptoProviders == <<"binance", "kraken">>
MCForexProviders == <<"open_er_api">>

ProcSymmetry == Permutations(Procs)
==============================================================================
