-------------------------- MODULE MCMarketService --------------------------
(* One market and two stocks under a limit of one; threads are alike. *)
EXTENDS MarketService

Threads == Permutations(Workers) \cup Permutations(Callers)
=============================================================================
