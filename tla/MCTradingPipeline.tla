-------------------------- MODULE MCTradingPipeline --------------------------
(* Instances of TradingPipeline for TLC. *)
EXTENDS TradingPipeline
=============================================================================
