----------------------------- MODULE MCCopyTrade -----------------------------
(* Instance of CopyTrade for TLC. *)
EXTENDS CopyTrade
CONSTANTS buy, sale, f1, f2
=============================================================================
