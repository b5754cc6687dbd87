----------------------------- MODULE MCSwapPath -----------------------------
(* Instance of SwapPath for TLC. *)
EXTENDS SwapPath
=============================================================================
