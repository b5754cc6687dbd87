--------------------------- MODULE MCGeyserSubscriber ---------------------------
(* Instances of GeyserSubscriber for TLC. *)
EXTENDS GeyserSubscriber
=============================================================================
