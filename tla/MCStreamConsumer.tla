--------------------------- MODULE MCStreamConsumer ---------------------------
(* Instances of StreamConsumer for TLC. *)
EXTENDS StreamConsumer, TLC

Symmetry == Permutations(Payload)
=============================================================================
