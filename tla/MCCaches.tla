------------------------------- MODULE MCCaches -------------------------------
(* Two caches of the preloader; two swaps of a token with two pools.     *)
EXTENDS Caches
=============================================================================
