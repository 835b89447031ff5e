----------------------------- MODULE MCEfiLoader -----------------------------
(* The whole loader with up to two segments and a firmware map of up to four  *)
(* descriptors that changes twice of its own accord.                          *)
EXTENDS EfiLoader, TLC
=============================================================================
