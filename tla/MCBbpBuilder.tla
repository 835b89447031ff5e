----------------------------- MODULE MCBbpBuilder -----------------------------
(* A small instance of the builder: arenas that are null, misaligned, too     *)
(* high, too small and large enough for three tags.                           *)
EXTENDS BbpBuilder, TLC

MCArenaPhys == {0, 64, 68, 80, 256}
MCCapacities == {0, 100}
MCTagSizes == {31, 32, 36, 65}
MCBlobSizes == {30}
MCBodies == {1}
=============================================================================
