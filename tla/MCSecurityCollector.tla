------------------------- MODULE MCSecurityCollector -------------------------
(* The collector with logs of one or two measurements over arenas that are    *)
(* one byte too small, exactly large enough, or larger than the info limit;   *)
(* the data ends on both sides of each boundary of the hash's padding.        *)
EXTENDS SecurityCollector, TLC

MCArenaPhys == {64, 68}
MCCapacities == {271, 272, 456}
MCTagSizes == {36}
MCBlobSizes == {141}
MCBodies == {}
MCCounts == {0, 1, 2, 3}
MCDataLengths == <<5, 6, 7, 8>>
MCRegisters == <<16, 16, 7>>
=============================================================================
