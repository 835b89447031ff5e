------------------------------ MODULE MCHandoff ------------------------------
(* The composed handoff on one arena that holds up to three tags.             *)
EXTENDS Handoff, TLC

CONSTANT ACPI

MCArenaPhys == {64}
MCCapacities == {120}
MCTagSizes == {40}
MCBlobSizes == {}
MCBodies == {200}
MCNone == {}
MCHints == {0, 200}
MCStops == {{ACPI}}
MCDamagedNexts == {0, 64, 104, 108, 152}
MCDamagedSizes == {31, 56}
=============================================================================
