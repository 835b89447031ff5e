---------------------------- MODULE GenerationLog ----------------------------
(***************************************************************************)
(* What the durable generation journal promises: a floor that only counts  *)
(* upwards, and a durable newest record that is only ever replaced by one  *)
(* of higher sequence, whose generation is neither below the record it     *)
(* replaces nor above the floor.  Once a file was damaged or could not be  *)
(* read, only the floor keeps its promise.                                 *)
(***************************************************************************)
EXTENDS Naturals

VARIABLES floor, seq, gen, damaged

Init == floor = 0 /\ seq = 0 /\ gen = 0 /\ damaged = FALSE

Advance == floor' = floor + 1 /\ UNCHANGED <<seq, gen, damaged>>

Publish ==
    /\ seq' \in Nat /\ seq' > seq
    /\ gen' \in gen .. floor
    /\ UNCHANGED <<floor, damaged>>

Damaged == damaged' /\ UNCHANGED floor

Next == Damaged \/ Advance \/ Publish

Spec == Init /\ [][Next]_<<floor, seq, gen, damaged>>
=============================================================================
