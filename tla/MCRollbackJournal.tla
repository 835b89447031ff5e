-------------------------- MODULE MCRollbackJournal --------------------------
(* Two processes; generations and sequences that run into their upper limit.  *)
EXTENDS RollbackJournal, TLC

Symmetry == Permutations(Procs)
=============================================================================
