---------------------------- MODULE MCAtomicFile ----------------------------
(* Instances of AtomicFile for TLC.                                         *)
EXTENDS AtomicFile, TLC

Symmetry == Permutations(Writers)
=============================================================================
