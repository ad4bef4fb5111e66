-------------------------- MODULE MCAfcSharedFile --------------------------
(* Small instances of AfcSharedFile for TLC. *)
EXTENDS AfcSharedFile, TLC

FileSymmetry == Permutations(Files)
=============================================================================
