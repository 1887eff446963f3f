-------------------------- MODULE MCSharedConnection --------------------------
(* Instances of SharedConnection for TLC.                                   *)
EXTENDS SharedConnection, TLC

ThreadSymmetry == Permutations(Thread)
=============================================================================
