---------------------------- MODULE MCBootcBuild ----------------------------
(* Small instances of BootcBuild for TLC. *)
EXTENDS BootcBuild, TLC

JobNameSymmetry == Permutations(Jobs) \cup Permutations(Names)
=============================================================================
