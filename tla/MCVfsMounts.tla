---------------------------- MODULE MCVfsMounts ----------------------------
(* Instances of VfsMounts for TLC. *)
EXTENDS VfsMounts, TLC

CONSTANTS m1, m2, m3

MountSymmetry == Permutations(Mounts)
=============================================================================
