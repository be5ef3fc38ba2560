---------------------------- MODULE MCEnablement ----------------------------
(* Instances of Enablement for TLC. *)
EXTENDS Enablement

Symmetry == Permutations(Devices)
=============================================================================
