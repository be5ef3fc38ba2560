----------------------------- MODULE MCLauncher -----------------------------
(* Instances of Launcher for TLC. *)
EXTENDS Launcher, TLC

Symmetry == Permutations(Exports) \cup Permutations(StopSignals)
=============================================================================
