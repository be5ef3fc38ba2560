--------------------------- MODULE MCMconsoleRelay ---------------------------
(* Instances of MconsoleRelay for TLC. *)
EXTENDS MconsoleRelay, TLC

Symmetry == Permutations(Clients)
=============================================================================
