--------------------------- MODULE MCConsoleServer ---------------------------
(* Instances of ConsoleServer for TLC. *)
EXTENDS ConsoleServer, TLC

Symmetry == Permutations(Clients)
=============================================================================
