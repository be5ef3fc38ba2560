--------------------------- MODULE MCInvirtioTest ---------------------------
(* Every command that runs guests. *)
EXTENDS InvirtioTest
AllCommands == Suites \cup Benches \cup {"run"}
=============================================================================
