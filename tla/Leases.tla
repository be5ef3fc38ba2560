------------------------------- MODULE Leases -------------------------------
(***************************************************************************)
(* What a program that borrows parts of the host promises: a thing is taken *)
(* only while all that it stands on is held, and is given back only once    *)
(* nothing that is still held stands on it.                                 *)
(***************************************************************************)
CONSTANTS
    Things,         \* what the program can hold
    StandsOn(_)     \* the things that a thing uses while it is held

VARIABLE holding

Init == holding = {}

Take ==
    /\ holding' \in SUBSET Things /\ holding \subseteq holding'
    /\ \A t \in holding' \ holding : StandsOn(t) \subseteq holding

Return ==
    /\ holding' \subseteq holding
    /\ \A t \in holding' : StandsOn(t) \subseteq holding'

Spec == Init /\ [][Take \/ Return]_holding
=============================================================================
