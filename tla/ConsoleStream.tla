---------------------------- MODULE ConsoleStream ----------------------------
(***************************************************************************)
(* What the console server promises its clients: one that attaches is shown *)
(* the output from the Scrollback latest chunks on, piece by piece, without *)
(* a gap or a repetition, until it is gone.  Every chunk that the guest     *)
(* writes meanwhile is due to it, or it is gone from then on.               *)
(***************************************************************************)
EXTENDS Naturals

CONSTANTS Clients, MaxOutput, Scrollback

VARIABLES
    written,    \* the last chunk of output
    view        \* what each client is shown

vars == <<written, view>>

New == [at |-> "new"]
Gone == [at |-> "gone"]

(* A client that watches has been shown the chunks up to `last`, of which     *)
(* the latest piece is an interval, and those up to `due` are still to come. *)
Watching(piece, last, due) ==
    [at |-> "watching", piece |-> piece, last |-> last, due |-> due]
Watches(c) == view[c].at = "watching"

(* The first chunk that an attaching client is shown. *)
First == IF written > Scrollback THEN written - Scrollback + 1 ELSE 1

Init == written = 0 /\ view = [c \in Clients |-> New]

Write ==
    /\ written < MaxOutput /\ written' = written + 1
    /\ \E lost \in SUBSET Clients :
           view' = [c \in Clients |->
                       IF ~Watches(c) THEN view[c]
                       ELSE IF c \in lost THEN Gone
                       ELSE Watching(view[c].piece, view[c].last, written')]

Attach(c) ==
    /\ view[c] = New
    /\ view' = [view EXCEPT ![c] = Watching(<<1, 0>>, First - 1, written)]
    /\ UNCHANGED written

(* A piece may be empty, as the first one is before there is any output. *)
Show(c) ==
    /\ Watches(c)
    /\ \E n \in view[c].last..view[c].due :
           view' = [view EXCEPT ![c] = Watching(<<view[c].last + 1, n>>, n, view[c].due)]
    /\ UNCHANGED written

Lose ==
    /\ \E lost \in SUBSET Clients :
           view' = [c \in Clients |-> IF c \in lost THEN Gone ELSE view[c]]
    /\ UNCHANGED written

Next == Write \/ Lose \/ \E c \in Clients : Attach(c) \/ Show(c)

Spec == Init /\ [][Next]_vars
=============================================================================
