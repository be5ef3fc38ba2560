---------------------------- MODULE MconsoleRelay ----------------------------
(***************************************************************************)
(* The mconsole relay of the launcher (struct relay, relay_request and      *)
(* relay_reply in launcher/invirtio-launch.c) with its clients, each of     *)
(* which sends one request (Request in tools/internal/mconsole), and the    *)
(* guest's mconsole.  The relay passes one request at a time to the guest   *)
(* and sends the packets that it then receives to that request's client.    *)
(*                                                                          *)
(* A packet is the request that it answers, its place in the reply, and     *)
(* whether more follow; place 0 is an error, of the relay or the guest's    *)
(* own noise.                                                               *)
(***************************************************************************)
EXTENDS Sequences, Naturals

CONSTANTS
    Clients,    \* the clients, one for each request
    Nobody,     \* what a packet answers that the guest sends unasked
    MaxReply,   \* bound: the packets of the longest reply
    InboxCap,   \* the packets that a client's socket holds
    OutCap,     \* the packets that the relay's socket to the guest holds
    MaxDrain,   \* the packets dropped before a request (64 in the code)
    MaxPackets  \* MCONSOLE_REPLY_PACKETS

ASSUME NobodyAssumption == Nobody \notin Clients
ASSUME BoundsAssumption ==
    /\ MaxReply \in Nat \ {0} /\ InboxCap \in Nat \ {0} /\ OutCap \in Nat \ {0}
    /\ MaxDrain \in Nat /\ MaxPackets \in Nat

VARIABLES
    client,     \* what became of each client
    inbox,      \* the packets in each client's socket
    got,        \* the packets that it has read
    hostq,      \* the requests in the launcher's socket
    to,         \* relay.client
    waiting,    \* relay.waiting
    forward,    \* is forward_deadline still to come?
    packets,    \* relay.packets
    fdOpen,     \* relay.guest >= 0
    asked,      \* the requests in the guest's socket
    part,       \* the next packet of the guest's reply
    out,        \* the packets on the way from the guest to the relay
    guestUp,    \* has the guest its end of the socket?
    spoke       \* has a guest ever sent a packet unasked?

clientVars == <<client, inbox, got>>
relay      == <<to, waiting, forward, packets, fdOpen>>
guest      == <<asked, part, out, guestUp, spoke>>
vars       == <<clientVars, hostq, relay, guest>>

Packet == [for : Clients \cup {Nobody}, part : 0..MaxReply, more : BOOLEAN]
Error(c) == [for |-> c, part |-> 0, more |-> FALSE]

(* The guest has one request at a time, unless a packet that it sent unasked *)
(* has ended the relay's wait for its reply.                                *)
TypeOK ==
    /\ client \in [Clients -> {"idle", "asked", "answered", "failed"}]
    /\ \A c \in Clients :
           /\ inbox[c] \in Seq(Packet) /\ Len(inbox[c]) <= InboxCap
           /\ got[c] \in Seq(Packet)
    /\ hostq \in Seq(Clients)
    /\ to \in Clients \cup {Nobody}
    /\ waiting \in BOOLEAN /\ forward \in BOOLEAN /\ fdOpen \in BOOLEAN
    /\ packets \in 0..(MaxPackets + 1)
    /\ asked \in Seq(Clients) /\ (~spoke => Len(asked) <= 1)
    /\ part \in 1..MaxReply
    /\ out \in Seq(Packet) /\ Len(out) <= OutCap
    /\ guestUp \in BOOLEAN /\ spoke \in BOOLEAN

Init ==
    /\ client = [c \in Clients |-> "idle"]
    /\ inbox = [c \in Clients |-> <<>>]
    /\ got = [c \in Clients |-> <<>>]
    /\ hostq = <<>>
    /\ to = Nobody /\ waiting = FALSE /\ forward = FALSE
    /\ packets = 0 /\ fdOpen = TRUE
    /\ asked = <<>> /\ part = 1 /\ out = <<>> /\ guestUp = TRUE /\ spoke = FALSE

-----------------------------------------------------------------------------
(* The client. *)

Ask(c) ==
    /\ client[c] = "idle"
    /\ client' = [client EXCEPT ![c] = "asked"]
    /\ hostq' = Append(hostq, c)
    /\ UNCHANGED <<inbox, got, relay, guest>>

(* The reply ends with the packet that has no more, and only the first       *)
(* packet can report an error.                                              *)
Read(c) ==
    /\ client[c] = "asked" /\ inbox[c] # <<>>
    /\ got' = [got EXCEPT ![c] = Append(@, Head(inbox[c]))]
    /\ inbox' = [inbox EXCEPT ![c] = Tail(@)]
    /\ client' = [client EXCEPT ![c] =
                      IF Head(inbox[c]).more THEN @
                      ELSE IF got'[c][1].part = 0 THEN "failed" ELSE "answered"]
    /\ UNCHANGED <<hostq, relay, guest>>

(* Ten seconds have passed, or the reply was short or too long. *)
GiveUp(c) ==
    /\ client[c] = "asked"
    /\ client' = [client EXCEPT ![c] = "failed"]
    /\ inbox' = [inbox EXCEPT ![c] = <<>>]
    /\ UNCHANGED <<got, hostq, relay, guest>>

-----------------------------------------------------------------------------
(* The relay. *)

(* sendto with MSG_DONTWAIT, whose failure is ignored: a client that is gone *)
(* or whose socket is full does not get the packet.                         *)
Deliver(c, p) ==
    inbox' = IF c \in Clients /\ client[c] = "asked" /\ Len(inbox[c]) < InboxCap
             THEN [inbox EXCEPT ![c] = Append(@, p)]
             ELSE inbox

Drained ==
    IF fdOpen
    THEN SubSeq(out, (IF Len(out) < MaxDrain THEN Len(out) ELSE MaxDrain) + 1, Len(out))
    ELSE out

(* Mutant: a request is passed on while the last one's reply is due. *)
RelayRequestAtOnce ==
    /\ hostq # <<>>
    /\ hostq' = Tail(hostq)
    /\ to' = Head(hostq)
    /\ fdOpen /\ guestUp
    /\ asked' = Append(asked, Head(hostq))
    /\ waiting' = TRUE /\ forward' = TRUE /\ packets' = 0
    /\ UNCHANGED <<clientVars, fdOpen, part, out, guestUp, spoke>>

(* relay_request: a request that waited too long is dropped, one that is not *)
(* a complete version 2 request or that the guest cannot take gets an error. *)
RelayRequest ==
    /\ ~waiting /\ hostq # <<>>
    /\ hostq' = Tail(hostq)
    /\ to' = Head(hostq)
    /\ out' = Drained
    /\ \/ UNCHANGED <<inbox, waiting, forward, packets, asked>>
       \/ /\ Deliver(Head(hostq), Error(Head(hostq)))
          /\ UNCHANGED <<waiting, forward, packets, asked>>
       \/ /\ fdOpen /\ guestUp
          /\ asked' = Append(asked, Head(hostq))
          /\ waiting' = TRUE /\ forward' = TRUE /\ packets' = 0
          /\ UNCHANGED inbox
    /\ UNCHANGED <<client, got, fdOpen, part, guestUp, spoke>>

(* Mutants of relay_reply: the relay waits no longer once the deadline has   *)
(* passed; each packet starts the deadline again.                           *)
RelayReplyGivesUp ==
    /\ waiting /\ out # <<>>
    /\ out' = Tail(out)
    /\ packets' = packets + 1
    /\ IF forward THEN Deliver(to, Head(out)) ELSE UNCHANGED inbox
    /\ waiting' = (Head(out).more /\ forward)
    /\ UNCHANGED <<client, got, hostq, to, forward, fdOpen, asked, part, guestUp, spoke>>

RelayReplyRenews ==
    /\ waiting /\ out # <<>>
    /\ out' = Tail(out)
    /\ packets' = packets + 1
    /\ IF forward THEN Deliver(to, Head(out)) ELSE UNCHANGED inbox
    /\ forward' = TRUE
    /\ waiting' = Head(out).more
    /\ UNCHANGED <<client, got, hostq, to, fdOpen, asked, part, guestUp, spoke>>

(* relay_reply: the packet is passed on before the deadline and dropped      *)
(* after it, and the relay waits for the last one either way.               *)
RelayReply ==
    /\ waiting /\ out # <<>>
    /\ out' = Tail(out)
    /\ packets' = packets + 1
    /\ IF packets' > MaxPackets
       THEN fdOpen' = FALSE /\ waiting' = FALSE /\ UNCHANGED inbox
       ELSE /\ IF forward THEN Deliver(to, Head(out)) ELSE UNCHANGED inbox
            /\ waiting' = Head(out).more
            /\ UNCHANGED fdOpen
    /\ UNCHANGED <<client, got, hostq, to, forward, asked, part, guestUp, spoke>>

(* Mutant: the relay goes on waiting for a guest that is gone. *)
RelayHangUpWaits ==
    /\ waiting /\ out = <<>> /\ ~guestUp /\ fdOpen
    /\ fdOpen' = FALSE
    /\ UNCHANGED <<clientVars, hostq, to, waiting, forward, packets, guest>>

RelayHangUp ==
    /\ waiting /\ out = <<>> /\ ~guestUp
    /\ fdOpen' = FALSE /\ waiting' = FALSE
    /\ UNCHANGED <<clientVars, hostq, to, forward, packets, guest>>

ForwardEnds ==
    /\ forward
    /\ forward' = FALSE
    /\ UNCHANGED <<clientVars, hostq, to, waiting, packets, fdOpen, guest>>

-----------------------------------------------------------------------------
(* The guest: UML answers each complete version 2 request with one reply. *)

GuestAnswers ==
    /\ guestUp /\ asked # <<>> /\ Len(out) < OutCap
    /\ \E more \in BOOLEAN :
           /\ part = MaxReply => ~more
           /\ out' = Append(out, [for |-> Head(asked), part |-> part, more |-> more])
           /\ part' = IF more THEN part + 1 ELSE 1
           /\ asked' = IF more THEN asked ELSE Tail(asked)
    /\ UNCHANGED <<clientVars, hostq, relay, guestUp, spoke>>

GuestSpeaks ==
    /\ guestUp /\ Len(out) < OutCap
    /\ spoke' = TRUE
    /\ \E more \in BOOLEAN :
           out' = Append(out, [for |-> Nobody, part |-> 0, more |-> more])
    /\ UNCHANGED <<clientVars, hostq, relay, asked, part, guestUp>>

GuestGoes ==
    /\ guestUp
    /\ guestUp' = FALSE /\ asked' = <<>> /\ part' = 1
    /\ UNCHANGED <<clientVars, hostq, relay, out, spoke>>

(* The launcher starts the guest again: its sockets and its relay are new,   *)
(* and the requests in the old socket are lost.                             *)
NewGuest ==
    /\ ~guestUp
    /\ guestUp' = TRUE /\ out' = <<>> /\ hostq' = <<>>
    /\ to' = Nobody /\ waiting' = FALSE /\ forward' = FALSE
    /\ packets' = 0 /\ fdOpen' = TRUE
    /\ UNCHANGED <<clientVars, asked, part, spoke>>

-----------------------------------------------------------------------------

RelayStep == RelayRequest \/ RelayReply \/ RelayHangUp

Next ==
    \/ \E c \in Clients : Ask(c) \/ Read(c) \/ GiveUp(c)
    \/ RelayStep \/ ForwardEnds
    \/ GuestAnswers \/ GuestSpeaks \/ GuestGoes \/ NewGuest

Spec == Init /\ [][Next]_vars

(* The launcher's loop runs, and the guest answers while it has room to,     *)
(* since a relay that waits for a guest that never does waits for ever.     *)
FairSpec == Spec /\ WF_vars(RelayStep) /\ WF_vars(GuestAnswers)

-----------------------------------------------------------------------------
(* Properties. *)

(* "A later reply cannot be told apart": a client never gets a packet of     *)
(* another client's reply, also when a client before it gave up, or a guest *)
(* before this one died, in the middle of a reply.  A guest that sends      *)
(* packets unasked can pass them off as a reply.                            *)
OwnReply ==
    ~spoke => \A c \in Clients :
        LET all == got[c] \o inbox[c]
        IN  \A i \in 1..Len(all) : all[i].for = c

(* Request "returns the reply's text": a client that reports success has     *)
(* every packet of its reply, in order.                                     *)
WholeReply ==
    ~spoke => \A c \in Clients :
        client[c] = "answered" => \A i \in 1..Len(got[c]) : got[c][i].part = i

(* A request that is queued behind others is taken, also when the clients of *)
(* those have given up, when their guest has gone, and when the guest sends *)
(* packets without end: "a guest that sends packets unasked cannot keep the *)
(* launcher busy".                                                          *)
Queued(c) == \E i \in 1..Len(hostq) : hostq[i] = c
RequestTaken == \A c \in Clients : Queued(c) ~> ~Queued(c)
=============================================================================
