------------------------- MODULE MconsoleRelayProofs -------------------------
(***************************************************************************)
(* Proofs about MconsoleRelay, for any number of clients, any length of the  *)
(* replies and any capacity of the sockets.                                  *)
(***************************************************************************)
EXTENDS MconsoleRelay, QueueLemmas

USE NobodyAssumption, BoundsAssumption

(* The relay waits for a request of a client, on a socket that is open, and   *)
(* gives up after MaxPackets; the guest starts each reply at its first packet. *)
WaitInv ==
    /\ inbox \in [Clients -> Seq(Packet)] /\ got \in [Clients -> Seq(Packet)]
    /\ waiting => fdOpen /\ to \in Clients /\ packets <= MaxPackets
    /\ ~guestUp => asked = <<>>
    /\ asked = <<>> => part = 1

(* While the relay waits, the socket to the guest carries nothing but its     *)
(* request and the reply to it, and when it does not, nothing at all.       *)
SocketInv ==
    /\ ~waiting /\ fdOpen => asked = <<>> /\ out = <<>>
    /\ waiting =>
           /\ \A i \in 1..Len(asked) : asked[i] = to
           /\ \A i \in 1..Len(out) :
                  out[i].for = to /\ (~out[i].more => i = Len(out) /\ asked = <<>>)

(* OwnReply without the sequence that joins what a client has read and what   *)
(* its socket holds.                                                        *)
OwnInv ==
    \A c \in Clients :
        /\ \A i \in 1..Len(got[c]) : got[c][i].for = c
        /\ \A i \in 1..Len(inbox[c]) : inbox[c][i].for = c

(* The three parts of TypeOK. *)
ClientsTyped ==
    /\ client \in [Clients -> {"idle", "asked", "answered", "failed"}]
    /\ \A c \in Clients :
           /\ inbox[c] \in Seq(Packet) /\ Len(inbox[c]) <= InboxCap
           /\ got[c] \in Seq(Packet)

RelayTyped ==
    /\ hostq \in Seq(Clients)
    /\ to \in Clients \cup {Nobody}
    /\ waiting \in BOOLEAN /\ forward \in BOOLEAN /\ fdOpen \in BOOLEAN
    /\ packets \in 0..(MaxPackets + 1)

GuestTyped ==
    /\ asked \in Seq(Clients) /\ (~spoke => Len(asked) <= 1)
    /\ part \in 1..MaxReply
    /\ out \in Seq(Packet) /\ Len(out) <= OutCap
    /\ guestUp \in BOOLEAN /\ spoke \in BOOLEAN

IInv == TypeOK /\ WaitInv /\ (~spoke => SocketInv /\ OwnInv)

-----------------------------------------------------------------------------
(* TypeOK is its three parts. *)
LEMMA Typed == TypeOK <=> ClientsTyped /\ RelayTyped /\ GuestTyped
  BY Zenon DEF TypeOK, ClientsTyped, RelayTyped, GuestTyped

(* What Deliver does to the sockets: at most one packet more, for one client *)
(* that still waits and whose socket has room.                              *)
LEMMA Delivered ==
    ASSUME TypeOK, WaitInv, NEW c \in Clients, NEW p \in Packet, Deliver(c, p)
    PROVE  /\ inbox' \in [Clients -> Seq(Packet)]
           /\ \A d \in Clients : Len(inbox'[d]) <= InboxCap
           /\ \A d \in Clients \ {c} : inbox'[d] = inbox[d]
           /\ \/ inbox'[c] = Append(inbox[c], p)
              \/ inbox'[c] = inbox[c] /\ (client[c] = "asked" => Len(inbox[c]) >= InboxCap)
           /\ client[c] # "asked" => inbox' = inbox
  <1>1. inbox[c] \in Seq(Packet) /\ Len(inbox[c]) \in Nat /\ Len(inbox[c]) <= InboxCap
    BY DEF TypeOK
  <1>2. CASE client[c] = "asked" /\ Len(inbox[c]) < InboxCap
    <2>1. inbox' = [inbox EXCEPT ![c] = Append(inbox[c], p)]
      BY <1>2 DEF Deliver
    <2>2. Append(inbox[c], p) \in Seq(Packet) /\ Len(Append(inbox[c], p)) <= InboxCap
      BY <1>1, <1>2, Enqueued
    <2> QED BY <1>2, <2>1, <2>2 DEF TypeOK, WaitInv
  <1>3. CASE ~(client[c] = "asked" /\ Len(inbox[c]) < InboxCap)
    <2>1. inbox' = inbox
      BY <1>3 DEF Deliver
    <2> QED BY <1>1, <1>3, <2>1 DEF TypeOK, WaitInv
  <1> QED BY <1>2, <1>3

(* A delivered packet of the client's own leaves it with its own packets. *)
LEMMA DeliveredOwn ==
    ASSUME TypeOK, WaitInv, OwnInv, NEW c \in Clients, NEW p \in Packet,
           Deliver(c, p), p.for = c, UNCHANGED got
    PROVE  OwnInv'
  <1> SUFFICES ASSUME NEW d \in Clients, NEW i \in 1..Len(inbox'[d])
               PROVE  inbox'[d][i].for = d
    BY DEF OwnInv
  <1>1. CASE inbox'[d] = inbox[d]
    BY <1>1 DEF OwnInv
  <1>2. CASE d = c /\ inbox'[c] = Append(inbox[c], p)
    <2>1. inbox[c] \in Seq(Packet)
      BY DEF TypeOK
    <2> QED BY <1>2, <2>1, Enqueued DEF OwnInv
  <1> QED BY <1>1, <1>2, Delivered

(* What drain leaves of the packets is what came last of them. *)
LEMMA DrainedType ==
    ASSUME TypeOK
    PROVE  /\ Drained \in Seq(Packet) /\ Len(Drained) <= OutCap
           /\ out = <<>> => Drained = <<>>
  <1> DEFINE n == IF Len(out) < MaxDrain THEN Len(out) ELSE MaxDrain
  <1>1. out \in Seq(Packet) /\ Len(out) \in Nat /\ Len(out) <= OutCap
    BY DEF TypeOK
  <1>2. n \in 0..Len(out)
    BY <1>1
  <1>3. /\ SubSeq(out, n + 1, Len(out)) \in Seq(Packet)
        /\ Len(SubSeq(out, n + 1, Len(out))) = Len(out) - n
    BY <1>1, <1>2, Dropped
  <1>4. out = <<>> => Len(out) = 0
    BY <1>1, EmptySeq
  <1>5. out = <<>> => SubSeq(out, n + 1, Len(out)) = <<>>
    BY <1>2, <1>3, <1>4, EmptySeq
  <1>6. Drained = IF fdOpen THEN SubSeq(out, n + 1, Len(out)) ELSE out
    BY DEF Drained
  <1> HIDE DEF n
  <1>7. Len(out) - n <= OutCap
    BY <1>1, <1>2
  <1> QED BY <1>1, <1>3, <1>5, <1>6, <1>7

-----------------------------------------------------------------------------
(* The state before any request satisfies the invariant. *)
LEMMA InitInv == Init => IInv
  <1> SUFFICES ASSUME Init PROVE IInv
    OBVIOUS
  <1>1. /\ <<>> \in Seq(Packet) /\ Len(<<>>) = 0 /\ <<>> \in Seq(Clients)
    BY EmptySeq
  <1>2. \A c \in Clients : inbox[c] = <<>> /\ got[c] = <<>>
    BY DEF Init
  <1>3. inbox \in [Clients -> Seq(Packet)] /\ got \in [Clients -> Seq(Packet)]
    BY <1>1 DEF Init
  <1>4. TypeOK
    <2>1. ASSUME NEW c \in Clients
          PROVE  /\ inbox[c] \in Seq(Packet) /\ Len(inbox[c]) <= InboxCap
                 /\ got[c] \in Seq(Packet)
      <3>1. Len(inbox[c]) = 0
        BY <1>1, <1>2
      <3>2. Len(inbox[c]) <= InboxCap
        BY <3>1
      <3> QED BY <1>1, <1>2, <3>2
    <2>2. ClientsTyped
      BY <2>1 DEF Init, ClientsTyped
    <2>3. RelayTyped
      <3>1. packets \in 0..(MaxPackets + 1)
        BY DEF Init
      <3> QED BY <1>1, <3>1 DEF Init, RelayTyped
    <2>4. GuestTyped
      <3>1. part \in 1..MaxReply /\ 0 <= 1 /\ 0 <= OutCap
        BY DEF Init
      <3> QED BY <1>1, <3>1 DEF Init, GuestTyped
    <2> QED BY <2>2, <2>3, <2>4, Typed
  <1>5. WaitInv
    BY <1>3 DEF Init, WaitInv
  <1>6. SocketInv /\ OwnInv
    BY <1>1, <1>2 DEF Init, SocketInv, OwnInv
  <1> QED BY <1>4, <1>5, <1>6 DEF IInv

(* A client asks, or gives up: its socket loses packets at most. *)
LEMMA ClientInv ==
    ASSUME IInv, NEW c \in Clients, Ask(c) \/ GiveUp(c)
    PROVE  IInv'
  <1>1. CASE Ask(c)
    <2>1. Append(hostq, c) \in Seq(Clients)
      BY Enqueued DEF IInv, TypeOK
    <2>2. TypeOK' /\ WaitInv'
      BY <1>1, <2>1 DEF Ask, IInv, TypeOK, WaitInv, relay, guest
    <2>3. ~spoke' => SocketInv' /\ OwnInv'
      BY <1>1 DEF Ask, IInv, SocketInv, OwnInv, relay, guest
    <2> QED BY <2>2, <2>3 DEF IInv
  <1>2. CASE GiveUp(c)
    <2>1. <<>> \in Seq(Packet) /\ Len(<<>>) = 0
      BY EmptySeq
    <2>2. \A d \in Clients : inbox'[d] = IF d = c THEN <<>> ELSE inbox[d]
      BY <1>2 DEF GiveUp, IInv, WaitInv
    <2>3. inbox' \in [Clients -> Seq(Packet)]
      BY <1>2, <2>1 DEF GiveUp, IInv, WaitInv
    <2>4. TypeOK' /\ WaitInv'
      BY <1>2, <2>1, <2>2, <2>3 DEF GiveUp, IInv, TypeOK, WaitInv, relay, guest
    <2>5. ~spoke' => SocketInv' /\ OwnInv'
      BY <1>2, <2>1, <2>2 DEF GiveUp, IInv, SocketInv, OwnInv, relay, guest
    <2> QED BY <2>4, <2>5 DEF IInv
  <1> QED BY <1>1, <1>2

(* A client reads a packet of its socket. *)
LEMMA ReadInv ==
    ASSUME IInv, NEW c \in Clients, Read(c)
    PROVE  IInv'
  <1>1. inbox[c] \in Seq(Packet) /\ inbox[c] # <<>> /\ got[c] \in Seq(Packet)
    BY DEF Read, IInv, TypeOK
  <1>2. /\ Tail(inbox[c]) \in Seq(Packet) /\ Head(inbox[c]) \in Packet
        /\ Head(inbox[c]) = inbox[c][1] /\ Len(inbox[c]) \in Nat \ {0}
        /\ Len(Tail(inbox[c])) = Len(inbox[c]) - 1
        /\ \A i \in 1..(Len(inbox[c]) - 1) : Tail(inbox[c])[i] = inbox[c][i + 1]
    BY <1>1, Dequeued
  <1> DEFINE more == Append(got[c], Head(inbox[c]))
  <1>3. /\ more \in Seq(Packet) /\ Len(got[c]) \in Nat /\ Len(more) = Len(got[c]) + 1
        /\ \A i \in 1..Len(got[c]) : more[i] = got[c][i]
        /\ more[Len(got[c]) + 1] = Head(inbox[c])
    BY <1>1, <1>2, Enqueued
  <1>4. /\ inbox' = [inbox EXCEPT ![c] = Tail(inbox[c])]
        /\ got' = [got EXCEPT ![c] = more]
        /\ client' \in [Clients -> {"idle", "asked", "answered", "failed"}]
        /\ UNCHANGED <<hostq, relay, guest>>
    BY DEF Read, IInv, TypeOK
  <1>5. TypeOK' /\ WaitInv'
    <2>1. ASSUME NEW d \in Clients
          PROVE  /\ inbox'[d] \in Seq(Packet) /\ Len(inbox'[d]) <= InboxCap
                 /\ got'[d] \in Seq(Packet)
      <3>1. CASE d = c
        <4>1. inbox'[c] = Tail(inbox[c]) /\ got'[c] = more
          BY <1>4 DEF IInv, WaitInv
        <4>2. Len(inbox[c]) <= InboxCap
          BY DEF IInv, TypeOK
        <4> HIDE DEF more
        <4> QED BY <1>2, <1>3, <3>1, <4>1, <4>2
      <3>2. CASE d # c
        BY <1>4, <3>2 DEF IInv, TypeOK, WaitInv
      <3> QED BY <3>1, <3>2
    <2>2. ClientsTyped'
      BY <1>4, <2>1 DEF ClientsTyped
    <2>3. RelayTyped' /\ GuestTyped'
      BY <1>4, Typed DEF IInv, RelayTyped, GuestTyped, relay, guest
    <2>4. inbox' \in [Clients -> Seq(Packet)] /\ got' \in [Clients -> Seq(Packet)]
      BY <1>2, <1>3, <1>4 DEF IInv, WaitInv
    <2>5. WaitInv'
      BY <1>4, <2>4 DEF IInv, WaitInv, relay, guest
    <2>6. TypeOK'
      BY <2>2, <2>3 DEF TypeOK, ClientsTyped, RelayTyped, GuestTyped
    <2> QED BY <2>5, <2>6
  <1>6. ~spoke' => SocketInv'
    BY <1>4 DEF IInv, SocketInv, relay, guest
  <1>7. ~spoke' => OwnInv'
    <2> SUFFICES ASSUME ~spoke, OwnInv PROVE OwnInv'
      BY <1>4 DEF IInv, guest
    <2>1. inbox'[c] = Tail(inbox[c]) /\ got'[c] = more
      BY <1>4 DEF IInv, WaitInv
    <2>2. ASSUME NEW i \in 1..Len(inbox'[c])
          PROVE  inbox'[c][i].for = c
      <3>1. i \in 1..(Len(inbox[c]) - 1) /\ i + 1 \in 1..Len(inbox[c])
        BY <1>2, <2>1
      <3> QED BY <1>2, <2>1, <3>1 DEF OwnInv
    <2>3. ASSUME NEW i \in 1..Len(got'[c])
          PROVE  got'[c][i].for = c
      <3>1. Head(inbox[c]).for = c
        BY <1>2 DEF OwnInv
      <3>2. i \in 1..Len(got[c]) \/ i = Len(got[c]) + 1
        BY <1>3, <2>1
      <3> QED BY <1>3, <2>1, <3>1, <3>2 DEF OwnInv
    <2>4. \A d \in Clients \ {c} : inbox'[d] = inbox[d] /\ got'[d] = got[d]
      BY <1>4 DEF IInv, WaitInv
    <2> QED BY <2>2, <2>3, <2>4 DEF OwnInv
  <1> QED BY <1>5, <1>6, <1>7 DEF IInv

(* A request is dropped, refused, or passed to a guest that has no other one. *)
LEMMA RequestInv == ASSUME IInv, RelayRequest PROVE IInv'
  <1> DEFINE c == Head(hostq)
  <1> USE DEF IInv
  <1>1. hostq \in Seq(Clients) /\ hostq # <<>> /\ ~waiting
    BY DEF RelayRequest, TypeOK
  <1>2. c \in Clients /\ Tail(hostq) \in Seq(Clients)
    BY <1>1, Dequeued
  <1>3. /\ hostq' = Tail(hostq) /\ to' = c /\ out' = Drained
        /\ UNCHANGED <<client, got, fdOpen, part, guestUp, spoke>>
    BY DEF RelayRequest
  <1>4. /\ Drained \in Seq(Packet) /\ Len(Drained) <= OutCap
        /\ out = <<>> => Drained = <<>>
    BY DrainedType
  <1>5. Error(c) \in Packet /\ Error(c).for = c
    BY <1>2 DEF Error, Packet
  <1>6. CASE UNCHANGED <<inbox, waiting, forward, packets, asked>>
    <2>1. TypeOK' /\ WaitInv'
      BY <1>1, <1>2, <1>3, <1>4, <1>6 DEF TypeOK, WaitInv
    <2>2. ~spoke' => SocketInv' /\ OwnInv'
      BY <1>1, <1>3, <1>4, <1>6 DEF SocketInv, OwnInv
    <2> QED BY <2>1, <2>2
  <1>7. CASE Deliver(c, Error(c)) /\ UNCHANGED <<waiting, forward, packets, asked>>
    <2>1. /\ inbox' \in [Clients -> Seq(Packet)]
          /\ \A d \in Clients : Len(inbox'[d]) <= InboxCap
      BY <1>2, <1>5, <1>7, Delivered
    <2>2. TypeOK' /\ WaitInv'
      BY <1>1, <1>2, <1>3, <1>4, <1>7, <2>1 DEF TypeOK, WaitInv
    <2>3. ~spoke' => SocketInv'
      BY <1>1, <1>3, <1>4, <1>7 DEF SocketInv
    <2>4. ~spoke' => OwnInv'
      BY <1>2, <1>3, <1>5, <1>7, DeliveredOwn
    <2> QED BY <2>2, <2>3, <2>4
  <1>8. CASE /\ fdOpen /\ guestUp
             /\ asked' = Append(asked, c)
             /\ waiting' = TRUE /\ forward' = TRUE /\ packets' = 0
             /\ UNCHANGED inbox
    <2>1. /\ asked' \in Seq(Clients) /\ asked' # <<>> /\ Len(asked') = Len(asked) + 1
          /\ Len(asked) \in Nat /\ asked'[Len(asked) + 1] = c
          /\ asked = <<>> <=> Len(asked) = 0
      BY <1>2, <1>8, Enqueued DEF TypeOK
    <2>2. ~spoke => asked = <<>> /\ out = <<>>
      BY <1>1, <1>8 DEF SocketInv
    <2>3. TypeOK'
      BY <1>2, <1>3, <1>4, <1>8, <2>1, <2>2 DEF TypeOK
    <2>4. ~spoke' => SocketInv' /\ OwnInv'
      BY <1>2, <1>3, <1>4, <1>8, <2>1, <2>2, EmptySeq DEF SocketInv, OwnInv
    <2>5. WaitInv'
      <3>1. /\ UNCHANGED <<inbox, got, guestUp, fdOpen>> /\ fdOpen /\ guestUp
            /\ to' \in Clients /\ packets' = 0 /\ asked' # <<>>
        BY <1>2, <1>3, <1>8, <2>1
      <3>2. inbox \in [Clients -> Seq(Packet)] /\ got \in [Clients -> Seq(Packet)]
        BY DEF WaitInv
      <3> QED BY <3>1, <3>2 DEF WaitInv
    <2> QED BY <2>3, <2>4, <2>5
  <1> QED BY <1>6, <1>7, <1>8 DEF RelayRequest

(* A packet of the guest is passed to the client that the relay waits for;   *)
(* the last one of the reply ends the wait with the socket empty.           *)
LEMMA ReplyInv == ASSUME IInv, RelayReply PROVE IInv'
  <1> USE DEF IInv
  <1>1. /\ waiting /\ fdOpen /\ to \in Clients /\ packets <= MaxPackets
        /\ out \in Seq(Packet) /\ out # <<>> /\ packets' = packets + 1
        /\ UNCHANGED <<client, got, hostq, to, forward, asked, part, guestUp, spoke>>
    BY DEF RelayReply, TypeOK, WaitInv
  <1>2. /\ Tail(out) \in Seq(Packet) /\ Head(out) \in Packet /\ Head(out) = out[1]
        /\ Len(out) \in Nat \ {0} /\ Len(Tail(out)) = Len(out) - 1
        /\ \A i \in 1..(Len(out) - 1) : Tail(out)[i] = out[i + 1]
        /\ Tail(out) = <<>> <=> Len(out) = 1
    BY <1>1, Dequeued
  <1>3. out' = Tail(out)
    BY DEF RelayReply
  <1>4. CASE packets' > MaxPackets
    <2>1. fdOpen' = FALSE /\ waiting' = FALSE /\ UNCHANGED inbox
      BY <1>4 DEF RelayReply
    <2>2. TypeOK'
      <3>1. ClientsTyped'
        BY <1>1, <2>1, Typed DEF ClientsTyped
      <3>2. RelayTyped'
        <4>1. packets' \in 0..(MaxPackets + 1)
          BY <1>1, Typed DEF RelayTyped
        <4> QED BY <1>1, <2>1, <4>1, Typed DEF RelayTyped
      <3>3. GuestTyped'
        BY <1>1, <1>2, <1>3, Typed DEF GuestTyped
      <3> QED BY <3>1, <3>2, <3>3, Zenon DEF TypeOK, ClientsTyped, RelayTyped, GuestTyped
    <2>3. WaitInv'
      BY <1>1, <2>1 DEF WaitInv
    <2>4. ~spoke' => SocketInv' /\ OwnInv'
      BY <1>1, <2>1 DEF SocketInv, OwnInv
    <2> QED BY <2>2, <2>3, <2>4
  <1>5. CASE ~(packets' > MaxPackets)
    <2>1. /\ waiting' = Head(out).more /\ UNCHANGED fdOpen
          /\ Deliver(to, Head(out)) \/ UNCHANGED inbox
      BY <1>5 DEF RelayReply
    <2>2. /\ inbox' \in [Clients -> Seq(Packet)]
          /\ \A d \in Clients : Len(inbox'[d]) <= InboxCap
      BY <1>1, <1>2, <2>1, Delivered DEF TypeOK, WaitInv
    <2>3. waiting' \in BOOLEAN
      BY <1>2, <2>1 DEF Packet
    <2>4. TypeOK'
      <3>1. packets' \in 0..(MaxPackets + 1) /\ Len(out') <= OutCap
        BY <1>1, <1>2, <1>3 DEF TypeOK
      <3> QED BY <1>1, <1>2, <1>3, <2>1, <2>2, <2>3, <3>1 DEF TypeOK
    <2>5. WaitInv'
      <3>1. packets' <= MaxPackets
        BY <1>1, <1>5 DEF TypeOK
      <3> QED BY <1>1, <2>1, <2>2, <3>1 DEF WaitInv
    <2>6. ~spoke' => SocketInv'
      <3> SUFFICES ASSUME ~spoke, SocketInv PROVE SocketInv'
        BY <1>1
      <3>1. Head(out).more = out[1].more /\ 1 \in 1..Len(out)
        BY <1>2
      <3>2. ~waiting' => asked' = <<>> /\ out' = <<>>
        <4>1. ~waiting' => 1 = Len(out) /\ asked = <<>>
          BY <1>1, <2>1, <3>1 DEF SocketInv
        <4> QED BY <1>1, <1>2, <1>3, <4>1
      <3>3. ASSUME NEW i \in 1..Len(out')
            PROVE  out'[i].for = to' /\ (~out'[i].more => i = Len(out') /\ asked' = <<>>)
        <4>1. out'[i] = out[i + 1] /\ i + 1 \in 1..Len(out) /\ Len(out') = Len(out) - 1
          BY <1>2, <1>3
        <4>2. out[i + 1].for = to /\ (~out[i + 1].more => i + 1 = Len(out) /\ asked = <<>>)
          BY <1>1, <4>1 DEF SocketInv
        <4>3. i + 1 = Len(out) => i = Len(out')
          <5>1. Len(out) \in Nat /\ Len(out') = Len(out) - 1
            BY <1>2, <4>1
          <5> QED BY <5>1
        <4> QED BY <1>1, <4>1, <4>2, <4>3
      <3>4. \A i \in 1..Len(asked') : asked'[i] = to'
        BY <1>1 DEF SocketInv
      <3> QED BY <3>2, <3>3, <3>4 DEF SocketInv
    <2>7. ~spoke' => OwnInv'
      <3> SUFFICES ASSUME ~spoke, OwnInv, SocketInv PROVE OwnInv'
        BY <1>1
      <3>1. Head(out).for = to
        <4>1. Head(out) = out[1] /\ 1 \in 1..Len(out)
          BY <1>2
        <4> QED BY <1>1, <4>1 DEF SocketInv
      <3>2. CASE Deliver(to, Head(out))
        BY <1>1, <1>2, <3>1, <3>2, DeliveredOwn
      <3>3. CASE UNCHANGED inbox
        BY <1>1, <3>3 DEF OwnInv
      <3> QED BY <2>1, <3>2, <3>3
    <2> QED BY <2>4, <2>5, <2>6, <2>7
  <1> QED BY <1>4, <1>5

(* The relay's other steps, and a guest that goes or is replaced: the new     *)
(* guest's socket starts empty.                                             *)
LEMMA EndInv ==
    ASSUME IInv, RelayHangUp \/ ForwardEnds \/ GuestGoes \/ NewGuest
    PROVE  IInv'
  <1> USE DEF IInv, clientVars, relay, guest
  <1>1. /\ <<>> \in Seq(Packet) /\ <<>> \in Seq(Clients) /\ Len(<<>>) = 0
    BY EmptySeq
  <1>2. CASE RelayHangUp
    BY <1>2 DEF RelayHangUp, TypeOK, WaitInv, SocketInv, OwnInv
  <1>3. CASE ForwardEnds
    BY <1>3 DEF ForwardEnds, TypeOK, WaitInv, SocketInv, OwnInv
  <1>4. CASE GuestGoes
    <2>1. TypeOK' /\ WaitInv'
      <3>1. TypeOK'
        <4>1. ClientsTyped'
          BY <1>4, Typed DEF GuestGoes, ClientsTyped
        <4>2. RelayTyped'
          <5>1. packets' \in 0..(MaxPackets + 1)
            BY <1>4, Typed DEF GuestGoes, RelayTyped
          <5> QED BY <1>1, <1>4, <5>1, Typed DEF GuestGoes, RelayTyped
        <4>3. GuestTyped'
          <5>1. part' \in 1..MaxReply
            BY <1>4, Typed DEF GuestGoes, GuestTyped
          <5>2. asked' = <<>> /\ Len(asked') = 0 /\ 0 <= 1
            BY <1>1, <1>4 DEF GuestGoes
          <5>3. UNCHANGED <<out, spoke>> /\ guestUp' \in BOOLEAN
            BY <1>4 DEF GuestGoes
          <5> QED BY <1>1, <5>1, <5>2, <5>3, Typed DEF GuestTyped
        <4> QED BY <4>1, <4>2, <4>3, Zenon DEF TypeOK, ClientsTyped, RelayTyped, GuestTyped
      <3>2. WaitInv'
        BY <1>4 DEF GuestGoes, WaitInv
      <3> QED BY <3>1, <3>2
    <2>2. ~spoke' => SocketInv' /\ OwnInv'
      BY <1>1, <1>4 DEF GuestGoes, SocketInv, OwnInv
    <2> QED BY <2>1, <2>2
  <1>5. CASE NewGuest
    <2>1. TypeOK' /\ WaitInv'
      <3>1. TypeOK'
        <4>1. ClientsTyped'
          BY <1>5, Typed DEF NewGuest, ClientsTyped
        <4>2. RelayTyped'
          <5>1. packets' \in 0..(MaxPackets + 1)
            BY <1>5, Typed DEF NewGuest, RelayTyped
          <5> QED BY <1>1, <1>5, <5>1, Typed DEF NewGuest, RelayTyped
        <4>3. GuestTyped'
          <5>1. part' \in 1..MaxReply
            BY <1>5, Typed DEF NewGuest, GuestTyped
          <5>2. out' = <<>> /\ Len(out') = 0 /\ 0 <= OutCap
            BY <1>1, <1>5 DEF NewGuest
          <5>3. UNCHANGED <<asked, spoke>> /\ guestUp' \in BOOLEAN
            BY <1>5 DEF NewGuest
          <5> QED BY <1>1, <5>1, <5>2, <5>3, Typed DEF GuestTyped
        <4> QED BY <4>1, <4>2, <4>3, Zenon DEF TypeOK, ClientsTyped, RelayTyped, GuestTyped
      <3>2. WaitInv'
        BY <1>5 DEF NewGuest, WaitInv
      <3> QED BY <3>1, <3>2
    <2>2. ~spoke' => SocketInv' /\ OwnInv'
      BY <1>1, <1>5 DEF NewGuest, WaitInv, SocketInv, OwnInv
    <2> QED BY <2>1, <2>2
  <1> QED BY <1>2, <1>3, <1>4, <1>5

(* The guest answers the request that it has, packet by packet, or spoils     *)
(* the socket with a packet that it sends unasked.                          *)
LEMMA GuestInv ==
    ASSUME IInv, GuestAnswers \/ GuestSpeaks
    PROVE  IInv'
  <1> USE DEF IInv, clientVars, relay
  <1>1. CASE GuestSpeaks
    <2>1. PICK more \in BOOLEAN :
              out' = Append(out, [for |-> Nobody, part |-> 0, more |-> more])
      BY <1>1 DEF GuestSpeaks
    <2>2. [for |-> Nobody, part |-> 0, more |-> more] \in Packet
      BY DEF Packet
    <2>3. out' \in Seq(Packet) /\ Len(out') = Len(out) + 1
      BY <2>1, <2>2, Enqueued DEF TypeOK
    <2>4. TypeOK' /\ WaitInv' /\ spoke'
      BY <1>1, <2>3 DEF GuestSpeaks, TypeOK, WaitInv
    <2> QED BY <2>4
  <1>2. CASE GuestAnswers
    <2>1. PICK more \in BOOLEAN :
              /\ part = MaxReply => ~more
              /\ out' = Append(out, [for |-> Head(asked), part |-> part, more |-> more])
              /\ part' = IF more THEN part + 1 ELSE 1
              /\ asked' = IF more THEN asked ELSE Tail(asked)
      BY <1>2 DEF GuestAnswers
    <2> DEFINE p == [for |-> Head(asked), part |-> part, more |-> more]
    <2>2. /\ guestUp /\ asked # <<>> /\ Len(out) < OutCap /\ asked \in Seq(Clients)
          /\ UNCHANGED <<clientVars, hostq, relay, guestUp, spoke>>
      BY <1>2 DEF GuestAnswers, TypeOK
    <2>3. /\ Head(asked) \in Clients /\ Head(asked) = asked[1]
          /\ Tail(asked) \in Seq(Clients) /\ Len(Tail(asked)) = Len(asked) - 1
          /\ Len(asked) \in Nat \ {0} /\ (Tail(asked) = <<>> <=> Len(asked) = 1)
      BY <2>2, Dequeued
    <2>4. p \in Packet /\ p.for = Head(asked) /\ p.more = more
      BY <2>3 DEF TypeOK, Packet
    <2>5. /\ out' \in Seq(Packet) /\ out' # <<>> /\ Len(out) \in Nat
          /\ Len(out') = Len(out) + 1 /\ out'[Len(out) + 1] = p
          /\ \A i \in 1..Len(out) : out'[i] = out[i]
      BY <2>1, <2>4, Enqueued DEF TypeOK
    <2>6. part' \in 1..MaxReply
      BY <2>1 DEF TypeOK
    <2>7. TypeOK' /\ WaitInv'
      <3>1. /\ asked' \in Seq(Clients) /\ (~spoke => Len(asked') <= 1)
            /\ Len(out') <= OutCap
        BY <2>1, <2>2, <2>3, <2>5 DEF TypeOK
      <3>2. TypeOK'
        BY <2>2, <2>5, <2>6, <3>1 DEF TypeOK
      <3>3. WaitInv'
        BY <2>1, <2>2 DEF WaitInv
      <3> QED BY <3>2, <3>3
    <2>8. ~spoke' => SocketInv'
      <3> SUFFICES ASSUME ~spoke, SocketInv, Len(asked) <= 1 PROVE SocketInv'
        BY <2>2 DEF TypeOK
      <3>1. ~waiting => ~fdOpen
        BY <2>2 DEF SocketInv
      <3>2. waiting => \A i \in 1..Len(out) : out[i].for = to /\ out[i].more
        BY <2>2 DEF SocketInv, TypeOK, Packet
      <3>3. waiting => p.for = to
        BY <2>3, <2>4 DEF SocketInv
      <3>4. ~more => asked' = <<>>
        BY <2>1, <2>3
      <3>5. waiting => \A i \in 1..Len(asked') : asked'[i] = to
        BY <2>1, <2>3, <3>4 DEF SocketInv
      <3> QED BY <2>1, <2>2, <2>4, <2>5, <3>1, <3>2, <3>3, <3>4, <3>5 DEF SocketInv
    <2>9. ~spoke' => OwnInv'
      BY <2>2 DEF OwnInv
    <2> QED BY <2>7, <2>8, <2>9
  <1> QED BY <1>1, <1>2

(* Every step preserves the inductive invariant. *)
LEMMA NextInv == IInv /\ [Next]_vars => IInv'
  <1> SUFFICES ASSUME IInv, [Next]_vars PROVE IInv'
    OBVIOUS
  <1>1. ASSUME NEW c \in Clients, Ask(c) \/ Read(c) \/ GiveUp(c)
        PROVE  IInv'
    BY <1>1, ClientInv, ReadInv
  <1>2. CASE RelayRequest
    BY <1>2, RequestInv
  <1>3. CASE RelayReply
    BY <1>3, ReplyInv
  <1>4. CASE RelayHangUp \/ ForwardEnds \/ GuestGoes \/ NewGuest
    BY <1>4, EndInv
  <1>5. CASE GuestAnswers \/ GuestSpeaks
    BY <1>5, GuestInv
  <1>6. CASE UNCHANGED vars
    BY <1>6 DEF vars, clientVars, relay, guest, IInv, TypeOK, WaitInv, SocketInv, OwnInv
  <1> QED BY <1>1, <1>2, <1>3, <1>4, <1>5, <1>6 DEF Next, RelayStep

(* The inductive invariant holds in every state of the specification. *)
LEMMA Invariant == Spec => []IInv
  BY InitInv, NextInv, PTL DEF Spec

-----------------------------------------------------------------------------
(* The sockets keep to their capacities, the relay to its count of packets,   *)
(* and a guest that sends nothing unasked never has two requests.           *)
THEOREM TypeCorrect == Spec => []TypeOK
  <1>1. IInv => TypeOK
    BY DEF IInv
  <1> QED BY <1>1, Invariant, PTL

(* No client ever reads, or has in its socket, a packet of another's reply. *)
THEOREM RepliesAreOwn == Spec => []OwnReply
  <1>1. IInv => OwnReply
    <2> SUFFICES ASSUME IInv, ~spoke, NEW c \in Clients,
                        NEW i \in 1..Len(got[c] \o inbox[c])
                 PROVE  (got[c] \o inbox[c])[i].for = c
      BY DEF OwnReply
    <2>1. got[c] \in Seq(Packet) /\ inbox[c] \in Seq(Packet)
      BY DEF IInv, TypeOK
    <2>2. OwnInv
      BY DEF IInv
    <2>3. \/ i \in 1..Len(got[c]) /\ (got[c] \o inbox[c])[i] = got[c][i]
          \/ /\ i - Len(got[c]) \in 1..Len(inbox[c])
             /\ (got[c] \o inbox[c])[i] = inbox[c][i - Len(got[c])]
      BY <2>1, InConcat
    <2> QED BY <2>2, <2>3 DEF OwnInv
  <1> QED BY <1>1, Invariant, PTL

-----------------------------------------------------------------------------
(* Whole replies: what each client gets is numbered from 1 on, or is the      *)
(* relay's refusal.                                                         *)

Fresh(c) == inbox[c] = <<>> /\ got[c] = <<>>

(* A client asks once, and has got nothing before its request is taken. *)
OnceInv ==
    /\ \A i, j \in 1..Len(hostq) : hostq[i] = hostq[j] => i = j
    /\ \A i \in 1..Len(hostq) :
           hostq[i] # to /\ client[hostq[i]] # "idle" /\ Fresh(hostq[i])
    /\ \A c \in Clients : client[c] = "idle" => c # to /\ Fresh(c)

(* The packets of the reply that the relay waits for follow on one another,   *)
(* and the client that still waits for it has got all that came so far.      *)
PartInv ==
    waiting =>
        /\ \A i \in 1..Len(out) : out[i].part = packets + i
        /\ asked # <<>> => part = packets + Len(out) + 1
        /\ forward /\ client[to] = "asked" => Len(got[to]) + Len(inbox[to]) = packets

Numbered(c) ==
    /\ \A i \in 1..Len(got[c]) : got[c][i].part = i
    /\ \A i \in 1..Len(inbox[c]) : inbox[c][i].part = Len(got[c]) + i

Refused(c) ==
    /\ got[c] = <<>>
    /\ Len(inbox[c]) = 1 /\ inbox[c][1].part = 0 /\ ~inbox[c][1].more

StreamInv ==
    \A c \in Clients :
        /\ client[c] = "asked" => Numbered(c) \/ Refused(c)
        /\ client[c] = "asked" /\ waiting /\ forward /\ c = to => Numbered(c)
        /\ client[c] = "answered" => \A i \in 1..Len(got[c]) : got[c][i].part = i

WInv == ~spoke => OnceInv /\ PartInv /\ StreamInv

(* A client that asks is new to the relay. *)
LEMMA AskWhole ==
    ASSUME IInv, WInv, NEW c \in Clients, Ask(c)
    PROVE  WInv'
  <1> SUFFICES ASSUME ~spoke, OnceInv, PartInv, StreamInv
               PROVE  OnceInv' /\ PartInv' /\ StreamInv'
    BY DEF Ask, WInv, guest
  <1>1. /\ client' = [client EXCEPT ![c] = "asked"] /\ client[c] = "idle"
        /\ hostq' = Append(hostq, c)
        /\ UNCHANGED <<inbox, got, to, waiting, forward, packets, asked, part, out>>
    BY DEF Ask, relay, guest
  <1>2. /\ Len(hostq) \in Nat /\ Len(hostq') = Len(hostq) + 1
        /\ \A i \in 1..Len(hostq) : hostq'[i] = hostq[i]
        /\ hostq'[Len(hostq) + 1] = c
    BY <1>1, Enqueued DEF IInv, TypeOK
  <1>3. \A d \in Clients : client'[d] = IF d = c THEN "asked" ELSE client[d]
    BY <1>1 DEF IInv, TypeOK
  <1>4. c # to /\ Fresh(c)
    BY <1>1 DEF OnceInv
  <1>5. ASSUME NEW i \in 1..Len(hostq')
        PROVE  i \in 1..Len(hostq) \/ i = Len(hostq) + 1
    BY <1>2
  <1>6. \A i \in 1..Len(hostq) : hostq[i] \in Clients
    BY ElementOfSeq DEF IInv, TypeOK
  <1>7. OnceInv'
    BY <1>1, <1>2, <1>3, <1>4, <1>5, <1>6 DEF OnceInv, Fresh
  <1>8. PartInv'
    BY <1>1, <1>3, <1>4 DEF PartInv, IInv, WaitInv
  <1>9. StreamInv'
    <2>1. Numbered(c)
      BY <1>4, EmptySeq DEF Fresh, Numbered
    <2>2. /\ \A d \in Clients : (Numbered(d)' <=> Numbered(d)) /\ (Refused(d)' <=> Refused(d))
          /\ \A d \in Clients : (\A i \in 1..Len(got'[d]) : got'[d][i].part = i)
                               <=> (\A i \in 1..Len(got[d]) : got[d][i].part = i)
      BY <1>1 DEF Numbered, Refused
    <2>3. waiting' = waiting /\ forward' = forward /\ to' = to
      BY <1>1
    <2> HIDE DEF Numbered, Refused
    <2>4. ASSUME NEW d \in Clients
          PROVE  /\ client'[d] = "asked" => (Numbered(d) \/ Refused(d))'
                 /\ client'[d] = "asked" /\ waiting /\ forward /\ d = to => Numbered(d)'
                 /\ client'[d] = "answered" => \A i \in 1..Len(got'[d]) : got'[d][i].part = i
      <3>1. CASE d = c
        BY <1>3, <2>1, <2>2, <3>1
      <3>2. CASE d # c
        BY <1>3, <2>2, <3>2 DEF StreamInv
      <3> QED BY <3>1, <3>2
    <2> QED BY <2>3, <2>4 DEF StreamInv
  <1> QED BY <1>7, <1>8, <1>9

(* A client that gives up has got nothing that it did not have. *)
LEMMA GiveUpWhole ==
    ASSUME IInv, WInv, NEW c \in Clients, GiveUp(c)
    PROVE  WInv'
  <1> SUFFICES ASSUME ~spoke, OnceInv, PartInv, StreamInv
               PROVE  OnceInv' /\ PartInv' /\ StreamInv'
    BY DEF GiveUp, WInv, guest
  <1>1. UNCHANGED <<got, hostq, to, waiting, forward, packets, asked, part, out>>
    BY DEF GiveUp, relay, guest
  <1>2. /\ \A d \in Clients : client'[d] = IF d = c THEN "failed" ELSE client[d]
        /\ \A d \in Clients : inbox'[d] = IF d = c THEN <<>> ELSE inbox[d]
    BY DEF GiveUp, IInv, TypeOK, WaitInv
  <1>3. \A i \in 1..Len(hostq) : hostq[i] \in Clients
    BY ElementOfSeq DEF IInv, TypeOK
  <1>4. OnceInv'
    BY <1>1, <1>2, <1>3 DEF OnceInv, Fresh
  <1>5. PartInv'
    BY <1>1, <1>2 DEF PartInv, IInv, WaitInv
  <1>6. StreamInv'
    BY <1>1, <1>2 DEF StreamInv, Numbered, Refused
  <1> QED BY <1>4, <1>5, <1>6

(* What a client has read grows by the next number, and a client that reads   *)
(* the end of its reply has read all of it.                                 *)
LEMMA ReadWhole ==
    ASSUME IInv, WInv, NEW c \in Clients, Read(c)
    PROVE  WInv'
  <1> SUFFICES ASSUME ~spoke, OnceInv, PartInv, StreamInv
               PROVE  OnceInv' /\ PartInv' /\ StreamInv'
    BY DEF Read, WInv, guest
  <1> DEFINE s == inbox[c]
             g == got[c]
  <1>1. /\ UNCHANGED <<hostq, to, waiting, forward, packets, asked, part, out>>
        /\ client[c] = "asked" /\ s # <<>> /\ s \in Seq(Packet) /\ g \in Seq(Packet)
    BY DEF Read, relay, guest, IInv, TypeOK
  <1>2. /\ Head(s) \in Packet /\ Head(s) = s[1] /\ Len(s) \in Nat \ {0}
        /\ Len(Tail(s)) = Len(s) - 1
        /\ \A i \in 1..(Len(s) - 1) : Tail(s)[i] = s[i + 1]
    BY <1>1, Dequeued
  <1>3. /\ Len(g) \in Nat /\ Len(Append(g, Head(s))) = Len(g) + 1
        /\ \A i \in 1..Len(g) : Append(g, Head(s))[i] = g[i]
        /\ Append(g, Head(s))[Len(g) + 1] = Head(s)
    BY <1>1, <1>2, Enqueued
  <1>4. /\ inbox'[c] = Tail(s) /\ got'[c] = Append(g, Head(s))
        /\ client'[c] = IF s[1].more THEN "asked"
                         ELSE IF got'[c][1].part = 0 THEN "failed" ELSE "answered"
        /\ \A d \in Clients \ {c} :
               inbox'[d] = inbox[d] /\ got'[d] = got[d] /\ client'[d] = client[d]
    BY <1>1, <1>2 DEF Read, IInv, TypeOK, WaitInv
  <1>5. \A i \in 1..Len(hostq) : hostq[i] \in Clients /\ hostq[i] # c
    BY <1>1, ElementOfSeq DEF IInv, TypeOK, OnceInv, Fresh
  <1>6. OnceInv'
    BY <1>1, <1>4, <1>5 DEF OnceInv, Fresh
  <1>7. /\ Len(g) \in Nat /\ Len(s) \in Nat \ {0}
        /\ Len(got'[c]) = Len(g) + 1 /\ Len(inbox'[c]) = Len(s) - 1
    BY <1>2, <1>3, <1>4
  <1>8. /\ Len(got'[c]) + Len(inbox'[c]) = Len(g) + Len(s)
        /\ \A i \in 1..Len(inbox'[c]) : Len(g) + (i + 1) = Len(got'[c]) + i
    <2> HIDE DEF s, g
    <2> QED BY <1>7
  <1>9. PartInv'
    BY <1>1, <1>4, <1>8 DEF PartInv, IInv, WaitInv
  <1>10. Numbered(c) => Numbered(c)'
    <2> SUFFICES ASSUME Numbered(c) PROVE Numbered(c)'
      OBVIOUS
    <2>1. ASSUME NEW i \in 1..Len(got'[c])
          PROVE  got'[c][i].part = i
      <3>1. CASE i \in 1..Len(g)
        BY <1>3, <1>4, <3>1 DEF Numbered
      <3>2. CASE i = Len(g) + 1
        <4>1. s[1].part = Len(g) + 1
          BY <1>2 DEF Numbered
        <4> QED BY <1>2, <1>3, <1>4, <3>2, <4>1
      <3> QED BY <1>3, <1>4, <3>1, <3>2
    <2>2. ASSUME NEW i \in 1..Len(inbox'[c])
          PROVE  inbox'[c][i].part = Len(got'[c]) + i
      <3>1. inbox'[c][i] = s[i + 1] /\ i + 1 \in 1..Len(s)
        BY <1>2, <1>4
      <3>2. s[i + 1].part = Len(g) + (i + 1)
        BY <3>1 DEF Numbered
      <3>3. Len(g) + (i + 1) = Len(got'[c]) + i
        BY <1>8
      <3> QED BY <3>1, <3>2, <3>3
    <2> QED BY <2>1, <2>2 DEF Numbered
  <1>11. StreamInv'
    <2>1. ASSUME NEW d \in Clients \ {c}
          PROVE  /\ client'[d] = "asked" => Numbered(d)' \/ Refused(d)'
                 /\ client'[d] = "asked" /\ waiting' /\ forward' /\ d = to' => Numbered(d)'
                 /\ client'[d] = "answered" => \A i \in 1..Len(got'[d]) : got'[d][i].part = i
      <3>1. /\ got'[d] = got[d] /\ inbox'[d] = inbox[d] /\ client'[d] = client[d]
            /\ UNCHANGED <<waiting, forward, to>>
        BY <1>1, <1>4
      <3>2. (Numbered(d)' <=> Numbered(d)) /\ (Refused(d)' <=> Refused(d))
        BY <3>1 DEF Numbered, Refused
      <3> HIDE DEF Numbered, Refused
      <3> QED BY <3>1, <3>2 DEF StreamInv
    <2>2. CASE Numbered(c)
      <3>1. Numbered(c)'
        BY <1>10, <2>2
      <3> QED BY <2>1, <3>1 DEF StreamInv, Numbered
    <2>3. CASE Refused(c)
      <3>1. ~s[1].more /\ s[1].part = 0 /\ Len(g) = 0
        BY <2>3, EmptySeq DEF Refused
      <3>2. got'[c][1] = s[1]
        BY <1>2, <1>3, <1>4, <3>1
      <3>3. client'[c] = "failed"
        BY <1>4, <3>1, <3>2
      <3> QED BY <2>1, <3>3 DEF StreamInv
    <2> QED BY <1>1, <2>2, <2>3 DEF StreamInv
  <1> QED BY <1>6, <1>9, <1>11

(* A request that is taken is the only one of its client: the reply that the  *)
(* relay goes on to wait for starts with packet 1.                          *)
LEMMA RequestWhole ==
    ASSUME IInv, WInv, RelayRequest
    PROVE  WInv'
  <1> SUFFICES ASSUME ~spoke, OnceInv, PartInv, StreamInv
               PROVE  OnceInv' /\ PartInv' /\ StreamInv'
    BY DEF RelayRequest, WInv
  <1>1. /\ hostq \in Seq(Clients) /\ hostq # <<>> /\ ~waiting
        /\ \A i \in 1..Len(hostq) : hostq[i] \in Clients
    BY ElementOfSeq DEF RelayRequest, IInv, TypeOK
  <1>. PICK c \in Clients : c = hostq[1]
    BY <1>1, Dequeued
  <1>2. /\ c = hostq[1] /\ Head(hostq) = c /\ Len(hostq) \in Nat \ {0}
        /\ Len(Tail(hostq)) = Len(hostq) - 1
        /\ \A i \in 1..(Len(hostq) - 1) : Tail(hostq)[i] = hostq[i + 1]
    BY <1>1, Dequeued
  <1>3. /\ hostq' = Tail(hostq) /\ to' = c /\ out' = Drained
        /\ UNCHANGED <<client, got, fdOpen, part, guestUp>>
    BY <1>2 DEF RelayRequest
  <1>4. 1 \in 1..Len(hostq) /\ Fresh(c) /\ client[c] # "idle"
    BY <1>2 DEF OnceInv
  <1>5. Error(c) \in Packet /\ Error(c).part = 0 /\ Error(c).more = FALSE
    BY <1>2 DEF Error, Packet
  <1>6. \A d \in Clients \ {c} : inbox'[d] = inbox[d]
    BY <1>2, <1>5, Delivered DEF RelayRequest, IInv
  <1>7. OnceInv'
    <2>1. ASSUME NEW i \in 1..Len(hostq')
          PROVE  /\ i + 1 \in 1..Len(hostq) /\ i + 1 # 1 /\ hostq'[i] = hostq[i + 1]
      BY <1>2, <1>3
    <2>2. ASSUME NEW i \in 1..Len(hostq')
          PROVE  hostq'[i] # c /\ hostq'[i] \in Clients
      <3>1. hostq[i + 1] # c
        BY <1>4, <2>1 DEF OnceInv
      <3>2. hostq[i + 1] \in Clients
        BY <1>1, <2>1
      <3> QED BY <2>1, <3>1, <3>2
    <2>3. ASSUME NEW i \in 1..Len(hostq'), NEW d \in Clients, d = hostq'[i]
          PROVE  d # to' /\ client'[d] # "idle" /\ inbox'[d] = <<>> /\ got'[d] = <<>>
      <3>1. d = hostq[i + 1] /\ d # c /\ i + 1 \in 1..Len(hostq)
        BY <2>1, <2>2, <2>3
      <3>2. client[d] # "idle" /\ Fresh(d)
        BY <3>1 DEF OnceInv
      <3> QED BY <1>3, <1>6, <3>1, <3>2 DEF Fresh
    <2>4. ASSUME NEW i \in 1..Len(hostq'), NEW j \in 1..Len(hostq'), hostq'[i] = hostq'[j]
          PROVE  i = j
      <3>1. i + 1 = j + 1
        BY <2>1, <2>4 DEF OnceInv
      <3> QED BY <1>2, <1>3, <3>1
    <2>5. ASSUME NEW d \in Clients, client'[d] = "idle"
          PROVE  d # to' /\ Fresh(d)'
      <3>1. client[d] = "idle" /\ d # c
        BY <1>3, <1>4, <2>5
      <3>2. Fresh(d)
        BY <3>1 DEF OnceInv
      <3>3. inbox'[d] = inbox[d] /\ got'[d] = got[d]
        BY <1>3, <1>6, <3>1
      <3> QED BY <1>3, <3>1, <3>2, <3>3 DEF Fresh
    <2> QED BY <2>2, <2>3, <2>4, <2>5 DEF OnceInv, Fresh
  <1>8. PartInv' /\ StreamInv'
    <2>1. CASE UNCHANGED <<inbox, waiting, forward, packets, asked>>
      BY <1>1, <1>3, <2>1 DEF PartInv, StreamInv, Numbered, Refused
    <2>2. CASE Deliver(c, Error(c)) /\ UNCHANGED <<waiting, forward, packets, asked>>
      <3>1. inbox'[c] = Append(inbox[c], Error(c)) \/ inbox'[c] = inbox[c]
        BY <1>2, <1>5, <2>2, Delivered DEF IInv
      <3>2. inbox'[c] = Append(inbox[c], Error(c)) => Refused(c)'
        <4>1. inbox[c] = <<>> /\ got'[c] = <<>> /\ inbox[c] \in Seq(Packet)
          BY <1>2, <1>3, <1>4 DEF Fresh, IInv, TypeOK
        <4>2. Len(inbox[c]) = 0
          BY <4>1, EmptySeq
        <4>3. /\ Len(Append(inbox[c], Error(c))) = 1
              /\ Append(inbox[c], Error(c))[1] = Error(c)
          BY <1>5, <4>1, <4>2, Enqueued
        <4> QED BY <1>5, <4>1, <4>3 DEF Refused
      <3>3. inbox'[c] = inbox[c] => (Numbered(c) => Numbered(c)') /\ (Refused(c) => Refused(c)')
        BY <1>3 DEF Numbered, Refused
      <3>4. PartInv' /\ ~waiting'
        BY <1>1, <2>2 DEF PartInv
      <3>5. ASSUME NEW d \in Clients \ {c}
            PROVE  /\ client'[d] = "asked" => Numbered(d)' \/ Refused(d)'
                   /\ client'[d] = "answered" => \A i \in 1..Len(got'[d]) : got'[d][i].part = i
        BY <1>3, <1>6 DEF StreamInv, Numbered, Refused
      <3>6. client'[c] = "asked" => Numbered(c)' \/ Refused(c)'
        BY <1>3, <3>1, <3>2, <3>3 DEF StreamInv
      <3>7. client'[c] = "answered" => \A i \in 1..Len(got'[c]) : got'[c][i].part = i
        BY <1>3 DEF StreamInv
      <3> QED BY <3>4, <3>5, <3>6, <3>7 DEF StreamInv
    <2>3. CASE /\ fdOpen /\ guestUp
               /\ asked' = Append(asked, c)
               /\ waiting' = TRUE /\ forward' = TRUE /\ packets' = 0
               /\ UNCHANGED inbox
      <3>1. asked = <<>> /\ out = <<>> /\ part = 1
        BY <1>1, <2>3 DEF IInv, SocketInv, WaitInv
      <3>2. out' = <<>> /\ Len(out') = 0 /\ part' = 1
        BY <1>3, <3>1, DrainedType, EmptySeq DEF IInv
      <3>3. inbox'[c] = <<>> /\ got'[c] = <<>> /\ Len(<<>>) = 0
        BY <1>3, <1>4, <2>3, EmptySeq DEF Fresh
      <3>4. Len(got'[c]) + Len(inbox'[c]) = 0
        BY <3>3
      <3>5. PartInv'
        <4>1. packets' = 0 /\ to' = c /\ packets' + Len(out') + 1 = 1
          BY <1>3, <2>3, <3>2
        <4>2. 1..Len(out') = {}
          BY <3>2
        <4> QED BY <3>2, <3>4, <4>1, <4>2 DEF PartInv
      <3>6. Numbered(c)'
        BY <3>3 DEF Numbered
      <3>7. StreamInv'
        BY <1>3, <2>3, <3>6 DEF StreamInv, Numbered, Refused
      <3> QED BY <3>5, <3>7
    <2> QED BY <1>2, <2>1, <2>2, <2>3 DEF RelayRequest
  <1> QED BY <1>7, <1>8

(* A client whose socket holds a whole reply gets the packet that follows     *)
(* those that it has got.                                                   *)
LEMMA ReplyWhole ==
    ASSUME IInv, WInv, RelayReply, InboxCap >= MaxReply
    PROVE  WInv'
  <1> SUFFICES ASSUME ~spoke, OnceInv, PartInv, StreamInv
               PROVE  OnceInv' /\ PartInv' /\ StreamInv'
    BY DEF RelayReply, WInv
  <1> DEFINE p == Head(out)
  <1>. PICK t \in Clients : t = to
    BY DEF RelayReply, IInv, WaitInv
  <1>1. /\ waiting /\ to = t /\ to' = t /\ out \in Seq(Packet) /\ out # <<>>
        /\ packets \in Nat /\ packets' = packets + 1 /\ out' = Tail(out)
        /\ UNCHANGED <<client, got, hostq, to, forward, asked, part>>
    BY DEF RelayReply, IInv, TypeOK, WaitInv
  <1>2. /\ p \in Packet /\ p = out[1] /\ Len(out) \in Nat \ {0}
        /\ Len(Tail(out)) = Len(out) - 1
        /\ \A i \in 1..(Len(out) - 1) : Tail(out)[i] = out[i + 1]
    BY <1>1, Dequeued
  <1>3. p.part = packets + 1 /\ p.part <= MaxReply
    BY <1>1, <1>2 DEF PartInv, Packet
  <1>4. \A i \in 1..Len(hostq) : hostq[i] \in Clients
    BY ElementOfSeq DEF IInv, TypeOK
  <1>5. CASE UNCHANGED inbox /\ waiting' = FALSE
    BY <1>1, <1>5 DEF OnceInv, PartInv, StreamInv, Fresh, Numbered, Refused
  <1>6. ASSUME waiting' = p.more,
               (Deliver(to, p) /\ forward) \/ (UNCHANGED inbox /\ ~forward)
        PROVE  OnceInv' /\ PartInv' /\ StreamInv'
    <2>1. \A d \in Clients \ {t} : inbox'[d] = inbox[d]
      BY <1>1, <1>2, <1>6, Delivered DEF IInv
    <2>2. forward /\ client[t] = "asked" => inbox'[t] = Append(inbox[t], p)
      <3> SUFFICES ASSUME forward, client[t] = "asked"
                   PROVE  inbox'[t] = Append(inbox[t], p)
        OBVIOUS
      <3>1. Len(got[t]) + Len(inbox[t]) = packets
        BY <1>1 DEF PartInv
      <3>2. Len(got[t]) \in Nat /\ Len(inbox[t]) \in Nat
        BY <1>1, LenProperties DEF IInv, TypeOK
      <3>3. Len(inbox[t]) < InboxCap
        <4>1. packets \in Nat /\ packets + 1 <= MaxReply
          BY <1>1, <1>3
        <4>2. PICK g \in Nat, k \in Nat : g = Len(got[t]) /\ k = Len(inbox[t])
          BY <3>2
        <4>3. g + k = packets
          BY <3>1, <4>2
        <4>4. k < InboxCap
          BY <4>1, <4>3
        <4> QED BY <4>2, <4>4
      <3> QED BY <1>1, <1>2, <1>6, <3>2, <3>3 DEF Deliver, IInv, WaitInv
    <2>3. ~(forward /\ client[t] = "asked") => inbox' = inbox
      BY <1>1, <1>2, <1>6, Delivered DEF IInv
    <2>4. OnceInv'
      BY <1>1, <1>4, <2>1, <2>3 DEF OnceInv, Fresh
    <2>5. forward /\ client[t] = "asked" =>
              /\ Len(got'[t]) + Len(inbox'[t]) = packets'
              /\ Numbered(t)'
      <3> SUFFICES ASSUME forward, client[t] = "asked"
                   PROVE  Len(got'[t]) + Len(inbox'[t]) = packets' /\ Numbered(t)'
        OBVIOUS
      <3>1. Len(got[t]) + Len(inbox[t]) = packets /\ Numbered(t)
        BY <1>1 DEF PartInv, StreamInv
      <3>2. /\ Len(inbox[t]) \in Nat /\ Len(inbox'[t]) = Len(inbox[t]) + 1
            /\ \A i \in 1..Len(inbox[t]) : inbox'[t][i] = inbox[t][i]
            /\ inbox'[t][Len(inbox[t]) + 1] = p
        <4>1. inbox[t] \in Seq(Packet) /\ p \in Packet /\ inbox'[t] = Append(inbox[t], p)
          BY <1>1, <1>2, <2>2 DEF IInv, TypeOK
        <4> HIDE DEF p
        <4> QED BY <4>1, Enqueued
      <3>3. got'[t] = got[t] /\ Len(got[t]) \in Nat
        BY <1>1, LenProperties DEF IInv, TypeOK
      <3>4. /\ Len(got[t]) + Len(inbox'[t]) = packets'
            /\ p.part = Len(got[t]) + (Len(inbox[t]) + 1)
        <4>1. packets \in Nat /\ packets' = packets + 1 /\ p.part = packets + 1
          BY <1>1, <1>3
        <4>2. /\ Len(got[t]) \in Nat /\ Len(inbox[t]) \in Nat
              /\ Len(inbox'[t]) = Len(inbox[t]) + 1
          BY <3>2, <3>3
        <4>3. PICK g \in Nat, k \in Nat : g = Len(got[t]) /\ k = Len(inbox[t])
          BY <4>2
        <4>4. g + k = packets
          BY <3>1, <4>3
        <4>5. g + (k + 1) = packets' /\ packets + 1 = g + (k + 1)
          BY <4>1, <4>4
        <4>6. Len(got[t]) = g /\ Len(inbox'[t]) = k + 1
          BY <4>2, <4>3
        <4> QED BY <4>1, <4>3, <4>5, <4>6
      <3>5. ASSUME NEW i \in 1..Len(inbox'[t])
            PROVE  inbox'[t][i].part = Len(got'[t]) + i
        <4>1. i \in 1..Len(inbox[t]) \/ i = Len(inbox[t]) + 1
          BY <3>2
        <4> QED BY <1>1, <3>1, <3>2, <3>3, <3>4, <4>1 DEF Numbered
      <3> QED BY <1>1, <3>1, <3>3, <3>4, <3>5 DEF Numbered
    <2>6. PartInv'
      <3>1. ASSUME NEW i \in 1..Len(out')
            PROVE  out'[i].part = packets' + i
        <4>1. out'[i] = out[i + 1] /\ i + 1 \in 1..Len(out) /\ i \in Nat
          BY <1>1, <1>2
        <4>2. out[i + 1].part = packets + (i + 1)
          BY <1>1, <4>1 DEF PartInv
        <4> QED BY <1>1, <4>1, <4>2
      <3>2. asked' # <<>> => part' = packets' + Len(out') + 1
        <4>1. asked # <<>> => part = packets + Len(out) + 1
          BY <1>1 DEF PartInv
        <4>2. Len(out') = Len(out) - 1 /\ Len(out) \in Nat
          BY <1>1, <1>2
        <4> QED BY <1>1, <4>1, <4>2
      <3>3. forward' /\ client'[to'] = "asked" => Len(got'[to']) + Len(inbox'[to']) = packets'
        BY <1>1, <2>5
      <3> QED BY <3>1, <3>2, <3>3 DEF PartInv
    <2>7. StreamInv'
      <3>1. ASSUME NEW d \in Clients \ {t}
            PROVE  /\ client'[d] = "asked" => Numbered(d)' \/ Refused(d)'
                   /\ client'[d] = "answered" => \A i \in 1..Len(got'[d]) : got'[d][i].part = i
        <4>1. got'[d] = got[d] /\ inbox'[d] = inbox[d] /\ client'[d] = client[d]
          BY <1>1, <2>1
        <4>2. (Numbered(d)' <=> Numbered(d)) /\ (Refused(d)' <=> Refused(d))
          BY <4>1 DEF Numbered, Refused
        <4> HIDE DEF Numbered, Refused
        <4> QED BY <4>1, <4>2 DEF StreamInv
      <3>2. ~(forward /\ client[t] = "asked") =>
                (client'[t] = "asked" => Numbered(t)' \/ Refused(t)')
        BY <1>1, <2>3 DEF StreamInv, Numbered, Refused
      <3>3. client'[t] = "answered" => \A i \in 1..Len(got'[t]) : got'[t][i].part = i
        BY <1>1 DEF StreamInv
      <3>4. to' = t /\ (forward' => forward) /\ client' = client
        BY <1>1
      <3> SUFFICES ASSUME NEW d \in Clients
                   PROVE  /\ client'[d] = "asked" => Numbered(d)' \/ Refused(d)'
                          /\ client'[d] = "asked" /\ waiting' /\ forward' /\ d = to'
                                 => Numbered(d)'
                          /\ client'[d] = "answered" =>
                                 \A i \in 1..Len(got'[d]) : got'[d][i].part = i
        BY DEF StreamInv
      <3>5. CASE d # t
        BY <3>1, <3>4, <3>5
      <3>6. CASE d = t
        BY <2>5, <3>2, <3>3, <3>4, <3>6
      <3> QED BY <3>5, <3>6
    <2> QED BY <2>4, <2>6, <2>7
  <1>7. \/ UNCHANGED inbox /\ waiting' = FALSE
        \/ waiting' = p.more /\ ((Deliver(to, p) /\ forward) \/ (UNCHANGED inbox /\ ~forward))
    <2>1. CASE packets' > MaxPackets
      BY <2>1 DEF RelayReply
    <2>2. CASE ~(packets' > MaxPackets)
      <3>1. CASE forward
        BY <2>2, <3>1 DEF RelayReply, Deliver
      <3>2. CASE ~forward
        BY <2>2, <3>2 DEF RelayReply, Deliver
      <3> QED BY <3>1, <3>2
    <2> QED BY <2>1, <2>2
  <1> QED BY <1>5, <1>6, <1>7

(* The relay's other steps end a wait or take nothing from the clients. *)
LEMMA EndWhole ==
    ASSUME IInv, WInv, RelayHangUp \/ ForwardEnds \/ GuestGoes \/ NewGuest
    PROVE  WInv'
  <1> SUFFICES ASSUME ~spoke, OnceInv, PartInv, StreamInv
               PROVE  OnceInv' /\ PartInv' /\ StreamInv'
    BY DEF RelayHangUp, ForwardEnds, GuestGoes, NewGuest, WInv, guest
  <1> USE DEF OnceInv, PartInv, StreamInv, Fresh, Numbered, Refused, clientVars, relay, guest
  <1>1. CASE RelayHangUp
    BY <1>1 DEF RelayHangUp
  <1>2. CASE ForwardEnds
    BY <1>2 DEF ForwardEnds
  <1>3. CASE GuestGoes
    BY <1>3 DEF GuestGoes
  <1>4. CASE NewGuest
    <2>1. hostq' = <<>> /\ Len(hostq') = 0 /\ to' \notin Clients
      BY <1>4, EmptySeq DEF NewGuest
    <2>2. /\ UNCHANGED <<client, inbox, got>> /\ ~waiting' /\ 1..Len(hostq') = {}
      BY <1>4, <2>1 DEF NewGuest
    <2>3. OnceInv'
      BY <2>1, <2>2
    <2>4. PartInv' /\ StreamInv'
      BY <2>2
    <2> QED BY <2>3, <2>4
  <1> QED BY <1>1, <1>2, <1>3, <1>4

(* The guest numbers the packets of a reply. *)
LEMMA GuestWhole ==
    ASSUME IInv, WInv, GuestAnswers \/ GuestSpeaks
    PROVE  WInv'
  <1>1. CASE GuestSpeaks
    BY <1>1 DEF GuestSpeaks, WInv
  <1>2. CASE GuestAnswers
    <2> SUFFICES ASSUME ~spoke, OnceInv, PartInv, StreamInv
                 PROVE  OnceInv' /\ PartInv' /\ StreamInv'
      BY <1>2 DEF GuestAnswers, WInv
    <2>1. UNCHANGED <<client, inbox, got, hostq, to, waiting, forward, packets>>
      BY <1>2 DEF GuestAnswers, clientVars, relay
    <2>2. OnceInv' /\ StreamInv'
      BY <2>1 DEF OnceInv, StreamInv, Fresh, Numbered, Refused
    <2>3. PICK more \in BOOLEAN :
              /\ out' = Append(out, [for |-> Head(asked), part |-> part, more |-> more])
              /\ part' = IF more THEN part + 1 ELSE 1
              /\ asked' = IF more THEN asked ELSE Tail(asked)
      BY <1>2 DEF GuestAnswers
    <2> DEFINE p == [for |-> Head(asked), part |-> part, more |-> more]
    <2>4. /\ asked # <<>> /\ asked \in Seq(Clients) /\ Len(asked) <= 1
          /\ part \in 0..MaxReply
      BY <1>2 DEF GuestAnswers, IInv, TypeOK
    <2>5. Head(asked) \in Clients /\ ~more => asked' = <<>>
      BY <2>3, <2>4, Dequeued
    <2>6. p \in Packet /\ p.part = part
      BY <2>4, Dequeued DEF Packet
    <2>7. /\ Len(out) \in Nat /\ Len(out') = Len(out) + 1 /\ out'[Len(out) + 1] = p
          /\ \A i \in 1..Len(out) : out'[i] = out[i]
      BY <2>3, <2>6, Enqueued DEF IInv, TypeOK
    <2>8. ASSUME waiting
          PROVE  /\ \A i \in 1..Len(out') : out'[i].part = packets + i
                 /\ asked' # <<>> => part' = packets + Len(out') + 1
      <3>1. part = packets + Len(out) + 1 /\ \A i \in 1..Len(out) : out[i].part = packets + i
        BY <2>4, <2>8 DEF PartInv
      <3>2. packets \in Nat
        BY DEF IInv, TypeOK
      <3>3. ASSUME NEW i \in 1..Len(out')
            PROVE  out'[i].part = packets + i
        <4>1. i \in 1..Len(out) \/ i = Len(out) + 1
          BY <2>7
        <4>2. packets + Len(out) + 1 = packets + (Len(out) + 1)
          BY <2>7, <3>2
        <4> QED BY <2>6, <2>7, <3>1, <4>1, <4>2
      <3>4. more => part' = packets + Len(out') + 1
        <4>1. more => part' = packets + Len(out) + 1 + 1
          BY <2>3, <3>1
        <4>2. Len(out) \in Nat /\ Len(out') = Len(out) + 1
          BY <2>7
        <4> QED BY <3>2, <4>1, <4>2
      <3>5. ~more => asked' = <<>>
        BY <2>3, <2>4, Dequeued
      <3> QED BY <3>3, <3>4, <3>5
    <2>9. PartInv'
      BY <2>1, <2>8 DEF PartInv
    <2> QED BY <2>2, <2>9
  <1> QED BY <1>1, <1>2

(* Every step keeps what the clients get numbered. *)
LEMMA NextWhole ==
    ASSUME InboxCap >= MaxReply
    PROVE  IInv /\ WInv /\ [Next]_vars => WInv'
  <1> SUFFICES ASSUME IInv, WInv, [Next]_vars PROVE WInv'
    OBVIOUS
  <1>1. ASSUME NEW c \in Clients, Ask(c) \/ Read(c) \/ GiveUp(c)
        PROVE  WInv'
    BY <1>1, AskWhole, ReadWhole, GiveUpWhole
  <1>2. CASE RelayRequest
    BY <1>2, RequestWhole
  <1>3. CASE RelayReply
    BY <1>3, ReplyWhole
  <1>4. CASE RelayHangUp \/ ForwardEnds \/ GuestGoes \/ NewGuest
    BY <1>4, EndWhole
  <1>5. CASE GuestAnswers \/ GuestSpeaks
    BY <1>5, GuestWhole
  <1>6. CASE UNCHANGED vars
    BY <1>6 DEF vars, clientVars, relay, guest, WInv, OnceInv, PartInv, StreamInv,
                Fresh, Numbered, Refused
  <1> QED BY <1>1, <1>2, <1>3, <1>4, <1>5, <1>6 DEF Next, RelayStep

(* A client whose socket holds the longest reply, and that reports success,   *)
(* has read every packet of its reply in order, whoever else gave up before. *)
THEOREM RepliesAreWhole ==
    ASSUME InboxCap >= MaxReply
    PROVE  Spec => []WholeReply
  <1>1. Init => WInv
    <2> SUFFICES ASSUME Init PROVE OnceInv /\ PartInv /\ StreamInv
      BY DEF WInv
    <2>1. Len(<<>>) = 0
      BY EmptySeq
    <2> QED BY <2>1 DEF Init, OnceInv, PartInv, StreamInv, Fresh
  <1>2. IInv /\ WInv /\ [Next]_vars => WInv'
    BY NextWhole
  <1>3. WInv => WholeReply
    BY DEF WInv, StreamInv, WholeReply
  <1> QED BY <1>1, <1>2, <1>3, Invariant, PTL DEF Spec
=============================================================================
