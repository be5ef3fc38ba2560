------------------------- MODULE ConsoleServerProofs -------------------------
(***************************************************************************)
(* Proofs about ConsoleServer, for any number of clients, any capacity of    *)
(* their channels, and any amount of output and of scrollback.               *)
(***************************************************************************)
EXTENDS ConsoleServer, QueueLemmas

USE CapAssumption, OutputAssumption

(* The recent output is an interval that ends with the latest chunk. *)
RecentInv == recent <= out + 1

(* What attach's location says of the client's channel and its writer. *)
AttachInv ==
    \A c \in Clients :
        /\ reader[c] = "none" <=> conn[c] = "none"
        /\ reader[c] \in {"header", "register"} => writer[c] = "none"
        /\ conn[c] = "none" => writer[c] = "none"
        /\ writer[c] = "none" => chan[c] = <<>> /\ ~closed[c] /\ c \notin clients

(* A client is in the map only while its channel is open and both of its     *)
(* goroutines run.                                                          *)
MapInv ==
    \A c \in clients :
        /\ ~closed[c]
        /\ reader[c] \in {"copy", "leave"}
        /\ writer[c] \in {"receive", "write"}

(* NothingLost without the sequence that joins the writer's message and the  *)
(* channel: the two meet at Taken(c).                                       *)
Joined(c) ==
    /\ writer[c] = "write" => Follows(got[c], writing[c])
    /\ chan[c] # <<>> => Follows(Taken(c), chan[c][1])
    /\ \A i \in 1..(Len(chan[c]) - 1) : Follows(chan[c][i][2], chan[c][i + 1])
    /\ c \in clients =>
           out = IF chan[c] = <<>> THEN Taken(c) ELSE chan[c][Len(chan[c])][2]

JoinedInv == \A c \in Clients : conn[c] = "open" => Joined(c)

IInv == TypeOK /\ RecentInv /\ AttachInv /\ MapInv /\ NoPanic /\ JoinedInv

-----------------------------------------------------------------------------
(* The state in which no client has connected satisfies the invariant. *)
LEMMA InitInv == Init => IInv
  <1> SUFFICES ASSUME Init PROVE IInv
    OBVIOUS
  <1>1. TypeOK
    <2>1. <<>> \in Seq(Message) /\ Len(<<>>) = 0 /\ NoMessage \in Message
      BY EmptySeq DEF Message, NoMessage
    <2>2. chan \in [Clients -> Seq(Message)] /\ \A c \in Clients : Len(chan[c]) <= Cap
      BY <2>1 DEF Init
    <2>3. writing \in [Clients -> Message]
      BY <2>1 DEF Init
    <2>4. /\ out \in 0..MaxOutput /\ recent \in 1..(MaxOutput + 1)
          /\ got \in [Clients -> 0..MaxOutput]
      BY DEF Init
    <2> QED BY <2>2, <2>3, <2>4 DEF Init, TypeOK
  <1>2. RecentInv /\ AttachInv /\ MapInv /\ NoPanic /\ JoinedInv
    BY DEF Init, RecentInv, AttachInv, MapInv, NoPanic, JoinedInv, Joined, Taken
  <1> QED BY <1>1, <1>2 DEF IInv

(* output: a client whose channel is full leaves the map, every other one     *)
(* gets the chunk behind what its channel holds.                            *)
LEMMA OutputInv == ASSUME IInv, Output PROVE IInv'
  <1> DEFINE full == {c \in clients : Len(chan[c]) = Cap}
             m == <<out', out'>>
  <1> USE DEF IInv
  <1>1. /\ out' \in 0..MaxOutput /\ out' = out + 1
        /\ recent' \in 1..(MaxOutput + 1) /\ recent' <= out' + 1
    BY DEF Output, TypeOK, RecentInv
  <1>2. m \in Message
    BY <1>1 DEF Message, TypeOK
  <1>3. ASSUME NEW c \in Clients
        PROVE  /\ chan'[c] \in Seq(Message) /\ Len(chan'[c]) <= Cap
               /\ chan'[c] = IF c \in clients' THEN Append(chan[c], m) ELSE chan[c]
    <2>1. clients' = clients \ full
      BY DEF Output, Drop
    <2>2. chan'[c] = IF c \in clients \ full THEN Append(chan[c], m) ELSE chan[c]
      BY DEF Output
    <2>3. Len(chan[c]) \in Nat /\ Len(chan[c]) <= Cap /\ chan[c] \in Seq(Message)
      BY DEF TypeOK
    <2>4. c \in clients \ full => Len(chan[c]) < Cap
      BY <2>3
    <2> QED BY <2>1, <2>2, <2>3, <2>4, <1>2, AppendProperties
  <1>4. chan' \in [Clients -> Seq(Message)]
    BY <1>3 DEF Output
  <1>5. TypeOK'
    BY <1>1, <1>3, <1>4 DEF Output, Drop, TypeOK
  <1>6. RecentInv' /\ NoPanic'
    BY <1>1 DEF Output, RecentInv, NoPanic, MapInv
  <1>7. AttachInv' /\ MapInv'
    BY <1>3 DEF Output, Drop, AttachInv, MapInv, TypeOK
  <1>8. ASSUME NEW c \in Clients, conn'[c] = "open"
        PROVE  Joined(c)'
    <2>1. Joined(c) /\ Taken(c)' = Taken(c)
      BY <1>8 DEF Output, Drop, JoinedInv, TypeOK, Taken
    <2>2. UNCHANGED <<writer, writing, got>>
      BY DEF Output
    <2>3. CASE c \in clients'
      <3>1. c \in clients
        BY <2>3 DEF Output, Drop
      <3>2. chan'[c] = Append(chan[c], m) /\ chan[c] \in Seq(Message)
        BY <1>3, <2>3 DEF TypeOK
      <3>3. /\ chan'[c] # <<>> /\ Len(chan[c]) \in Nat
            /\ Len(chan'[c]) = Len(chan[c]) + 1
            /\ \A i \in 1..Len(chan[c]) : chan'[c][i] = chan[c][i]
            /\ chan'[c][Len(chan[c]) + 1] = m
        <4> HIDE DEF m
        <4> QED BY <3>2, <1>2, Enqueued
      <3>7. /\ chan[c] = <<>> <=> Len(chan[c]) = 0
            /\ chan[c] = <<>> => out = Taken(c)
            /\ chan[c] # <<>> => out = chan[c][Len(chan[c])][2] /\ Follows(Taken(c), chan[c][1])
        BY <2>1, <3>1, <3>2, EmptySeq DEF Joined
      <3>8. Follows(out, m)
        BY <1>1 DEF Follows
      <3>4. Follows(Taken(c)', chan'[c][1])
        <4>1. CASE chan[c] = <<>>
          BY <2>1, <3>3, <3>7, <3>8, <4>1
        <4>2. CASE chan[c] # <<>>
          <5>1. chan'[c][1] = chan[c][1]
            BY <3>3, <3>7, <4>2
          <5> QED BY <2>1, <3>7, <4>2, <5>1 DEF Follows
        <4> QED BY <4>1, <4>2
      <3>5. ASSUME NEW i \in 1..(Len(chan'[c]) - 1)
            PROVE  Follows(chan'[c][i][2], chan'[c][i + 1])
        <4>1. CASE i = Len(chan[c])
          <5>1. /\ chan'[c][i] = chan[c][Len(chan[c])] /\ chan'[c][i + 1] = m
                /\ chan[c] # <<>>
            BY <3>3, <3>7, <4>1
          <5> QED BY <3>7, <3>8, <5>1
        <4>2. CASE i < Len(chan[c])
          <5>1. i \in 1..(Len(chan[c]) - 1) /\ i \in 1..Len(chan[c]) /\ i + 1 \in 1..Len(chan[c])
            BY <3>3, <4>2
          <5>2. chan'[c][i] = chan[c][i] /\ chan'[c][i + 1] = chan[c][i + 1]
            BY <3>3, <5>1
          <5>3. Follows(chan[c][i][2], chan[c][i + 1])
            BY <2>1, <5>1 DEF Joined
          <5> QED BY <5>2, <5>3 DEF Follows
        <4> QED BY <3>3, <4>1, <4>2
      <3>6. out' = chan'[c][Len(chan'[c])][2]
        BY <3>3
      <3> QED BY <2>1, <2>2, <3>3, <3>4, <3>5, <3>6 DEF Joined, Follows
    <2>4. CASE c \notin clients'
      BY <1>3, <2>1, <2>2, <2>4 DEF Joined, Follows
    <2> QED BY <2>3, <2>4
  <1> QED BY <1>5, <1>6, <1>7, <1>8 DEF JoinedInv

(* The first client connection steps: they touch neither channel nor map. *)
LEMMA ConnectInv ==
    ASSUME IInv, NEW c \in Clients, Accept(c) \/ Header(c) \/ HangUp(c) \/ CopyEnd(c)
    PROVE  IInv'
  <1> USE DEF IInv
  <1>1. TypeOK'
    BY DEF Accept, Header, HangUp, CopyEnd, TypeOK, server, channel
  <1>2. RecentInv' /\ NoPanic'
    BY DEF Accept, Header, HangUp, CopyEnd, RecentInv, NoPanic, server, channel
  <1>3. AttachInv' /\ MapInv'
    <2>1. CASE Accept(c)
      BY <2>1 DEF Accept, AttachInv, MapInv, TypeOK, server, channel
    <2>2. CASE Header(c)
      <3>1. /\ UNCHANGED <<clients, closed, chan, writer>>
            /\ reader[c] = "header" /\ conn[c] # "none"
            /\ \A d \in Clients \ {c} : reader'[d] = reader[d] /\ conn'[d] = conn[d]
            /\ reader'[c] \in {"register", "done"} /\ conn'[c] # "none"
        BY <2>2 DEF Header, AttachInv, TypeOK, server, channel
      <3>2. AttachInv'
        BY <3>1 DEF AttachInv
      <3>3. MapInv'
        BY <3>1 DEF MapInv, TypeOK
      <3> QED BY <3>2, <3>3
    <2>3. CASE HangUp(c)
      BY <2>3 DEF HangUp, AttachInv, MapInv, TypeOK, server, channel
    <2>4. CASE CopyEnd(c)
      BY <2>4 DEF CopyEnd, AttachInv, MapInv, TypeOK, server, channel
    <2> QED BY <2>1, <2>2, <2>3, <2>4
  <1>4. ASSUME NEW d \in Clients, conn'[d] = "open"
        PROVE  Joined(d)'
    <2>1. UNCHANGED <<out, clients, chan, writer, writing, got>>
      BY DEF Accept, Header, HangUp, CopyEnd, server, channel
    <2>2. CASE conn[d] = "open"
      BY <2>1, <2>2 DEF JoinedInv, Joined, Taken
    <2>3. CASE conn[d] # "open"
      <3>1. conn[d] = "none"
        BY <1>4, <2>3 DEF Accept, Header, HangUp, CopyEnd, TypeOK
      <3>2. writer[d] = "none" /\ chan[d] = <<>> /\ d \notin clients
        BY <3>1 DEF AttachInv
      <3> QED BY <2>1, <3>2 DEF Joined
    <2> QED BY <2>2, <2>3
  <1> QED BY <1>1, <1>2, <1>3, <1>4 DEF JoinedInv

(* attach sends the recent output and registers in one step: what the client *)
(* gets next is the first chunk that `recent` holds.                        *)
LEMMA RegisterInv ==
    ASSUME IInv, NEW c \in Clients, Register(c)
    PROVE  IInv'
  <1> DEFINE m == <<recent, out>>
  <1> USE DEF IInv
  <1>1. /\ m \in Message /\ <<m>> \in Seq(Message) /\ Len(<<m>>) = 1
        /\ recent - 1 \in 0..MaxOutput
    BY DEF TypeOK, Message
  <1>2. writer[c] = "none" /\ chan[c] = <<>> /\ ~closed[c]
    BY DEF Register, AttachInv
  <1>3. TypeOK'
    BY <1>1 DEF Register, TypeOK, ends
  <1>4. RecentInv' /\ NoPanic'
    BY DEF Register, RecentInv, NoPanic
  <1>5. AttachInv' /\ MapInv'
    BY <1>2 DEF Register, AttachInv, MapInv, TypeOK
  <1>6. ASSUME NEW d \in Clients, conn'[d] = "open"
        PROVE  Joined(d)'
    <2>1. CASE d = c
      <3>1. /\ chan'[c] = <<m>> /\ writer'[c] = "receive" /\ got'[c] = recent - 1
            /\ out' = out
        BY DEF Register, TypeOK
      <3>2. Taken(c)' = recent - 1
        BY <3>1 DEF Taken
      <3> QED BY <2>1, <3>1, <3>2 DEF Joined, Follows, TypeOK
    <2>2. CASE d # c
      <3>1. Joined(d)
        BY <1>6 DEF Register, JoinedInv
      <3>2. /\ chan'[d] = chan[d] /\ writer'[d] = writer[d] /\ got'[d] = got[d]
            /\ UNCHANGED <<out, writing>> /\ (d \in clients' <=> d \in clients)
        BY <2>2 DEF Register, TypeOK
      <3> QED BY <3>1, <3>2 DEF Joined, Taken
    <2> QED BY <2>1, <2>2
  <1> QED BY <1>3, <1>4, <1>5, <1>6 DEF JoinedInv

(* The writer takes the first message of its channel. *)
LEMMA ReceiveInv ==
    ASSUME IInv, NEW c \in Clients, WriterReceive(c)
    PROVE  IInv'
  <1> USE DEF IInv
  <1>1. /\ chan[c] \in Seq(Message) /\ chan[c] # <<>> /\ writer[c] = "receive"
        /\ Len(chan[c]) <= Cap
    BY DEF WriterReceive, TypeOK
  <1>2. /\ Tail(chan[c]) \in Seq(Message) /\ Head(chan[c]) \in Message
        /\ Head(chan[c]) = chan[c][1]
        /\ Len(chan[c]) \in Nat \ {0} /\ Len(Tail(chan[c])) = Len(chan[c]) - 1
        /\ \A i \in 1..(Len(chan[c]) - 1) : Tail(chan[c])[i] = chan[c][i + 1]
        /\ Tail(chan[c]) = <<>> <=> Len(chan[c]) = 1
    BY <1>1, Dequeued
  <1>3. /\ chan'[c] = Tail(chan[c]) /\ writing'[c] = Head(chan[c])
        /\ writer'[c] = "write"
        /\ UNCHANGED <<out, recent, clients, down, closed, panicked, conn, reader, got>>
    BY DEF WriterReceive, TypeOK, server
  <1>4. TypeOK'
    <2>1. chan' \in [Clients -> Seq(Message)] /\ writing' \in [Clients -> Message]
      BY <1>2 DEF WriterReceive, TypeOK
    <2>2. \A d \in Clients : Len(chan'[d]) <= Cap
      BY <1>1, <1>2 DEF WriterReceive, TypeOK
    <2> QED BY <1>3, <2>1, <2>2 DEF WriterReceive, TypeOK
  <1>5. RecentInv' /\ NoPanic'
    BY <1>3 DEF RecentInv, NoPanic
  <1>6. AttachInv' /\ MapInv'
    BY <1>1, <1>3 DEF WriterReceive, AttachInv, MapInv, TypeOK
  <1>7. ASSUME NEW d \in Clients, conn'[d] = "open"
        PROVE  Joined(d)'
    <2>1. Joined(d)
      BY <1>3, <1>7 DEF JoinedInv
    <2>2. CASE d = c
      <3>1. Taken(c)' = chan[c][1][2] /\ Taken(c) = got[c]
        BY <1>1, <1>2, <1>3 DEF Taken
      <3>2. Follows(got'[c], writing'[c])
        BY <1>1, <1>2, <1>3, <2>1, <2>2, <3>1 DEF Joined
      <3>3. chan'[c] # <<>> => Follows(Taken(c)', chan'[c][1])
        BY <1>2, <1>3, <2>1, <2>2, <3>1 DEF Joined
      <3>4. \A i \in 1..(Len(chan'[c]) - 1) : Follows(chan'[c][i][2], chan'[c][i + 1])
        BY <1>2, <1>3, <2>1, <2>2 DEF Joined
      <3>5. c \in clients' =>
              out' = IF chan'[c] = <<>> THEN Taken(c)' ELSE chan'[c][Len(chan'[c])][2]
        BY <1>1, <1>2, <1>3, <2>1, <2>2, <3>1 DEF Joined
      <3> QED BY <1>3, <2>2, <3>2, <3>3, <3>4, <3>5 DEF Joined, Follows
    <2>3. CASE d # c
      <3>1. chan'[d] = chan[d] /\ writer'[d] = writer[d] /\ writing'[d] = writing[d]
        BY <2>3 DEF WriterReceive, TypeOK
      <3> QED BY <1>3, <2>1, <3>1 DEF Joined, Taken, Follows
    <2> QED BY <2>2, <2>3
  <1> QED BY <1>4, <1>5, <1>6, <1>7 DEF JoinedInv

(* The writer's other steps: a write that ends moves `got` to the end of its *)
(* message, and one that fails closes the connection.                       *)
LEMMA WriterInv ==
    ASSUME IInv, NEW c \in Clients, WriterWrite(c) \/ WriterFail(c) \/ WriterEnd(c)
    PROVE  IInv'
  <1> USE DEF IInv
  <1>1. writing[c] \in Message /\ writing[c][2] \in 0..MaxOutput
    BY DEF TypeOK, Message
  <1>2. TypeOK'
    BY <1>1 DEF WriterWrite, WriterFail, WriterEnd, TypeOK, server, channel
  <1>3. RecentInv' /\ NoPanic'
    BY DEF WriterWrite, WriterFail, WriterEnd, RecentInv, NoPanic, server, channel
  <1>4. AttachInv' /\ MapInv'
    <2>1. CASE WriterWrite(c)
      BY <2>1 DEF WriterWrite, AttachInv, MapInv, TypeOK, server, channel
    <2>2. CASE WriterFail(c)
      BY <2>2 DEF WriterFail, AttachInv, MapInv, TypeOK, server, channel
    <2>3. CASE WriterEnd(c)
      BY <2>3 DEF WriterEnd, AttachInv, MapInv, TypeOK, server, channel
    <2> QED BY <2>1, <2>2, <2>3
  <1>5. ASSUME NEW d \in Clients, conn'[d] = "open"
        PROVE  Joined(d)'
    <2>1. Joined(d)
      BY <1>5 DEF WriterWrite, WriterFail, WriterEnd, JoinedInv, TypeOK
    <2>2. UNCHANGED <<out, clients, chan, writing>>
      BY DEF WriterWrite, WriterFail, WriterEnd, server, channel
    <2>3. Taken(d)' = Taken(d)
      BY <1>5 DEF WriterWrite, WriterFail, WriterEnd, Taken, TypeOK
    <2>4. writer'[d] = "write" => writer[d] = "write" /\ got'[d] = got[d]
      BY DEF WriterWrite, WriterFail, WriterEnd, TypeOK
    <2> QED BY <2>1, <2>2, <2>3, <2>4 DEF Joined, Follows
  <1> QED BY <1>2, <1>3, <1>4, <1>5 DEF JoinedInv

(* A client leaves the map, by itself or with all others: its channel, which *)
(* was open because it was in the map, is closed then and never again.      *)
LEMMA LeaveInv ==
    ASSUME IInv, Close \/ \E c \in Clients : Leave(c)
    PROVE  IInv'
  <1> USE DEF IInv
  <1>1. TypeOK'
    <2>1. ASSUME NEW c \in Clients, Leave(c)
          PROVE  TypeOK'
      BY <2>1 DEF Leave, TypeOK
    <2>2. CASE Close
      BY <2>2 DEF Close, Drop, TypeOK
    <2> QED BY <2>1, <2>2
  <1>2. RecentInv' /\ NoPanic'
    BY DEF Leave, Close, RecentInv, NoPanic, MapInv
  <1>3. ASSUME NEW c \in Clients, Leave(c)
        PROVE  AttachInv' /\ MapInv'
    BY <1>3 DEF Leave, AttachInv, MapInv, TypeOK
  <1>4. ASSUME Close
        PROVE  AttachInv' /\ MapInv'
    BY <1>4 DEF Close, Drop, AttachInv, MapInv, TypeOK
  <1>5. ASSUME NEW d \in Clients, conn'[d] = "open"
        PROVE  Joined(d)'
    <2>1. conn[d] = "open" /\ (d \in clients' => d \in clients)
      BY <1>5 DEF Leave, Close, Drop, TypeOK
    <2>2. UNCHANGED <<out, chan, writer, writing, got>>
      BY DEF Leave, Close
    <2> QED BY <2>1, <2>2 DEF JoinedInv, Joined, Taken, Follows
  <1> QED BY <1>1, <1>2, <1>3, <1>4, <1>5 DEF JoinedInv

(* Every step preserves the inductive invariant. *)
LEMMA NextInv == IInv /\ [Next]_vars => IInv'
  <1> SUFFICES ASSUME IInv, [Next]_vars PROVE IInv'
    OBVIOUS
  <1>1. CASE Output
    BY <1>1, OutputInv
  <1>2. CASE Close
    BY <1>2, LeaveInv
  <1>3. ASSUME NEW c \in Clients, Accept(c) \/ WriterStep(c) \/ ReaderStep(c) \/ HangUp(c)
        PROVE  IInv'
    <2>1. CASE Accept(c) \/ Header(c) \/ HangUp(c) \/ CopyEnd(c)
      BY <2>1, ConnectInv
    <2>2. CASE Register(c)
      BY <2>2, RegisterInv
    <2>3. CASE WriterReceive(c)
      BY <2>3, ReceiveInv
    <2>4. CASE WriterWrite(c) \/ WriterFail(c) \/ WriterEnd(c)
      BY <2>4, WriterInv
    <2>5. CASE Leave(c)
      BY <2>5, LeaveInv
    <2> QED BY <1>3, <2>1, <2>2, <2>3, <2>4, <2>5 DEF WriterStep, ReaderStep
  <1>4. CASE UNCHANGED vars
    BY <1>4 DEF vars, server, channel, ends, IInv, TypeOK, RecentInv, AttachInv,
                MapInv, NoPanic, JoinedInv, Joined, Taken
  <1> QED BY <1>1, <1>2, <1>3, <1>4 DEF Next

(* The inductive invariant holds in every state of the specification. *)
LEMMA Invariant == Spec => []IInv
  BY InitInv, NextInv, PTL DEF Spec

-----------------------------------------------------------------------------
(* The map, the channels and the goroutines keep their types; above all, no  *)
(* channel ever holds more than its capacity.                               *)
THEOREM TypeCorrect == Spec => []TypeOK
  <1>1. IInv => TypeOK
    BY DEF IInv
  <1> QED BY <1>1, Invariant, PTL

(* output, the end of attach and close never close a closed channel or send  *)
(* to one, in whatever order they run.                                      *)
THEOREM ServerNeverPanics == Spec => []NoPanic
  <1>1. IInv => NoPanic
    BY DEF IInv
  <1> QED BY <1>1, Invariant, PTL

(* What the invariant says of the channel and the writer's message is what   *)
(* Unbroken says of the two in a row.                                       *)
LEMMA JoinedIsUnbroken ==
    ASSUME TypeOK, NEW c \in Clients, Joined(c)
    PROVE  Unbroken(c)
  <1> DEFINE s == chan[c]
             w == <<writing[c]>>
             p == Pending(c)
  <1>1. s \in Seq(Message) /\ w \in Seq(Message) /\ Len(w) = 1 /\ Len(s) \in Nat
    BY DEF TypeOK
  <1>2. s = <<>> <=> Len(s) = 0
    BY <1>1, EmptySeq
  <1>3. CASE writer[c] = "write"
    <2>1. p = w \o s
      BY <1>3 DEF Pending
    <2>2. /\ Len(p) = Len(s) + 1 /\ p[1] = writing[c] /\ p # <<>>
          /\ \A i \in 2..(Len(s) + 1) : p[i] = s[i - 1]
      <3>1. p \in Seq(Message) /\ Len(p) = Len(w) + Len(s)
        BY <1>1, <2>1, ConcatProperties
      <3>2. \A i \in 1..(Len(w) + Len(s)) :
                p[i] = IF i <= Len(w) THEN w[i] ELSE s[i - Len(w)]
        BY <1>1, <2>1, ConcatProperties
      <3> QED BY <1>1, <3>1, <3>2, EmptySeq
    <2>3. Follows(got[c], p[1])
      BY <1>3, <2>2 DEF Joined
    <2>4. ASSUME NEW i \in 1..(Len(p) - 1)
          PROVE  Follows(p[i][2], p[i + 1])
      <3>1. CASE i = 1
        BY <1>1, <1>2, <1>3, <2>2, <3>1 DEF Joined, Taken
      <3>2. CASE i > 1
        <4>1. p[i] = s[i - 1] /\ p[i + 1] = s[i] /\ i - 1 \in 1..(Len(s) - 1)
          BY <1>1, <2>2, <3>2
        <4> QED BY <4>1 DEF Joined
      <3> QED BY <1>1, <2>2, <3>1, <3>2
    <2>5. c \in clients => out = p[Len(p)][2]
      BY <1>1, <1>2, <1>3, <2>2 DEF Joined, Taken
    <2> QED BY <2>2, <2>3, <2>4, <2>5 DEF Unbroken
  <1>4. CASE writer[c] # "write"
    <2>1. p = s
      BY <1>4 DEF Pending
    <2> QED BY <1>4, <2>1 DEF Joined, Taken, Unbroken
  <1> QED BY <1>3, <1>4

(* As long as a client's connection is open, what it has got, what its writer *)
(* holds and what its channel holds follow on one another without a gap.     *)
THEOREM ClientMissesNothing == Spec => []NothingLost
  <1>1. IInv => NothingLost
    BY JoinedIsUnbroken DEF IInv, JoinedInv, NothingLost
  <1> QED BY <1>1, Invariant, PTL

-----------------------------------------------------------------------------
(* The server as its clients see it.  Beyond IInv, the refinement needs what  *)
(* `recent` starts with, that a client which still listens is in the map     *)
(* from its registration on, and that every message is an interval of chunks *)
(* that exist.                                                              *)
MessagesInv ==
    \A c \in Clients : \A i \in 1..Len(chan[c]) :
        chan[c][i][1] <= chan[c][i][2] + 1 /\ chan[c][i][2] <= out

WatchInv ==
    \A c \in Clients :
        /\ writer[c] = "none" => writing[c] = NoMessage
        /\ conn[c] = "open" /\ writer[c] # "none" => c \in clients

RInv == IInv /\ recent = S!First /\ MessagesInv /\ WatchInv

LEMMA InitRInv == Init => RInv
  <1> SUFFICES ASSUME Init PROVE RInv
    OBVIOUS
  <1>1. recent = S!First
    BY DEF Init, S!First
  <1>2. MessagesInv
    BY EmptySeq DEF Init, MessagesInv
  <1>3. WatchInv
    BY DEF Init, WatchInv
  <1> QED BY <1>1, <1>2, <1>3, InitInv DEF RInv

(* Output keeps the latest chunks, and each client that it leaves in the map  *)
(* gets a message of one chunk.                                             *)
LEMMA OutputRInv == ASSUME RInv, Output PROVE RInv'
  <1> DEFINE m == <<out', out'>>
  <1>1. IInv'
    BY OutputInv DEF RInv
  <1>2. out \in Nat /\ out' = out + 1 /\ m \in Message
    BY <1>1 DEF RInv, IInv, TypeOK, Output, Message
  <1>3. recent' = S!First'
    BY <1>2 DEF RInv, Output, S!First
  <1>4. ASSUME NEW c \in Clients, NEW i \in 1..Len(chan'[c])
        PROVE  chan'[c][i][1] <= chan'[c][i][2] + 1 /\ chan'[c][i][2] <= out'
    <2>1. chan[c] \in Seq(Message)
      BY DEF RInv, IInv, TypeOK
    <2>2. chan'[c] = chan[c] \/ chan'[c] = Append(chan[c], m)
      BY DEF Output
    <2>3. ASSUME NEW j \in 1..Len(chan[c])
          PROVE  chan[c][j][1] <= chan[c][j][2] + 1 /\ chan[c][j][2] <= out'
      <3>1. chan[c][j] \in Message
        BY <2>1, ElementOfSeq
      <3>2. chan[c][j][2] \in Nat /\ chan[c][j][1] <= chan[c][j][2] + 1 /\ chan[c][j][2] <= out
        BY <3>1 DEF RInv, MessagesInv, Message
      <3> QED BY <1>2, <3>2
    <2>4. CASE chan'[c] = Append(chan[c], m)
      <3>1. /\ Len(chan[c]) \in Nat /\ Len(chan'[c]) = Len(chan[c]) + 1
            /\ \A j \in 1..Len(chan[c]) : chan'[c][j] = chan[c][j]
            /\ chan'[c][Len(chan[c]) + 1] = m
        <4> HIDE DEF m
        <4> QED BY <1>2, <2>1, <2>4, Enqueued
      <3>2. CASE i \in 1..Len(chan[c])
        BY <2>3, <3>1, <3>2
      <3>3. CASE i = Len(chan[c]) + 1
        BY <1>2, <3>1, <3>3
      <3> QED BY <3>1, <3>2, <3>3
    <2> QED BY <2>2, <2>3, <2>4
  <1>5. WatchInv'
    BY DEF RInv, WatchInv, Output, Drop, IInv, TypeOK
  <1> QED BY <1>1, <1>3, <1>4, <1>5 DEF RInv, MessagesInv

(* The first message of a client is what `recent` holds. *)
LEMMA RegisterRInv ==
    ASSUME RInv, NEW c \in Clients, Register(c)
    PROVE  RInv'
  <1> DEFINE m == <<recent, out>>
  <1>1. IInv'
    BY RegisterInv DEF RInv
  <1>2. out' = out /\ recent' = recent /\ recent <= out + 1
    BY DEF RInv, IInv, RecentInv, Register
  <1>3. recent' = S!First'
    BY <1>2 DEF RInv, S!First
  <1>4. ASSUME NEW d \in Clients, NEW i \in 1..Len(chan'[d])
        PROVE  chan'[d][i][1] <= chan'[d][i][2] + 1 /\ chan'[d][i][2] <= out'
    <2>1. CASE d = c
      <3>1. chan'[c] = <<m>> /\ out \in Nat
        BY DEF Register, RInv, IInv, TypeOK
      <3>2. i = 1
        BY <2>1, <3>1
      <3> QED BY <1>2, <2>1, <3>1, <3>2
    <2>2. CASE d # c
      <3>1. chan'[d] = chan[d]
        BY <2>2 DEF Register, RInv, IInv, TypeOK
      <3> QED BY <1>2, <3>1 DEF RInv, MessagesInv
    <2> QED BY <2>1, <2>2
  <1>5. WatchInv'
    BY DEF RInv, WatchInv, Register, IInv, TypeOK
  <1> QED BY <1>1, <1>3, <1>4, <1>5 DEF RInv, MessagesInv

(* The writer leaves the rest of the channel as it was. *)
LEMMA ReceiveRInv ==
    ASSUME RInv, NEW c \in Clients, WriterReceive(c)
    PROVE  RInv'
  <1>1. IInv'
    BY ReceiveInv DEF RInv
  <1>2. /\ UNCHANGED <<out, recent, clients, conn>>
        /\ writer' = [writer EXCEPT ![c] = "write"]
        /\ \A d \in Clients \ {c} : chan'[d] = chan[d] /\ writing'[d] = writing[d]
    BY DEF WriterReceive, server, RInv, IInv, TypeOK
  <1>3. recent' = S!First'
    BY <1>2 DEF RInv, S!First
  <1>4. ASSUME NEW d \in Clients, NEW i \in 1..Len(chan'[d])
        PROVE  chan'[d][i][1] <= chan'[d][i][2] + 1 /\ chan'[d][i][2] <= out'
    <2>1. CASE d = c
      <3>1. chan[c] \in Seq(Message) /\ chan[c] # <<>> /\ chan'[c] = Tail(chan[c])
        BY DEF WriterReceive, RInv, IInv, TypeOK
      <3>2. i + 1 \in 1..Len(chan[c]) /\ chan'[c][i] = chan[c][i + 1]
        BY <2>1, <3>1, Dequeued
      <3> QED BY <1>2, <2>1, <3>2 DEF RInv, MessagesInv
    <2>2. CASE d # c
      BY <1>2, <2>2 DEF RInv, MessagesInv
    <2> QED BY <2>1, <2>2
  <1>5. WatchInv'
    BY <1>2 DEF RInv, WatchInv, IInv, TypeOK, WriterReceive
  <1> QED BY <1>1, <1>3, <1>4, <1>5 DEF RInv, MessagesInv

(* No other step touches a channel, and what it takes out of the map it       *)
(* disconnects.                                                             *)
QuietActs(c) ==
    \/ Accept(c) \/ Header(c) \/ HangUp(c) \/ CopyEnd(c)
    \/ WriterWrite(c) \/ WriterFail(c) \/ WriterEnd(c)
    \/ Leave(c)

LEMMA QuietRInv ==
    ASSUME RInv, NEW c \in Clients, QuietActs(c)
    PROVE  RInv'
  <1>1. IInv'
    BY ConnectInv, WriterInv, LeaveInv DEF RInv, QuietActs
  <1>2. UNCHANGED <<out, recent, chan, writing>>
    BY DEF QuietActs, Accept, Header, HangUp, CopyEnd, WriterWrite, WriterFail, WriterEnd,
           Leave, server, channel
  <1>3. recent' = S!First' /\ MessagesInv'
    BY <1>2 DEF RInv, S!First, MessagesInv
  <1>4. WatchInv'
    <2>1. ASSUME NEW d \in Clients
          PROVE  /\ writer'[d] = "none" => writer[d] = "none"
                 /\ conn'[d] = "open" /\ writer'[d] # "none" =>
                       /\ conn[d] = "open" /\ writer[d] # "none"
                       /\ d \in clients => d \in clients'
      BY DEF QuietActs, Accept, Header, HangUp, CopyEnd, WriterWrite, WriterFail, WriterEnd,
             Leave, server, channel, RInv, IInv, TypeOK, AttachInv
    <2> QED BY <1>2, <2>1 DEF RInv, WatchInv
  <1> QED BY <1>1, <1>3, <1>4 DEF RInv

LEMMA CloseRInv == ASSUME RInv, Close PROVE RInv'
  <1>1. IInv'
    BY LeaveInv DEF RInv
  <1>2. UNCHANGED <<out, recent, chan, writing, writer>>
    BY DEF Close
  <1>3. recent' = S!First' /\ MessagesInv'
    BY <1>2 DEF RInv, S!First, MessagesInv
  <1>4. WatchInv'
    BY <1>2 DEF RInv, WatchInv, Close, Drop
  <1> QED BY <1>1, <1>3, <1>4 DEF RInv

LEMMA NextRInv == RInv /\ [Next]_vars => RInv'
  <1> SUFFICES ASSUME RInv, [Next]_vars PROVE RInv'
    OBVIOUS
  <1>1. CASE Output
    BY <1>1, OutputRInv
  <1>2. CASE Close
    BY <1>2, CloseRInv
  <1>3. ASSUME NEW c \in Clients, Accept(c) \/ WriterStep(c) \/ ReaderStep(c) \/ HangUp(c)
        PROVE  RInv'
    <2>1. Register(c) \/ WriterReceive(c) \/ QuietActs(c)
      BY <1>3, Zenon DEF WriterStep, ReaderStep, QuietActs
    <2> QED BY <2>1, RegisterRInv, ReceiveRInv, QuietRInv
  <1>4. CASE UNCHANGED vars
    <2>1. IInv'
      BY NextInv DEF RInv
    <2>2. UNCHANGED <<out, recent, chan, writing, writer, conn, clients>>
      BY <1>4 DEF vars, server, channel, ends
    <2> QED BY <2>1, <2>2 DEF RInv, S!First, MessagesInv, WatchInv
  <1> QED BY <1>1, <1>2, <1>3, <1>4 DEF Next

(* A client's view is made of its own variables, and what a client that still *)
(* listens has been sent is all the output that there is.                    *)
Gone == [at |-> "gone"]

LEMMA SentIsAll ==
    ASSUME RInv, NEW c \in Clients, conn[c] = "open", writer[c] # "none"
    PROVE  Sent(c) = out
  <1>1. c \in clients /\ Joined(c)
    BY DEF RInv, WatchInv, IInv, JoinedInv
  <1> QED BY <1>1 DEF Joined, Sent

(* Whatever changes no view but by ending it is a Lose of the stream. *)
LEMMA LoseStep ==
    ASSUME out' = out, \A c \in Clients : View(c)' = View(c) \/ View(c)' = Gone
    PROVE  S!Lose
  <1> DEFINE lost == {c \in Clients : View(c)' = Gone}
  <1> HIDE DEF View
  <1>1. ASSUME NEW c \in Clients
        PROVE  View(c)' = IF c \in lost THEN Gone ELSE View(c)
    OBVIOUS
  <1>2. [c \in Clients |-> View(c)]'
            = [c \in Clients |-> IF c \in lost THEN Gone ELSE [d \in Clients |-> View(d)][c]]
    BY <1>1
  <1>3. lost \in SUBSET Clients
    OBVIOUS
  <1> QED BY <1>2, <1>3 DEF S!Lose, S!Gone, Gone

(* output moves what is due to each client on, but to those that it drops. *)
LEMMA OutputStep == ASSUME RInv, RInv', Output PROVE S!Write
  <1> DEFINE lost == {c \in Clients : View(c)' = Gone}
  <1>1. /\ out' = out + 1 /\ out < MaxOutput
        /\ UNCHANGED <<writer, writing, got>>
        /\ \A c \in Clients : conn'[c] = conn[c] \/ conn'[c] = "closed"
        /\ \A c \in Clients : conn'[c] # conn[c] => c \in clients
    BY DEF Output, Drop, RInv, IInv, TypeOK
  <1>2. ASSUME NEW c \in Clients
        PROVE  View(c)' = IF View(c).at # "watching" THEN View(c)
                          ELSE IF c \in lost THEN Gone
                          ELSE [at |-> "watching", piece |-> View(c).piece,
                                last |-> View(c).last, due |-> out']
    <2>1. CASE conn[c] = "open" /\ writer[c] # "none"
      <3>1. View(c).at = "watching" /\ View(c).piece = writing[c] /\ View(c).last = Taken(c)
        BY <2>1 DEF View
      <3>2. CASE conn'[c] = "open"
        <4>1. Sent(c)' = out'
          <5>1. (c \in clients)' /\ Joined(c)'
            BY <1>1, <2>1, <3>2 DEF RInv, WatchInv, IInv, JoinedInv
          <5> QED BY <5>1 DEF Joined, Sent
        <4>2. Taken(c)' = Taken(c)
          BY <1>1 DEF Taken
        <4>3. View(c)' = [at |-> "watching", piece |-> writing[c], last |-> Taken(c), due |-> out']
          BY <1>1, <2>1, <3>2, <4>1, <4>2 DEF View
        <4> QED BY <3>1, <4>3 DEF Gone
      <3>3. CASE conn'[c] # "open"
        BY <1>1, <2>1, <3>1, <3>3 DEF View, Gone
      <3> QED BY <3>2, <3>3
    <2>2. CASE conn[c] = "open" /\ writer[c] = "none"
      <3>1. conn'[c] = conn[c]
        BY <1>1, <2>2 DEF RInv, IInv, AttachInv
      <3> QED BY <1>1, <2>2, <3>1 DEF View
    <2>3. CASE conn[c] # "open"
      <3>1. conn'[c] = "none" <=> conn[c] = "none"
        BY <1>1, <2>3 DEF RInv, IInv, AttachInv, MapInv
      <3> QED BY <1>1, <2>3, <3>1 DEF View
    <2> QED BY <2>1, <2>2, <2>3
  <1> HIDE DEF View
  <1>3. [c \in Clients |-> View(c)]' =
            [c \in Clients |->
                IF [d \in Clients |-> View(d)][c].at # "watching" THEN [d \in Clients |-> View(d)][c]
                ELSE IF c \in lost THEN Gone
                ELSE [at |-> "watching", piece |-> [d \in Clients |-> View(d)][c].piece,
                      last |-> [d \in Clients |-> View(d)][c].last, due |-> out']]
    BY <1>2
  <1>4. lost \in SUBSET Clients
    OBVIOUS
  <1> HIDE DEF lost
  <1> QED BY <1>1, <1>3, <1>4 DEF S!Write, S!Watches, S!Watching, S!Gone, Gone

(* The writer takes the next piece of what is due. *)
LEMMA ReceiveStep ==
    ASSUME RInv, NEW c \in Clients, WriterReceive(c)
    PROVE  S!Lose \/ S!Show(c)
  <1> DEFINE V == [d \in Clients |-> View(d)]
             n == chan[c][1][2]
  <1>1. /\ chan[c] \in Seq(Message) /\ chan[c] # <<>> /\ writer[c] = "receive"
        /\ UNCHANGED <<out, conn, got>>
        /\ writer'[c] = "write" /\ writing'[c] = Head(chan[c]) /\ chan'[c] = Tail(chan[c])
    BY DEF WriterReceive, server, RInv, IInv, TypeOK
  <1>2. ASSUME NEW d \in Clients \ {c}
        PROVE  View(d)' = View(d)
    <2>1. /\ UNCHANGED <<conn, got>>
          /\ writer'[d] = writer[d] /\ writing'[d] = writing[d] /\ chan'[d] = chan[d]
      BY DEF WriterReceive, RInv, IInv, TypeOK
    <2> QED BY <2>1 DEF View, Taken, Sent
  <1>3. CASE conn[c] # "open"
    <2>1. View(c)' = View(c)
      BY <1>1, <1>3 DEF View
    <2> QED BY <1>1, <1>2, <2>1, LoseStep
  <1>4. CASE conn[c] = "open"
    <2>1. /\ Head(chan[c]) = chan[c][1] /\ Len(chan[c]) \in Nat \ {0}
          /\ Len(Tail(chan[c])) = Len(chan[c]) - 1
          /\ \A i \in 1..(Len(chan[c]) - 1) : Tail(chan[c])[i] = chan[c][i + 1]
          /\ Tail(chan[c]) = <<>> <=> Len(chan[c]) = 1
      BY <1>1, Dequeued
    <2>2. Sent(c) = out /\ Taken(c) = got[c]
      BY <1>1, <1>4, SentIsAll DEF Taken
    <2>3. Sent(c)' = Sent(c)
      <3>1. Sent(c) = chan[c][Len(chan[c])][2] /\ Taken(c)' = Head(chan[c])[2]
        BY <1>1 DEF Sent, Taken
      <3>2. CASE Len(chan[c]) = 1
        <4>1. Sent(c)' = Taken(c)'
          BY <1>1, <2>1, <3>2 DEF Sent
        <4> QED BY <2>1, <3>1, <3>2, <4>1
      <3>3. CASE Len(chan[c]) # 1
        <4>1. Sent(c)' = Tail(chan[c])[Len(Tail(chan[c]))][2]
          BY <1>1, <2>1, <3>3 DEF Sent
        <4>2. Tail(chan[c])[Len(chan[c]) - 1] = chan[c][Len(chan[c])]
          BY <2>1, <3>3
        <4> QED BY <2>1, <3>1, <4>1, <4>2
      <3> QED BY <3>2, <3>3
    <2>4. chan[c][1] \in Message /\ got[c] \in 0..MaxOutput
      BY <1>1, <2>1, ElementOfSeq DEF RInv, IInv, TypeOK
    <2>5. chan[c][1][1] = got[c] + 1 /\ chan[c][1][1] <= n + 1 /\ n <= out /\ n \in Nat
      <3>1. Joined(c)
        BY <1>4 DEF RInv, IInv, JoinedInv
      <3>2. chan[c][1][1] = got[c] + 1
        BY <1>1, <2>2, <3>1 DEF Joined, Follows
      <3>3. chan[c][1][1] <= n + 1 /\ n <= out
        BY <2>1 DEF RInv, MessagesInv
      <3> QED BY <2>4, <3>2, <3>3 DEF Message
    <2>6. chan[c][1] = <<got[c] + 1, n>>
      BY <2>4, <2>5 DEF Message
    <2>7. /\ View(c) = [at |-> "watching", piece |-> writing[c], last |-> got[c], due |-> out]
          /\ View(c)' = [at |-> "watching", piece |-> <<got[c] + 1, n>>, last |-> n, due |-> out]
      BY <1>1, <1>4, <2>1, <2>2, <2>3, <2>6 DEF View, Taken
    <2> HIDE DEF View, n
    <2>8. /\ V[c].at = "watching" /\ V[c].last = got[c] /\ V[c].due = out
          /\ n \in V[c].last..V[c].due
      BY <2>4, <2>5, <2>7 DEF RInv, IInv, TypeOK
    <2>9. V' = [V EXCEPT ![c] = [at |-> "watching", piece |-> <<V[c].last + 1, n>>,
                                last |-> n, due |-> V[c].due]]
      BY <1>2, <2>7, <2>8
    <2> QED BY <1>1, <2>8, <2>9 DEF S!Show, S!Watches, S!Watching
  <1> QED BY <1>3, <1>4

(* A client that registers and has not hung up starts with the recent output. *)
LEMMA RegisterStep ==
    ASSUME RInv, NEW c \in Clients, Register(c)
    PROVE  S!Lose \/ S!Attach(c)
  <1> DEFINE V == [d \in Clients |-> View(d)]
  <1>1. /\ UNCHANGED <<out, conn, writing>> /\ conn[c] # "none" /\ writer[c] = "none"
        /\ writing[c] = <<1, 0>>
        /\ writer'[c] = "receive" /\ got'[c] = recent - 1 /\ chan'[c] = <<<<recent, out>>>>
    BY DEF Register, RInv, IInv, TypeOK, AttachInv, WatchInv, NoMessage
  <1>2. ASSUME NEW d \in Clients \ {c}
        PROVE  View(d)' = View(d)
    <2>1. /\ UNCHANGED <<conn, writing>>
          /\ writer'[d] = writer[d] /\ got'[d] = got[d] /\ chan'[d] = chan[d]
      BY DEF Register, RInv, IInv, TypeOK
    <2> QED BY <2>1 DEF View, Taken, Sent
  <1>3. CASE conn[c] # "open"
    <2>1. View(c)' = View(c)
      BY <1>1, <1>3 DEF View
    <2> QED BY <1>1, <1>2, <2>1, LoseStep
  <1>4. CASE conn[c] = "open"
    <2>1. View(c) = [at |-> "new"]
      BY <1>1, <1>4 DEF View
    <2>2. Taken(c)' = recent - 1 /\ Sent(c)' = out
      BY <1>1 DEF Taken, Sent
    <2>3. View(c)' = [at |-> "watching", piece |-> <<1, 0>>, last |-> recent - 1, due |-> out]
      BY <1>1, <1>4, <2>2 DEF View
    <2> HIDE DEF View
    <2>4. V' = [V EXCEPT ![c] = [at |-> "watching", piece |-> <<1, 0>>,
                                last |-> S!First - 1, due |-> out]]
      BY <1>2, <2>3 DEF RInv
    <2> QED BY <1>1, <2>1, <2>4 DEF S!Attach, S!New, S!Watching
  <1> QED BY <1>3, <1>4

(* No other step shows a client anything; some end its stream. *)
LEMMA QuietStep ==
    ASSUME RInv, NEW c \in Clients, QuietActs(c)
    PROVE  S!Lose
  <1>1. UNCHANGED <<out, chan, writing>>
    BY DEF QuietActs, Accept, Header, HangUp, CopyEnd, WriterWrite, WriterFail, WriterEnd,
           Leave, server, channel
  <1>2. ASSUME NEW d \in Clients
        PROVE  View(d)' = View(d) \/ View(d)' = Gone
    <2>1. \/ conn'[d] \in {"hungup", "closed"}
          \/ conn'[d] = conn[d] /\ (writer'[d] = "none" <=> writer[d] = "none") /\ Taken(d)' = Taken(d)
          \/ conn[d] = "none" /\ conn'[d] = "open" /\ writer[d] = "none" /\ writer'[d] = "none"
      <3>1. CASE Accept(c) \/ Header(c) \/ HangUp(c) \/ CopyEnd(c)
        <4>1. UNCHANGED <<writer, got, writing>>
          BY <3>1 DEF Accept, Header, HangUp, CopyEnd, server, channel
        <4>2. Taken(d)' = Taken(d)
          BY <4>1 DEF Taken
        <4>3. \/ conn'[d] \in {"hungup", "closed"} \/ conn'[d] = conn[d]
              \/ conn[d] = "none" /\ conn'[d] = "open" /\ writer[d] = "none"
          BY <3>1 DEF Accept, Header, HangUp, CopyEnd, RInv, IInv, TypeOK, AttachInv
        <4> QED BY <4>1, <4>2, <4>3
      <3>2. CASE WriterWrite(c) \/ WriterEnd(c)
        <4>1. UNCHANGED conn
          BY <3>2 DEF WriterWrite, WriterEnd
        <4>2. CASE d = c /\ WriterWrite(c)
          <5>1. writer[d] = "write" /\ writer'[d] = "receive" /\ got'[d] = writing[d][2]
            BY <4>2 DEF WriterWrite, RInv, IInv, TypeOK
          <5> QED BY <4>1, <5>1 DEF Taken
        <4>3. CASE d = c /\ WriterEnd(c)
          <5>1. writer[d] = "receive" /\ writer'[d] = "done" /\ got'[d] = got[d]
            BY <4>3 DEF WriterEnd, RInv, IInv, TypeOK
          <5> QED BY <4>1, <5>1 DEF Taken
        <4>4. CASE d # c
          <5>1. writer'[d] = writer[d] /\ got'[d] = got[d]
            BY <3>2, <4>4 DEF WriterWrite, WriterEnd, RInv, IInv, TypeOK
          <5> QED BY <1>1, <4>1, <5>1 DEF Taken
        <4> QED BY <3>2, <4>2, <4>3, <4>4
      <3>3. CASE WriterFail(c) \/ Leave(c)
        <4>1. CASE d = c
          BY <3>3, <4>1 DEF WriterFail, Leave, RInv, IInv, TypeOK
        <4>2. CASE d # c
          <5>1. conn'[d] = conn[d] /\ writer'[d] = writer[d] /\ got'[d] = got[d]
            BY <3>3, <4>2 DEF WriterFail, Leave, RInv, IInv, TypeOK
          <5> QED BY <1>1, <5>1 DEF Taken
        <4> QED BY <4>1, <4>2
      <3> QED BY <3>1, <3>2, <3>3 DEF QuietActs
    <2>2. Sent(d)' = Sent(d) \/ Taken(d)' # Taken(d)
      BY <1>1 DEF Sent
    <2> HIDE DEF QuietActs
    <2> QED BY <1>1, <2>1, <2>2 DEF View, Gone
  <1> QED BY <1>1, <1>2, LoseStep

(* The shutdown ends every stream. *)
LEMMA CloseStep == ASSUME RInv, Close PROVE S!Lose
  <1>1. UNCHANGED <<out, chan, writing, writer, got>>
    BY DEF Close
  <1>2. ASSUME NEW d \in Clients
        PROVE  View(d)' = View(d) \/ View(d)' = Gone
    <2>1. conn'[d] = conn[d] \/ conn'[d] = "closed"
      BY DEF Close, Drop
    <2> QED BY <1>1, <2>1 DEF View, Taken, Sent, Gone
  <1> QED BY <1>1, <1>2, LoseStep

LEMMA StreamStep == ASSUME RInv, RInv', [Next]_vars PROVE [S!Next]_S!vars
  <1>1. CASE Output
    BY <1>1, OutputStep DEF S!Next
  <1>2. CASE Close
    BY <1>2, CloseStep DEF S!Next
  <1>3. ASSUME NEW c \in Clients, Accept(c) \/ WriterStep(c) \/ ReaderStep(c) \/ HangUp(c)
        PROVE  S!Next
    <2>1. Register(c) \/ WriterReceive(c) \/ QuietActs(c)
      BY <1>3, Zenon DEF WriterStep, ReaderStep, QuietActs
    <2>2. S!Lose \/ S!Attach(c) \/ S!Show(c)
      BY <2>1, RegisterStep, ReceiveStep, QuietStep
    <2> QED BY <2>2 DEF S!Next
  <1>4. CASE UNCHANGED vars
    <2>1. UNCHANGED <<out, chan, writing, writer, got, conn>>
      BY <1>4 DEF vars, server, channel, ends
    <2>2. \A c \in Clients : View(c)' = View(c)
      BY <2>1 DEF View, Taken, Sent
    <2> HIDE DEF View
    <2> QED BY <2>1, <2>2 DEF S!vars
  <1> QED BY <1>1, <1>2, <1>3, <1>4 DEF Next

(* Whatever the buffers of the server, the pace of its clients and the order  *)
(* in which output, attach, the writers and the shutdown run, a client sees  *)
(* the stream of ConsoleStream: the latest output first, then every chunk    *)
(* once and in order, until it is gone.                                      *)
THEOREM ServerIsStream == Spec => Streams
  <1>1. Init => S!Init
    <2> SUFFICES ASSUME Init PROVE S!Init
      OBVIOUS
    <2>1. \A c \in Clients : View(c) = [at |-> "new"]
      BY DEF Init, View
    <2> HIDE DEF View
    <2> QED BY <2>1 DEF Init, S!Init, S!New
  <1>2. RInv /\ RInv' /\ [Next]_vars => [S!Next]_S!vars
    BY StreamStep
  <1> QED BY <1>1, <1>2, InitRInv, NextRInv, PTL DEF Spec, Streams, S!Spec
=============================================================================
