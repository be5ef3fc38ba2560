---------------------------- MODULE ConsoleServer ----------------------------
(***************************************************************************)
(* consoleServer (tools/cmd/invirtio/console.go): the supervisor relays the *)
(* guest's console to the clients that are attached to a Unix socket.  The  *)
(* goroutine that reads the pty passes each chunk of output to a channel of *)
(* each client; each client has a goroutine that writes the channel to the  *)
(* connection, and one that copies the client's input to the pty.           *)
(*                                                                          *)
(* The output is a sequence of chunks 1, 2, 3...; a message on a channel is *)
(* the interval <<first, last>> of the chunks that it carries.              *)
(***************************************************************************)
EXTENDS Naturals, Sequences

CONSTANTS
    Clients,    \* the connections that are ever made
    MaxOutput,  \* bound: the chunks that the guest writes
    Scrollback, \* how many chunks `recent` keeps
    Cap         \* the capacity of a client's channel

ASSUME CapAssumption == Cap \in Nat \ {0}
ASSUME OutputAssumption == MaxOutput \in Nat /\ Scrollback \in Nat

VARIABLES
    out,        \* the last chunk of output
    recent,     \* the first chunk that `recent` still holds
    clients,    \* the map of the registered clients
    chan,       \* the contents of each client's channel
    closed,     \* is the channel closed?
    panicked,   \* has a closed channel been closed or sent to?
    conn,       \* the connection
    reader,     \* the goroutine of attach
    writer,     \* the goroutine that attach starts
    writing,    \* the message that the writer has taken
    got,        \* the last chunk that was written to the connection
    down        \* has `close` run?

server  == <<out, recent, clients, down>>
channel == <<chan, closed, panicked>>
ends    == <<conn, reader, writer, writing, got>>
vars    == <<server, channel, ends>>

Message == (1..(MaxOutput + 1)) \X (0..MaxOutput)
NoMessage == <<1, 0>>

TypeOK ==
    /\ out \in 0..MaxOutput
    /\ recent \in 1..(MaxOutput + 1)
    /\ clients \in SUBSET Clients
    /\ chan \in [Clients -> Seq(Message)]
    /\ \A c \in Clients : Len(chan[c]) <= Cap
    /\ closed \in [Clients -> BOOLEAN]
    /\ panicked \in BOOLEAN
    /\ conn \in [Clients -> {"none", "open", "hungup", "closed"}]
    /\ reader \in [Clients -> {"none", "header", "register", "copy", "leave", "done"}]
    /\ writer \in [Clients -> {"none", "receive", "write", "done"}]
    /\ writing \in [Clients -> Message]
    /\ got \in [Clients -> 0..MaxOutput]
    /\ down \in BOOLEAN

Init ==
    /\ out = 0 /\ recent = 1
    /\ clients = {}
    /\ chan = [c \in Clients |-> <<>>]
    /\ closed = [c \in Clients |-> FALSE]
    /\ panicked = FALSE
    /\ conn = [c \in Clients |-> "none"]
    /\ reader = [c \in Clients |-> "none"]
    /\ writer = [c \in Clients |-> "none"]
    /\ writing = [c \in Clients |-> NoMessage]
    /\ got = [c \in Clients |-> 0]
    /\ down = FALSE

(* Mutant: the connection is left to the writer. *)
DropQuietly(S) ==
    /\ clients' = clients \ S
    /\ closed' = [c \in Clients |-> closed[c] \/ c \in S]
    /\ conn' = conn

(* delete, close(ch) and conn.Close() for every client in S. *)
Drop(S) ==
    /\ clients' = clients \ S
    /\ closed' = [c \in Clients |-> closed[c] \/ c \in S]
    /\ conn' = [c \in Clients |-> IF c \in S THEN "closed" ELSE conn[c]]

-----------------------------------------------------------------------------
(* Mutant: a full channel does not end its client. *)
OutputKeepsFull ==
    /\ out < MaxOutput
    /\ out' = out + 1
    /\ recent' = IF out' - recent + 1 > Scrollback THEN recent + 1 ELSE recent
    /\ chan' = [c \in Clients |-> IF c \in clients
                                  THEN Append(chan[c], <<out', out'>>)
                                  ELSE chan[c]]
    /\ panicked' = (panicked \/ \E c \in clients : closed[c])
    /\ UNCHANGED <<clients, closed, ends, down>>

(* Mutant: a full channel misses the chunk, and its client stays. *)
OutputSkipsFull ==
    /\ out < MaxOutput
    /\ out' = out + 1
    /\ recent' = IF out' - recent + 1 > Scrollback THEN recent + 1 ELSE recent
    /\ chan' = [c \in Clients |-> IF c \in clients /\ Len(chan[c]) < Cap
                                  THEN Append(chan[c], <<out', out'>>)
                                  ELSE chan[c]]
    /\ panicked' = (panicked \/ \E c \in clients : closed[c])
    /\ UNCHANGED <<clients, closed, ends, down>>

(* consoleServer.output, under the mutex: a client whose channel is full is  *)
(* dropped.                                                                 *)
Output ==
    /\ out < MaxOutput
    /\ out' = out + 1
    /\ recent' = IF out' - recent + 1 > Scrollback THEN recent + 1 ELSE recent
    /\ LET full == {c \in clients : Len(chan[c]) = Cap}
       IN  /\ Drop(full)
           /\ chan' = [c \in Clients |-> IF c \in clients \ full
                                         THEN Append(chan[c], <<out', out'>>)
                                         ELSE chan[c]]
           /\ panicked' = (panicked \/ \E c \in clients : closed[c])
    /\ UNCHANGED <<reader, writer, writing, got, down>>

(* serve accepts a connection, until the supervisor closes the listener. *)
Accept(c) ==
    /\ conn[c] = "none" /\ ~down
    /\ conn' = [conn EXCEPT ![c] = "open"]
    /\ reader' = [reader EXCEPT ![c] = "header"]
    /\ UNCHANGED <<server, channel, writer, writing, got>>

(* attach reads the header, which does not come in time or is cut short, or   *)
(* resizes the terminal and goes on.                                        *)
Header(c) ==
    /\ reader[c] = "header"
    /\ \/ /\ reader' = [reader EXCEPT ![c] = "register"] /\ UNCHANGED conn
       \/ /\ reader' = [reader EXCEPT ![c] = "done"]
          /\ conn' = [conn EXCEPT ![c] = "closed"]
    /\ UNCHANGED <<server, channel, writer, writing, got>>

(* Mutant: the recent output is copied before the mutex is taken, so the     *)
(* latest chunk may not be in it.                                           *)
RegisterLate(c) ==
    /\ reader[c] = "register"
    /\ reader' = [reader EXCEPT ![c] = "copy"]
    /\ \E o \in {out, IF out < recent THEN out ELSE out - 1} :
           chan' = [chan EXCEPT ![c] = <<<<recent, o>>>>]
    /\ clients' = clients \cup {c}
    /\ writer' = [writer EXCEPT ![c] = "receive"]
    /\ got' = [got EXCEPT ![c] = recent - 1]
    /\ UNCHANGED <<out, recent, closed, panicked, conn, writing, down>>

(* The recent output is sent and the client registered in one critical       *)
(* section, so that no output falls between the two.                        *)
Register(c) ==
    /\ reader[c] = "register"
    /\ reader' = [reader EXCEPT ![c] = "copy"]
    /\ chan' = [chan EXCEPT ![c] = <<<<recent, out>>>>]
    /\ clients' = clients \cup {c}
    /\ writer' = [writer EXCEPT ![c] = "receive"]
    /\ got' = [got EXCEPT ![c] = recent - 1]
    /\ UNCHANGED <<out, recent, closed, panicked, conn, writing, down>>

(* The writer: `for p := range ch` goes on until the channel is closed and   *)
(* empty, also after a write has failed.                                    *)
WriterReceive(c) ==
    /\ writer[c] = "receive" /\ chan[c] # <<>>
    /\ writer' = [writer EXCEPT ![c] = "write"]
    /\ writing' = [writing EXCEPT ![c] = Head(chan[c])]
    /\ chan' = [chan EXCEPT ![c] = Tail(chan[c])]
    /\ UNCHANGED <<server, closed, panicked, conn, reader, got>>

(* A client that reads takes the message. *)
WriterWrite(c) ==
    /\ writer[c] = "write" /\ conn[c] = "open"
    /\ writer' = [writer EXCEPT ![c] = "receive"]
    /\ got' = [got EXCEPT ![c] = writing[c][2]]
    /\ UNCHANGED <<server, channel, conn, reader, writing>>

WriterFail(c) ==
    /\ writer[c] = "write" /\ conn[c] \in {"hungup", "closed"}
    /\ writer' = [writer EXCEPT ![c] = "receive"]
    /\ conn' = [conn EXCEPT ![c] = "closed"]
    /\ UNCHANGED <<server, channel, reader, writing, got>>

WriterEnd(c) ==
    /\ writer[c] = "receive" /\ chan[c] = <<>> /\ closed[c]
    /\ writer' = [writer EXCEPT ![c] = "done"]
    /\ UNCHANGED <<server, channel, conn, reader, writing, got>>

(* io.Copy to the pty ends: the connection is closed or hung up, or the pty  *)
(* is gone.                                                                 *)
CopyEnd(c) ==
    /\ reader[c] = "copy"
    /\ conn[c] # "open" \/ down
    /\ reader' = [reader EXCEPT ![c] = "leave"]
    /\ UNCHANGED <<server, channel, conn, writer, writing, got>>

(* Mutant: the channel is closed whoever has closed it. *)
LeaveUnchecked(c) ==
    /\ reader[c] = "leave"
    /\ reader' = [reader EXCEPT ![c] = "done"]
    /\ clients' = clients \ {c}
    /\ closed' = [closed EXCEPT ![c] = TRUE]
    /\ conn' = [conn EXCEPT ![c] = "closed"]
    /\ panicked' = (panicked \/ closed[c])
    /\ UNCHANGED <<out, recent, down, chan, writer, writing, got>>

(* The end of attach. *)
Leave(c) ==
    /\ reader[c] = "leave"
    /\ reader' = [reader EXCEPT ![c] = "done"]
    /\ clients' = clients \ {c}
    /\ closed' = [closed EXCEPT ![c] = @ \/ c \in clients]
    /\ conn' = [conn EXCEPT ![c] = "closed"]
    /\ panicked' = (panicked \/ (c \in clients /\ closed[c]))
    /\ UNCHANGED <<out, recent, down, chan, writer, writing, got>>

(* The client goes: it detaches, or is killed. *)
HangUp(c) ==
    /\ conn[c] = "open"
    /\ conn' = [conn EXCEPT ![c] = "hungup"]
    /\ UNCHANGED <<server, channel, reader, writer, writing, got>>

(* The supervisor ends: it closes the listener, then every client. *)
Close ==
    /\ ~down
    /\ down' = TRUE
    /\ Drop(clients)
    /\ panicked' = (panicked \/ \E c \in clients : closed[c])
    /\ UNCHANGED <<out, recent, chan, reader, writer, writing, got>>

-----------------------------------------------------------------------------

WriterStep(c) ==
    WriterReceive(c) \/ WriterWrite(c) \/ WriterFail(c) \/ WriterEnd(c)

ReaderStep(c) == Header(c) \/ Register(c) \/ CopyEnd(c) \/ Leave(c)

Next ==
    \/ Output \/ Close
    \/ \E c \in Clients :
           Accept(c) \/ WriterStep(c) \/ ReaderStep(c) \/ HangUp(c)

Spec == Init /\ [][Next]_vars

(* The goroutines run.  A client may never read, so a write to an open       *)
(* connection need not end.                                                 *)
Fairness ==
    \A c \in Clients :
        /\ WF_vars(WriterReceive(c) \/ WriterFail(c) \/ WriterEnd(c))
        /\ WF_vars(ReaderStep(c))

FairSpec == Spec /\ Fairness

-----------------------------------------------------------------------------
(* Properties. *)

(* No step closes a closed channel or sends to one: output, attach and close *)
(* each end a client, and only the one that finds it in the map does it.    *)
NoPanic == ~panicked

(* What a client has got, what its writer holds and what its channel holds   *)
(* follow on one another without a gap or a repetition, from the recent     *)
(* output on, and reach the latest output for as long as it is registered.  *)
Follows(last, m) == m[1] = last + 1

Pending(c) == IF writer[c] = "write" THEN <<writing[c]>> \o chan[c] ELSE chan[c]

Unbroken(c) ==
    LET p == Pending(c) IN
    /\ p # <<>> => Follows(got[c], p[1])
    /\ \A i \in 1..(Len(p) - 1) : Follows(p[i][2], p[i + 1])
    /\ c \in clients => out = IF p = <<>> THEN got[c] ELSE p[Len(p)][2]

NothingLost == \A c \in Clients : conn[c] = "open" => Unbroken(c)

(* The last chunk that the writer has taken from the channel, and the last    *)
(* one that has been put there.                                             *)
Taken(c) == IF writer[c] = "write" THEN writing[c][2] ELSE got[c]
Sent(c) == IF chan[c] = <<>> THEN Taken(c) ELSE chan[c][Len(chan[c])][2]

(* A client sees the server through its connection, from its registration on. *)
View(c) ==
    IF conn[c] = "none" \/ (conn[c] = "open" /\ writer[c] = "none") THEN [at |-> "new"]
    ELSE IF conn[c] # "open" THEN [at |-> "gone"]
    ELSE [at |-> "watching", piece |-> writing[c], last |-> Taken(c), due |-> Sent(c)]

S == INSTANCE ConsoleStream WITH written <- out, view <- [c \in Clients |-> View(c)]

(* Seen from its clients, the server is the stream that ConsoleStream         *)
(* describes: buffers, drops, hang-ups and the shutdown only ever end it.    *)
Streams == S!Spec

(* A client that was dropped, that left, or that the server closed does not  *)
(* leave its goroutine behind, blocked in a write that nobody reads.        *)
WriterDone == \A c \in Clients : closed[c] ~> (writer[c] = "done")
=============================================================================
