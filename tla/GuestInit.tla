------------------------------ MODULE GuestInit ------------------------------
(***************************************************************************)
(* The processes of one launcher (launcher/invirtio-launch.c): the launcher *)
(* with the thread that writes its messages, the init of the guest's PID    *)
(* namespace (guest_init), and UML.  Launcher models what main's loop does  *)
(* for the host; this module models how the processes start, fail, pass on  *)
(* signals and exit statuses, and end.                                      *)
(***************************************************************************)
EXTENDS Naturals

CONSTANTS
    MaxRuns,    \* runs of a guest, with -r
    PipeSize    \* messages that the pipe takes, where the kernel's takes 64 KiB

VARIABLES
    main,       \* where the launcher is
    msgFd,      \* where its messages go
    thread,     \* write_messages, "none" if it could not be started
    pipe, buf,  \* how many messages wait in the pipe and in the thread
    died,       \* "no", or whether die was called with a guest "running"
    tty, raw,   \* is the caller's console a terminal?  Is it raw?
    relay,      \* the thread between that terminal and the guest's pty
    stopping, run, ret,
    init,       \* the guest's init
    asked,      \* does a SIGTERM wait for it?
    uml,        \* UML, the "child" of init until it executes
    umlAsked,   \* was SIGTERM passed on to it?
    how,        \* how UML exited
    status,     \* how init exited
    fds         \* who holds the guest's descriptors

launcherVars == <<main, msgFd, died, tty, raw, relay, stopping, run, ret>>
threadVars == <<thread, buf>>
guestVars == <<init, asked, uml, umlAsked, how, status, fds>>
vars == <<launcherVars, threadVars, pipe, guestVars>>

Ends == {"exited", "killed"}
Over == main \in Ends
Runs(p) == p \notin {"none", "dead"}
Armed == {"armed", "fork", "forked", "relay"}

Init ==
    /\ main = "start" /\ stopping = FALSE /\ run = 1 /\ ret = "zero" /\ died = "no"
    /\ \/ msgFd = "pipe" /\ thread = "read"
       \/ msgFd = "stderr" /\ thread = "none"
    /\ pipe = 0 /\ buf = 0 /\ tty \in BOOLEAN /\ raw = FALSE /\ relay = "none"
    /\ init = "none" /\ asked = FALSE /\ uml = "none" /\ umlAsked = FALSE
    /\ how = "zero" /\ status = "zero" /\ fds = {}

(* vmessage: a pipe that is full loses the message. *)
Say == pipe' = IF pipe < PipeSize THEN pipe + 1 ELSE pipe
GuestSays == IF thread = "none" THEN UNCHANGED pipe ELSE Say

InitGone(s) ==
    /\ init' = "dead" /\ status' = s /\ asked' = FALSE
    /\ uml' = (IF Runs(uml) THEN "dead" ELSE uml)       \* with its namespace
    /\ fds' = fds \ {"init", "uml"} /\ UNCHANGED <<umlAsked, how>>

-----------------------------------------------------------------------------
(* The launcher. *)
Goto(place) == main' = place

(* Mutant: the last message goes to the pipe, whose end the launcher awaits. *)
DieToPipe(running) ==
    /\ died' = (IF running THEN "running" ELSE "alone")
    /\ (IF msgFd = "stderr" THEN UNCHANGED pipe ELSE Say) /\ UNCHANGED msgFd
    /\ raw' = FALSE /\ ret' = "failed" /\ Goto("flush")
    /\ UNCHANGED <<threadVars, guestVars, tty, relay, stopping, run>>

Die(running) ==
    /\ died' = (IF running THEN "running" ELSE "alone")
    /\ msgFd' = (IF running THEN "stderr" ELSE msgFd)
    /\ (IF msgFd' = "stderr" THEN UNCHANGED pipe ELSE Say)
    /\ raw' = FALSE /\ ret' = "failed" /\ Goto("flush")
    /\ UNCHANGED <<threadVars, guestVars, tty, relay, stopping, run>>

(* The arguments, the VDUSE control and the devices' drivers and groups. *)
SetUp ==
    /\ main = "start"
    /\ \/ Goto("open") /\ UNCHANGED <<threadVars, pipe, guestVars, msgFd, died, tty, raw, relay,
                                     stopping, run, ret>>
       \/ Die(FALSE)

OpenGuestFds ==
    /\ main = "open"
    /\ \/ fds' = {"launcher"} /\ Goto("pty")
          /\ UNCHANGED <<threadVars, pipe, msgFd, died, tty, raw, relay, stopping, run,
                         ret, init, asked, uml, umlAsked, how, status>>
       \/ Die(FALSE)

OpenConsole ==
    /\ main = "pty"
    /\ \/ Goto("clone") /\ UNCHANGED <<threadVars, pipe, guestVars, msgFd, died, tty, raw, relay,
                                      stopping, run, ret>>
       \/ tty /\ Die(FALSE)

(* The guest's pty hangs up once none of its processes has it open. *)
RelayConsole ==
    /\ relay = "copies" /\ ~Over /\ ~Runs(init) /\ ~Runs(uml) /\ relay' = "over"
    /\ UNCHANGED <<threadVars, pipe, guestVars, main, msgFd, died, tty, raw, stopping, run, ret>>

(* Init starts with its signals blocked. *)
Clone ==
    /\ main = "clone"
    /\ \/ init' = "setup" /\ fds' = fds \cup {"init"} /\ Goto("console")
          /\ UNCHANGED <<threadVars, pipe, msgFd, died, tty, raw, relay, stopping, run, ret,
                         asked, uml, umlAsked, how, status>>
       \/ Die(FALSE)

(* The relay's thread may not start. *)
StartConsole ==
    /\ main = "console" /\ raw' = tty /\ Goto("close")
    /\ relay' \in (IF tty THEN {"none", "copies"} ELSE {"none"})
    /\ UNCHANGED <<threadVars, pipe, guestVars, msgFd, died, tty, stopping, run, ret>>

CloseGuestFds ==
    /\ main = "close" /\ fds' = fds \ {"launcher"} /\ Goto("signalfd")
    /\ UNCHANGED <<threadVars, pipe, msgFd, died, tty, raw, relay, stopping, run, ret,
                   init, asked, uml, umlAsked, how, status>>

Supervise ==
    /\ main = "signalfd"
    /\ \/ Goto("supervise")
          /\ UNCHANGED <<threadVars, pipe, guestVars, msgFd, died, tty, raw, relay, stopping, run, ret>>
       \/ Die(TRUE)

(* A stop signal, and then a second one or the end of the stop timeout. *)
Stop ==
    /\ main = "supervise" /\ stopping' = TRUE
    /\ IF stopping THEN Runs(init) /\ InitGone("killed")
       ELSE asked' = Runs(init) /\ UNCHANGED <<init, uml, umlAsked, how, status, fds>>
    /\ UNCHANGED <<threadVars, pipe, main, msgFd, died, tty, raw, relay, run, ret>>

Reap ==
    /\ main = "supervise" /\ init = "dead" /\ ret' = status /\ Goto("clean")
    /\ UNCHANGED <<threadVars, pipe, guestVars, msgFd, died, tty, raw, relay, stopping, run>>

StopConsole ==
    /\ main = "clean" /\ raw' = FALSE /\ relay' = "none" /\ Goto("next")
    /\ UNCHANGED <<threadVars, pipe, guestVars, msgFd, died, tty, stopping, run, ret>>

(* With -r, a guest that failed starts again, unless a stop comes first. *)
NextRun ==
    /\ main = "next"
    /\ \/ /\ ~stopping /\ ret # "zero" /\ run < MaxRuns /\ run' = run + 1
          /\ init' = "none" /\ uml' = "none" /\ umlAsked' = FALSE /\ Goto("open")
       \/ Goto("flush") /\ UNCHANGED <<run, init, uml, umlAsked>>
    /\ UNCHANGED <<threadVars, pipe, msgFd, died, tty, raw, relay, stopping, ret, asked, how, status, fds>>

(* Mutant: the launcher does not wait for the thread. *)
FlushAtOnce ==
    /\ main = "flush" /\ Goto("exit") /\ msgFd' = "stderr"
    /\ UNCHANGED <<threadVars, pipe, guestVars, died, tty, raw, relay, stopping, run, ret>>

FlushMessages ==
    /\ main = "flush" /\ Goto(IF msgFd = "stderr" THEN "exit" ELSE "join")
    /\ msgFd' = "stderr"
    /\ UNCHANGED <<threadVars, pipe, guestVars, died, tty, raw, relay, stopping, run, ret>>

(* The kernel ends what the launcher leaves: its thread, its descriptors,    *)
(* and an init that has set its parent-death signal.                        *)
Leave(end) ==
    /\ Goto(end)
    /\ IF init \in Armed
       THEN /\ init' = "dead" /\ uml' = (IF Runs(uml) THEN "dead" ELSE uml)
            /\ status' = "killed" /\ asked' = FALSE /\ fds' = {}
            /\ UNCHANGED <<umlAsked, how>>
       ELSE fds' = fds \ {"launcher"} /\ UNCHANGED <<init, asked, uml, umlAsked, how, status>>
    /\ UNCHANGED <<threadVars, pipe, msgFd, died, tty, raw, relay, stopping, run, ret>>

Exit == (main = "exit" \/ (main = "join" /\ thread = "done")) /\ Leave("exited")

LauncherKilled == ~Over /\ Leave("killed")

LauncherStep == SetUp \/ OpenGuestFds \/ OpenConsole \/ Clone \/ StartConsole \/ CloseGuestFds \/ Supervise \/ Reap
                   \/ StopConsole \/ NextRun \/ FlushMessages \/ Exit

(* write_messages reads until every write end is closed: the launcher's,     *)
(* init's, and that of a child that has not executed UML yet.               *)
PipeHeld == msgFd = "pipe" \/ Runs(init) \/ uml \in {"child", "confined"}

ThreadStep ==
    /\ ~Over
    /\ \/ thread = "read" /\ pipe > 0 /\ thread' = "write" /\ buf' = pipe /\ pipe' = 0
       \/ thread = "write" /\ thread' = "read" /\ buf' = 0 /\ UNCHANGED pipe
       \/ thread = "read" /\ pipe = 0 /\ ~PipeHeld /\ thread' = "done" /\ UNCHANGED <<buf, pipe>>
    /\ UNCHANGED <<launcherVars, guestVars>>

-----------------------------------------------------------------------------
(* guest_init. *)
InitDies == InitGone("failed") /\ GuestSays /\ UNCHANGED <<launcherVars, threadVars>>

Proceeds(from, to) ==
    /\ init = from /\ init' = to
    /\ UNCHANGED <<launcherVars, threadVars, pipe, asked, uml, umlAsked, how, status, fds>>

(* The cgroup and the session; the root; the limits and the credentials. *)
InitJoins == Proceeds("setup", "root") \/ (init = "setup" /\ InitDies)
InitRoot == Proceeds("root", "drop") \/ (init = "root" /\ InitDies)
InitDrops == Proceeds("drop", "unarmed") \/ (init = "drop" /\ InitDies)
InitArms == Proceeds("unarmed", "armed") \/ (init = "unarmed" /\ InitDies)

(* Mutant: the launcher is not looked for once the signal is set. *)
InitTrusts == Proceeds("armed", "fork")

InitChecks ==
    \/ ~Over /\ Proceeds("armed", "fork")
    \/ init = "armed" /\ Over /\ InitGone("failed") /\ UNCHANGED <<launcherVars, threadVars, pipe>>

InitForks ==
    \/ /\ init = "fork" /\ init' = "forked" /\ uml' = "child" /\ fds' = fds \cup {"uml"}
       /\ UNCHANGED <<launcherVars, threadVars, pipe, asked, umlAsked, how, status>>
    \/ init = "fork" /\ InitDies

InitCloses ==
    /\ init = "forked" /\ init' = "relay" /\ fds' = fds \ {"init"}
    /\ UNCHANGED <<launcherVars, threadVars, pipe, asked, uml, umlAsked, how, status>>

InitPassesOn ==
    /\ init = "relay" /\ asked /\ asked' = FALSE /\ umlAsked' = TRUE
    /\ UNCHANGED <<launcherVars, threadVars, pipe, init, uml, how, status, fds>>

InitReaps ==
    /\ init = "relay" /\ uml = "dead" /\ InitGone(how) /\ GuestSays
    /\ UNCHANGED <<launcherVars, threadVars>>

InitStep == InitJoins \/ InitRoot \/ InitDrops \/ InitArms \/ InitChecks \/ InitForks \/ InitCloses \/ InitPassesOn
               \/ InitReaps

(* exec_guest confines itself, takes signals again and becomes UML.  A       *)
(* signal that waits for it kills it then.                                  *)
UmlEnds(h) ==
    /\ uml' = "dead" /\ how' = h /\ fds' = fds \ {"uml"}
    /\ UNCHANGED <<launcherVars, threadVars, init, asked, umlAsked, status>>

UmlDies(at) == uml = at /\ UmlEnds("failed") /\ GuestSays

(* With no Landlock the guest runs without it. *)
Confine ==
    \/ UmlDies("child")
    \/ /\ uml = "child" /\ uml' = "confined" /\ (GuestSays \/ UNCHANGED pipe)
       /\ UNCHANGED <<launcherVars, threadVars, init, asked, umlAsked, how, status, fds>>

ExecGuest ==
    \/ UmlDies("confined")
    \/ uml = "confined" /\ umlAsked /\ UmlEnds("killed") /\ UNCHANGED pipe
    \/ /\ uml = "confined" /\ ~umlAsked /\ uml' = "running"
       /\ UNCHANGED <<launcherVars, threadVars, pipe, init, asked, umlAsked, how, status, fds>>

UmlExits == uml = "running" /\ (\E h \in {"zero", "failed", "killed"} : UmlEnds(h)) /\ UNCHANGED pipe

GuestStep == InitStep \/ Confine \/ ExecGuest

Next == LauncherStep \/ RelayConsole \/ Stop \/ LauncherKilled \/ ThreadStep \/ GuestStep \/ UmlExits

(* The processes run, and stderr takes what the thread writes; a guest need  *)
(* not exit.                                                                *)
Spec == Init /\ [][Next]_vars /\ WF_vars(LauncherStep) /\ WF_vars(ThreadStep) /\ WF_vars(GuestStep)

-----------------------------------------------------------------------------
(* Properties. *)

(* The places of the three processes, and what each variable may hold. *)
LauncherPlaces == {"start", "open", "pty", "clone", "console", "close", "signalfd", "supervise",
                   "clean", "next", "flush", "join", "exit"} \cup Ends
InitPlaces == {"none", "setup", "root", "drop", "unarmed", "dead"} \cup Armed
UmlPlaces == {"none", "child", "confined", "running", "dead"}
Statuses == {"zero", "failed", "killed"}

LauncherOK ==
    /\ main \in LauncherPlaces /\ died \in {"no", "alone", "running"} /\ ret \in Statuses
    /\ tty \in BOOLEAN /\ raw \in BOOLEAN /\ relay \in {"none", "copies", "over"}
    /\ stopping \in BOOLEAN /\ run \in Nat

MessagesOK ==
    /\ msgFd \in {"pipe", "stderr"} /\ thread \in {"none", "read", "write", "done"}
    /\ pipe \in Nat /\ buf \in Nat

GuestOK ==
    /\ init \in InitPlaces /\ asked \in BOOLEAN /\ status \in Statuses
    /\ uml \in UmlPlaces /\ umlAsked \in BOOLEAN /\ how \in Statuses
    /\ fds \subseteq {"launcher", "init", "uml"}

TypeOK == LauncherOK /\ MessagesOK /\ GuestOK

(* "The launcher waits for the message thread to write what is left before   *)
(* it exits": no wait of the launcher is for ever, so it ends or starts     *)
(* another guest once its guest is gone or it has died beside a guest that  *)
(* runs on.                                                                 *)
LauncherEnds == (init = "dead" \/ died # "no") ~> (Over \/ main = "open")

(* A launcher that exits has restored the terminal, returns how its last     *)
(* guest exited, and has written every message that the pipe took, unless   *)
(* it died beside a guest; once it has the guest's status, the guest's      *)
(* descriptors, and so its devices, are free.                               *)
TerminalRestored == main \in {"next", "exited"} => ~raw
RelayOver == main \in {"start", "open", "next"} => relay = "none"
StatusReturned ==
    main = "exited" /\ died = "no" /\ status # "killed" /\ uml = "dead" => ret = how
MessagesWritten == main = "exited" /\ died # "running" => pipe = 0 /\ buf = 0
DevicesFree == main \in {"clean", "next"} => fds = {}
LeftInOrder == TerminalRestored /\ RelayOver /\ StatusReturned /\ MessagesWritten /\ DevicesFree

(* "The guest must not outlive the launcher", at whatever point of the       *)
(* guest's start the launcher is killed, and a stop signal reaches UML even *)
(* if it comes before init waits for signals.                               *)
NotOutlived == Over ~> ~Runs(init) /\ ~Runs(uml)
StopArrives == asked ~> (umlAsked \/ ~Runs(init))
GuestReached == NotOutlived /\ StopArrives
=============================================================================
