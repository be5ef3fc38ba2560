--------------------------- MODULE GuestInitProofs ---------------------------
(***************************************************************************)
(* Proofs about GuestInit, for any number of runs and any size of the pipe.  *)
(***************************************************************************)
EXTENDS GuestInit, TLAPS

(* A launcher has no init before it clones one, and UML runs only under an   *)
(* init that has forked it and is there to reap it.                         *)
ProcessInv ==
    /\ main \in {"start", "open", "pty", "clone"} => init = "none"
    /\ init \in {"none", "setup", "root", "drop", "unarmed", "armed", "fork"} => uml = "none"
    /\ Runs(uml) => init \in {"forked", "relay"}

(* Where the terminal may be raw, and the console's thread may be there. *)
ConsoleInv ==
    /\ raw => main \in {"close", "signalfd", "supervise", "clean", "killed"}
    /\ relay # "none" => main \notin {"start", "open", "pty", "clone", "console", "next"}

(* An init that reaped UML exited as UML did, and a launcher that has reaped *)
(* the init returns its status unless it dies.                              *)
StatusInv ==
    /\ init = "dead" /\ uml = "dead" /\ status # "killed" => status = how
    /\ \/ main \in {"clean", "next"}
       \/ main \in {"flush", "join", "exit", "exited"} /\ died = "no"
       => init = "dead" /\ ret = status

(* Who still has an end of the message pipe, and what is left in it. *)
MessageInv ==
    /\ msgFd = "pipe" => thread # "none"
    /\ thread = "none" => pipe = 0
    /\ thread # "write" => buf = 0
    /\ thread = "done" => pipe = 0 /\ ~Runs(init) /\ msgFd = "stderr"
    /\ died = "running" => main \in {"flush", "join", "exit"} \cup Ends
    /\ msgFd = "stderr" => thread = "none" \/ died = "running" \/ main \in {"join"} \cup Ends
    /\ main \in {"join", "exit"} => msgFd = "stderr"
    /\ main = "exited" => thread \in {"none", "done"} \/ died = "running"

(* Who holds the guest's descriptors. *)
FdsInv ==
    /\ "launcher" \in fds => main \in {"pty", "clone", "console", "close", "flush", "join", "exit"}
    /\ "init" \in fds => Runs(init) /\ init # "relay"
    /\ "uml" \in fds => Runs(uml)

IInv == TypeOK /\ ProcessInv /\ ConsoleInv /\ StatusInv /\ MessageInv /\ FdsInv

-----------------------------------------------------------------------------
(* A launcher that has started nothing satisfies the invariant. *)
LEMMA InitInv == Init => IInv
  <1> SUFFICES ASSUME Init PROVE IInv
    OBVIOUS
  <1>1. TypeOK
    BY DEF Init, TypeOK, LauncherOK, MessagesOK, GuestOK, LauncherPlaces, InitPlaces, UmlPlaces,
           Statuses
  <1>2. ProcessInv /\ ConsoleInv /\ FdsInv
    BY DEF Init, Runs, ProcessInv, ConsoleInv, FdsInv
  <1>3. StatusInv /\ MessageInv
    BY DEF Init, StatusInv, MessageInv
  <1> QED BY <1>1, <1>2, <1>3 DEF IInv

(* The launcher's steps up to the guest's start, any of which may die.  Init   *)
(* is there from Clone on, and the thread still reads.                      *)
StartActs ==
    \/ SetUp
    \/ OpenGuestFds
    \/ OpenConsole
    \/ Clone
    \/ StartConsole
    \/ CloseGuestFds
    \/ Supervise

LEMMA StartKeeps ==
    ASSUME IInv, StartActs
    PROVE  IInv'
  <1> USE DEF StartActs, SetUp, OpenGuestFds, OpenConsole, Clone, StartConsole,
              CloseGuestFds, Supervise, Goto, Die, Say, launcherVars, threadVars,
              guestVars, Ends, Armed, Runs
  <1>1. LauncherOK'
    <2>1. CASE SetUp
      BY <2>1 DEF IInv, TypeOK, LauncherOK, GuestOK, LauncherPlaces, Statuses
    <2>2. CASE OpenGuestFds
      BY <2>2 DEF IInv, TypeOK, LauncherOK, GuestOK, LauncherPlaces, Statuses
    <2>3. CASE OpenConsole
      BY <2>3 DEF IInv, TypeOK, LauncherOK, GuestOK, LauncherPlaces, Statuses
    <2>4. CASE Clone
      BY <2>4 DEF IInv, TypeOK, LauncherOK, GuestOK, LauncherPlaces, Statuses
    <2>5. CASE StartConsole
      BY <2>5 DEF IInv, TypeOK, LauncherOK, GuestOK, LauncherPlaces, Statuses
    <2>6. CASE CloseGuestFds
      BY <2>6 DEF IInv, TypeOK, LauncherOK, GuestOK, LauncherPlaces, Statuses
    <2>7. CASE Supervise
      BY <2>7 DEF IInv, TypeOK, LauncherOK, GuestOK, LauncherPlaces, Statuses
    <2> QED BY <2>1, <2>2, <2>3, <2>4, <2>5, <2>6, <2>7
  <1>2. MessagesOK'
    BY DEF IInv, TypeOK, MessagesOK
  <1>3. GuestOK'
    <2>1. init' \in InitPlaces /\ uml' \in UmlPlaces
      BY DEF IInv, TypeOK, GuestOK, InitPlaces, UmlPlaces
    <2>2. status' \in Statuses /\ how' \in Statuses
      BY DEF IInv, TypeOK, GuestOK, Statuses
    <2>3. asked' \in BOOLEAN /\ umlAsked' \in BOOLEAN
      BY DEF IInv, TypeOK, GuestOK
    <2>4. fds' \subseteq {"launcher", "init", "uml"}
      BY DEF IInv, TypeOK, GuestOK
    <2> QED BY <2>1, <2>2, <2>3, <2>4 DEF GuestOK
  <1>4. ProcessInv'
    BY DEF IInv, ProcessInv
  <1>5. ConsoleInv'
    BY DEF IInv, ConsoleInv
  <1>6. StatusInv'
    BY DEF IInv, ProcessInv, StatusInv
  <1>7. MessageInv'
    BY DEF IInv, TypeOK, MessagesOK, ProcessInv, MessageInv
  <1>8. FdsInv'
    BY DEF IInv, ProcessInv, StatusInv, FdsInv
  <1> QED BY <1>1, <1>2, <1>3, <1>4, <1>5, <1>6, <1>7, <1>8 DEF IInv, TypeOK

(* From the guest's end to the launcher's, whoever ends either.  The status    *)
(* passes from init to the launcher, and FlushMessages closes its end of the *)
(* pipe, whose thread is then done only once nobody else holds it.          *)
EndActs ==
    \/ Stop
    \/ Reap
    \/ StopConsole
    \/ NextRun
    \/ FlushMessages
    \/ Exit
    \/ LauncherKilled

LEMMA EndKeeps ==
    ASSUME IInv, EndActs
    PROVE  IInv'
  <1> USE DEF EndActs, Stop, Reap, StopConsole, NextRun, FlushMessages, Exit,
              LauncherKilled, Goto, InitGone, Leave, Over, launcherVars, threadVars,
              guestVars, Ends, Armed, Runs
  <1>1. LauncherOK'
    <2>1. CASE Stop
      BY <2>1 DEF IInv, TypeOK, LauncherOK, GuestOK, LauncherPlaces, Statuses
    <2>2. CASE Reap
      BY <2>2 DEF IInv, TypeOK, LauncherOK, GuestOK, LauncherPlaces, Statuses
    <2>3. CASE StopConsole
      BY <2>3 DEF IInv, TypeOK, LauncherOK, GuestOK, LauncherPlaces, Statuses
    <2>4. CASE NextRun
      BY <2>4 DEF IInv, TypeOK, LauncherOK, GuestOK, LauncherPlaces, Statuses
    <2>5. CASE FlushMessages
      BY <2>5 DEF IInv, TypeOK, LauncherOK, GuestOK, LauncherPlaces, Statuses
    <2>6. CASE Exit
      BY <2>6 DEF IInv, TypeOK, LauncherOK, GuestOK, LauncherPlaces, Statuses
    <2>7. CASE LauncherKilled
      BY <2>7 DEF IInv, TypeOK, LauncherOK, GuestOK, LauncherPlaces, Statuses
    <2> QED BY <2>1, <2>2, <2>3, <2>4, <2>5, <2>6, <2>7
  <1>2. MessagesOK'
    BY DEF IInv, TypeOK, MessagesOK
  <1>3. GuestOK'
    <2>1. init' \in InitPlaces /\ uml' \in UmlPlaces
      BY DEF IInv, TypeOK, GuestOK, InitPlaces, UmlPlaces
    <2>2. status' \in Statuses /\ how' \in Statuses
      BY DEF IInv, TypeOK, GuestOK, Statuses
    <2>3. asked' \in BOOLEAN /\ umlAsked' \in BOOLEAN
      BY DEF IInv, TypeOK, GuestOK
    <2>4. fds' \subseteq {"launcher", "init", "uml"}
      BY DEF IInv, TypeOK, GuestOK
    <2> QED BY <2>1, <2>2, <2>3, <2>4 DEF GuestOK
  <1>4. ProcessInv'
    BY DEF IInv, ProcessInv
  <1>5. ConsoleInv'
    BY DEF IInv, ConsoleInv
  <1>6. StatusInv'
    BY DEF IInv, ProcessInv, StatusInv
  <1>7. MessageInv'
    BY DEF IInv, TypeOK, MessagesOK, ProcessInv, MessageInv
  <1>8. FdsInv'
    BY DEF IInv, ProcessInv, StatusInv, FdsInv
  <1> QED BY <1>1, <1>2, <1>3, <1>4, <1>5, <1>6, <1>7, <1>8 DEF IInv, TypeOK

(* The launcher's two threads. *)
OutsideActs == RelayConsole \/ ThreadStep

LEMMA OutsideKeeps ==
    ASSUME IInv, OutsideActs
    PROVE  IInv'
  <1> USE DEF OutsideActs, RelayConsole, ThreadStep, Over, PipeHeld, launcherVars,
              threadVars, guestVars, Ends, Armed, Runs
  <1>1. LauncherOK'
    BY DEF IInv, TypeOK, LauncherOK, GuestOK, LauncherPlaces, Statuses
  <1>2. MessagesOK'
    BY DEF IInv, TypeOK, MessagesOK
  <1>3. GuestOK'
    <2>1. init' \in InitPlaces /\ uml' \in UmlPlaces
      BY DEF IInv, TypeOK, GuestOK, InitPlaces, UmlPlaces
    <2>2. status' \in Statuses /\ how' \in Statuses
      BY DEF IInv, TypeOK, GuestOK, Statuses
    <2>3. asked' \in BOOLEAN /\ umlAsked' \in BOOLEAN
      BY DEF IInv, TypeOK, GuestOK
    <2>4. fds' \subseteq {"launcher", "init", "uml"}
      BY DEF IInv, TypeOK, GuestOK
    <2> QED BY <2>1, <2>2, <2>3, <2>4 DEF GuestOK
  <1>4. ProcessInv'
    BY DEF IInv, ProcessInv
  <1>5. ConsoleInv'
    BY DEF IInv, ConsoleInv
  <1>6. StatusInv'
    BY DEF IInv, ProcessInv, StatusInv
  <1>7. MessageInv'
    BY DEF IInv, TypeOK, MessagesOK, ProcessInv, MessageInv
  <1>8. FdsInv'
    BY DEF IInv, ProcessInv, StatusInv, FdsInv
  <1> QED BY <1>1, <1>2, <1>3, <1>4, <1>5, <1>6, <1>7, <1>8 DEF IInv, TypeOK

(* Init sets itself up, with no UML to leave behind when it dies. *)
SetupActs == InitJoins \/ InitRoot \/ InitDrops \/ InitArms \/ InitChecks

LEMMA SetupKeeps ==
    ASSUME IInv, SetupActs
    PROVE  IInv'
  <1> USE DEF SetupActs, InitJoins, InitRoot, InitDrops, InitArms, InitChecks,
              Proceeds, InitDies, InitGone, GuestSays, Say, Over, launcherVars,
              threadVars, guestVars, Ends, Armed, Runs
  <1>1. LauncherOK'
    BY DEF IInv, TypeOK, LauncherOK, GuestOK, LauncherPlaces, Statuses
  <1>2. MessagesOK'
    BY DEF IInv, TypeOK, MessagesOK
  <1>3. GuestOK'
    <2>1. init' \in InitPlaces /\ uml' \in UmlPlaces
      BY DEF IInv, TypeOK, GuestOK, InitPlaces, UmlPlaces
    <2>2. status' \in Statuses /\ how' \in Statuses
      BY DEF IInv, TypeOK, GuestOK, Statuses
    <2>3. asked' \in BOOLEAN /\ umlAsked' \in BOOLEAN
      BY DEF IInv, TypeOK, GuestOK
    <2>4. fds' \subseteq {"launcher", "init", "uml"}
      BY DEF IInv, TypeOK, GuestOK
    <2> QED BY <2>1, <2>2, <2>3, <2>4 DEF GuestOK
  <1>4. ProcessInv'
    BY DEF IInv, ProcessInv
  <1>5. ConsoleInv'
    BY DEF IInv, ConsoleInv
  <1>6. StatusInv'
    BY DEF IInv, ProcessInv, StatusInv
  <1>7. MessageInv'
    BY DEF IInv, TypeOK, MessagesOK, ProcessInv, MessageInv
  <1>8. FdsInv'
    BY DEF IInv, ProcessInv, StatusInv, FdsInv
  <1> QED BY <1>1, <1>2, <1>3, <1>4, <1>5, <1>6, <1>7, <1>8 DEF IInv, TypeOK

(* Init has a child, and exits as that does. *)
RelayActs == InitForks \/ InitCloses \/ InitPassesOn \/ InitReaps

LEMMA RelayKeeps ==
    ASSUME IInv, RelayActs
    PROVE  IInv'
  <1> USE DEF RelayActs, InitForks, InitCloses, InitPassesOn, InitReaps, InitDies,
              InitGone, GuestSays, Say, launcherVars, threadVars, guestVars, Ends,
              Armed, Runs
  <1>1. LauncherOK'
    BY DEF IInv, TypeOK, LauncherOK, GuestOK, LauncherPlaces, Statuses
  <1>2. MessagesOK'
    BY DEF IInv, TypeOK, MessagesOK
  <1>3. GuestOK'
    <2>1. init' \in InitPlaces /\ uml' \in UmlPlaces
      BY DEF IInv, TypeOK, GuestOK, InitPlaces, UmlPlaces
    <2>2. status' \in Statuses /\ how' \in Statuses
      BY DEF IInv, TypeOK, GuestOK, Statuses
    <2>3. asked' \in BOOLEAN /\ umlAsked' \in BOOLEAN
      BY DEF IInv, TypeOK, GuestOK
    <2>4. fds' \subseteq {"launcher", "init", "uml"}
      BY DEF IInv, TypeOK, GuestOK
    <2> QED BY <2>1, <2>2, <2>3, <2>4 DEF GuestOK
  <1>4. ProcessInv'
    BY DEF IInv, ProcessInv
  <1>5. ConsoleInv'
    BY DEF IInv, ConsoleInv
  <1>6. StatusInv'
    BY DEF IInv, ProcessInv, StatusInv
  <1>7. MessageInv'
    BY DEF IInv, TypeOK, MessagesOK, ProcessInv, MessageInv
  <1>8. FdsInv'
    BY DEF IInv, ProcessInv, StatusInv, FdsInv
  <1> QED BY <1>1, <1>2, <1>3, <1>4, <1>5, <1>6, <1>7, <1>8 DEF IInv, TypeOK

(* UML runs only under an init that is there, so that a pipe whose thread is   *)
(* done gets no message, and an exit that nobody has reaped no status.      *)
UmlActs == Confine \/ ExecGuest \/ UmlExits

LEMMA UmlKeeps ==
    ASSUME IInv, UmlActs
    PROVE  IInv'
  <1> USE DEF UmlActs, Confine, ExecGuest, UmlExits, UmlDies, UmlEnds, GuestSays,
              Say, launcherVars, threadVars, guestVars, Ends, Armed, Runs
  <1>1. LauncherOK'
    BY DEF IInv, TypeOK, LauncherOK, GuestOK, LauncherPlaces, Statuses
  <1>2. MessagesOK'
    BY DEF IInv, TypeOK, MessagesOK
  <1>3. GuestOK'
    <2>1. init' \in InitPlaces /\ uml' \in UmlPlaces
      BY DEF IInv, TypeOK, GuestOK, InitPlaces, UmlPlaces
    <2>2. status' \in Statuses /\ how' \in Statuses
      BY DEF IInv, TypeOK, GuestOK, Statuses
    <2>3. asked' \in BOOLEAN /\ umlAsked' \in BOOLEAN
      BY DEF IInv, TypeOK, GuestOK
    <2>4. fds' \subseteq {"launcher", "init", "uml"}
      BY DEF IInv, TypeOK, GuestOK
    <2> QED BY <2>1, <2>2, <2>3, <2>4 DEF GuestOK
  <1>4. ProcessInv'
    BY DEF IInv, ProcessInv
  <1>5. ConsoleInv'
    BY DEF IInv, ConsoleInv
  <1>6. StatusInv'
    BY DEF IInv, ProcessInv, StatusInv
  <1>7. MessageInv'
    BY DEF IInv, TypeOK, MessagesOK, ProcessInv, MessageInv
  <1>8. FdsInv'
    BY DEF IInv, ProcessInv, StatusInv, FdsInv
  <1> QED BY <1>1, <1>2, <1>3, <1>4, <1>5, <1>6, <1>7, <1>8 DEF IInv, TypeOK

-----------------------------------------------------------------------------
(* Every step keeps the invariant. *)
LEMMA NextInv == IInv /\ [Next]_vars => IInv'
  <1> SUFFICES ASSUME IInv, [Next]_vars PROVE IInv'
    OBVIOUS
  <1>1. \/ StartActs \/ EndActs \/ OutsideActs
        \/ SetupActs \/ RelayActs \/ UmlActs
        \/ UNCHANGED vars
    BY DEF Next, LauncherStep, GuestStep, InitStep, StartActs, EndActs, OutsideActs, SetupActs,
           RelayActs, UmlActs
  <1>2. CASE UNCHANGED vars
    BY <1>2 DEF vars, launcherVars, threadVars, guestVars, IInv, TypeOK, LauncherOK, MessagesOK,
                GuestOK, ProcessInv, ConsoleInv, StatusInv, MessageInv, FdsInv
  <1> QED BY <1>1, <1>2, StartKeeps, EndKeeps, OutsideKeeps, SetupKeeps, RelayKeeps, UmlKeeps

(* The invariant holds wherever the three processes fail or are killed. *)
THEOREM Invariance == Spec => []IInv
  BY InitInv, NextInv, PTL DEF Spec

(* Every variable of the launcher's processes keeps its type. *)
THEOREM TypeCorrect == Spec => []TypeOK
  <1>1. IInv => TypeOK
    BY DEF IInv
  <1> QED BY <1>1, Invariance, PTL

(* A launcher that exits has restored the terminal, returned how its last      *)
(* guest exited and written its messages, and one that has its guest's status *)
(* has freed the devices (main, run_guest, flush_messages).                 *)
THEOREM LeavesInOrder == Spec => []LeftInOrder
  <1>1. IInv => LeftInOrder
    <2> SUFFICES ASSUME IInv PROVE LeftInOrder
      OBVIOUS
    <2>1. TerminalRestored /\ RelayOver
      BY DEF IInv, ConsoleInv, TerminalRestored, RelayOver
    <2>2. StatusReturned
      BY DEF IInv, StatusInv, StatusReturned
    <2>3. MessagesWritten
      BY DEF IInv, MessageInv, MessagesWritten
    <2>4. DevicesFree
      <3> SUFFICES ASSUME main \in {"clean", "next"} PROVE fds = {}
        BY DEF DevicesFree
      <3>1. init = "dead" /\ ~Runs(uml)
        BY DEF IInv, StatusInv, ProcessInv
      <3> QED BY <3>1 DEF IInv, TypeOK, GuestOK, FdsInv, Runs
    <2> QED BY <2>1, <2>2, <2>3, <2>4 DEF LeftInOrder
  <1> QED BY <1>1, Invariance, PTL
=============================================================================
