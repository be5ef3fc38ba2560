--------------------------- MODULE LauncherProofs ---------------------------
(***************************************************************************)
(* Proofs about Launcher, for any finite set of exported devices, any stop   *)
(* signals, any bounds on requests and logs, with and without restarts.      *)
(***************************************************************************)
EXTENDS Launcher, FiniteSetTheorems, TLAPS

USE BoundsAssumption, OptionsAssumption

(* The requests that the broker answers in one run of the guest. *)
Allowed == Cardinality(Exports) * MaxRequests

RequestsInv == broker => requests <= Allowed

(* The guest runs only while main() supervises it, and the processes that it *)
(* leaves end before anything of it is destroyed.                           *)
GuestInv ==
    /\ GuestRuns => pc = "supervise"
    /\ others => pc \in {"supervise", "orphans"}

(* Once it has taken a stop signal the launcher starts no guest, and its     *)
(* guest has been asked to stop before it sets a deadline.                  *)
StoppingInv ==
    /\ deadline => stopping
    /\ stopping => pc \notin {"open", "pause"}
    /\ stopping => init # "running"

(* destroy_exports has settled the logs of the exports that it has done. *)
SettledInv ==
    /\ pc \in {"destroy", "next", "pause"} =>
           \A e \in Exports \ todo :
               log[e] <= logSize[e] /\ (dev[e] = "absent" => log[e] = 0)
    /\ pc \in {"next", "pause"} => todo = {}

IInv == TypeOK /\ RequestsInv /\ GuestInv /\ StoppingInv /\ SettledInv

-----------------------------------------------------------------------------
(* The runs that the limit on restarts allows are a number. *)
LEMMA AllowedType == Allowed \in Nat
  <1>1. Cardinality(Exports) \in Nat
    BY ExportsAssumption, FS_CardinalityType
  <1> QED BY <1>1 DEF Allowed

(* The first launcher, before its first guest, satisfies the invariant. *)
LEMMA InitInv == Init => IInv
  <1> SUFFICES ASSUME Init PROVE IInv
    OBVIOUS
  <1>1. requests \in 0..(Allowed + 1)
    BY AllowedType DEF Init
  <1>2. /\ log \in [Exports -> 0..MaxLog] /\ logSize \in [Exports -> 0..MaxLog]
        /\ logHeld \in [Exports -> BOOLEAN] /\ held \in [Exports -> BOOLEAN]
        /\ dev \in [Exports -> {"absent", "ready", "bus"}]
    BY DEF Init
  <1>3. TypeOK
    BY <1>1, <1>2 DEF Init, TypeOK, Locations, Between, Allowed
  <1>4. RequestsInv /\ GuestInv /\ StoppingInv /\ SettledInv
    BY DEF Init, RequestsInv, GuestInv, StoppingInv, SettledInv, GuestRuns
  <1> QED BY <1>3, <1>4 DEF IInv

(* The steps of main() that start a guest, or go on from one to the next. *)
RunActs ==
    \/ StartGuest
    \/ DieAtOpen
    \/ GuestExited
    \/ KillOrphans
    \/ DestroyDone
    \/ NextRun
    \/ Pause

(* Signals, and what ends a guest or a launcher. *)
SignalActs ==
    \/ TakeSignal
    \/ DeadlinePassed
    \/ Signal
    \/ GuestExit
    \/ LauncherKilled
    \/ Launch

(* What the guest, the kernel and the host do. *)
OutsideActs ==
    \/ HangUp
    \/ GuestForks
    \/ FreeFds
    \/ \E e \in Exports :
           GuestWritesLog(e) \/ GuestCloses(e) \/ HostAddsOrRemoves(e) \/ HostDestroy(e)

(* main() starts a guest only when no signal was taken, and comes to destroy  *)
(* devices only when no process of the guest is left.                       *)
LEMMA RunInv == ASSUME IInv, RunActs PROVE IInv'
  <1> USE AllowedType DEF IInv, TypeOK, RequestsInv, GuestInv, StoppingInv, SettledInv,
          GuestRuns, Locations, Between, Allowed,
          control, guest, requestVars, devices, logs
  <1>1. CASE StartGuest
    <2>1. /\ requests' = 0 /\ 0 \in 0..(Allowed + 1) /\ 0 <= Allowed
          /\ logHeld' \in [Exports -> BOOLEAN] /\ logSize' \in [Exports -> 0..MaxLog]
      BY <1>1 DEF StartGuest
    <2> QED BY <1>1, <2>1 DEF StartGuest
  <1>2. CASE DieAtOpen
    BY <1>2 DEF DieAtOpen
  <1>3. CASE GuestExited
    BY <1>3 DEF GuestExited
  <1>4. CASE KillOrphans
    BY <1>4 DEF KillOrphans
  <1>5. CASE DestroyDone
    BY <1>5 DEF DestroyDone
  <1>6. CASE NextRun
    BY <1>6 DEF NextRun
  <1>7. CASE Pause
    BY <1>7 DEF Pause
  <1> QED BY <1>1, <1>2, <1>3, <1>4, <1>5, <1>6, <1>7 DEF RunActs

(* A stop signal asks before it kills, and a launcher that is killed takes   *)
(* its guest with it.                                                       *)
LEMMA SignalInv == ASSUME IInv, SignalActs PROVE IInv'
  <1> USE AllowedType DEF IInv, TypeOK, RequestsInv, GuestInv, StoppingInv, SettledInv,
          GuestRuns, Locations, Between, Allowed,
          control, guest, requestVars, devices, logs
  <1>1. CASE TakeSignal
    BY <1>1 DEF TakeSignal
  <1>2. CASE DeadlinePassed
    BY <1>2 DEF DeadlinePassed
  <1>3. CASE Signal
    BY <1>3 DEF Signal
  <1>4. CASE GuestExit
    BY <1>4 DEF GuestExit
  <1>5. CASE LauncherKilled
    BY <1>5 DEF LauncherKilled
  <1>6. CASE Launch
    BY <1>6 DEF Launch
  <1> QED BY <1>1, <1>2, <1>3, <1>4, <1>5, <1>6 DEF SignalActs

(* The guest writes its logs only while a process of it runs, and the host    *)
(* makes no device that was there absent before the launcher has exited.     *)
LEMMA OutsideInv == ASSUME IInv, OutsideActs PROVE IInv'
  <1> USE AllowedType DEF IInv, TypeOK, RequestsInv, GuestInv, StoppingInv, SettledInv,
          GuestRuns, Locations, Between, Allowed,
          control, guest, requestVars, devices, logs
  <1>1. CASE HangUp
    BY <1>1 DEF HangUp
  <1>2. CASE GuestForks
    BY <1>2 DEF GuestForks
  <1>3. CASE FreeFds
    BY <1>3 DEF FreeFds
  <1>4. ASSUME NEW e \in Exports, GuestWritesLog(e)
        PROVE  IInv'
    BY <1>4 DEF GuestWritesLog
  <1>5. ASSUME NEW e \in Exports, GuestCloses(e)
        PROVE  IInv'
    BY <1>5 DEF GuestCloses
  <1>6. ASSUME NEW e \in Exports, HostAddsOrRemoves(e)
        PROVE  IInv'
    BY <1>6 DEF HostAddsOrRemoves
  <1>7. ASSUME NEW e \in Exports, HostDestroy(e)
        PROVE  IInv'
    BY <1>7 DEF HostDestroy
  <1> QED BY <1>1, <1>2, <1>3, <1>4, <1>5, <1>6, <1>7 DEF OutsideActs

(* destroy_exports settles the log of the export that it does, and leaves the *)
(* others as they were.                                                     *)
LEMMA DestroyInv ==
    ASSUME IInv, NEW e \in Exports, DestroyExport(e)
    PROVE  IInv'
  <1> USE AllowedType DEF IInv, TypeOK, RequestsInv, GuestInv, StoppingInv, SettledInv,
          GuestRuns, Locations, Between, Allowed,
          control, guest, requestVars, devices, logs
  <1>1. TypeOK'
    BY DEF DestroyExport
  <1>2. RequestsInv' /\ GuestInv' /\ StoppingInv'
    BY DEF DestroyExport
  <1>3. SettledInv'
    BY DEF DestroyExport
  <1> QED BY <1>1, <1>2, <1>3

(* A request of the guest is answered while main() supervises it, and the     *)
(* one past the bound ends the broker.                                      *)
LEMMA BrokerInv == ASSUME IInv, ServeBroker PROVE IInv'
  <1> USE AllowedType DEF IInv
  <1>1. requests' \in 0..(Allowed + 1) /\ RequestsInv'
    <2>1. requests \in 0..(Allowed + 1)
      BY DEF TypeOK, Allowed
    <2>2. requests' = requests + 1 /\ (requests' > Allowed => ~broker') /\ broker
      BY DEF ServeBroker, Allowed
    <2> QED BY <2>1, <2>2 DEF RequestsInv
  <1>2. /\ dev' \in [Exports -> {"absent", "ready", "bus"}]
        /\ held' \in [Exports -> BOOLEAN]
        /\ log' \in [Exports -> 0..MaxLog]
        /\ logSize' \in [Exports -> 0..MaxLog]
    <2> USE DEF TypeOK
    <2>1. CASE UNCHANGED <<devices, log, logSize>>
      BY <2>1 DEF devices
    <2>2. ASSUME NEW e \in Exports, CreateDevice(e) \/ DestroyDevice(e) \/ OpenDevice(e)
          PROVE  <1>2!:
      BY <2>2 DEF CreateDevice, DestroyDevice, OpenDevice
    <2>3. ASSUME NEW e \in Exports, ResizeLog(e)
          PROVE  <1>2!:
      BY <2>3 DEF ResizeLog, devices
    <2> QED BY <2>1, <2>2, <2>3 DEF ServeBroker
  <1>3. UNCHANGED <<control, guest, logHeld, todo>> /\ broker' \in BOOLEAN /\ pc = "supervise"
    BY DEF ServeBroker, TypeOK
  <1>4. TypeOK'
    BY <1>1, <1>2, <1>3 DEF TypeOK, control, guest, Allowed
  <1>5. GuestInv' /\ StoppingInv' /\ SettledInv'
    BY <1>3 DEF GuestInv, StoppingInv, SettledInv, GuestRuns, control, guest
  <1> QED BY <1>1, <1>4, <1>5

(* Every step preserves the inductive invariant. *)
LEMMA NextInv == IInv /\ [Next]_vars => IInv'
  <1> SUFFICES ASSUME IInv, [Next]_vars PROVE IInv'
    OBVIOUS
  <1>1. CASE RunActs
    BY <1>1, RunInv
  <1>2. CASE SignalActs
    BY <1>2, SignalInv
  <1>3. CASE OutsideActs
    BY <1>3, OutsideInv
  <1>4. ASSUME NEW e \in Exports, DestroyExport(e)
        PROVE  IInv'
    BY <1>4, DestroyInv
  <1>5. CASE ServeBroker
    BY <1>5, BrokerInv
  <1>6. CASE UNCHANGED vars
    BY <1>6 DEF vars, control, guest, requestVars, devices, logs, IInv, TypeOK,
                RequestsInv, GuestInv, StoppingInv, SettledInv, GuestRuns
  <1> QED
    BY <1>1, <1>2, <1>3, <1>4, <1>5, <1>6
    DEF Next, LauncherStep, RunActs, SignalActs, OutsideActs

(* The inductive invariant holds in every state of the specification. *)
LEMMA Invariant == Spec => []IInv
  BY InitInv, NextInv, PTL DEF Spec

-----------------------------------------------------------------------------
(* The variables keep their types; above all, the guest never gets more than *)
(* its number of requests out of the broker.                                *)
THEOREM TypeCorrect == Spec => []TypeOK
  <1>1. IInv => TypeOK
    BY DEF IInv
  <1> QED BY <1>1, Invariant, PTL

(* When main() goes on to the next run, destroy_exports has emptied the log   *)
(* of every device that is gone and cut the others to their size.           *)
THEOREM LogsAreSettled == Spec => []LogsSettled
  <1>1. IInv => LogsSettled
    BY DEF IInv, SettledInv, LogsSettled
  <1> QED BY <1>1, Invariant, PTL

(* A stop signal or the deadline kills only a guest that was asked to stop.  *)
THEOREM GuestIsAskedFirst == Spec => AskedBeforeKilled
  <1> DEFINE Asked == init' = "killed" /\ init # "killed" => init = "asked"
  <1>1. IInv /\ [Next]_vars => [Asked]_vars
    <2> SUFFICES ASSUME IInv, Next, init' = "killed", init # "killed"
                 PROVE  init = "asked"
      OBVIOUS
    <2>1. CASE TakeSignal
      BY <2>1 DEF TakeSignal, IInv, StoppingInv, GuestRuns
    <2>2. CASE DeadlinePassed
      BY <2>2 DEF DeadlinePassed, IInv, StoppingInv, GuestRuns
    <2>3. CASE ~TakeSignal /\ ~DeadlinePassed
      BY <2>3 DEF Next, LauncherStep, StartGuest, DieAtOpen, GuestExited, KillOrphans,
                  DestroyExport, DestroyDone, NextRun, Pause, ServeBroker, HangUp,
                  GuestExit, GuestForks, FreeFds, GuestWritesLog, GuestCloses, Signal,
                  HostAddsOrRemoves, HostDestroy, LauncherKilled, Launch,
                  control, guest, GuestRuns
    <2> QED BY <2>1, <2>2, <2>3
  <1>2. Spec => [][Asked]_vars
    BY <1>1, Invariant, PTL DEF Spec
  <1> QED BY <1>2 DEF AskedBeforeKilled

(* A guest starts only under a launcher that has taken no stop signal, when   *)
(* no process of an earlier guest runs or holds a log.                      *)
THEOREM GuestStartsAlone == Spec => NewGuestAlone
  <1> DEFINE Alone == init' = "running" /\ init # "running" =>
                          ~stopping /\ ~others /\ \A e \in Exports : ~logHeld[e]
  <1>1. IInv /\ [Next]_vars => [Alone]_vars
    <2> SUFFICES ASSUME IInv, Next, init' = "running", init # "running"
                 PROVE  ~stopping /\ ~others /\ \A e \in Exports : ~logHeld[e]
      OBVIOUS
    <2>1. CASE StartGuest
      BY <2>1 DEF StartGuest, IInv, StoppingInv, GuestInv
    <2>2. CASE ~StartGuest
      BY <2>2 DEF Next, LauncherStep, DieAtOpen, GuestExited, KillOrphans, TakeSignal,
                  DeadlinePassed, DestroyExport, DestroyDone, NextRun, Pause, ServeBroker,
                  HangUp, GuestExit, GuestForks, FreeFds, GuestWritesLog, GuestCloses,
                  Signal, HostAddsOrRemoves, HostDestroy, LauncherKilled, Launch,
                  control, guest, GuestRuns
    <2> QED BY <2>1, <2>2
  <1>2. Spec => [][Alone]_vars
    BY <1>1, Invariant, PTL DEF Spec
  <1> QED BY <1>2 DEF NewGuestAlone
=============================================================================
