----------------------------- MODULE Supervisor -----------------------------
(***************************************************************************)
(* `invirtio run <name>` (tools/cmd/invirtio/run.go): the process that      *)
(* starts a device's launcher, puts the VDUSE device on the host's vDPA     *)
(* bus once the guest has made it, and takes it off and destroys it when    *)
(* the guest ends or the service stops.                                     *)
(*                                                                          *)
(* Each element of Runs is one such process for the SAME device: systemd's  *)
(* first start, its restarts, and a run started by hand.  A run is three    *)
(* goroutines, the main one (pc), the attacher (att) and the waiter on the  *)
(* launcher (waiter), beside the launcher and the guest that it started.    *)
(* The device, its host driver and the lock file are shared by all runs.    *)
(***************************************************************************)
EXTENDS Naturals

CONSTANTS
    Runs,       \* the supervisor processes of one device, in no order
    NoRun,      \* "no process", for the lock and the device's fd
    Wlan,       \* is the device a wlan device (else it is a net device)?
    MayCrash    \* may a supervisor be killed (SIGKILL, OOM)?

ASSUME RunsAssumption == NoRun \notin Runs
ASSUME FlagsAssumption == Wlan \in BOOLEAN /\ MayCrash \in BOOLEAN

VARIABLES
    pc,         \* where the main goroutine of each run is
    sigs,       \* stop signals queued in the channel of capacity 2
    stopping,   \* supervise's local `stopping`
    warned,     \* has a vdpa.Remove or vdpa.Destroy of the run failed?
    att,        \* where the attacher goroutine is
    stopped,    \* attacher.stopped
    live,       \* attacher.live
    waiter,     \* the waiter goroutine and the channel `exited`
    launcher,   \* the launcher process
    term,       \* has the launcher been sent SIGTERM?
    guest,      \* the guest, as far as the device sees it
    lock,       \* the run that holds the flock on <name>.lock
    dev,        \* the VDUSE device
    bound,      \* does virtio_vdpa have the device?
    broken,     \* has a host message timed out since it went on the bus?
    low,        \* has the device's msg_timeout been lowered to 1 s?
    fd          \* the run whose guest has the device open

main     == <<pc, sigs, stopping, warned>>
attacher == <<att, stopped, live>>
child    == <<waiter, launcher, term>>
device   == <<dev, bound, broken, low, fd>>
vars     == <<main, attacher, child, guest, lock, device>>

-----------------------------------------------------------------------------
(* Locations of the main goroutine.  X1 are the steps of the cleanup of a   *)
(* leftover wlan device, X2 those of the cleanup after the guest.           *)
Before  == {"idle", "locking"}
Setup   == {"prepare", "remove1", "removing1", "destroy1", "launch"}
Serving == {"wait", "stopAtt", "stopWait", "remove", "removing", "term"}
Ending  == {"after", "lower", "stopAtt2", "stopWait2", "decide",
            "remove2", "removing2", "destroy2"}
Locked  == Setup \cup Serving \cup Ending \cup {"unlock"}
Over    == {"done", "crashed"}

(* The attacher holds its mutex from the check of `stopped` to the end of   *)
(* the iteration, the vdpa command and the bind included.                   *)
HoldsMutex == {"held", "adding", "binding", "bound"}

Alive(r)    == guest[r] \in {"booting", "open", "serving"}
Gone(r)     == waiter[r] # "waiting"
Answered    == fd # NoRun /\ guest[fd] = "serving"

TypeOK ==
    /\ pc \in [Runs -> Before \cup Locked \cup Over]
    /\ sigs \in [Runs -> 0..2]
    /\ stopping \in [Runs -> BOOLEAN]
    /\ warned \in [Runs -> BOOLEAN]
    /\ att \in [Runs -> {"none", "loop", "done"} \cup HoldsMutex]
    /\ stopped \in [Runs -> BOOLEAN]
    /\ live \in [Runs -> BOOLEAN]
    /\ waiter \in [Runs -> {"waiting", "gone", "sent", "taken"}]
    /\ launcher \in [Runs -> {"none", "running", "ending", "exited"}]
    /\ term \in [Runs -> BOOLEAN]
    /\ guest \in [Runs -> {"none", "booting", "open", "serving", "dead"}]
    /\ lock \in Runs \cup {NoRun}
    /\ dev \in {"absent", "created", "ready", "bus"}
    /\ bound \in BOOLEAN
    /\ broken \in BOOLEAN
    /\ low \in BOOLEAN
    /\ fd \in Runs \cup {NoRun}

Init ==
    /\ pc = [r \in Runs |-> "idle"]
    /\ sigs = [r \in Runs |-> 0]
    /\ stopping = [r \in Runs |-> FALSE]
    /\ warned = [r \in Runs |-> FALSE]
    /\ att = [r \in Runs |-> "none"]
    /\ stopped = [r \in Runs |-> FALSE]
    /\ live = [r \in Runs |-> FALSE]
    /\ waiter = [r \in Runs |-> "waiting"]
    /\ launcher = [r \in Runs |-> "none"]
    /\ term = [r \in Runs |-> FALSE]
    /\ guest = [r \in Runs |-> "none"]
    /\ lock = NoRun
    /\ dev = "absent"
    /\ bound = FALSE
    /\ broken = FALSE
    /\ low = FALSE
    /\ fd = NoRun

Goto(r, l) == pc' = [pc EXCEPT ![r] = l]

-----------------------------------------------------------------------------
(* vdpa.go, as steps of the main goroutine of r. *)

(* vdpa.Remove up to the wait for the device's reset; it does nothing for a  *)
(* device that is not on the bus, and goes straight to `next`.              *)
RemoveStart(r, here, removing, next, guestGone) ==
    /\ pc[r] = here
    /\ IF dev = "bus"
       THEN Goto(r, removing) /\ low' = (low \/ guestGone)
       ELSE Goto(r, next) /\ UNCHANGED low
    /\ UNCHANGED <<sigs, stopping, warned, attacher, child, guest, lock,
                   dev, bound, broken, fd>>

(* `vdpa dev del` returns: the guest answered the reset or the message      *)
(* timeout passed, or the command failed.                                   *)
RemoveEnd(r, here, next) ==
    /\ pc[r] = here
    /\ Goto(r, next)
    /\ \/ /\ dev' = "ready" /\ bound' = FALSE /\ broken' = FALSE
          /\ UNCHANGED warned
       \/ /\ warned' = [warned EXCEPT ![r] = TRUE]
          /\ UNCHANGED <<dev, bound, broken>>
    /\ UNCHANGED <<sigs, stopping, attacher, child, guest, lock, low, fd>>

(* VDUSE_DESTROY_DEV forgets the device and all that was set on it. *)
Vanish == dev' = "absent" /\ broken' = FALSE /\ low' = FALSE /\ UNCHANGED bound

(* vdpa.Destroy.  EBUSY is tried again while the device is off the bus, so   *)
(* it gives up at once on the bus, and after a second for an open fd.       *)
Destroy(r, here, next) ==
    /\ pc[r] = here
    /\ Goto(r, next)
    /\ \/ dev = "absent" /\ UNCHANGED <<dev, bound, broken, low, warned>>
       \/ dev \in {"created", "ready"} /\ fd = NoRun /\ Vanish /\ UNCHANGED warned
       \/ /\ dev = "bus" \/ (dev # "absent" /\ fd # NoRun)
          /\ warned' = [warned EXCEPT ![r] = TRUE]
          /\ UNCHANGED <<dev, bound, broken, low>>
    /\ UNCHANGED <<sigs, stopping, attacher, child, guest, lock, fd>>

-----------------------------------------------------------------------------
(* supervise up to the launcher's start. *)

(* The stop signals are caught; modprobe and the run directory may fail.    *)
Begin(r) ==
    /\ pc[r] = "idle"
    /\ \E l \in {"locking", "done"} : Goto(r, l)
    /\ UNCHANGED <<sigs, stopping, warned, attacher, child, guest, lock, device>>

(* Mutant: the flock fails and the supervisor goes on. *)
LockDeviceUnlocked(r) ==
    /\ pc[r] = "locking"
    /\ \A q \in Runs : pc[q] = "crashed" => launcher[q] \in {"none", "exited"}
    /\ lock' = IF lock = NoRun THEN r ELSE lock
    /\ Goto(r, "prepare")
    /\ UNCHANGED <<sigs, stopping, warned, attacher, child, guest, device>>

(* lockDevice, with LOCK_NB.  What a killed supervisor leaves behind is gone  *)
(* by then (PdeathKill).                                                    *)
LockDevice(r) ==
    /\ pc[r] = "locking"
    /\ \A q \in Runs : pc[q] = "crashed" => launcher[q] \in {"none", "exited"}
    /\ IF lock = NoRun
       THEN lock' = r /\ Goto(r, "prepare")
       ELSE Goto(r, "done") /\ UNCHANGED lock
    /\ UNCHANGED <<sigs, stopping, warned, attacher, child, guest, device>>

(* mountLogDir, and the choice to clean up a leftover wlan device. *)
Prepare(r) ==
    /\ pc[r] = "prepare"
    /\ \/ Goto(r, IF Wlan THEN "remove1" ELSE "launch")
       \/ Goto(r, "unlock")
    /\ UNCHANGED <<sigs, stopping, warned, attacher, child, guest, lock, device>>

LeftoverCleanup(r) ==
    \/ RemoveStart(r, "remove1", "removing1", "destroy1", TRUE)
    \/ RemoveEnd(r, "removing1", "destroy1")
    \/ Destroy(r, "destroy1", "launch")

(* A stop signal that came during the set-up ends the run before the start, *)
(* and the cgroup, the pty or the start itself may fail.                    *)
AbortLaunch(r) ==
    /\ pc[r] = "launch"
    /\ Goto(r, "unlock")
    /\ sigs' = [sigs EXCEPT ![r] = IF @ > 0 THEN @ - 1 ELSE 0]
    /\ UNCHANGED <<stopping, warned, attacher, child, guest, lock, device>>

Launch(r) ==
    /\ pc[r] = "launch"
    /\ sigs[r] = 0
    /\ Goto(r, "wait")
    /\ launcher' = [launcher EXCEPT ![r] = "running"]
    /\ guest' = [guest EXCEPT ![r] = "booting"]
    /\ att' = [att EXCEPT ![r] = "loop"]
    /\ UNCHANGED <<sigs, stopping, warned, stopped, live, waiter, term, lock, device>>

-----------------------------------------------------------------------------
(* The wait loop. *)

(* Mutants: the launcher is signalled before its device is removed; the loop *)
(* goes on after it has received from `exited`.                             *)
WaitSignalAtOnce(r) ==
    /\ pc[r] = "wait" /\ sigs[r] > 0
    /\ sigs' = [sigs EXCEPT ![r] = @ - 1]
    /\ stopping' = [stopping EXCEPT ![r] = TRUE]
    /\ IF waiter[r] = "sent"
       THEN waiter' = [waiter EXCEPT ![r] = "taken"] /\ Goto(r, "after")
       ELSE Goto(r, "term") /\ UNCHANGED waiter
    /\ UNCHANGED <<warned, attacher, launcher, term, guest, lock, device>>

WaitSignalLosesExit(r) ==
    /\ pc[r] = "wait" /\ sigs[r] > 0
    /\ sigs' = [sigs EXCEPT ![r] = @ - 1]
    /\ stopping' = [stopping EXCEPT ![r] = TRUE]
    /\ waiter' = [waiter EXCEPT ![r] = IF @ = "sent" THEN "taken" ELSE @]
    /\ Goto(r, IF stopping[r] THEN "term" ELSE "stopAtt")
    /\ UNCHANGED <<warned, attacher, launcher, term, guest, lock, device>>

(* A signal is received.  If the launcher's exit is there as well the loop   *)
(* ends as a stop; the first signal takes the device off the bus before the *)
(* launcher is signalled, the next ones only signal the launcher.           *)
WaitSignal(r) ==
    /\ pc[r] = "wait" /\ sigs[r] > 0
    /\ sigs' = [sigs EXCEPT ![r] = @ - 1]
    /\ stopping' = [stopping EXCEPT ![r] = TRUE]
    /\ IF waiter[r] = "sent"
       THEN waiter' = [waiter EXCEPT ![r] = "taken"] /\ Goto(r, "after")
       ELSE Goto(r, IF stopping[r] THEN "term" ELSE "stopAtt") /\ UNCHANGED waiter
    /\ UNCHANGED <<warned, attacher, launcher, term, guest, lock, device>>

WaitExit(r) ==
    /\ pc[r] = "wait" /\ waiter[r] = "sent"
    /\ waiter' = [waiter EXCEPT ![r] = "taken"]
    /\ Goto(r, "after")
    /\ UNCHANGED <<sigs, stopping, warned, attacher, launcher, term, guest, lock, device>>

(* attacher.stop: sets `stopped` under the mutex, then waits for `done`. *)
StopAttacher(r, here, next) ==
    /\ pc[r] = here
    /\ att[r] \notin HoldsMutex
    /\ stopped' = [stopped EXCEPT ![r] = TRUE]
    /\ Goto(r, next)
    /\ UNCHANGED <<sigs, stopping, warned, att, live, child, guest, lock, device>>

(* Mutant: stop does not wait for `done`. *)
AttacherNotAwaited(r, here, next) ==
    /\ pc[r] = here
    /\ Goto(r, next)
    /\ UNCHANGED <<sigs, stopping, warned, attacher, child, guest, lock, device>>

AttacherStopped(r, here, next) ==
    /\ pc[r] = here
    /\ att[r] = "done"
    /\ Goto(r, next)
    /\ UNCHANGED <<sigs, stopping, warned, attacher, child, guest, lock, device>>

(* Process.Signal does nothing once the launcher has been waited for. *)
SignalLauncher(r) ==
    /\ pc[r] = "term"
    /\ term' = [term EXCEPT ![r] = @ \/ ~Gone(r)]
    /\ Goto(r, "wait")
    /\ UNCHANGED <<sigs, stopping, warned, attacher, waiter, launcher, guest, lock, device>>

OrderedStop(r) ==
    \/ StopAttacher(r, "stopAtt", "stopWait")
    \/ AttacherStopped(r, "stopWait", "remove")
    \/ RemoveStart(r, "remove", "removing", "term", Gone(r))
    \/ RemoveEnd(r, "removing", "term")
    \/ SignalLauncher(r)

(* After the loop. *)

LateSignal(r) ==
    /\ pc[r] = "after"
    /\ Goto(r, "lower")
    /\ IF sigs[r] > 0
       THEN /\ sigs' = [sigs EXCEPT ![r] = @ - 1]
            /\ stopping' = [stopping EXCEPT ![r] = TRUE]
       ELSE UNCHANGED <<sigs, stopping>>
    /\ UNCHANGED <<warned, attacher, child, guest, lock, device>>

LowerTimeout(r) ==
    /\ pc[r] = "lower"
    /\ Goto(r, "stopAtt2")
    /\ low' = (low \/ dev \in {"created", "ready"})
    /\ UNCHANGED <<sigs, stopping, warned, attacher, child, guest, lock,
                   dev, bound, broken, fd>>

(* Mutants: a device is kept whether or not it was live; a wlan device that  *)
(* was live is kept.                                                        *)
DecideDead(r) ==
    /\ pc[r] = "decide"
    /\ Goto(r, IF stopping[r] \/ Wlan \/ dev # "bus" THEN "remove2" ELSE "unlock")
    /\ UNCHANGED <<sigs, stopping, warned, attacher, child, guest, lock, device>>

DecideWlan(r) ==
    /\ pc[r] = "decide"
    /\ Goto(r, IF stopping[r] \/ ~live[r] \/ dev # "bus" THEN "remove2" ELSE "unlock")
    /\ UNCHANGED <<sigs, stopping, warned, attacher, child, guest, lock, device>>

Decide(r) ==
    /\ pc[r] = "decide"
    /\ Goto(r, IF stopping[r] \/ Wlan \/ ~live[r] \/ dev # "bus"
               THEN "remove2" ELSE "unlock")
    /\ UNCHANGED <<sigs, stopping, warned, attacher, child, guest, lock, device>>

FinalCleanup(r) ==
    \/ StopAttacher(r, "stopAtt2", "stopWait2")
    \/ AttacherStopped(r, "stopWait2", "decide")
    \/ Decide(r)
    \/ RemoveStart(r, "remove2", "removing2", "destroy2", TRUE)
    \/ RemoveEnd(r, "removing2", "destroy2")
    \/ Destroy(r, "destroy2", "unlock")

(* The process exits, which closes the lock file. *)
Unlock(r) ==
    /\ pc[r] = "unlock"
    /\ Goto(r, "done")
    /\ lock' = NoRun
    /\ UNCHANGED <<sigs, stopping, warned, attacher, child, guest, device>>

(* Mutant: the channel's capacity is one more than the code relies on. *)
StopSignalUnbounded(r) ==
    /\ pc[r] \in Locked \cup {"locking"}
    /\ sigs[r] < 3
    /\ sigs' = [sigs EXCEPT ![r] = @ + 1]
    /\ UNCHANGED <<pc, stopping, warned, attacher, child, guest, lock, device>>

(* Notify drops a signal that the full channel cannot take. *)
StopSignal(r) ==
    /\ pc[r] \in Locked \cup {"locking"}
    /\ sigs[r] < 2
    /\ sigs' = [sigs EXCEPT ![r] = @ + 1]
    /\ UNCHANGED <<pc, stopping, warned, attacher, child, guest, lock, device>>

-----------------------------------------------------------------------------
(* The attacher goroutine. *)

AttacherAt(r, here, next) == att[r] = here /\ att' = [att EXCEPT ![r] = next]

(* Mutant: `stopped` is not read. *)
AttLockUnchecked(r) ==
    /\ AttacherAt(r, "loop", "held")
    /\ UNCHANGED <<main, stopped, live, child, guest, lock, device>>

(* An iteration starts: the mutex is taken and `stopped` read. *)
AttLock(r) ==
    /\ ~stopped[r]
    /\ AttacherAt(r, "loop", "held")
    /\ UNCHANGED <<main, stopped, live, child, guest, lock, device>>

(* It ends: `stopped` is set, or the 120 s have passed. *)
AttEnd(r) ==
    /\ AttacherAt(r, "loop", "done")
    /\ UNCHANGED <<main, stopped, live, child, guest, lock, device>>

(* There is no device yet, or VDUSE refuses it. *)
AttRetry(r) ==
    /\ dev # "bus"
    /\ AttacherAt(r, "held", "loop")
    /\ UNCHANGED <<main, stopped, live, child, guest, lock, device>>

(* `vdpa dev add` puts the device on the bus.  If virtio_vdpa takes it there, *)
(* the command waits for the probe's messages; another driver sends none.   *)
AttAdd(r) ==
    /\ dev = "ready"
    /\ dev' = "bus"
    /\ \/ bound' = TRUE /\ AttacherAt(r, "held", "adding")
       \/ bound' = FALSE /\ AttacherAt(r, "held", "loop")
    /\ UNCHANGED <<main, stopped, live, child, guest, lock, broken, low, fd>>

(* BindVirtio finds virtio_vdpa on the device, binds it, or fails. *)
AttBind(r) ==
    /\ dev = "bus"
    /\ \/ bound /\ AttacherAt(r, "held", "bound") /\ UNCHANGED bound
       \/ ~bound /\ bound' = TRUE /\ AttacherAt(r, "held", "binding")
       \/ ~bound /\ AttacherAt(r, "held", "done") /\ UNCHANGED bound
    /\ UNCHANGED <<main, stopped, live, child, guest, lock, dev, broken, low, fd>>

AttProbed(r) ==
    \/ AttacherAt(r, "adding", "loop")
    \/ AttacherAt(r, "binding", "bound")

AttProbeAnswered(r) ==
    /\ Answered
    /\ AttProbed(r)
    /\ UNCHANGED <<main, stopped, live, child, guest, lock, device>>

(* No guest answers the probe within the message timeout.  The timeout of   *)
(* 30 s is longer than what a launcher takes to exit after its guest, so    *)
(* unless it was lowered the waiter has seen that exit by then.             *)
AttProbeTimeout(r) ==
    /\ ~Answered
    /\ guest[r] = "dead" => Gone(r) \/ low
    /\ AttProbed(r)
    /\ broken' = TRUE
    /\ UNCHANGED <<main, stopped, live, child, guest, lock, dev, bound, low, fd>>

(* Mutant: `live` does not look at launcherGone. *)
AttLiveAlways(r) ==
    /\ AttacherAt(r, "bound", "done")
    /\ live' = [live EXCEPT ![r] = TRUE]
    /\ UNCHANGED <<main, stopped, child, guest, lock, device>>

AttLive(r) ==
    /\ AttacherAt(r, "bound", "done")
    /\ live' = [live EXCEPT ![r] = ~Gone(r)]
    /\ UNCHANGED <<main, stopped, child, guest, lock, device>>

-----------------------------------------------------------------------------
(* The waiter goroutine: cmd.Wait, launcherGone.Store, then `exited`. *)

WaiterGone(r) ==
    /\ launcher[r] = "exited" /\ waiter[r] = "waiting"
    /\ waiter' = [waiter EXCEPT ![r] = "gone"]
    /\ UNCHANGED <<main, attacher, launcher, term, guest, lock, device>>

WaiterSend(r) ==
    /\ waiter[r] = "gone"
    /\ waiter' = [waiter EXCEPT ![r] = "sent"]
    /\ UNCHANGED <<main, attacher, launcher, term, guest, lock, device>>

-----------------------------------------------------------------------------
(* The launcher (invirtio-launch.c) and the guest, as the supervisor sees    *)
(* them: the guest has its launcher create and open the device, sets up its *)
(* queues, and may die at any time.                                         *)

SetGuest(r, s) == guest' = [guest EXCEPT ![r] = s]

GuestCreate(r) ==
    /\ guest[r] = "booting" /\ dev = "absent"
    /\ dev' = "created"
    /\ UNCHANGED <<main, attacher, child, guest, lock, bound, broken, low, fd>>

(* A device that an earlier guest left is reconnected to, but not a wlan     *)
(* device.                                                                  *)
GuestOpen(r) ==
    /\ guest[r] = "booting" /\ fd = NoRun
    /\ dev # "absent" /\ (Wlan => dev = "created")
    /\ fd' = r /\ SetGuest(r, "open")
    /\ UNCHANGED <<main, attacher, child, lock, dev, bound, broken, low>>

GuestReady(r) ==
    /\ guest[r] = "open"
    /\ SetGuest(r, "serving")
    /\ dev' = IF dev = "created" THEN "ready" ELSE dev
    /\ UNCHANGED <<main, attacher, child, lock, bound, broken, low, fd>>

GuestDie(r) ==
    /\ Alive(r)
    /\ SetGuest(r, "dead")
    /\ UNCHANGED <<main, attacher, child, lock, device>>

(* A guest that is stopped destroys its device when it is off the bus. *)
GuestHalt(r) ==
    /\ term[r] /\ Alive(r)
    /\ SetGuest(r, "dead")
    /\ IF fd = r /\ dev \in {"created", "ready"}
       THEN fd' = NoRun /\ Vanish
       ELSE UNCHANGED device
    /\ UNCHANGED <<main, attacher, child, lock>>

(* The kernel closes a dead guest's fd, at once or after it has freed a      *)
(* cycle of Unix sockets that holds it.                                     *)
FdFree(r) ==
    /\ fd = r /\ guest[r] = "dead"
    /\ fd' = NoRun
    /\ UNCHANGED <<main, attacher, child, guest, lock, dev, bound, broken, low>>

(* The launcher reaps its guest, then destroys the device unless it is on    *)
(* the bus or still open a second later, and exits.                         *)
LauncherReap(r) ==
    /\ launcher[r] = "running" /\ guest[r] = "dead"
    /\ launcher' = [launcher EXCEPT ![r] = "ending"]
    /\ UNCHANGED <<main, attacher, waiter, term, guest, lock, device>>

LauncherEnd(r) ==
    /\ launcher[r] = "ending"
    /\ launcher' = [launcher EXCEPT ![r] = "exited"]
    /\ IF dev \in {"created", "ready"} /\ fd = NoRun
       THEN Vanish
       ELSE UNCHANGED <<dev, bound, broken, low>>
    /\ UNCHANGED <<main, attacher, waiter, term, guest, lock, fd>>

(* die(): the launcher fails before the guest has done anything. *)
LauncherFail(r) ==
    /\ launcher[r] = "running" /\ guest[r] = "booting"
    /\ launcher' = [launcher EXCEPT ![r] = "exited"]
    /\ SetGuest(r, "dead")
    /\ UNCHANGED <<main, attacher, waiter, term, lock, device>>

-----------------------------------------------------------------------------
(* The supervisor is killed.  Its goroutines end and its lock is released;   *)
(* a `vdpa dev del` in progress may still finish, and the messages of an    *)
(* add in progress may still time out.                                      *)
Crash(r) ==
    /\ MayCrash /\ pc[r] \in Locked
    /\ Goto(r, "crashed")
    /\ att' = [att EXCEPT ![r] = "done"]
    /\ lock' = NoRun
    /\ \/ UNCHANGED <<dev, bound, broken>>
       \/ /\ pc[r] \in {"removing1", "removing", "removing2"}
          /\ dev' = "ready" /\ bound' = FALSE /\ broken' = FALSE
       \/ /\ att[r] \in {"adding", "binding"} /\ ~Answered
          /\ broken' = TRUE /\ UNCHANGED <<dev, bound>>
    /\ UNCHANGED <<sigs, stopping, warned, stopped, live, child, guest, low, fd>>

(* Pdeathsig: a launcher whose supervisor has died is killed, and its guest  *)
(* with it.  The next supervisor starts only then: under systemd because    *)
(* KillMode=mixed kills the rest of the control group first.                *)
PdeathKill(r) ==
    /\ pc[r] = "crashed"
    /\ launcher[r] \in {"running", "ending"}
    /\ launcher' = [launcher EXCEPT ![r] = "exited"]
    /\ SetGuest(r, "dead")
    /\ UNCHANGED <<main, attacher, waiter, term, lock, device>>

-----------------------------------------------------------------------------

MainStep(r) ==
    \/ Begin(r) \/ LockDevice(r) \/ Prepare(r) \/ LeftoverCleanup(r)
    \/ AbortLaunch(r) \/ Launch(r)
    \/ WaitSignal(r) \/ WaitExit(r) \/ OrderedStop(r)
    \/ LateSignal(r) \/ LowerTimeout(r) \/ FinalCleanup(r) \/ Unlock(r)

AttacherStep(r) ==
    \/ AttLock(r) \/ AttEnd(r) \/ AttRetry(r) \/ AttAdd(r) \/ AttBind(r)
    \/ AttProbeAnswered(r) \/ AttProbeTimeout(r) \/ AttLive(r)

WaiterStep(r) == WaiterGone(r) \/ WaiterSend(r)

ChildStep(r) ==
    \/ GuestCreate(r) \/ GuestOpen(r) \/ GuestReady(r) \/ GuestDie(r)
    \/ GuestHalt(r) \/ FdFree(r)
    \/ LauncherReap(r) \/ LauncherEnd(r) \/ LauncherFail(r)

Next ==
    \E r \in Runs :
        MainStep(r) \/ AttacherStep(r) \/ WaiterStep(r) \/ ChildStep(r)
        \/ StopSignal(r) \/ Crash(r) \/ PdeathKill(r)

Spec == Init /\ [][Next]_vars

(* The fairness of the code's scheduling.  The goroutines run; stop takes a  *)
(* mutex that the attacher gives up between iterations, and Go's mutex does *)
(* not starve a waiter; a launcher that was told to stop kills its guest    *)
(* after 30 s, reaps it and exits; the kernel frees a dead guest's fd.      *)
Fairness ==
    \A r \in Runs :
        /\ WF_vars(MainStep(r) /\ pc[r] # "idle")
        /\ SF_vars(StopAttacher(r, "stopAtt", "stopWait"))
        /\ SF_vars(StopAttacher(r, "stopAtt2", "stopWait2"))
        /\ WF_vars(AttacherStep(r))
        /\ WF_vars(WaiterStep(r))
        /\ WF_vars(GuestHalt(r))
        /\ WF_vars(LauncherReap(r) \/ LauncherEnd(r))
        /\ WF_vars(FdFree(r))

FairSpec == Spec /\ Fairness

-----------------------------------------------------------------------------
(* Properties. *)

(* The main goroutine has sent its supervised guest through the whole run:   *)
(* the launcher was started and waited for, and the lock is still held.     *)
RunEnded(r) == pc[r] = "unlock" /\ waiter[r] = "taken"

(* lockDevice "keeps a second supervisor from running the same device": at   *)
(* most one supervisor is between its lock and its exit, and a device on    *)
(* the bus is only ever being added or bound by that one.                   *)
OneSupervisor ==
    \A r \in Runs :
        /\ pc[r] \in Locked <=> lock = r
        /\ att[r] \in HoldsMutex => lock = r

(* Where attacher.stop has returned, in the stop sequence or after the       *)
(* guest: the attacher is over, so nothing can put the device back while it *)
(* is removed, destroyed or left ("no attach starts after it").             *)
AfterStop == {"remove", "removing", "term", "decide", "remove2", "removing2",
              "destroy2"}
NoAttachAfterStop ==
    \A r \in Runs : pc[r] \in AfterStop => stopped[r] /\ att[r] = "done"

(* "The host resets the device as it removes it, which the guest answers     *)
(* while it still runs": a launcher that was sent SIGTERM has its device    *)
(* off the bus, and it stays off, unless the removal itself failed.         *)
RemovedBeforeSignal ==
    \A r \in Runs :
        pc[r] \in Locked /\ term[r] /\ ~warned[r] => dev # "bus"

(* A second supervisor "would remove the running guest's device": the device *)
(* of a guest that serves it leaves the bus only in that guest's own stop.  *)
OnlyOwnStopRemoves ==
    [][dev = "bus" /\ dev' # "bus" /\ Answered => stopping[fd]]_vars

(* A supervisor that saw a stop, and every supervisor of a wlan device,      *)
(* leaves no device behind, unless it warned of a failure.                  *)
StopLeavesNothing ==
    \A r \in Runs :
        RunEnded(r) /\ (stopping[r] \/ Wlan) /\ ~warned[r] => dev = "absent"

(* "A net device stays on the bus only if a live guest had it there": what a *)
(* run leaves, it leaves on the bus, for a net device whose attacher saw it *)
(* bound while the launcher ran.                                            *)
KeptOnlyIfLive ==
    \A r \in Runs :
        RunEnded(r) /\ dev # "absent" /\ ~warned[r]
            => dev = "bus" /\ bound /\ live[r] /\ ~stopping[r] /\ ~Wlan

(* The device that a run takes for live was answered for: its probe did not  *)
(* time out, unless a failed cleanup left it with a lowered timeout, or a   *)
(* supervisor was killed while it added it.                                 *)
LiveIsAnswered ==
    \A r \in Runs :
        pc[r] \in Locked /\ live[r] /\ dev = "bus" /\ broken
            => low \/ \E q \in Runs : pc[q] = "crashed"

(* The comment of `live`: an add for a guest that has died never sets live.  *)
(* Violated: the attacher adds a device that an earlier run failed to       *)
(* destroy at once, before its own guest has opened it.                     *)
DeadAddNeverLive ==
    \A r \in Runs :
        pc[r] \in Locked /\ live[r] /\ dev = "bus" => ~broken

(* Where a run is in its tenancy of the device: from the lock to the         *)
(* launcher's start, until attacher.stop, and until its exit.               *)
Stage(r) ==
    CASE pc[r] \in Before -> "new"
      [] pc[r] \in Setup \/ (pc[r] = "unlock" /\ waiter[r] # "taken") -> "setup"
      [] pc[r] \in Serving \cup Ending /\ ~stopped[r] -> "serving"
      [] pc[r] = "done" -> "gone"
      [] pc[r] = "crashed" -> "killed"
      [] OTHER -> "closing"

Place == IF dev \in {"created", "ready"} THEN "off" ELSE IF dev = "bus" THEN "bus" ELSE "none"

T == INSTANCE DeviceTenancy WITH
         tenant <- lock,
         stage  <- [r \in Runs |-> Stage(r)],
         place  <- Place,
         told   <- {r \in Runs : stopping[r]},
         seen   <- {r \in Runs : live[r]},
         failed <- {r \in Runs : warned[r]}

(* Whatever the goroutines, the launchers and the guests of all supervisors  *)
(* do, and whichever is killed, the device changes hands as DeviceTenancy    *)
(* says: nobody but the tenant and its guest moves it, none attaches it      *)
(* after attacher.stop, and the tenant removes it only when it closes.       *)
Tenancy == T!Spec

(* A stop that a waiting supervisor has been asked for ends it: neither the  *)
(* attacher's mutex, nor an add for a guest that died, nor a device that    *)
(* does not answer its reset keeps it for ever.  The same holds once the    *)
(* launcher has exited.                                                     *)
StopEnds ==
    \A r \in Runs :
        (pc[r] = "wait" /\ (sigs[r] > 0 \/ waiter[r] = "sent"))
            ~> (pc[r] \in Over)
=============================================================================
