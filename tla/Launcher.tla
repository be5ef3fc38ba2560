------------------------------ MODULE Launcher ------------------------------
(***************************************************************************)
(* invirtio-launch (launcher/invirtio-launch.c): main()'s loop over the     *)
(* runs of a guest, the wait for a guest with its stop signals and stop     *)
(* timeout, the broker that answers the guest's VDUSE requests, and what    *)
(* the launcher does with the exported devices and their in-flight logs     *)
(* between two guests.  Launchers follow one another: the next one starts   *)
(* on the devices and logs that the last one left.                          *)
(***************************************************************************)
EXTENDS Naturals, FiniteSets

CONSTANTS
    Exports,        \* the devices that the guest exports (-e)
    StopSignals,    \* the stop signals that the launcher handles
    MaxRequests,    \* BROKER_MAX_REQUESTS, per export and run of the guest
    MaxLog,         \* the largest size of a log, in units that matter
    Restart,        \* -r
    HostDestroys,   \* does `invirtio` destroy devices after the launcher?
    MayBeKilled     \* may the launcher be killed (SIGKILL)?

ASSUME ExportsAssumption == IsFiniteSet(Exports)
ASSUME BoundsAssumption == MaxRequests \in Nat /\ MaxLog \in Nat
ASSUME OptionsAssumption ==
    Restart \in BOOLEAN /\ HostDestroys \in BOOLEAN /\ MayBeKilled \in BOOLEAN

VARIABLES
    pc,         \* where main() is
    pending,    \* stop signals that are pending, since they are blocked
    stopping,   \* the static `stopping`
    deadline,   \* is supervise's deadline set?
    init,       \* the guest's first process
    others,     \* has the guest other processes that still run?
    broker,     \* does the launcher still read the guest's requests?
    requests,   \* broker_requests
    dev,        \* the VDUSE devices
    held,       \* is the device's fd open in the guest or in what it left?
    log,        \* the sizes of the in-flight logs
    logSize,    \* exports[i].log_size
    logHeld,    \* is the log's flock held by the guest or what it left?
    todo        \* the exports that destroy_exports has yet to do

control == <<pc, pending, stopping, deadline>>
guest   == <<init, others>>
requestVars == <<broker, requests>>
devices == <<dev, held>>
logs    == <<log, logSize, logHeld>>
vars    == <<control, guest, requestVars, devices, logs, todo>>

Between == {"orphans", "destroy", "next", "pause"}
Locations == {"open", "supervise", "exited"} \cup Between

TypeOK ==
    /\ pc \in Locations
    /\ pending \in SUBSET StopSignals
    /\ stopping \in BOOLEAN /\ deadline \in BOOLEAN
    /\ init \in {"none", "running", "asked", "killed", "ok", "failed"}
    /\ others \in BOOLEAN
    /\ broker \in BOOLEAN
    /\ requests \in 0..(Cardinality(Exports) * MaxRequests + 1)
    /\ dev \in [Exports -> {"absent", "ready", "bus"}]
    /\ held \in [Exports -> BOOLEAN]
    /\ log \in [Exports -> 0..MaxLog]
    /\ logSize \in [Exports -> 0..MaxLog]
    /\ logHeld \in [Exports -> BOOLEAN]
    /\ todo \in SUBSET Exports

GuestRuns == init \in {"running", "asked", "killed"}

Init ==
    /\ pc = "open"
    /\ pending = {}
    /\ stopping = FALSE /\ deadline = FALSE
    /\ init = "none" /\ others = FALSE
    /\ broker = FALSE /\ requests = 0
    /\ dev = [e \in Exports |-> "absent"]
    /\ held = [e \in Exports |-> FALSE]
    /\ log = [e \in Exports |-> 0]
    /\ logSize = [e \in Exports |-> 0]
    /\ logHeld = [e \in Exports |-> FALSE]
    /\ todo = {}

-----------------------------------------------------------------------------
(* run_guest: the launcher's side. *)

(* Mutant: open_log does not lock the log. *)
StartGuestUnlocked ==
    /\ pc = "open"
    /\ pc' = "supervise"
    /\ init' = "running"
    /\ broker' = TRUE /\ requests' = 0
    /\ deadline' = FALSE
    /\ logSize' = log
    /\ logHeld' = [e \in Exports |-> TRUE]
    /\ UNCHANGED <<pending, stopping, others, devices, log, todo>>

(* open_guest_fds and the clone.  open_log takes each log's lock, which a    *)
(* guest before this one may keep for a moment.                             *)
StartGuest ==
    /\ pc = "open"
    /\ \A e \in Exports : ~logHeld[e]
    /\ pc' = "supervise"
    /\ init' = "running"
    /\ broker' = TRUE /\ requests' = 0
    /\ deadline' = FALSE
    /\ logSize' = log
    /\ logHeld' = [e \in Exports |-> TRUE]
    /\ UNCHANGED <<pending, stopping, others, devices, log, todo>>

(* die(): the lock was not free within a second, or a file, a pipe or the    *)
(* namespaces could not be made.                                            *)
DieAtOpen ==
    /\ pc = "open"
    /\ pc' = "exited"
    /\ UNCHANGED <<pending, stopping, deadline, guest, requestVars, devices, logs, todo>>

(* waitpid reports the guest's exit. *)
GuestExited ==
    /\ pc = "supervise" /\ init \in {"ok", "failed"}
    /\ pc' = "orphans"
    /\ broker' = FALSE
    /\ UNCHANGED <<pending, stopping, deadline, guest, requests, devices, logs, todo>>

(* Mutant: any stop signal may kill the guest. *)
TakeSignalKills ==
    /\ pc = "supervise"
    /\ \E s \in pending : pending' = pending \ {s}
    /\ stopping' = TRUE
    /\ deadline' = ~stopping
    /\ init' = IF GuestRuns THEN "killed" ELSE init
    /\ UNCHANGED <<pc, others, requestVars, devices, logs, todo>>

(* The first stop signal asks the guest to stop and sets the deadline, and   *)
(* the next one kills the guest.                                            *)
TakeSignal ==
    /\ pc = "supervise"
    /\ \E s \in pending : pending' = pending \ {s}
    /\ IF stopping
       THEN /\ init' = IF GuestRuns THEN "killed" ELSE init
            /\ UNCHANGED <<stopping, deadline>>
       ELSE /\ init' = IF init = "running" THEN "asked" ELSE init
            /\ stopping' = TRUE /\ deadline' = TRUE
    /\ UNCHANGED <<pc, others, requestVars, devices, logs, todo>>

DeadlinePassed ==
    /\ pc = "supervise" /\ deadline
    /\ deadline' = FALSE
    /\ init' = IF GuestRuns THEN "killed" ELSE init
    /\ UNCHANGED <<pc, pending, stopping, others, requestVars, devices, logs, todo>>

KillOrphans ==
    /\ pc = "orphans"
    /\ pc' = "destroy"
    /\ others' = FALSE
    /\ todo' = Exports
    /\ UNCHANGED <<pending, stopping, deadline, init, requestVars, devices, logs>>

(* Mutant: the log of a device that is gone is only cut back. *)
DestroyExportKeepsLog(e) ==
    /\ pc = "destroy" /\ e \in todo
    /\ todo' = todo \ {e}
    /\ LET busy == dev[e] = "bus" \/ (dev[e] = "ready" /\ held[e])
       IN  dev' = [dev EXCEPT ![e] = IF busy THEN @ ELSE "absent"]
    /\ log' = [log EXCEPT ![e] = logSize[e]]
    /\ UNCHANGED <<control, guest, requestVars, held, logSize, logHeld>>

(* One export in destroy_exports: a device off the bus whose fd is free is   *)
(* destroyed, one that is on the bus or still open after a second stays.    *)
(* The log is emptied if the device is gone, else cut back.                 *)
DestroyExport(e) ==
    /\ pc = "destroy" /\ e \in todo
    /\ todo' = todo \ {e}
    /\ LET busy == dev[e] = "bus" \/ (dev[e] = "ready" /\ held[e])
       IN  /\ dev' = [dev EXCEPT ![e] = IF busy THEN @ ELSE "absent"]
           /\ log' = [log EXCEPT ![e] = IF busy THEN logSize[e] ELSE 0]
    /\ UNCHANGED <<control, guest, requestVars, held, logSize, logHeld>>

DestroyDone ==
    /\ pc = "destroy" /\ todo = {}
    /\ pc' = "next"
    /\ UNCHANGED <<pending, stopping, deadline, guest, requestVars, devices, logs, todo>>

(* main()'s loop. *)
NextRun ==
    /\ pc = "next"
    /\ pc' = IF stopping \/ ~Restart \/ init = "ok" THEN "exited" ELSE "pause"
    /\ UNCHANGED <<pending, stopping, deadline, guest, requestVars, devices, logs, todo>>

(* Mutant: a plain sleep, which a blocked signal does not end, and that      *)
(* takes the signal as if it had come before the next guest.                *)
PauseTakesSignal ==
    /\ pc = "pause"
    /\ pc' = "open" /\ init' = "none"
    /\ pending' = {}
    /\ UNCHANGED <<stopping, deadline, others, requestVars, devices, logs, todo>>

(* sigtimedwait: a pending stop signal ends the launcher, else it restarts   *)
(* the guest after the pause.                                               *)
Pause ==
    /\ pc = "pause"
    /\ \/ /\ \E s \in pending : pending' = pending \ {s}
          /\ pc' = "exited" /\ UNCHANGED init
       \/ /\ pending = {} /\ UNCHANGED pending
          /\ pc' = "open" /\ init' = "none"
    /\ UNCHANGED <<stopping, deadline, others, requestVars, devices, logs, todo>>

-----------------------------------------------------------------------------
(* The broker: serve_broker and handle_request. *)

CreateDevice(e) == dev[e] = "absent" /\ dev' = [dev EXCEPT ![e] = "ready"]
                   /\ UNCHANGED <<held, log, logSize>>

DestroyDevice(e) == dev[e] = "ready" /\ ~held[e]
                    /\ dev' = [dev EXCEPT ![e] = "absent"]
                    /\ UNCHANGED <<held, log, logSize>>

(* The guest gets the fd, unless it has gone. *)
OpenDevice(e) == dev[e] # "absent" /\ ~held[e] /\ GuestRuns
                 /\ held' = [held EXCEPT ![e] = TRUE]
                 /\ UNCHANGED <<dev, log, logSize>>

ResizeLog(e) == \E n \in 0..MaxLog :
                    /\ log' = [log EXCEPT ![e] = n]
                    /\ logSize' = [logSize EXCEPT ![e] = n]
                    /\ UNCHANGED devices

(* Mutant: the requests are not counted against their bound. *)
ServeBrokerUnbounded ==
    /\ pc = "supervise" /\ broker
    /\ requests <= Cardinality(Exports) * MaxRequests + 1
    /\ requests' = requests + 1
    /\ \/ \E e \in Exports : CreateDevice(e) \/ DestroyDevice(e)
                             \/ OpenDevice(e) \/ ResizeLog(e)
       \/ UNCHANGED <<devices, log, logSize>>
    /\ UNCHANGED <<broker, control, guest, logHeld, todo>>

(* One request of the guest: too many end the broker, and one that is not    *)
(* allowed, or that VDUSE refuses, changes nothing.                         *)
ServeBroker ==
    /\ pc = "supervise" /\ broker
    /\ requests' = requests + 1
    /\ IF requests' > Cardinality(Exports) * MaxRequests
       THEN broker' = FALSE /\ UNCHANGED <<devices, log, logSize>>
       ELSE /\ UNCHANGED broker
            /\ \/ \E e \in Exports : CreateDevice(e) \/ DestroyDevice(e)
                                     \/ OpenDevice(e) \/ ResizeLog(e)
               \/ UNCHANGED <<devices, log, logSize>>
    /\ UNCHANGED <<control, guest, logHeld, todo>>

HangUp ==
    /\ pc = "supervise" /\ broker
    /\ broker' = FALSE
    /\ UNCHANGED <<control, guest, requests, devices, logs, todo>>

-----------------------------------------------------------------------------
(* The guest (guest_init and UML), and what it leaves behind. *)

GuestExit ==
    /\ \/ init \in {"running", "asked"} /\ init' \in {"ok", "failed"}
       \/ init = "killed" /\ init' = "failed"
    /\ UNCHANGED <<control, others, requestVars, devices, logs, todo>>

GuestForks ==
    /\ GuestRuns /\ ~others
    /\ others' = TRUE
    /\ UNCHANGED <<control, init, requestVars, devices, logs, todo>>

(* The guest holds the log's fd, so any of its processes changes the file. *)
GuestWritesLog(e) ==
    /\ GuestRuns \/ others
    /\ \E n \in 0..MaxLog : log' = [log EXCEPT ![e] = n]
    /\ UNCHANGED <<control, guest, requestVars, devices, logSize, logHeld, todo>>

GuestCloses(e) ==
    /\ GuestRuns /\ held[e]
    /\ held' = [held EXCEPT ![e] = FALSE]
    /\ UNCHANGED <<control, guest, requestVars, dev, logs, todo>>

(* The kernel closes the fds of a guest that is gone, at once or after it    *)
(* has freed a cycle of Unix sockets that holds them.                       *)
FreeFds ==
    /\ ~GuestRuns /\ ~others
    /\ \E e \in Exports : held[e] \/ logHeld[e]
    /\ held' = [e \in Exports |-> FALSE]
    /\ logHeld' = [e \in Exports |-> FALSE]
    /\ UNCHANGED <<control, guest, requestVars, dev, log, logSize, todo>>

-----------------------------------------------------------------------------
(* The host. *)

Signal ==
    /\ pc # "exited"
    /\ \E s \in StopSignals \ pending : pending' = pending \cup {s}
    /\ UNCHANGED <<pc, stopping, deadline, guest, requestVars, devices, logs, todo>>

(* vdpa dev add and vdpa dev del. *)
HostAddsOrRemoves(e) ==
    /\ \/ dev[e] = "ready" /\ dev' = [dev EXCEPT ![e] = "bus"]
       \/ dev[e] = "bus" /\ dev' = [dev EXCEPT ![e] = "ready"]
    /\ UNCHANGED <<control, guest, requestVars, held, logs, todo>>

(* The cleanup of `invirtio run`, once its launcher has exited (run.go). *)
HostDestroy(e) ==
    /\ HostDestroys /\ pc = "exited"
    /\ dev[e] = "ready" /\ ~held[e]
    /\ dev' = [dev EXCEPT ![e] = "absent"]
    /\ UNCHANGED <<control, guest, requestVars, held, logs, todo>>

(* A launcher that is killed takes its guest with it (PR_SET_PDEATHSIG in    *)
(* guest_init) and neither destroys a device nor cuts a log.                *)
LauncherKilled ==
    /\ MayBeKilled /\ pc # "exited"
    /\ pc' = "exited"
    /\ init' = IF GuestRuns THEN "failed" ELSE init
    /\ others' = FALSE
    /\ broker' = FALSE /\ todo' = {}
    /\ UNCHANGED <<pending, stopping, deadline, requests, devices, logs>>

(* The next launcher. *)
Launch ==
    /\ pc = "exited"
    /\ pc' = "open"
    /\ pending' = {} /\ stopping' = FALSE /\ deadline' = FALSE
    /\ init' = "none"
    /\ UNCHANGED <<others, requestVars, devices, logs, todo>>

-----------------------------------------------------------------------------

LauncherStep ==
    \/ StartGuest \/ DieAtOpen \/ GuestExited \/ KillOrphans
    \/ (\E e \in Exports : DestroyExport(e)) \/ DestroyDone \/ NextRun \/ Pause

Next ==
    \/ LauncherStep \/ TakeSignal \/ DeadlinePassed \/ ServeBroker \/ HangUp
    \/ GuestExit \/ GuestForks \/ FreeFds
    \/ \E e \in Exports : GuestWritesLog(e) \/ GuestCloses(e)
    \/ Signal \/ \E e \in Exports : HostAddsOrRemoves(e) \/ HostDestroy(e)
    \/ LauncherKilled \/ Launch

Spec == Init /\ [][Next]_vars

(* The launcher runs; a killed guest dies.  A guest that was only asked to   *)
(* stop may never do it.                                                    *)
Fairness ==
    /\ WF_vars(LauncherStep)
    /\ WF_vars(TakeSignal)
    /\ WF_vars(DeadlinePassed)
    /\ WF_vars(init = "killed" /\ GuestExit)
    /\ WF_vars(FreeFds)

FairSpec == Spec /\ Fairness

-----------------------------------------------------------------------------
(* Properties. *)

(* A stop signal that the launcher has received ends it, whenever it came:   *)
(* during the guest's start, its run, the clean-up after it, or the pause   *)
(* before the next one, and whatever the guest does.                        *)
StopEndsLauncher == (pending # {}) ~> (pc = "exited")

(* The guest is killed only once it has been asked to stop. *)
AskedBeforeKilled ==
    [][init' = "killed" /\ init # "killed" => init = "asked"]_vars

(* A guest is started by a launcher that has taken no stop signal, when no   *)
(* process of an earlier guest runs and nothing of it holds a log.          *)
NewGuestAlone ==
    [][init' = "running" /\ init # "running" =>
           ~stopping /\ ~others /\ \A e \in Exports : ~logHeld[e]]_vars

(* "The log of a device that is gone describes nothing, and is emptied", and *)
(* a log that stays is no longer than the guest set it: so when the launcher *)
(* is done with a guest.                                                    *)
LogsSettled ==
    pc \in {"next", "pause"} =>
        \A e \in Exports :
            log[e] <= logSize[e] /\ (dev[e] = "absent" => log[e] = 0)

(* The same as the next guest finds it: a log with contents has a device.    *)
(* Violated when `invirtio run` destroys the device after its launcher.     *)
GoneDeviceEmptyLog ==
    pc = "open" => \A e \in Exports : dev[e] = "absent" => log[e] = 0
=============================================================================
