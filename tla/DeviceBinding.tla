---------------------------- MODULE DeviceBinding ----------------------------
(***************************************************************************)
(* A device between its host driver and vfio: the launcher's -b, package    *)
(* pci, and the commands bind, unbind, platform-bind and platform-unbind of *)
(* invirtio-test, any of which may run beside another, be killed or fail.   *)
(* The steps of BindVFIO and BindNative are writes to sysfs, between which  *)
(* the host may probe for a driver on its own.                              *)
(***************************************************************************)
EXTENDS Naturals

CONSTANTS
    Callers,  \* the commands that the user runs on the device
    Does      \* what each does: "launcher" (with -b), "bind" or "unbind"

Binders == {c \in Callers : Does[c] \in {"launcher", "bind"}}
Binds == {c \in Callers : Does[c] = "bind"}
Unbinds == {c \in Callers : Does[c] = "unbind"}

VARIABLES
    kind,     \* "pci" or "platform", for which there is no launcher
    resets,   \* does the platform device have a reset function?
    driver,   \* "none", "host" or "vfio"
    override, \* does driver_override name vfio?
    module,   \* vfio-platform: "none", or its reset_required
    held,     \* has a guest the group open?
    at,       \* where each caller is
    cur,      \* the driver that it read
    want,     \* the reset_required that each platform-bind wants
    mixed     \* whether another caller ran at the same time

device == <<kind, resets>>
bindingVars == <<device, driver, override, module, held, at, cur, want, mixed>>

Idle(c) == at[c] \in {"idle", "done"}

BindingInit ==
    /\ kind \in {"pci", "platform"} /\ resets \in BOOLEAN
    /\ driver \in {"none", "host"} /\ override = FALSE /\ held = FALSE
    /\ module = (IF kind = "pci" THEN "Y" ELSE "none")
    /\ at = [c \in Callers |-> "idle"] /\ cur = [c \in Callers |-> "none"]
    /\ want = [c \in Callers |-> "Y"] /\ mixed = [c \in Callers |-> FALSE]

(* The bus probes a device without a driver; vfio-platform refuses one that  *)
(* it must reset and cannot.                                                *)
VFIOTakes == module # "none" /\ (kind = "platform" => resets \/ module = "N")
Matching ==
    IF driver # "none" THEN driver
    ELSE IF ~override THEN "host" ELSE IF VFIOTakes THEN "vfio" ELSE "none"

Begin(c, place) ==
    /\ Idle(c) /\ (kind = "platform" => Does[c] # "launcher")
    /\ at' = [at EXCEPT ![c] = place] /\ cur' = [cur EXCEPT ![c] = driver]
    /\ mixed' = [d \in Callers |-> IF d = c THEN \E o \in Callers \ {c} : ~Idle(o)
                                            ELSE mixed[d] \/ ~Idle(d)]
Moves(c, place) == at' = [at EXCEPT ![c] = place] /\ UNCHANGED mixed
Reports(c) == Moves(c, "done") /\ UNCHANGED <<device, driver, override, module, held, cur, want>>

(* BindVFIO and BindNative read the driver once more after the override, the *)
(* launcher and the platform commands go by what they read first.           *)
Overridden(c) == IF Does[c] # "launcher" /\ kind = "pci" THEN "reread" ELSE "unbind"

-----------------------------------------------------------------------------
(* bind_to_vfio, BindVFIO and platform-bind. *)
BeginBind(c) ==
    /\ c \in Binders
    /\ Begin(c, IF driver = "vfio" THEN "bound" ELSE IF c \in Binds THEN "load" ELSE "override")
    /\ \E w \in (IF c \in Binds /\ kind = "platform" THEN {"Y", "N"} ELSE {"Y"}) :
           want' = [want EXCEPT ![c] = w]
    /\ UNCHANGED <<device, driver, override, module, held>>

(* What the host has mounted, swaps on or reaches over USB stays its own.    *)
BindRefused(c) ==
    /\ c \in Binds /\ driver = "host" /\ Begin(c, "done")
    /\ UNCHANGED <<device, driver, override, module, held, want>>

(* reset_required is read-only once the module is loaded, and a module that  *)
(* has the other setting is unloaded first, which devices on it prevent.    *)
LoadModule(c) ==
    /\ c \in Binds /\ at[c] = "load"
    /\ \/ Reports(c)
       \/ /\ kind = "platform" /\ module \notin {"none", want[c]} /\ driver # "vfio"
          /\ module' = "none" /\ UNCHANGED <<at, mixed>>
          /\ UNCHANGED <<device, driver, override, held, cur, want>>
       \/ /\ (kind = "platform" => module \in {"none", want[c]})
          /\ module' = (IF kind = "pci" THEN module ELSE want[c]) /\ Moves(c, "override")
          /\ UNCHANGED <<device, driver, override, held, cur, want>>

(* Mutant: the override is cleared instead of set. *)
OverrideCleared(c) ==
    /\ c \in Binders /\ at[c] = "override" /\ override' = FALSE /\ Moves(c, Overridden(c))
    /\ UNCHANGED <<device, driver, module, held, cur, want>>

Override(c) ==
    /\ c \in Binders /\ at[c] = "override" /\ override' = TRUE /\ Moves(c, Overridden(c))
    /\ UNCHANGED <<device, driver, module, held, cur, want>>

Reread(c) ==
    /\ at[c] = "reread" /\ cur' = [cur EXCEPT ![c] = driver] /\ Moves(c, "unbind")
    /\ UNCHANGED <<device, driver, override, module, held, want>>

(* A device that has lost its driver cannot be unbound, and one that a guest *)
(* holds leaves vfio once the guest lets it go.                             *)
Unbind(c) ==
    /\ at[c] = "unbind"
    /\ \/ cur[c] = "none" /\ Moves(c, "probe") /\ UNCHANGED <<driver, override>>
       \/ cur[c] # "none" /\ driver = "none" /\ Moves(c, "done") /\ UNCHANGED <<driver, override>>
       \/ /\ cur[c] # "none" /\ driver # "none" /\ ~held
          /\ driver' = "none" /\ Moves(c, "probe") /\ UNCHANGED override
    /\ UNCHANGED <<device, module, held, cur, want>>

Probe(c) ==
    /\ at[c] = "probe" /\ driver' = Matching /\ Moves(c, "check")
    /\ UNCHANGED <<device, override, module, held, cur, want>>

(* The report: the binding worked, or failed with whatever driver there is.  *)
Check(c) ==
    /\ c \in Binders /\ at[c] = "check"
    /\ IF driver = "vfio" THEN Moves(c, "bound") ELSE Moves(c, "done")
    /\ UNCHANGED <<device, driver, override, module, held, cur, want>>

(* A guest gets the group, which stays open until the guest has exited.      *)
OpenGroup(c) ==
    /\ c \in Binders /\ at[c] = "bound" /\ driver = "vfio" /\ held' = TRUE /\ Moves(c, "done")
    /\ UNCHANGED <<device, driver, override, module, cur, want>>

Bound(c) == c \in Binders /\ at[c] = "bound" /\ Reports(c)

GuestExits ==
    /\ held /\ held' = FALSE
    /\ UNCHANGED <<device, driver, override, module, at, cur, want, mixed>>

-----------------------------------------------------------------------------
GroupHolders == held

(* unbind and platform-unbind refuse a device whose group is open.           *)
BeginUnbind(c) ==
    /\ c \in Unbinds /\ Begin(c, IF driver = "host" \/ GroupHolders THEN "done" ELSE "clear")
    /\ UNCHANGED <<device, driver, override, module, held, want>>

(* "Clearing the override comes first, or the probe binds vfio-pci again."   *)
ClearOverride(c) ==
    /\ c \in Unbinds /\ at[c] = "clear" /\ override' = FALSE /\ Moves(c, Overridden(c))
    /\ UNCHANGED <<device, driver, module, held, cur, want>>

Unbound(c) == c \in Unbinds /\ at[c] = "check" /\ Reports(c)

-----------------------------------------------------------------------------
Killed(c) ==
    /\ ~Idle(c) /\ at' = [at EXCEPT ![c] = "idle"]
    /\ UNCHANGED <<device, driver, override, module, held, cur, want, mixed>>

(* Another driver is loaded, or the bus is probed for another device.        *)
HostProbes ==
    /\ driver = "none" /\ driver' = Matching
    /\ UNCHANGED <<device, override, module, held, at, cur, want, mixed>>

Step(c) ==
    \/ BeginBind(c) \/ BindRefused(c) \/ LoadModule(c) \/ Override(c) \/ Check(c) \/ OpenGroup(c)
    \/ Bound(c) \/ BeginUnbind(c) \/ ClearOverride(c) \/ Unbound(c)
    \/ Reread(c) \/ Unbind(c) \/ Probe(c) \/ Killed(c)

BindingNext == (\E c \in Callers : Step(c)) \/ GuestExits \/ HostProbes

BindingSpec == BindingInit /\ [][BindingNext]_bindingVars

-----------------------------------------------------------------------------
(* Properties. *)

Drivers == {"none", "host", "vfio"}
Places == {"idle", "load", "clear", "override", "reread", "unbind", "probe", "check", "bound",
           "done"}

BindingTypeOK ==
    /\ kind \in {"pci", "platform"} /\ resets \in BOOLEAN
    /\ driver \in Drivers /\ override \in BOOLEAN
    /\ module \in {"none", "Y", "N"} /\ held \in BOOLEAN
    /\ at \in [Callers -> Places] /\ cur \in [Callers -> Drivers]
    /\ want \in [Callers -> {"Y", "N"}] /\ mixed \in [Callers -> BOOLEAN]

(* "driver_override is set first, so that the device cannot go back to its   *)
(* own driver once it is unbound": whatever an earlier command left behind  *)
(* when it failed or was killed, and whatever the host probes meanwhile, a   *)
(* bind that no other command disturbs never finds a device that it unbound  *)
(* back at its host driver, and an unbind that none disturbs, and that no    *)
(* guest keeps from it, leaves the device there and without an override.     *)
(* Only a platform device that had no driver when platform-unbind looked,    *)
(* and that the host gave to vfio before the override was cleared, stays at  *)
(* vfio.                                                                     *)
NotBackToHost ==
    \A c \in Binders :
        at[c] \in {"probe", "check"} /\ cur[c] # "none" /\ ~mixed[c] => driver # "host"
ReturnedToHost ==
    \A c \in Unbinds :
        at[c] = "check" /\ ~mixed[c] =>
            /\ ~override
            /\ driver = "host" \/ (kind = "platform" /\ cur[c] = "none")
BindingHolds == NotBackToHost /\ ReturnedToHost
=============================================================================
