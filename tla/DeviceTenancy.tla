---------------------------- MODULE DeviceTenancy ----------------------------
(***************************************************************************)
(* What the supervisors of a device promise for it: they hold it one after  *)
(* the other.  Its tenant cleans up after the ones before it, serves it,    *)
(* attaches it to the host's bus until it closes, takes it off and destroys *)
(* it, or keeps it on the bus for the next tenant.  A tenant may be killed, *)
(* and then its guest has the device until the next one enters.             *)
(***************************************************************************)
CONSTANTS Runs, NoRun, Wlan

VARIABLES
    tenant,     \* the run that holds the device, or NoRun
    stage,      \* where each run is in its tenancy
    place,      \* where the device is: "none", "off" the bus, or on the "bus"
    told,       \* the runs that were told to stop
    seen,       \* the runs that saw the device live
    failed      \* the runs that could not take it off or destroy it

vars == <<tenant, stage, place, told, seen, failed>>

Init ==
    /\ tenant = NoRun /\ stage = [r \in Runs |-> "new"] /\ place = "none"
    /\ told = {} /\ seen = {} /\ failed = {}

Turns(r, from, to) == stage[r] = from /\ stage' = [stage EXCEPT ![r] = to]

-----------------------------------------------------------------------------
(* The tenancy. *)
Enter(r) ==
    /\ tenant = NoRun /\ tenant' = r /\ Turns(r, "new", "setup")
    /\ UNCHANGED <<place, told, seen, failed>>

TurnedAway(r) ==
    /\ Turns(r, "new", "gone")
    /\ UNCHANGED <<tenant, place, told, seen, failed>>

GiveUp(r) ==
    /\ tenant = r /\ tenant' = NoRun /\ Turns(r, "setup", "gone")
    /\ UNCHANGED <<place, told, seen, failed>>

Serve(r) ==
    /\ tenant = r /\ Turns(r, "setup", "serving")
    /\ UNCHANGED <<tenant, place, told, seen, failed>>

ToldToStop(r) ==
    /\ tenant = r /\ stage[r] \in {"serving", "closing"} /\ told' = told \cup {r}
    /\ UNCHANGED <<tenant, stage, place, seen, failed>>

Close(r) ==
    /\ tenant = r /\ Turns(r, "serving", "closing")
    /\ UNCHANGED <<tenant, place, told, seen, failed>>

(* What a tenant leaves behind without a failure is a net device that it saw *)
(* live, on the bus, and it was not told to stop.                           *)
Leave(r) ==
    /\ tenant = r /\ tenant' = NoRun /\ Turns(r, "closing", "gone")
    /\ \/ place = "none"
       \/ r \in failed
       \/ place = "bus" /\ r \in seen /\ r \notin told /\ ~Wlan
    /\ UNCHANGED <<place, told, seen, failed>>

-----------------------------------------------------------------------------
(* The device. *)

(* A guest has it: the tenant's, or that of a run that was killed, until the *)
(* next tenant enters.                                                      *)
HasGuest ==
    IF tenant = NoRun THEN \E r \in Runs : stage[r] = "killed"
    ELSE stage[tenant] \in {"serving", "closing"}

Make ==
    /\ HasGuest /\ place = "none" /\ place' = "off"
    /\ UNCHANGED <<tenant, stage, told, seen, failed>>

Unmake ==
    /\ HasGuest /\ place = "off" /\ place' = "none"
    /\ UNCHANGED <<tenant, stage, told, seen, failed>>

Attach(r) ==
    /\ tenant = r /\ stage[r] = "serving"
    /\ place = "off" /\ place' = "bus"
    /\ UNCHANGED <<tenant, stage, told, seen, failed>>

See(r) ==
    /\ tenant = r /\ stage[r] = "serving" /\ place = "bus" /\ seen' = seen \cup {r}
    /\ UNCHANGED <<tenant, stage, place, told, failed>>

(* A tenant cleans up when it closes, and a wlan device before it serves. *)
Cleans(r) == stage[r] = "closing" \/ (stage[r] = "setup" /\ Wlan)
CleanedUp == place' = IF place = "bus" THEN "off" ELSE "none"

CleanUp(r) ==
    /\ tenant = r /\ Cleans(r)
    /\ \/ CleanedUp /\ UNCHANGED failed
       \/ failed' = failed \cup {r} /\ UNCHANGED place
    /\ UNCHANGED <<tenant, stage, told, seen>>

(* A kill may let a removal from the bus finish. *)
Killed(r) ==
    /\ tenant = r /\ tenant' = NoRun /\ stage' = [stage EXCEPT ![r] = "killed"]
    /\ UNCHANGED place \/ (place = "bus" /\ Cleans(r) /\ CleanedUp)
    /\ UNCHANGED <<told, seen, failed>>

Next ==
    \/ Make \/ Unmake
    \/ \E r \in Runs :
           \/ Enter(r) \/ TurnedAway(r) \/ GiveUp(r) \/ Serve(r)
           \/ ToldToStop(r) \/ Close(r) \/ Leave(r) \/ Killed(r)
           \/ Attach(r) \/ See(r) \/ CleanUp(r)

Spec == Init /\ [][Next]_vars
=============================================================================
