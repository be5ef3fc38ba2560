----------------------------- MODULE IrqSteering -----------------------------
(***************************************************************************)
(* steer_irqs (launcher/invirtio-launch.c) and invirtio-test irq-affinity:  *)
(* they go over a device's host interrupts again and again and move each    *)
(* one to the chosen CPUs, while the guest frees and requests interrupts.   *)
(* An affinity is "default", the one of a new interrupt, or "set".          *)
(***************************************************************************)
EXTENDS Naturals

Irqs == 1 .. 2

VARIABLES
    aff,      \* the affinity of each interrupt, "none" if it does not exist
    target,   \* the affinity that needs no write, as the kernel prints it
    todo,     \* the interrupts that this pass has yet to look at
    irq,      \* the one that it looks at, 0 between two
    doing,    \* what it does with it
    looked,   \* the affinity that it had
    misread   \* is the target the affinity of an interrupt that nobody wrote?

vars == <<aff, target, todo, irq, doing, looked, misread>>

Init ==
    /\ aff = [i \in Irqs |-> "none"] /\ todo = {} /\ irq = 0 /\ doing = "look"
    /\ target \in {"none", "set"} /\ looked = "none" /\ misread = FALSE

(* One pass over /proc/interrupts. *)
BeginPass ==
    /\ irq = 0 /\ todo = {} /\ todo' = {i \in Irqs : aff[i] # "none"}
    /\ UNCHANGED <<aff, target, irq, doing, looked, misread>>

Skip == irq' = 0 /\ doing' = "look"

(* "An interrupt can be freed at any time, so errors skip it."               *)
Look ==
    /\ irq = 0
    /\ \E i \in todo :
        /\ todo' = todo \ {i} /\ looked' = aff[i]
        /\ IF aff[i] \in {"none", target} THEN Skip ELSE irq' = i /\ doing' = "write"
    /\ UNCHANGED <<aff, target, misread>>

WriteAffinity ==
    /\ irq # 0 /\ doing = "write"
    /\ IF aff[irq] = "none" THEN Skip /\ UNCHANGED aff
       ELSE aff' = [aff EXCEPT ![irq] = "set"] /\ doing' = "read" /\ UNCHANGED irq
    /\ UNCHANGED <<target, todo, looked, misread>>

(* Mutant: the target is the affinity that was read before the write. *)
ReadBackFirst ==
    /\ irq # 0 /\ doing = "read" /\ target' = looked /\ misread' = FALSE /\ Skip
    /\ UNCHANGED <<aff, todo, looked>>

ReadBack ==
    /\ irq # 0 /\ doing = "read"
    /\ target' = (IF aff[irq] = "none" THEN target ELSE aff[irq])
    /\ misread' = (target' = "default") /\ Skip
    /\ UNCHANGED <<aff, todo, looked>>

Steer == BeginPass \/ Look \/ WriteAffinity \/ ReadBack

Request(i) ==
    /\ aff[i] = "none" /\ aff' = [aff EXCEPT ![i] = "default"]
    /\ UNCHANGED <<target, todo, irq, doing, looked, misread>>

Free(i) ==
    /\ aff[i] # "none" /\ aff' = [aff EXCEPT ![i] = "none"]
    /\ UNCHANGED <<target, todo, irq, doing, looked, misread>>

(* The guest's exit frees its interrupts, and its next run forgets the target. *)
NewRun ==
    /\ irq = 0 /\ aff' = [i \in Irqs |-> "none"] /\ todo' = {}
    /\ target' = "none" /\ misread' = FALSE /\ UNCHANGED <<irq, doing, looked>>

Next == Steer \/ NewRun \/ \E i \in Irqs : Request(i) \/ Free(i)

Spec == Init /\ [][Next]_vars /\ WF_vars(Steer)

(* Every interrupt that stays is moved to the CPUs.  The code has one        *)
(* exception: an interrupt freed and requested again between the write and  *)
(* the read-back makes the default the target, and until some interrupt has *)
(* been set those with the default are skipped.                             *)
Steered ==
    \A i \in Irqs :
        aff[i] = "default" ~> (aff[i] # "default" \/ (misread /\ \A j \in Irqs : aff[j] # "set"))
=============================================================================
