------------------------------- MODULE MCParts -------------------------------
(***************************************************************************)
(* The parts of the system that keep to themselves, one behaviour for each: *)
(* the processes of a launcher, the binding of a device, the steering of    *)
(* interrupts, the filters of the guest's output, and the console client.   *)
(* The part is chosen at the start, and the variables of the others rest.   *)
(***************************************************************************)
EXTENDS GuestInit, DeviceBinding, OutputFilters

VARIABLES
    part,
    aff, target, todo, irq, doing, looked, misread,
    step, terminal, late, sigs, done, outputs, inputs, line, taken

I == INSTANCE IrqSteering
K == INSTANCE ConsoleClient

steering == <<aff, target, todo, irq, doing, looked, misread>>
client == <<step, terminal, late, sigs, done, outputs, inputs, line, taken>>
partsVars == <<part, vars, bindingVars, steering, filterVars, client>>

(* One command of each kind on the device. *)
MCDoes == [c \in Callers |-> c]

(* A part that rests is in one of its initial states. *)
RestG == Init /\ msgFd = "pipe" /\ tty = FALSE
RestB == BindingInit /\ kind = "pci" /\ resets = FALSE /\ driver = "none"
RestI == I!Init /\ target = "none"

PartsInit ==
    \/ part = "launcher" /\ Init /\ RestB /\ RestI /\ FilterInit /\ K!Init
    \/ part = "binding" /\ RestG /\ BindingInit /\ RestI /\ FilterInit /\ K!Init
    \/ part = "steering" /\ RestG /\ RestB /\ I!Init /\ FilterInit /\ K!Init
    \/ part = "filters" /\ RestG /\ RestB /\ RestI /\ FilterInit /\ K!Init
    \/ part = "client" /\ RestG /\ RestB /\ RestI /\ FilterInit /\ K!Init

PartsNext ==
    /\ UNCHANGED part
    /\ \/ part = "launcher" /\ Next /\ UNCHANGED <<bindingVars, steering, filterVars, client>>
       \/ part = "binding" /\ BindingNext /\ UNCHANGED <<vars, steering, filterVars, client>>
       \/ part = "steering" /\ I!Next /\ UNCHANGED <<vars, bindingVars, filterVars, client>>
       \/ part = "filters" /\ FilterNext /\ UNCHANGED <<vars, bindingVars, steering, client>>
       \/ part = "client" /\ K!Next /\ UNCHANGED <<vars, bindingVars, steering, filterVars>>

(* The fairness of each part's Spec. *)
PartsSpec ==
    /\ PartsInit /\ [][PartsNext]_partsVars
    /\ WF_vars(part = "launcher" /\ LauncherStep)
    /\ WF_vars(part = "launcher" /\ ThreadStep)
    /\ WF_vars(part = "launcher" /\ GuestStep)
    /\ WF_steering(part = "steering" /\ I!Steer)
    /\ WF_client(part = "client" /\ K!Main)
    /\ WF_client(part = "client" /\ K!TakeSignal)
    /\ WF_client(part = "client" /\ (K!CopyRead \/ K!CopyWrite))
    /\ WF_client(part = "client" /\ K!WriteInput)

-----------------------------------------------------------------------------
(* Every interrupt that stays moves to the chosen CPUs (steer_irqs). *)
Steered == I!Steered

(* A console client that is told to end does, and restores the terminal      *)
(* after the last of the guest's output (cmdConsole).                       *)
Detached == K!ClientEnds /\ []K!RestoredLast
=============================================================================
