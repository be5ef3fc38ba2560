----------------------------- MODULE Enablement -----------------------------
(***************************************************************************)
(* `invirtio install`, `enable`, `disable` and `uninstall` (install.go,     *)
(* devices.go and plan.go in tools/cmd/invirtio): each command plans its    *)
(* stages from the configuration it has loaded and runs their actions in    *)
(* order, up to the first that fails or that the user does not let run.     *)
(* What the actions change are the installed parts, the recorded devices,   *)
(* the udev rules, the services and the devices' host drivers; the host can *)
(* be rebooted between any two.                                             *)
(***************************************************************************)
EXTENDS SequencesExt

CONSTANTS
    Devices,    \* the PCI devices, each with the name it is enabled as
    MayStop     \* may a command stop before its last stage?

ASSUME DevicesAssumption == IsFiniteSet(Devices)
ASSUME StopAssumption == MayStop \in BOOLEAN

VARIABLES
    installed,  \* the parts of InvirtIO that are on the host
    plan,       \* the actions that the running command has yet to run
    recorded,   \* the devices in devices.json
    rules,      \* the devices in the udev rule file
    wanted,     \* the devices whose service is enabled
    active,     \* the devices whose service runs
    onBus,      \* the devices whose VDUSE device is on the vDPA bus
    driver,     \* what drives the PCI device on the host
    override    \* the devices whose driver_override is vfio-pci

files    == <<recorded, rules>>
services == <<wanted, active, onBus>>
pciState == <<driver, override>>
vars     == <<installed, plan, files, services, pciState>>

(* The guest with its files and launcher, the program, the guests' user and  *)
(* the service.                                                             *)
Parts == {"lib", "bin", "user", "unit"}

Action == [do : {"save", "rules", "start", "stop", "clean", "clear", "unbind", "probe"},
           on : SUBSET Devices] \cup [do : {"add", "remove"}, on : SUBSET Parts]

(* A plan visits each device at most once, in five actions, between the      *)
(* rules and the four parts.                                                *)
TypeOK ==
    /\ installed \in SUBSET Parts
    /\ plan \in Seq(Action) /\ Len(plan) <= 5 * Cardinality(Devices) + 5
    /\ recorded \in SUBSET Devices
    /\ rules \in SUBSET Devices
    /\ wanted \in SUBSET Devices
    /\ active \in SUBSET Devices
    /\ onBus \in SUBSET Devices
    /\ driver \in [Devices -> {"host", "vfio", "none"}]
    /\ override \in SUBSET Devices

Init ==
    /\ installed = {} /\ plan = <<>>
    /\ recorded = {} /\ rules = {}
    /\ wanted = {} /\ active = {} /\ onBus = {}
    /\ driver = [d \in Devices |-> "host"]
    /\ override = {}

-----------------------------------------------------------------------------
(* The plans.  cfg is the configuration as the command loaded it. *)

Do(what, things) == [do |-> what, on |-> things]

(* The program comes after the guest's files and before the service, and a   *)
(* list of devices that is there is kept.                                   *)
InstallPlan(cfg) ==
    <<Do("add", {"lib"}), Do("add", {"bin"}), Do("add", {"user"}), Do("add", {"unit"})>>
    \o (IF cfg = {} THEN <<Do("save", {})>> ELSE <<>>)

(* Mutant: the device is recorded last. *)
EnableRecordsLast(cfg, d) ==
    <<Do("start", {d}), Do("rules", cfg \cup {d}), Do("save", cfg \cup {d})>>

EnablePlan(cfg, d) ==
    (IF d \in cfg THEN <<>> ELSE <<Do("save", cfg \cup {d})>>)
    \o <<Do("start", {d}), Do("rules", cfg \cup {d})>>

DisableStages(d) ==
    <<Do("stop", {d}), Do("clean", {d}),
      Do("clear", {d}), Do("unbind", {d}), Do("probe", {d})>>

(* Mutant: the rule is removed with the record. *)
DisableRulesLast(cfg, d) ==
    DisableStages(d) \o <<Do("rules", cfg \ {d}), Do("save", cfg \ {d})>>

DisablePlan(cfg, d) ==
    <<Do("rules", cfg \ {d})>> \o DisableStages(d) \o <<Do("save", cfg \ {d})>>

(* The files go with the list of devices. *)
RemoveParts == <<Do("remove", {"user"}), Do("remove", {"unit"}), Do("remove", {"lib"}),
                 Do("remove", {"bin"})>>

(* Mutant: the list of stages is appended to itself for each device. *)
UninstallAppends(names) ==
    <<Do("rules", {})>>
    \o FlattenSeq([i \in 1..Len(names) |->
           FlattenSeq([j \in 1..i |-> DisableStages(names[j])])])
    \o RemoveParts

(* Mutant: the parts go before the devices are given back. *)
UninstallPartsFirst(names) ==
    <<Do("rules", {})>> \o RemoveParts
    \o FlattenSeq([i \in 1..Len(names) |-> DisableStages(names[i])])

(* The five stages of each device in turn. *)
StagesOf(names) ==
    [i \in 1..(5 * Len(names)) |-> DisableStages(names[((i - 1) \div 5) + 1])[((i - 1) % 5) + 1]]

UninstallPlan(names) == <<Do("rules", {})>> \o StagesOf(names) \o RemoveParts

(* A command of the user; one runs at a time. *)
Command ==
    /\ plan = <<>>
    /\ \/ plan' = InstallPlan(recorded)
       \/ "lib" \in installed /\ \E d \in Devices : plan' = EnablePlan(recorded, d)
       \/ \E d \in recorded : plan' = DisablePlan(recorded, d)
       \/ \E names \in SetToSeqs(recorded) : plan' = UninstallPlan(names)
    /\ UNCHANGED <<installed, files, services, pciState>>

-----------------------------------------------------------------------------
(* runStages: the next action runs, or the command ends. *)

Running(what) == plan # <<>> /\ Head(plan).do = what /\ plan' = Tail(plan)
Target == CHOOSE d \in Head(plan).on : TRUE

AddPart ==
    /\ Running("add")
    /\ installed' = installed \cup Head(plan).on
    /\ UNCHANGED <<files, services, pciState>>

(* rm -rf of the files and of the configuration's directory is one command.  *)
RemovePart ==
    /\ Running("remove")
    /\ installed' = installed \ Head(plan).on
    /\ recorded' = IF Target = "lib" THEN {} ELSE recorded
    /\ UNCHANGED <<rules, services, pciState>>

SaveConfig ==
    /\ Running("save")
    /\ recorded' = Head(plan).on
    /\ UNCHANGED <<installed, rules, services, pciState>>

WriteRules ==
    /\ Running("rules")
    /\ rules' = Head(plan).on
    /\ UNCHANGED <<installed, recorded, services, pciState>>

(* systemctl enable --now *)
StartService ==
    /\ Running("start") /\ "unit" \in installed
    /\ wanted' = wanted \cup {Target}
    /\ active' = active \cup {Target}
    /\ UNCHANGED <<installed, files, onBus, pciState>>

(* systemctl disable --now: the service takes its device off the bus first.  *)
(* Without the unit's file the service can only be stopped.                 *)
StopService ==
    /\ Running("stop")
    /\ wanted' = IF "unit" \in installed THEN wanted \ {Target} ELSE wanted
    /\ active' = active \ {Target}
    /\ onBus' = IF Target \in active THEN onBus \ {Target} ELSE onBus
    /\ UNCHANGED <<installed, files, pciState>>

(* vdpa.Remove, vdpa.Destroy and the log's removal. *)
RemoveLeftovers ==
    /\ Running("clean")
    /\ onBus' = onBus \ {Target}
    /\ UNCHANGED <<installed, files, wanted, active, pciState>>

ClearOverride ==
    /\ Running("clear")
    /\ override' = override \ {Target}
    /\ UNCHANGED <<installed, files, services, driver>>

UnbindVFIO ==
    /\ Running("unbind")
    /\ driver' = [driver EXCEPT ![Target] = IF @ = "vfio" THEN "none" ELSE @]
    /\ UNCHANGED <<installed, files, services, override>>

ProbeDriver ==
    /\ Running("probe")
    /\ driver' = [driver EXCEPT ![Target] =
                      IF @ # "none" THEN @
                      ELSE IF Target \in override THEN "vfio" ELSE "host"]
    /\ UNCHANGED <<installed, files, services, override>>

(* An action fails, the user stops before a stage, or the command is killed. *)
(* A failed systemctl or rm may have done the first of its halves.          *)
StopEarly ==
    /\ MayStop /\ plan # <<>>
    /\ plan' = <<>>
    /\ \/ UNCHANGED <<installed, wanted>>
       \/ /\ "unit" \in installed /\ UNCHANGED installed
          /\ \/ Head(plan).do = "start" /\ wanted' = wanted \cup {Target}
             \/ Head(plan).do = "stop" /\ wanted' = wanted \ {Target}
       \/ Head(plan) = Do("remove", {"lib"}) /\ installed' = installed \ {"lib"}
          /\ UNCHANGED wanted
    /\ UNCHANGED <<files, active, onBus, pciState>>

-----------------------------------------------------------------------------
(* The services and the host. *)

(* `invirtio run` needs the device's record; its launcher binds the PCI      *)
(* device to vfio-pci, and the guest's device goes on the bus.              *)
ServiceRuns(d) ==
    /\ d \in active /\ d \in recorded /\ {"bin", "lib", "user"} \subseteq installed
    /\ driver[d] # "vfio" \/ d \notin onBus
    /\ driver' = [driver EXCEPT ![d] = "vfio"]
    /\ override' = override \cup {d}
    /\ onBus' = onBus \cup {d}
    /\ UNCHANGED <<installed, plan, files, wanted, active>>

(* systemd gives up restarting the service. *)
ServiceFails(d) ==
    /\ d \in active
    /\ active' = active \ {d}
    /\ onBus' \in {onBus, onBus \ {d}}
    /\ UNCHANGED <<installed, plan, files, wanted, pciState>>

(* A udev rule sets the override before the host driver's module loads. *)
Reboot ==
    /\ plan' = <<>>
    /\ active' = IF "unit" \in installed THEN wanted ELSE {}
    /\ onBus' = {}
    /\ override' = rules
    /\ driver' = [d \in Devices |-> IF d \in rules THEN "none" ELSE "host"]
    /\ UNCHANGED <<installed, files, wanted>>

Next ==
    \/ Command \/ AddPart \/ RemovePart
    \/ SaveConfig \/ WriteRules \/ StartService \/ StopService
    \/ RemoveLeftovers \/ ClearOverride \/ UnbindVFIO \/ ProbeDriver
    \/ StopEarly
    \/ \E d \in Devices : ServiceRuns(d) \/ ServiceFails(d)
    \/ Reboot

Spec == Init /\ [][Next]_vars

-----------------------------------------------------------------------------
(* Properties. *)

(* Whatever enable did to a device can be undone, at whichever action a      *)
(* command stopped: disable finds a device by its record, so one without a  *)
(* record has its host driver, no rule, no service and no device on the     *)
(* bus; and none has a service, a VFIO driver or a device on the bus        *)
(* without the unit and the program, which go "last, so that a failed step  *)
(* can be run again with the installed program".                            *)
Undoable ==
    /\ \A d \in Devices \ recorded :
           /\ driver[d] = "host" /\ d \notin override
           /\ d \notin rules \cup wanted \cup active \cup onBus
    /\ wanted \cup active \cup onBus \cup {d \in Devices : driver[d] = "vfio"} # {}
           => {"unit", "bin"} \subseteq installed

(* In disable and uninstall the rule goes first, "so that a device returned  *)
(* to its host driver keeps it at the next boot, wherever the disable       *)
(* stops": no stage touches a device that still has a rule.                 *)
RuleGoesFirst ==
    plan # <<>> /\ Head(plan).do \in {"stop", "clean", "clear", "unbind", "probe"}
        => Target \notin rules

(* "The udev rule comes last, so that a device whose guest never started     *)
(* does not lose its host driver at the next boot": a rule is only there for *)
(* a device whose guest starts at boot.  Violated: the rules are those of   *)
(* all recorded devices.                                                    *)
RuleHasGuest == rules \subseteq wanted
=============================================================================
