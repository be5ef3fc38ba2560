--------------------------- MODULE EnablementProofs ---------------------------
(***************************************************************************)
(* Proofs about Enablement, for any number of devices, with and without      *)
(* commands that stop before their last stage.                               *)
(***************************************************************************)
EXTENDS Enablement, QueueLemmas, FiniteSetTheorems

Stages == {"stop", "clean", "clear", "unbind", "probe"}

(* How far a set of devices has been given back to the host. *)
Stopped(D)  == D \cap (rules \cup wanted \cup active) = {}
OffBus(D)   == Stopped(D) /\ D \cap onBus = {}
Cleared(D)  == OffBus(D) /\ D \cap override = {}
Unbound(D)  == Cleared(D) /\ \A d \in D : driver[d] # "vfio"
Returned(D) == Cleared(D) /\ \A d \in D : driver[d] = "host"

(* The action before the i-th is the stage `what` of the same device. *)
Before(i, what) == i > 1 /\ plan[i - 1] = Do(what, plan[i].on)

(* The device is back, or a stage before the i-th action gives it back. *)
Given(d, i) == Returned({d}) \/ \E j \in 1..(i - 1) : plan[j] = Do("probe", {d})

(* Undoable, where the program is there because the service's unit is. *)
HostInv ==
    /\ \A d \in Devices \ recorded : Returned({d})
    /\ "unit" \in installed => "bin" \in installed
    /\ wanted \cup active \cup onBus \cup {d \in Devices : driver[d] = "vfio"} # {}
           => "unit" \in installed

(* A stage is of one device, and the parts come and go one at a time. *)
OneInv ==
    \A i \in 1..Len(plan) :
        /\ plan[i].do \in Stages \cup {"start"} => \E d \in Devices : plan[i].on = {d}
        /\ plan[i].do \in {"add", "remove"} => \E p \in Parts : plan[i].on = {p}

(* The order of the actions of each command. *)
OrderInv ==
    \A i, j \in 1..Len(plan) :
        /\ plan[i].do = "rules" /\ j < i => plan[j].do \in {"save", "start"} /\ i = Len(plan)
        /\ plan[i].do = "start" /\ i < j => plan[j].do = "rules"
        /\ plan[i].do = "start" /\ j < i => plan[j].do = "save"
        /\ plan[i].do = "save" /\ i # j => plan[j].do \notin {"save", "remove"}
        /\ plan[i].do = "add" => plan[j].do \in {"add", "save"}

(* A rule and a service are for a device that is recorded by then, and the    *)
(* rules that come first in a plan are none of the devices that it gives up. *)
RuleInv ==
    \A i \in 1..Len(plan) :
        /\ plan[i].do \in {"rules", "start"} =>
               plan[i].on \subseteq IF plan[1].do = "save" THEN plan[1].on ELSE recorded
        /\ plan[1].do = "rules" /\ i > 1 =>
               \/ plan[i].do = "save" /\ plan[1].on \subseteq plan[i].on
               \/ plan[i].do \in Stages /\ plan[1].on \cap plan[i].on = {}
               \/ plan[i].do = "remove" /\ plan[1].on = {}

(* Each stage follows the one that it relies on, or that one has been done. *)
StageInv ==
    \A i \in 1..Len(plan) :
        /\ plan[i].do = "stop" => plan[1].do = "rules" \/ plan[i].on \cap rules = {}
        /\ plan[i].do = "clean" => Before(i, "stop") \/ Stopped(plan[i].on)
        /\ plan[i].do = "clear" => Before(i, "clean") \/ OffBus(plan[i].on)
        /\ plan[i].do = "unbind" => Before(i, "clear") \/ Cleared(plan[i].on)
        /\ plan[i].do = "probe" => Before(i, "unbind") \/ Unbound(plan[i].on)

(* A device that loses its record is given back before. *)
GiveBackInv ==
    \A i \in 1..Len(plan) :
        /\ plan[i].do = "save" => \A d \in recorded \ plan[i].on : Given(d, i)
        /\ plan[i].do = "remove" => \A d \in recorded : Given(d, i)

(* The program comes before the unit, and goes after it. *)
PartsInv ==
    \A i \in 1..Len(plan) :
        /\ plan[i] = Do("add", {"unit"}) =>
               "bin" \in installed \/ \E j \in 1..(i - 1) : plan[j] = Do("add", {"bin"})
        /\ plan[i] = Do("remove", {"bin"}) =>
               "unit" \notin installed \/ \E j \in 1..(i - 1) : plan[j] = Do("remove", {"unit"})

PlanInv == OneInv /\ OrderInv /\ RuleInv /\ StageInv /\ GiveBackInv /\ PartsInv

IInv == TypeOK /\ HostInv /\ PlanInv

-----------------------------------------------------------------------------
(* What is left of a plan once its first action has been taken. *)
LEMMA Tailed ==
    ASSUME TypeOK, plan # <<>>, plan' = Tail(plan)
    PROVE  /\ plan' \in Seq(Action) /\ Len(plan') <= 5 * Cardinality(Devices) + 5
           /\ Len(plan) \in Nat \ {0} /\ Len(plan') = Len(plan) - 1
           /\ 1 \in 1..Len(plan) /\ Head(plan) = plan[1] /\ plan[1] \in Action
           /\ \A i \in 1..Len(plan') : i + 1 \in 1..Len(plan) /\ plan'[i] = plan[i + 1]
  <1>1. /\ plan \in Seq(Action) /\ Len(plan) <= 5 * Cardinality(Devices) + 5
        /\ Cardinality(Devices) \in Nat
    BY DevicesAssumption, FS_CardinalityType DEF TypeOK
  <1>2. /\ Tail(plan) \in Seq(Action) /\ Head(plan) \in Action /\ Head(plan) = plan[1]
        /\ Len(plan) \in Nat \ {0} /\ Len(Tail(plan)) = Len(plan) - 1
        /\ \A i \in 1..(Len(plan) - 1) : Tail(plan)[i] = plan[i + 1]
    BY <1>1, Dequeued
  <1>3. Len(plan) - 1 <= 5 * Cardinality(Devices) + 5 /\ 1 \in 1..Len(plan)
    BY <1>1, <1>2
  <1> QED BY <1>2, <1>3

(* A plan that has ended asks for nothing. *)
LEMMA Ended ==
    ASSUME plan' = <<>>
    PROVE  PlanInv' /\ plan' \in Seq(Action) /\ Len(plan') = 0
  <1>1. plan' \in Seq(Action) /\ Len(plan') = 0 /\ 1..Len(plan') = {}
    BY EmptySeq
  <1> QED BY <1>1 DEF PlanInv, OneInv, OrderInv, RuleInv, StageInv, GiveBackInv, PartsInv

(* The device of a stage, and the part that goes. *)
LEMMA TheTarget ==
    ASSUME TypeOK, OneInv, plan # <<>>
    PROVE  /\ plan[1].do \in Stages \cup {"start"} => Target \in Devices /\ plan[1].on = {Target}
           /\ plan[1].do \in {"add", "remove"} => Target \in Parts /\ plan[1].on = {Target}
  <1>1. 1 \in 1..Len(plan) /\ Head(plan) = plan[1]
    BY Dequeued DEF TypeOK
  <1>2. ASSUME NEW d, plan[1].on = {d}
        PROVE  Target = d
    BY <1>1, <1>2 DEF Target
  <1> QED BY <1>1, <1>2 DEF OneInv

(* The order of a plan's actions is that of what is left of it. *)
LEMMA OrderKept ==
    ASSUME TypeOK, OneInv, OrderInv, plan # <<>>, plan' = Tail(plan)
    PROVE  OneInv' /\ OrderInv'
  <1>1. OneInv'
    BY Tailed DEF OneInv
  <1>2. ASSUME NEW i \in 1..Len(plan'), NEW j \in 1..Len(plan')
        PROVE  /\ i + 1 \in 1..Len(plan) /\ plan'[i] = plan[i + 1]
               /\ j + 1 \in 1..Len(plan) /\ plan'[j] = plan[j + 1]
               /\ (j < i <=> j + 1 < i + 1) /\ (i # j <=> i + 1 # j + 1)
               /\ (i = Len(plan') <=> i + 1 = Len(plan))
    BY Tailed
  <1>3. OrderInv'
    BY <1>2 DEF OrderInv
  <1> QED BY <1>1, <1>3

(* What a step does not undo of a set of devices that is given back. *)
Keeps(D) ==
    /\ Stopped(D) => Stopped(D)'
    /\ OffBus(D) => OffBus(D)'
    /\ Cleared(D) => Cleared(D)'
    /\ Unbound(D) => Unbound(D)'
    /\ Returned(D) => Returned(D)'

(* The records and the rules that the rest of a plan counts on. *)
LEMMA RuleKept ==
    ASSUME TypeOK, OrderInv, RuleInv, plan # <<>>, plan' = Tail(plan),
           plan[1].do = "save" => recorded' = plan[1].on,
           plan[1].do = "start" => recorded' = recorded
    PROVE  RuleInv'
  <1> SUFFICES ASSUME NEW i \in 1..Len(plan')
               PROVE  /\ plan'[i].do \in {"rules", "start"} =>
                             plan'[i].on \subseteq
                                 IF plan'[1].do = "save" THEN plan'[1].on ELSE recorded'
                      /\ ~(plan'[1].do = "rules" /\ i > 1)
    BY DEF RuleInv
  <1>1. /\ 1 \in 1..Len(plan) /\ i + 1 \in 1..Len(plan) /\ plan'[i] = plan[i + 1]
        /\ 1 < i + 1 /\ 1 \in 1..Len(plan') /\ 2 \in 1..Len(plan) /\ plan'[1] = plan[2]
        /\ i + 1 > 1 /\ 1 < 2 /\ i \in Nat /\ Len(plan) \in Nat /\ i + 1 <= Len(plan)
    BY Tailed
  <1>2. ASSUME plan[i + 1].do \in {"rules", "start"}
        PROVE  plan[i + 1].on \subseteq
                   IF plan'[1].do = "save" THEN plan'[1].on ELSE recorded'
    <2>1. plan[1].do \in {"save", "start"}
      BY <1>1, <1>2 DEF OrderInv
    <2>2. plan[2].do # "save"
      BY <1>1, <2>1 DEF OrderInv
    <2>3. plan[i + 1].on \subseteq IF plan[1].do = "save" THEN plan[1].on ELSE recorded
      BY <1>1, <1>2 DEF RuleInv
    <2> QED BY <1>1, <2>1, <2>2, <2>3
  <1>3. plan[2].do = "rules" => Len(plan) = 2
    BY <1>1 DEF OrderInv
  <1> QED BY <1>1, <1>2, <1>3

(* Each stage is done before the one that relies on it. *)
LEMMA StageKept ==
    ASSUME TypeOK, OneInv, RuleInv, StageInv, plan # <<>>, plan' = Tail(plan),
           rules' = (IF plan[1].do = "rules" THEN plan[1].on ELSE rules),
           \A i \in 2..Len(plan) : \A p : p = plan[i] /\ p.do \in Stages => Keeps(p.on),
           \A D : plan[1] = Do("stop", D) => Stopped(D)',
           \A D : plan[1] = Do("clean", D) => OffBus(D)',
           \A D : plan[1] = Do("clear", D) => Cleared(D)',
           \A D : plan[1] = Do("unbind", D) => Unbound(D)'
    PROVE  StageInv'
  <1> SUFFICES ASSUME NEW i \in 1..Len(plan'), NEW p, p = plan'[i]
               PROVE  /\ p.do = "stop" => plan'[1].do = "rules" \/ p.on \cap rules' = {}
                      /\ p.do = "clean" => Before(i, "stop")' \/ Stopped(p.on)'
                      /\ p.do = "clear" => Before(i, "clean")' \/ OffBus(p.on)'
                      /\ p.do = "unbind" => Before(i, "clear")' \/ Cleared(p.on)'
                      /\ p.do = "probe" => Before(i, "unbind")' \/ Unbound(p.on)'
    BY DEF StageInv, Stopped, OffBus, Cleared, Unbound
  <1>1. /\ i + 1 \in 2..Len(plan) /\ i + 1 \in 1..Len(plan) /\ p = plan[i + 1]
        /\ 1 \in 1..Len(plan) /\ i \in Nat /\ i + 1 > 1 /\ (i + 1) - 1 = i
    BY Tailed
  <1>2. p.do \in Stages => Keeps(p.on)
    BY <1>1
  <1>3. ASSUME p.do = "stop"
        PROVE  p.on \cap rules' = {}
    <2>1. CASE plan[1].do = "rules"
      BY <1>1, <1>3, <2>1 DEF RuleInv, Stages
    <2>2. CASE plan[1].do # "rules"
      BY <1>1, <1>3, <2>2 DEF StageInv
    <2> QED BY <2>1, <2>2
  <1>4. ASSUME NEW w, Before(i + 1, w)
        PROVE  Before(i, w)' \/ plan[1] = Do(w, p.on)
    <2>1. plan[i] = Do(w, p.on)
      BY <1>1, <1>4 DEF Before
    <2>2. CASE i = 1
      BY <2>1, <2>2
    <2>3. CASE i > 1
      <3>1. i - 1 \in 1..Len(plan') /\ plan'[i - 1] = plan[i]
        BY <1>1, <2>3, Tailed
      <3> QED BY <2>1, <2>3, <3>1 DEF Before
    <2> QED BY <1>1, <2>2, <2>3
  <1>5. /\ p.do = "clean" => Before(i + 1, "stop") \/ Stopped(p.on)
        /\ p.do = "clear" => Before(i + 1, "clean") \/ OffBus(p.on)
        /\ p.do = "unbind" => Before(i + 1, "clear") \/ Cleared(p.on)
        /\ p.do = "probe" => Before(i + 1, "unbind") \/ Unbound(p.on)
    BY <1>1 DEF StageInv
  <1>6. p.do = "clean" => Before(i, "stop")' \/ Stopped(p.on)'
    BY <1>2, <1>4, <1>5 DEF Keeps, Stages
  <1>7. p.do = "clear" => Before(i, "clean")' \/ OffBus(p.on)'
    BY <1>2, <1>4, <1>5 DEF Keeps, Stages
  <1>8. p.do = "unbind" => Before(i, "clear")' \/ Cleared(p.on)'
    BY <1>2, <1>4, <1>5 DEF Keeps, Stages
  <1>9. p.do = "probe" => Before(i, "unbind")' \/ Unbound(p.on)'
    BY <1>2, <1>4, <1>5 DEF Keeps, Stages
  <1> QED BY <1>3, <1>6, <1>7, <1>8, <1>9

(* A device that is to lose its record is still given back before. *)
LEMMA GiveBackKept ==
    ASSUME TypeOK, OrderInv, GiveBackInv, plan # <<>>, plan' = Tail(plan),
           plan[1].do # "save" => recorded' \subseteq recorded,
           \A i \in 2..Len(plan) : \A d \in recorded :
               plan[i].do = "remove" \/ (plan[i].do = "save" /\ d \notin plan[i].on)
                   => Keeps({d}),
           \A d \in Devices : plan[1] = Do("probe", {d}) => Returned({d})'
    PROVE  GiveBackInv'
  <1> SUFFICES ASSUME NEW i \in 1..Len(plan'), NEW d \in recorded',
                      \/ plan'[i].do = "remove"
                      \/ plan'[i].do = "save" /\ d \notin plan'[i].on
               PROVE  Given(d, i)'
    BY DEF GiveBackInv
  <1>1. /\ i + 1 \in 2..Len(plan) /\ i + 1 \in 1..Len(plan) /\ plan'[i] = plan[i + 1]
        /\ 1 \in 1..Len(plan) /\ i \in Nat /\ 1 # i + 1 /\ (i + 1) - 1 = i
    BY Tailed
  <1>2. plan[1].do # "save"
    BY <1>1 DEF OrderInv
  <1>3. d \in recorded /\ d \in Devices
    BY <1>2 DEF TypeOK
  <1>4. Given(d, i + 1) /\ Keeps({d})
    BY <1>1, <1>3 DEF GiveBackInv
  <1>5. CASE Returned({d})
    BY <1>4, <1>5 DEF Keeps, Given
  <1>6. ASSUME NEW j \in 1..i, plan[j] = Do("probe", {d})
        PROVE  Given(d, i)'
    <2>1. CASE j = 1
      BY <1>3, <1>6, <2>1 DEF Given
    <2>2. CASE j > 1
      <3>1. j - 1 \in 1..Len(plan') /\ plan'[j - 1] = plan[j] /\ j - 1 \in 1..(i - 1)
        BY <1>1, <2>2, Tailed
      <3> QED BY <1>6, <3>1 DEF Given, Do
    <2> QED BY <1>1, <2>1, <2>2
  <1> QED BY <1>1, <1>4, <1>5, <1>6 DEF Given

(* The program is still there before the unit and gone after it. *)
LEMMA PartsKept ==
    ASSUME TypeOK, OneInv, OrderInv, PartsInv, plan # <<>>, plan' = Tail(plan),
           installed' = CASE plan[1].do = "add"    -> installed \cup plan[1].on
                          [] plan[1].do = "remove" -> installed \ plan[1].on
                          [] OTHER                 -> installed
    PROVE  PartsInv'
  <1> SUFFICES ASSUME NEW i \in 1..Len(plan')
               PROVE  /\ plan'[i] = Do("add", {"unit"}) =>
                             \/ "bin" \in installed'
                             \/ \E j \in 1..(i - 1) : plan'[j] = Do("add", {"bin"})
                      /\ plan'[i] = Do("remove", {"bin"}) =>
                             \/ "unit" \notin installed'
                             \/ \E j \in 1..(i - 1) : plan'[j] = Do("remove", {"unit"})
    BY DEF PartsInv, Do
  <1>1. /\ i + 1 \in 1..Len(plan) /\ plan'[i] = plan[i + 1]
        /\ 1 \in 1..Len(plan) /\ i \in Nat /\ (i + 1) - 1 = i
    BY Tailed
  <1>2. ASSUME NEW j \in 1..i, j # 1
        PROVE  j - 1 \in 1..(i - 1) /\ plan'[j - 1] = plan[j]
    BY <1>1, <1>2, Tailed
  <1>3. ASSUME plan[i + 1] = Do("add", {"unit"})
        PROVE  \/ "bin" \in installed'
               \/ \E j \in 1..(i - 1) : plan'[j] = Do("add", {"bin"})
    <2>0. plan[i + 1].do = "add"
      BY <1>3 DEF Do
    <2>1. plan[1].do \in {"add", "save"}
      BY <1>1, <2>0 DEF OrderInv
    <2>2. CASE "bin" \in installed
      BY <2>1, <2>2
    <2>3. ASSUME NEW j \in 1..i, plan[j] = Do("add", {"bin"})
          PROVE  \/ "bin" \in installed'
                 \/ \E k \in 1..(i - 1) : plan'[k] = Do("add", {"bin"})
      BY <1>2, <2>1, <2>3 DEF Do
    <2> QED BY <1>1, <1>3, <2>2, <2>3 DEF PartsInv
  <1>4. ASSUME plan[i + 1] = Do("remove", {"bin"})
        PROVE  \/ "unit" \notin installed'
               \/ \E j \in 1..(i - 1) : plan'[j] = Do("remove", {"unit"})
    <2>1. plan[i + 1].do = "remove" /\ plan[1].do # "add"
      BY <1>1, <1>4 DEF OrderInv, Do
    <2>2. CASE "unit" \notin installed
      BY <2>1, <2>2
    <2>3. ASSUME NEW j \in 1..i, plan[j] = Do("remove", {"unit"})
          PROVE  \/ "unit" \notin installed'
                 \/ \E k \in 1..(i - 1) : plan'[k] = Do("remove", {"unit"})
      BY <1>2, <2>1, <2>3 DEF Do
    <2> QED BY <1>1, <1>4, <2>2, <2>3 DEF PartsInv
  <1> QED BY <1>1, <1>3, <1>4

(* What is to follow in a plan still can, after an action of it that undoes   *)
(* nothing of the devices that are given back.                               *)
LEMMA PlanKept ==
    ASSUME IInv, plan # <<>>, plan' = Tail(plan),
           plan[1].do = "save" => recorded' = plan[1].on,
           plan[1].do = "start" => recorded' = recorded,
           plan[1].do # "save" => recorded' \subseteq recorded,
           rules' = (IF plan[1].do = "rules" THEN plan[1].on ELSE rules),
           installed' = CASE plan[1].do = "add"    -> installed \cup plan[1].on
                          [] plan[1].do = "remove" -> installed \ plan[1].on
                          [] OTHER                 -> installed,
           plan[1].do \notin {"rules", "start"} => \A D : Keeps(D),
           plan[1].do = "rules" => \A D : D \cap rules' = {} => Keeps(D),
           \A D : plan[1] = Do("stop", D) => Stopped(D)',
           \A D : plan[1] = Do("clean", D) => OffBus(D)',
           \A D : plan[1] = Do("clear", D) => Cleared(D)',
           \A D : plan[1] = Do("unbind", D) => Unbound(D)',
           \A d \in Devices : plan[1] = Do("probe", {d}) => Returned({d})'
    PROVE  PlanInv'
  <1> USE DEF IInv, PlanInv
  <1>1. ASSUME NEW i \in 2..Len(plan), NEW p, p = plan[i], p.do \in Stages
        PROVE  Keeps(p.on)
    <2>1. 1 \in 1..Len(plan) /\ i \in 1..Len(plan) /\ 1 < i /\ i > 1
      BY Tailed
    <2>2. plan[1].do # "start"
      BY <1>1, <2>1 DEF OrderInv, Stages
    <2>3. plan[1].do = "rules" => p.on \cap rules' = {}
      BY <1>1, <2>1 DEF RuleInv, Stages
    <2> QED BY <2>2, <2>3
  <1>2. ASSUME NEW i \in 2..Len(plan), NEW d \in recorded,
               plan[i].do = "remove" \/ (plan[i].do = "save" /\ d \notin plan[i].on)
        PROVE  Keeps({d})
    <2>1. 1 \in 1..Len(plan) /\ i \in 1..Len(plan) /\ 1 < i /\ i > 1
      BY Tailed
    <2>2. plan[1].do # "start"
      BY <1>2, <2>1 DEF OrderInv
    <2>3. plan[1].do = "rules" => {d} \cap rules' = {}
      BY <1>2, <2>1 DEF RuleInv, Stages
    <2> QED BY <2>2, <2>3
  <1>3. OneInv' /\ OrderInv'
    BY OrderKept
  <1>4. RuleInv'
    BY RuleKept
  <1>5. StageInv'
    BY <1>1, StageKept
  <1>6. GiveBackInv'
    BY <1>2, GiveBackKept
  <1>7. PartsInv'
    BY PartsKept
  <1> QED BY <1>3, <1>4, <1>5, <1>6, <1>7

(* The plan of a command is not touched by the services. *)
LEMMA PlanStays ==
    ASSUME IInv, UNCHANGED <<installed, plan, files>>,
           \A D : Keeps(D)
    PROVE  PlanInv'
  <1> USE DEF IInv, PlanInv, files
  <1>1. OneInv' /\ OrderInv' /\ RuleInv' /\ PartsInv'
    BY DEF OneInv, OrderInv, RuleInv, PartsInv
  <1>2. ASSUME NEW i \in 1..Len(plan), NEW p, p = plan[i]
        PROVE  /\ p.do = "stop" => plan'[1].do = "rules" \/ p.on \cap rules' = {}
               /\ p.do = "clean" => Before(i, "stop")' \/ Stopped(p.on)'
               /\ p.do = "clear" => Before(i, "clean")' \/ OffBus(p.on)'
               /\ p.do = "unbind" => Before(i, "clear")' \/ Cleared(p.on)'
               /\ p.do = "probe" => Before(i, "unbind")' \/ Unbound(p.on)'
    <2>1. /\ p.do = "stop" => plan[1].do = "rules" \/ p.on \cap rules = {}
          /\ p.do = "clean" => Before(i, "stop") \/ Stopped(p.on)
          /\ p.do = "clear" => Before(i, "clean") \/ OffBus(p.on)
          /\ p.do = "unbind" => Before(i, "clear") \/ Cleared(p.on)
          /\ p.do = "probe" => Before(i, "unbind") \/ Unbound(p.on)
      BY <1>2 DEF StageInv
    <2>2. \A w : Before(i, w) <=> Before(i, w)'
      BY DEF Before
    <2> QED BY <2>1, <2>2 DEF Keeps
  <1>3. StageInv'
    <2> SUFFICES ASSUME NEW i \in 1..Len(plan'), NEW p, p = plan'[i]
                 PROVE  /\ p.do = "stop" => plan'[1].do = "rules" \/ p.on \cap rules' = {}
                        /\ p.do = "clean" => Before(i, "stop")' \/ Stopped(p.on)'
                        /\ p.do = "clear" => Before(i, "clean")' \/ OffBus(p.on)'
                        /\ p.do = "unbind" => Before(i, "clear")' \/ Cleared(p.on)'
                        /\ p.do = "probe" => Before(i, "unbind")' \/ Unbound(p.on)'
      BY DEF StageInv, Stopped, OffBus, Cleared, Unbound
    <2> QED BY <1>2
  <1>4. GiveBackInv'
    <2>1. \A d : Returned({d}) => Returned({d})'
      BY DEF Keeps
    <2>2. ASSUME NEW d, NEW i, Given(d, i)
          PROVE  Given(d, i)'
      BY <2>1, <2>2 DEF Given, Do
    <2> QED BY <2>2 DEF GiveBackInv
  <1> QED BY <1>1, <1>3, <1>4

-----------------------------------------------------------------------------
(* One lemma per action. *)

(* Nothing is left to be done before the first action of a plan. *)
LEMMA GivenFirst ==
    ASSUME NEW d, Given(d, 1)
    PROVE  Returned({d})
  <1>1. 1..(1 - 1) = {}
    OBVIOUS
  <1> QED BY <1>1 DEF Given

(* What the first action of a plan relies on has been done. *)
LEMMA StageFirst ==
    ASSUME StageInv, 1 \in 1..Len(plan)
    PROVE  /\ plan[1].do = "clean" => Stopped(plan[1].on)
           /\ plan[1].do = "clear" => OffBus(plan[1].on)
           /\ plan[1].do = "unbind" => Cleared(plan[1].on)
           /\ plan[1].do = "probe" => Unbound(plan[1].on)
  <1>1. \A w : ~Before(1, w)
    BY DEF Before
  <1>2. \A i \in 1..Len(plan) :
            /\ plan[i].do = "clean" => Before(i, "stop") \/ Stopped(plan[i].on)
            /\ plan[i].do = "clear" => Before(i, "clean") \/ OffBus(plan[i].on)
            /\ plan[i].do = "unbind" => Before(i, "clear") \/ Cleared(plan[i].on)
            /\ plan[i].do = "probe" => Before(i, "unbind") \/ Unbound(plan[i].on)
    BY DEF StageInv
  <1> QED BY <1>1, <1>2

(* What has been put in place, the program before the unit. *)
LEMMA AddPartKeeps ==
    ASSUME IInv, AddPart
    PROVE  IInv'
  <1> USE DEF IInv, AddPart, Running, files, services, pciState
  <1>1. /\ 1 \in 1..Len(plan) /\ Head(plan) = plan[1] /\ plan[1].do = "add"
        /\ plan # <<>> /\ plan' = Tail(plan)
        /\ Target \in Parts /\ plan[1].on = {Target}
    BY Tailed, TheTarget DEF PlanInv
  <1>2. TypeOK'
    BY <1>1, Tailed DEF TypeOK
  <1>3. \A D : Keeps(D)
    BY DEF Keeps, Stopped, OffBus, Cleared, Unbound, Returned
  <1>4. PlanInv'
    BY <1>1, <1>3, PlanKept DEF Do
  <1>5. Target = "unit" => "bin" \in installed
    <2>1. ASSUME Target = "unit"
          PROVE  plan[1] = Do("add", {"unit"})
      BY <1>1, <2>1, Tailed DEF Do, Action
    <2> QED BY <1>1, <2>1 DEF PlanInv, PartsInv
  <1>6. HostInv'
    BY <1>1, <1>3, <1>5 DEF HostInv, Keeps
  <1> QED BY <1>2, <1>4, <1>6

(* A part goes once no device needs it, the program after the unit. *)
LEMMA RemovePartKeeps ==
    ASSUME IInv, RemovePart
    PROVE  IInv'
  <1> USE DEF IInv, RemovePart, Running, files, services, pciState
  <1>1. /\ 1 \in 1..Len(plan) /\ Head(plan) = plan[1] /\ plan[1].do = "remove"
        /\ plan # <<>> /\ plan' = Tail(plan)
        /\ Target \in Parts /\ plan[1].on = {Target}
    BY Tailed, TheTarget DEF PlanInv
  <1>2. TypeOK'
    BY <1>1, Tailed DEF TypeOK
  <1>3. \A D : Keeps(D)
    BY DEF Keeps, Stopped, OffBus, Cleared, Unbound, Returned
  <1>4. PlanInv'
    BY <1>1, <1>3, PlanKept DEF Do
  <1>5. Target = "bin" => "unit" \notin installed
    <2>1. ASSUME Target = "bin"
          PROVE  plan[1] = Do("remove", {"bin"})
      BY <1>1, <2>1, Tailed DEF Do, Action
    <2> QED BY <1>1, <2>1 DEF PlanInv, PartsInv
  <1>6. \A d \in Devices : Returned({d})
    BY <1>1, GivenFirst DEF PlanInv, GiveBackInv, HostInv
  <1>7. \A d \in Devices : Returned({d})'
    BY <1>3, <1>6 DEF Keeps
  <1>8. wanted \cup active \cup onBus \cup {d \in Devices : driver[d] = "vfio"} = {}
    BY <1>6 DEF Returned, Cleared, OffBus, Stopped, TypeOK
  <1>9. HostInv'
    BY <1>1, <1>5, <1>7, <1>8 DEF HostInv
  <1> QED BY <1>2, <1>4, <1>9

(* A device loses its record once it has been given back. *)
LEMMA SaveConfigKeeps ==
    ASSUME IInv, SaveConfig
    PROVE  IInv'
  <1> USE DEF IInv, SaveConfig, Running, files, services, pciState
  <1>1. /\ 1 \in 1..Len(plan) /\ Head(plan) = plan[1] /\ plan[1].do = "save"
        /\ plan # <<>> /\ plan' = Tail(plan) /\ plan[1].on \subseteq Devices
    BY Tailed DEF Action
  <1>2. TypeOK'
    BY <1>1, Tailed DEF TypeOK
  <1>3. \A D : Keeps(D)
    BY DEF Keeps, Stopped, OffBus, Cleared, Unbound, Returned
  <1>4. PlanInv'
    BY <1>1, <1>3, PlanKept DEF Do
  <1>5. \A d \in Devices \ plan[1].on : Returned({d})
    BY <1>1, GivenFirst DEF PlanInv, GiveBackInv, HostInv
  <1>6. HostInv'
    BY <1>1, <1>3, <1>5 DEF HostInv, Keeps
  <1> QED BY <1>2, <1>4, <1>6

(* The rules are for recorded devices. *)
LEMMA WriteRulesKeeps ==
    ASSUME IInv, WriteRules
    PROVE  IInv'
  <1> USE DEF IInv, WriteRules, Running, files, services, pciState
  <1>1. /\ 1 \in 1..Len(plan) /\ Head(plan) = plan[1] /\ plan[1].do = "rules"
        /\ plan # <<>> /\ plan' = Tail(plan) /\ plan[1].on \subseteq Devices
    BY Tailed DEF Action
  <1>2. TypeOK'
    BY <1>1, Tailed DEF TypeOK
  <1>3. \A D : D \cap rules' = {} => Keeps(D)
    BY DEF Keeps, Stopped, OffBus, Cleared, Unbound, Returned
  <1>4. PlanInv'
    BY <1>1, <1>3, PlanKept DEF Do
  <1>5. rules' \subseteq recorded
    BY <1>1 DEF PlanInv, RuleInv
  <1>6. HostInv'
    BY <1>3, <1>5 DEF HostInv, Keeps
  <1> QED BY <1>2, <1>4, <1>6

(* A service is started for a recorded device. *)
LEMMA StartServiceKeeps ==
    ASSUME IInv, StartService
    PROVE  IInv'
  <1> USE DEF IInv, StartService, Running, files, services, pciState
  <1>1. /\ 1 \in 1..Len(plan) /\ Head(plan) = plan[1] /\ plan[1].do = "start"
        /\ plan # <<>> /\ plan' = Tail(plan)
        /\ Target \in Devices /\ plan[1].on = {Target}
    BY Tailed, TheTarget DEF PlanInv
  <1>2. TypeOK'
    BY <1>1, Tailed DEF TypeOK
  <1>3. PlanInv'
    BY <1>1, PlanKept DEF Do
  <1>4. Target \in recorded
    BY <1>1 DEF PlanInv, RuleInv
  <1>5. HostInv'
    BY <1>4 DEF HostInv, Returned, Cleared, OffBus, Stopped
  <1> QED BY <1>2, <1>3, <1>5

(* The service goes, with the device that it put on the bus. *)
LEMMA StopServiceKeeps ==
    ASSUME IInv, StopService
    PROVE  IInv'
  <1> USE DEF IInv, StopService, Running, files, services, pciState
  <1>1. /\ 1 \in 1..Len(plan) /\ Head(plan) = plan[1] /\ plan[1].do = "stop"
        /\ plan # <<>> /\ plan' = Tail(plan)
        /\ Target \in Devices /\ plan[1].on = {Target}
    BY Tailed, TheTarget DEF PlanInv, Stages
  <1>2. TypeOK'
    BY <1>1, Tailed DEF TypeOK
  <1>3. wanted' \subseteq wanted /\ active' \subseteq active /\ onBus' \subseteq onBus
    OBVIOUS
  <1>4. \A D : Keeps(D)
    BY <1>3 DEF Keeps, Stopped, OffBus, Cleared, Unbound, Returned
  <1>5. Target \notin rules \cup wanted' \cup active'
    BY <1>1 DEF PlanInv, StageInv, HostInv
  <1>6. \A D : plan[1] = Do("stop", D) => Stopped(D)'
    BY <1>1, <1>5 DEF Stopped, Do
  <1>7. PlanInv'
    BY <1>1, <1>4, <1>6, PlanKept DEF Do
  <1>8. HostInv'
    BY <1>3, <1>4 DEF HostInv, Keeps
  <1> QED BY <1>2, <1>7, <1>8

(* What a guest that was killed left on the bus goes. *)
LEMMA RemoveLeftoversKeeps ==
    ASSUME IInv, RemoveLeftovers
    PROVE  IInv'
  <1> USE DEF IInv, RemoveLeftovers, Running, files, services, pciState
  <1>1. /\ 1 \in 1..Len(plan) /\ Head(plan) = plan[1] /\ plan[1].do = "clean"
        /\ plan # <<>> /\ plan' = Tail(plan)
        /\ Target \in Devices /\ plan[1].on = {Target}
    BY Tailed, TheTarget DEF PlanInv, Stages
  <1>2. TypeOK'
    BY <1>1, Tailed DEF TypeOK
  <1>3. \A D : Keeps(D)
    BY DEF Keeps, Stopped, OffBus, Cleared, Unbound, Returned
  <1>4. Stopped(plan[1].on)
    BY <1>1, StageFirst DEF PlanInv
  <1>5. \A D : plan[1] = Do("clean", D) => OffBus(D)'
    BY <1>1, <1>4 DEF OffBus, Stopped, Do
  <1>6. PlanInv'
    BY <1>1, <1>3, <1>5, PlanKept DEF Do
  <1>7. HostInv'
    BY <1>3 DEF HostInv, Keeps
  <1> QED BY <1>2, <1>6, <1>7

(* The device may have its host driver again. *)
LEMMA ClearOverrideKeeps ==
    ASSUME IInv, ClearOverride
    PROVE  IInv'
  <1> USE DEF IInv, ClearOverride, Running, files, services, pciState
  <1>1. /\ 1 \in 1..Len(plan) /\ Head(plan) = plan[1] /\ plan[1].do = "clear"
        /\ plan # <<>> /\ plan' = Tail(plan)
        /\ Target \in Devices /\ plan[1].on = {Target}
    BY Tailed, TheTarget DEF PlanInv, Stages
  <1>2. TypeOK'
    BY <1>1, Tailed DEF TypeOK
  <1>3. \A D : Keeps(D)
    BY DEF Keeps, Stopped, OffBus, Cleared, Unbound, Returned
  <1>4. OffBus(plan[1].on)
    BY <1>1, StageFirst DEF PlanInv
  <1>5. \A D : plan[1] = Do("clear", D) => Cleared(D)'
    BY <1>1, <1>4 DEF Cleared, OffBus, Stopped, Do
  <1>6. PlanInv'
    BY <1>1, <1>3, <1>5, PlanKept DEF Do
  <1>7. HostInv'
    BY <1>3 DEF HostInv, Keeps
  <1> QED BY <1>2, <1>6, <1>7

(* The device is taken from VFIO. *)
LEMMA UnbindVFIOKeeps ==
    ASSUME IInv, UnbindVFIO
    PROVE  IInv'
  <1> USE DEF IInv, UnbindVFIO, Running, files, services, pciState
  <1>1. /\ 1 \in 1..Len(plan) /\ Head(plan) = plan[1] /\ plan[1].do = "unbind"
        /\ plan # <<>> /\ plan' = Tail(plan)
        /\ Target \in Devices /\ plan[1].on = {Target}
    BY Tailed, TheTarget DEF PlanInv, Stages
  <1>2. TypeOK'
    BY <1>1, Tailed DEF TypeOK
  <1>3. /\ driver'[Target] # "vfio"
        /\ \A d \in Devices : /\ driver[d] = "host" => driver'[d] = "host"
                              /\ driver[d] # "vfio" => driver'[d] # "vfio"
        /\ \A d : d \notin Devices => driver'[d] = driver[d]
    BY <1>1 DEF TypeOK
  <1>4. \A D : Keeps(D)
    BY <1>3 DEF Keeps, Stopped, OffBus, Cleared, Unbound, Returned
  <1>5. Cleared(plan[1].on)
    BY <1>1, StageFirst DEF PlanInv
  <1>6. \A D : plan[1] = Do("unbind", D) => Unbound(D)'
    BY <1>1, <1>3, <1>5 DEF Unbound, Cleared, OffBus, Stopped, Do
  <1>7. PlanInv'
    BY <1>1, <1>4, <1>6, PlanKept DEF Do
  <1>8. HostInv'
    BY <1>3, <1>4 DEF HostInv, Keeps
  <1> QED BY <1>2, <1>7, <1>8

(* The device gets its host driver back. *)
LEMMA ProbeDriverKeeps ==
    ASSUME IInv, ProbeDriver
    PROVE  IInv'
  <1> USE DEF IInv, ProbeDriver, Running, files, services, pciState
  <1>1. /\ 1 \in 1..Len(plan) /\ Head(plan) = plan[1] /\ plan[1].do = "probe"
        /\ plan # <<>> /\ plan' = Tail(plan)
        /\ Target \in Devices /\ plan[1].on = {Target}
    BY Tailed, TheTarget DEF PlanInv, Stages
  <1>2. TypeOK'
    BY <1>1, Tailed DEF TypeOK
  <1>3. Unbound(plan[1].on)
    BY <1>1, StageFirst DEF PlanInv
  <1>4. /\ driver'[Target] = "host"
        /\ \A d : d # Target => driver'[d] = driver[d]
    BY <1>1, <1>3 DEF TypeOK, Unbound, Cleared
  <1>5. \A D : Keeps(D)
    BY <1>4 DEF Keeps, Stopped, OffBus, Cleared, Unbound, Returned
  <1>6. \A d \in Devices : plan[1] = Do("probe", {d}) => Returned({d})'
    BY <1>1, <1>3, <1>4 DEF Returned, Unbound, Cleared, OffBus, Stopped, Do
  <1>7. PlanInv'
    BY <1>1, <1>5, <1>6, PlanKept DEF Do
  <1>8. HostInv'
    BY <1>4, <1>5 DEF HostInv, Keeps
  <1> QED BY <1>2, <1>7, <1>8

(* A command that stops early may have done half of its next action. *)
LEMMA StopEarlyKeeps ==
    ASSUME IInv, StopEarly
    PROVE  IInv'
  <1> USE DEF IInv, StopEarly, files, services, pciState
  <1>1. Head(plan) = plan[1] /\ 1 \in 1..Len(plan)
    BY Dequeued DEF TypeOK
  <1>2. plan[1].do \in {"start", "stop"} => Target \in Devices /\ plan[1].on = {Target}
    BY TheTarget DEF PlanInv, Stages
  <1>3. plan[1].do = "start" => Target \in recorded
    BY <1>1, <1>2 DEF PlanInv, RuleInv
  <1>4. /\ wanted' \subseteq Devices /\ wanted' \subseteq wanted \cup recorded
        /\ installed' \subseteq installed /\ installed \subseteq installed' \cup {"lib"}
        /\ wanted' # wanted => "unit" \in installed'
    BY <1>1, <1>2, <1>3 DEF TypeOK
  <1>5. TypeOK'
    BY <1>4, Ended, FS_CardinalityType, DevicesAssumption DEF TypeOK
  <1>6. HostInv'
    BY <1>4 DEF HostInv, Returned, Cleared, OffBus, Stopped
  <1> QED BY <1>5, <1>6, Ended

(* The guest of a recorded device takes it. *)
LEMMA ServiceRunsKeeps ==
    ASSUME IInv, NEW d \in Devices, ServiceRuns(d)
    PROVE  IInv'
  <1> USE DEF IInv, ServiceRuns, files, services, pciState
  <1>1. TypeOK'
    BY DEF TypeOK
  <1>2. \A e : e # d => driver'[e] = driver[e]
    BY DEF TypeOK
  <1>3. \A D : Stopped(D) => d \notin D
    BY DEF Stopped
  <1>4. \A D : Keeps(D)
    BY <1>2, <1>3 DEF Keeps, Stopped, OffBus, Cleared, Unbound, Returned
  <1>5. PlanInv'
    BY <1>4, PlanStays
  <1>6. HostInv'
    BY <1>2, <1>4 DEF HostInv, Keeps
  <1> QED BY <1>1, <1>5, <1>6

(* A service that has failed holds less. *)
LEMMA ServiceFailsKeeps ==
    ASSUME IInv, NEW d \in Devices, ServiceFails(d)
    PROVE  IInv'
  <1> USE DEF IInv, ServiceFails, files, services, pciState
  <1>1. TypeOK'
    BY DEF TypeOK
  <1>2. active' \subseteq active /\ onBus' \subseteq onBus
    OBVIOUS
  <1>3. \A D : Keeps(D)
    BY <1>2 DEF Keeps, Stopped, OffBus, Cleared, Unbound, Returned
  <1>4. PlanInv'
    BY <1>3, PlanStays
  <1>5. HostInv'
    BY <1>2, <1>3 DEF HostInv, Keeps
  <1> QED BY <1>1, <1>4, <1>5

(* A device without a record comes up with its host driver. *)
LEMMA RebootKeeps ==
    ASSUME IInv, Reboot
    PROVE  IInv'
  <1> USE DEF IInv, Reboot, files
  <1>1. TypeOK'
    BY Ended, FS_CardinalityType, DevicesAssumption DEF TypeOK
  <1>2. rules \cup wanted \subseteq recorded
    BY DEF HostInv, Returned, Cleared, OffBus, Stopped, TypeOK
  <1>3. HostInv'
    BY <1>2 DEF HostInv, Returned, Cleared, OffBus, Stopped, TypeOK
  <1> QED BY <1>1, <1>3, Ended

-----------------------------------------------------------------------------
(* What each command plans. *)

(* The r-th stage of the q-th device is where StagesOf looks for it.       *)
LEMMA Fifth ==
    ASSUME NEW q \in Nat, NEW r \in 1..5, NEW i, i = 5 * q + r
    PROVE  (i - 1) \div 5 = q /\ (i - 1) % 5 = r - 1
  OBVIOUS

(* Every place in five stages for each of n devices is one of them.        *)
LEMMA FifthOf ==
    ASSUME NEW n \in Nat, NEW i \in 1..(5 * n)
    PROVE  \E q \in 0..(n - 1), r \in 1..5 : i = 5 * q + r
  <1> DEFINE q == (i - 1) \div 5
             r == ((i - 1) % 5) + 1
  <1>1. q \in 0..(n - 1) /\ r \in 1..5 /\ i = 5 * q + r
    OBVIOUS
  <1> QED BY <1>1

(* What StagesOf holds, and where.                                         *)
LEMMA StagesShape ==
    ASSUME NEW names \in Seq(Devices)
    PROVE  /\ StagesOf(names) \in Seq(Action) /\ Len(StagesOf(names)) = 5 * Len(names)
           /\ Len(names) \in Nat
           /\ \A q \in 0..(Len(names) - 1), r \in 1..5 :
                  StagesOf(names)[5 * q + r] = DisableStages(names[q + 1])[r]
  <1> PICK n \in Nat : n = Len(names)
    OBVIOUS
  <1>1. \A d \in Devices, r \in 1..5 : DisableStages(d)[r] \in Action
    BY DEF DisableStages, Action, Do
  <1>2. ASSUME NEW i \in 1..(5 * n)
        PROVE  DisableStages(names[((i - 1) \div 5) + 1])[((i - 1) % 5) + 1] \in Action
    <2>1. PICK q \in 0..(n - 1), r \in 1..5 : i = 5 * q + r
      BY FifthOf
    <2>2. names[q + 1] \in Devices
      OBVIOUS
    <2>3. ((i - 1) \div 5) + 1 = q + 1 /\ ((i - 1) % 5) + 1 = r
      <3>1. q \in Nat
        OBVIOUS
      <3>2. (i - 1) \div 5 = q /\ (i - 1) % 5 = r - 1
        BY <2>1, <3>1, Fifth
      <3> QED BY <3>2
    <2>4. DisableStages(names[q + 1])[r] \in Action
      BY <1>1, <2>2
    <2> QED BY <2>3, <2>4
  <1>3. 5 * n \in Nat
    OBVIOUS
  <1>4. StagesOf(names) = [i \in 1..(5 * n) |->
            DisableStages(names[((i - 1) \div 5) + 1])[((i - 1) % 5) + 1]]
    BY DEF StagesOf
  <1>5. StagesOf(names) \in Seq(Action) /\ Len(StagesOf(names)) = 5 * n
    <2> HIDE DEF DisableStages
    <2> QED BY <1>2, <1>3, <1>4, IsASeq
  <1>6. ASSUME NEW q \in 0..(n - 1), NEW r \in 1..5
        PROVE  StagesOf(names)[5 * q + r] = DisableStages(names[q + 1])[r]
    <2>1. PICK i \in Int : i = 5 * q + r
      OBVIOUS
    <2>2. i \in 1..(5 * n) /\ ((i - 1) \div 5) + 1 = q + 1 /\ ((i - 1) % 5) + 1 = r
      <3>1. q \in Nat /\ i \in 1..(5 * n)
        BY <2>1
      <3>2. (i - 1) \div 5 = q /\ (i - 1) % 5 = r - 1
        BY <2>1, <3>1, Fifth
      <3> QED BY <3>1, <3>2
    <2>3. StagesOf(names)[i] = DisableStages(names[q + 1])[r]
      BY <1>4, <2>2
    <2> QED BY <2>1, <2>3
  <1> QED BY <1>5, <1>6

(* The stages of the devices, which take up to m + 1, and the parts. *)
Pieces(P, names, m) ==
    /\ m \in Nat /\ P \in Seq(Action) /\ Len(P) = m + 5
    /\ P[1] = Do("rules", {})
    /\ \A i \in 1..m : P[i + 1] = StagesOf(names)[i]
    /\ P[m + 2] = Do("remove", {"user"}) /\ P[m + 3] = Do("remove", {"unit"})
    /\ P[m + 4] = Do("remove", {"lib"}) /\ P[m + 5] = Do("remove", {"bin"})

(* The plan of uninstall, its middle taken as a whole.                     *)
LEMMA UninstallParts ==
    ASSUME NEW names \in Seq(Devices), NEW m, m = Len(StagesOf(names)),
           NEW P, P = UninstallPlan(names)
    PROVE  Pieces(P, names, m)
  <1> PICK h, s, t : h = Do("rules", {}) /\ s = StagesOf(names) /\ t = RemoveParts
    OBVIOUS
  <1>1. h \in Action
    BY DEF Action, Do
  <1>2. s \in Seq(Action) /\ m = Len(s)
    BY StagesShape
  <1>3. t \in Seq(Action)
    BY DEF RemoveParts, Action, Do, Parts
  <1>4. P = (<<h>> \o s) \o t
    BY DEF UninstallPlan
  <1>5. /\ m \in Nat /\ P \in Seq(Action) /\ Len(P) = m + 1 + Len(t)
        /\ P[1] = h
        /\ \A i \in 1..m : P[i + 1] = s[i]
        /\ \A k \in 1..Len(t) : P[m + 1 + k] = t[k]
    BY <1>1, <1>2, <1>3, <1>4, ConcatAround, SMT
  <1>6. /\ 1 \in 1..Len(t) /\ 2 \in 1..Len(t) /\ 3 \in 1..Len(t) /\ 4 \in 1..Len(t)
        /\ Len(t) = 4 /\ t[1] = Do("remove", {"user"}) /\ t[2] = Do("remove", {"unit"})
        /\ t[3] = Do("remove", {"lib"}) /\ t[4] = Do("remove", {"bin"})
    BY DEF RemoveParts
  <1>7. /\ m + 1 + 1 = m + 2 /\ m + 1 + 2 = m + 3 /\ m + 1 + 3 = m + 4
        /\ m + 1 + 4 = m + 5
    BY <1>5
  <1>8. /\ P[m + 2] = t[1] /\ P[m + 3] = t[2] /\ P[m + 4] = t[3] /\ P[m + 5] = t[4]
    BY <1>5, <1>6, <1>7
  <1> QED BY <1>5, <1>6, <1>7, <1>8 DEF Pieces

(* The five stages of each of n devices, which take up to m + 1, and the parts. *)
Shape(P, names, n, m) ==
    /\ m \in Nat /\ m = 5 * n /\ P \in Seq(Action) /\ Len(P) = m + 5
    /\ P[1] = Do("rules", {})
    /\ \A q \in 0..(n - 1), r \in 1..5 :
           P[5 * q + r + 1] = DisableStages(names[q + 1])[r]
    /\ P[m + 2] = Do("remove", {"user"}) /\ P[m + 3] = Do("remove", {"unit"})
    /\ P[m + 4] = Do("remove", {"lib"}) /\ P[m + 5] = Do("remove", {"bin"})
    /\ \A i \in 1..(m + 5) :
           \/ i = 1
           \/ \E q \in 0..(n - 1), r \in 1..5 : i = 5 * q + r + 1
           \/ i \in {m + 2, m + 3, m + 4, m + 5}

(* The plan of uninstall, action by action.                                *)
LEMMA UninstallShape ==
    ASSUME NEW names \in Seq(Devices), NEW P, P = UninstallPlan(names)
    PROVE  Shape(P, names, Len(names), Len(StagesOf(names)))
  <1> PICK n \in Nat : n = Len(names)
    OBVIOUS
  <1> PICK m : m = Len(StagesOf(names))
    OBVIOUS
  <1>1. m = 5 * n
    BY StagesShape
  <1>2. /\ m \in Nat /\ P \in Seq(Action) /\ Len(P) = m + 5
        /\ P[1] = Do("rules", {})
        /\ \A i \in 1..m : P[i + 1] = StagesOf(names)[i]
        /\ P[m + 2] = Do("remove", {"user"}) /\ P[m + 3] = Do("remove", {"unit"})
        /\ P[m + 4] = Do("remove", {"lib"}) /\ P[m + 5] = Do("remove", {"bin"})
    <2>1. Pieces(P, names, m)
      BY UninstallParts
    <2> QED BY <2>1 DEF Pieces
  <1>3. ASSUME NEW q \in 0..(n - 1), NEW r \in 1..5
        PROVE  P[5 * q + r + 1] = DisableStages(names[q + 1])[r]
    <2>1. 5 * q + r \in 1..m
      BY <1>1
    <2> QED BY <1>2, <2>1, StagesShape
  <1>4. ASSUME NEW i \in 1..(m + 5)
        PROVE  \/ i = 1
               \/ \E q \in 0..(n - 1), r \in 1..5 : i = 5 * q + r + 1
               \/ i \in {m + 2, m + 3, m + 4, m + 5}
    <2>1. CASE i > m + 1
      BY <1>2, <2>1
    <2>2. CASE i > 1 /\ i <= m + 1
      <3>1. i - 1 \in 1..m
        BY <2>2
      <3>2. PICK q \in 0..(n - 1), r \in 1..5 : i - 1 = 5 * q + r
        BY <1>1, <3>1, FifthOf
      <3>3. i = 5 * q + r + 1
        BY <3>2
      <3> QED BY <3>3
    <2> QED BY <1>2, <2>1, <2>2
  <1> QED BY <1>1, <1>2, <1>3, <1>4 DEF Shape

(* The plan of install adds the program before the unit.                   *)
LEMMA PlannedInstall ==
    ASSUME IInv, plan' = InstallPlan(recorded), UNCHANGED recorded
    PROVE  PlanInv' /\ plan' \in Seq(Action) /\ Len(plan') <= 5
  <1>1. /\ <<Do("add", {"lib"}), Do("add", {"bin"}),
             Do("add", {"user"}), Do("add", {"unit"})>> \in Seq(Action)
        /\ <<Do("save", {})>> \in Seq(Action) /\ <<>> \in Seq(Action)
    BY DEF Action, Do, Parts
  <1>2. plan' \in Seq(Action)
    BY <1>1, ConcatProperties DEF InstallPlan
  <1>3. /\ Len(plan') = (IF recorded = {} THEN 5 ELSE 4)
        /\ plan'[1] = Do("add", {"lib"}) /\ plan'[2] = Do("add", {"bin"})
        /\ plan'[3] = Do("add", {"user"}) /\ plan'[4] = Do("add", {"unit"})
        /\ recorded = {} => plan'[5] = Do("save", {})
    <2>1. CASE recorded = {}
      BY <2>1 DEF InstallPlan
    <2>2. CASE recorded # {}
      <3>1. InstallPlan(recorded) = <<Do("add", {"lib"}), Do("add", {"bin"}),
                                      Do("add", {"user"}), Do("add", {"unit"})>>
        BY <1>1, <2>2, ConcatEmptySeq DEF InstallPlan
      <3> QED BY <2>2, <3>1
    <2> QED BY <2>1, <2>2
  <1>4. ASSUME NEW i \in 1..Len(plan')
        PROVE  \/ i \in 1..4 /\ plan'[i].do = "add" /\ \E p \in Parts : plan'[i].on = {p}
               \/ i = 5 /\ plan'[i] = Do("save", {}) /\ recorded = {}
    <2>1. i \in 1..4 \/ (i = 5 /\ recorded = {})
      BY <1>3
    <2> QED BY <1>3, <2>1 DEF Do, Parts
  <1>5. OneInv' /\ OrderInv' /\ RuleInv' /\ StageInv' /\ GiveBackInv'
    BY <1>3, <1>4 DEF OneInv, OrderInv, RuleInv, StageInv, GiveBackInv, Do, Stages
  <1>6. PartsInv'
    BY <1>3, <1>4 DEF PartsInv, Do
  <1> QED BY <1>2, <1>3, <1>5, <1>6 DEF PlanInv

(* The plan that enables a device without a record.                        *)
LEMMA EnableNew ==
    ASSUME NEW d \in Devices, NEW cfg \in SUBSET Devices, d \notin cfg,
           NEW P, P = EnablePlan(cfg, d)
    PROVE  /\ Len(P) = 3 /\ P[1] = Do("save", cfg \cup {d})
           /\ P[2] = Do("start", {d}) /\ P[3] = Do("rules", cfg \cup {d})
  BY DEF EnablePlan

(* The plan of enable has its record saved before its service and its rule.*)
LEMMA PlannedEnable ==
    ASSUME IInv, NEW d \in Devices, plan' = EnablePlan(recorded, d), UNCHANGED recorded
    PROVE  PlanInv' /\ plan' \in Seq(Action) /\ Len(plan') <= 5
  <1>1. PICK cfg \in SUBSET Devices : cfg = recorded
    BY DEF IInv, TypeOK
  <1>2. EnablePlan(cfg, d) \in Seq(Action)
    BY DEF EnablePlan, Action, Do
  <1>3. CASE d \in recorded
    <2>1. plan' = <<Do("start", {d}), Do("rules", recorded \cup {d})>>
      BY <1>3 DEF EnablePlan, Do
    <2>2. /\ Len(plan') = 2 /\ plan'[1] = Do("start", {d})
          /\ plan'[2] = Do("rules", recorded \cup {d})
      BY <2>1
    <2>3. 1..Len(plan') = {1, 2}
      BY <2>2
    <2>4. OneInv' /\ OrderInv' /\ RuleInv' /\ StageInv' /\ GiveBackInv' /\ PartsInv'
      BY <1>3, <2>2, <2>3 DEF OneInv, OrderInv, RuleInv, StageInv, GiveBackInv, PartsInv,
                              Do, Stages
    <2> QED BY <1>1, <1>2, <2>2, <2>4 DEF PlanInv
  <1>4. CASE d \notin recorded
    <2>2. /\ Len(plan') = 3 /\ plan'[1] = Do("save", recorded \cup {d})
          /\ plan'[2] = Do("start", {d}) /\ plan'[3] = Do("rules", recorded \cup {d})
      BY <1>1, <1>4, EnableNew
    <2>3. 1..Len(plan') = {1, 2, 3}
      BY <2>2
    <2>4. OneInv' /\ OrderInv' /\ RuleInv' /\ StageInv' /\ GiveBackInv' /\ PartsInv'
      BY <1>4, <2>2, <2>3 DEF OneInv, OrderInv, RuleInv, StageInv, GiveBackInv, PartsInv,
                              Do, Stages
    <2> QED BY <1>1, <1>2, <2>2, <2>4 DEF PlanInv
  <1> QED BY <1>3, <1>4

(* The plan of disable gives the device back before its record goes.       *)
LEMMA PlannedDisable ==
    ASSUME IInv, NEW d \in recorded, plan' = DisablePlan(recorded, d), UNCHANGED recorded
    PROVE  PlanInv' /\ plan' \in Seq(Action) /\ Len(plan') = 7
  <1>1. d \in Devices /\ recorded \in SUBSET Devices
    BY DEF IInv, TypeOK
  <1>2. plan' \in Seq(Action)
    BY <1>1 DEF DisablePlan, DisableStages, Action, Do
  <1>3. /\ Len(plan') = 7 /\ plan'[1] = Do("rules", recorded \ {d})
        /\ plan'[2] = Do("stop", {d}) /\ plan'[3] = Do("clean", {d})
        /\ plan'[4] = Do("clear", {d}) /\ plan'[5] = Do("unbind", {d})
        /\ plan'[6] = Do("probe", {d}) /\ plan'[7] = Do("save", recorded \ {d})
    BY DEF DisablePlan, DisableStages
  <1>4. ASSUME NEW i \in 1..Len(plan')
        PROVE  \/ i = 1 /\ plan'[i] = Do("rules", recorded \ {d})
               \/ i = 2 /\ plan'[i] = Do("stop", {d})
               \/ i = 3 /\ plan'[i] = Do("clean", {d})
               \/ i = 4 /\ plan'[i] = Do("clear", {d})
               \/ i = 5 /\ plan'[i] = Do("unbind", {d})
               \/ i = 6 /\ plan'[i] = Do("probe", {d})
               \/ i = 7 /\ plan'[i] = Do("save", recorded \ {d})
    BY <1>3
  <1>5. OneInv'
    BY <1>1, <1>4 DEF OneInv, Do, Stages
  <1>6. OrderInv'
    BY <1>4 DEF OrderInv, Do
  <1>7. RuleInv'
    BY <1>3, <1>4 DEF RuleInv, Do, Stages
  <1>8. StageInv'
    <2>1. /\ Before(3, "stop")' /\ Before(4, "clean")'
          /\ Before(5, "clear")' /\ Before(6, "unbind")'
      BY <1>3 DEF Before, Do
    <2>2. ASSUME NEW i \in 1..Len(plan')
          PROVE  /\ plan'[i].do = "clean" => i = 3
                 /\ plan'[i].do = "clear" => i = 4
                 /\ plan'[i].do = "unbind" => i = 5
                 /\ plan'[i].do = "probe" => i = 6
      BY <1>4 DEF Do
    <2>3. plan'[1].do = "rules"
      BY <1>3 DEF Do
    <2> QED BY <2>1, <2>2, <2>3 DEF StageInv
  <1>9. GiveBackInv'
    BY <1>3, <1>4 DEF GiveBackInv, Given, Do
  <1>10. PartsInv'
    BY <1>4 DEF PartsInv, Do
  <1> QED BY <1>2, <1>3, <1>5, <1>6, <1>7, <1>8, <1>9, <1>10 DEF PlanInv

(* A sequence of all recorded devices holds each of them.                  *)
LEMMA NamesAll ==
    ASSUME NEW cfg \in SUBSET Devices, NEW names \in SetToSeqs(cfg)
    PROVE  /\ names \in [1..Cardinality(cfg) -> cfg] /\ Cardinality(cfg) \in Nat
           /\ Cardinality(cfg) <= Cardinality(Devices) /\ Cardinality(Devices) \in Nat
           /\ \A d \in cfg : \E k \in 1..Cardinality(cfg) : names[k] = d
  <1>1. /\ IsFiniteSet(cfg) /\ Cardinality(cfg) \in Nat
        /\ Cardinality(cfg) <= Cardinality(Devices) /\ Cardinality(Devices) \in Nat
    BY DevicesAssumption, FS_Subset, FS_CardinalityType
  <1>2. names \in [1..Cardinality(cfg) -> cfg]
    BY DEF SetToSeqs
  <1>3. names \in Injection(1..Cardinality(cfg), cfg)
    BY <1>2 DEF SetToSeqs, Injection, IsInjective
  <1>4. Cardinality(1..Cardinality(cfg)) = Cardinality(cfg)
    BY <1>1, FS_Interval
  <1>5. names \in Surjection(1..Cardinality(cfg), cfg)
    BY <1>1, <1>3, <1>4, FS_Injection
  <1> QED BY <1>1, <1>2, <1>5 DEF Surjection

(* What the proof needs of these: each stage follows the one that it relies on, *)
(* each device has its driver probed, and the parts are gone for at the end.    *)
Steps(P, cfg, m) ==
    /\ m \in Nat /\ m <= 5 * Cardinality(Devices)
    /\ P \in Seq(Action) /\ Len(P) = m + 5
    /\ P[1] = Do("rules", {}) /\ P[m + 3] = Do("remove", {"unit"})
    /\ \A d \in cfg : \E j \in 2..(m + 1) : P[j] = Do("probe", {d})
    /\ \A i \in 1..Len(P) :
           \/ i = 1
           \/ i > 1 /\ \E d \in cfg :
                  \/ P[i] = Do("stop", {d})
                  \/ P[i] = Do("clean", {d}) /\ P[i - 1] = Do("stop", {d})
                  \/ P[i] = Do("clear", {d}) /\ P[i - 1] = Do("clean", {d})
                  \/ P[i] = Do("unbind", {d}) /\ P[i - 1] = Do("clear", {d})
                  \/ P[i] = Do("probe", {d}) /\ P[i - 1] = Do("unbind", {d})
           \/ i = m + 2 /\ P[i] = Do("remove", {"user"})
           \/ i = m + 3 /\ P[i] = Do("remove", {"unit"})
           \/ i = m + 4 /\ P[i] = Do("remove", {"lib"})
           \/ i = m + 5 /\ P[i] = Do("remove", {"bin"})

(* The plan of uninstall gives every recorded device back.                 *)
LEMMA UninstallSteps ==
    ASSUME NEW cfg \in SUBSET Devices, NEW names \in SetToSeqs(cfg),
           NEW m, m = Len(StagesOf(names)), NEW P, P = UninstallPlan(names)
    PROVE  Steps(P, cfg, m)
  <1>1. /\ names \in [1..Cardinality(cfg) -> cfg] /\ Cardinality(cfg) \in Nat
        /\ Cardinality(cfg) <= Cardinality(Devices) /\ Cardinality(Devices) \in Nat
        /\ \A d \in cfg : \E k \in 1..Cardinality(cfg) : names[k] = d
    BY NamesAll
  <1>2. PICK n \in Nat : n = Cardinality(cfg)
    BY <1>1
  <1>3. /\ names \in Seq(Devices) /\ n = Len(names)
        /\ \A k \in 1..n : names[k] \in cfg
        /\ \A d \in cfg : \E k \in 1..n : names[k] = d
    BY <1>1, <1>2
  <1>4. /\ m \in Nat /\ m = 5 * n /\ P \in Seq(Action) /\ Len(P) = m + 5
        /\ P[1] = Do("rules", {})
        /\ \A q \in 0..(n - 1), r \in 1..5 :
               P[5 * q + r + 1] = DisableStages(names[q + 1])[r]
        /\ P[m + 2] = Do("remove", {"user"}) /\ P[m + 3] = Do("remove", {"unit"})
        /\ P[m + 4] = Do("remove", {"lib"}) /\ P[m + 5] = Do("remove", {"bin"})
        /\ \A i \in 1..(m + 5) :
               \/ i = 1
               \/ \E q \in 0..(n - 1), r \in 1..5 : i = 5 * q + r + 1
               \/ i \in {m + 2, m + 3, m + 4, m + 5}
    <2>1. Shape(P, names, n, m)
      BY <1>3, UninstallShape
    <2> QED BY <2>1 DEF Shape
  <1>5. ASSUME NEW k \in 1..n
        PROVE  /\ 5 * k - 3 \in 2..(m + 1) /\ 5 * k + 1 \in 2..(m + 1)
               /\ P[5 * k - 3] = Do("stop", {names[k]})
               /\ P[5 * k - 2] = Do("clean", {names[k]})
               /\ P[5 * k - 1] = Do("clear", {names[k]})
               /\ P[5 * k] = Do("unbind", {names[k]})
               /\ P[5 * k + 1] = Do("probe", {names[k]})
    <2>1. PICK q \in 0..(n - 1) : q = k - 1
      OBVIOUS
    <2>2. /\ P[5 * q + 1 + 1] = DisableStages(names[k])[1]
          /\ P[5 * q + 2 + 1] = DisableStages(names[k])[2]
          /\ P[5 * q + 3 + 1] = DisableStages(names[k])[3]
          /\ P[5 * q + 4 + 1] = DisableStages(names[k])[4]
          /\ P[5 * q + 5 + 1] = DisableStages(names[k])[5]
      <3>1. k = q + 1 /\ 1 \in 1..5 /\ 2 \in 1..5 /\ 3 \in 1..5 /\ 4 \in 1..5 /\ 5 \in 1..5
        BY <2>1
      <3> QED BY <1>4, <3>1
    <2>3. /\ 5 * k - 3 = 5 * q + 1 + 1 /\ 5 * k - 2 = 5 * q + 2 + 1
          /\ 5 * k - 1 = 5 * q + 3 + 1 /\ 5 * k = 5 * q + 4 + 1
          /\ 5 * k + 1 = 5 * q + 5 + 1
      BY <2>1
    <2>4. 5 * k - 3 \in 2..(m + 1) /\ 5 * k + 1 \in 2..(m + 1)
      BY <1>4
    <2> QED BY <2>2, <2>3, <2>4 DEF DisableStages
  <1>6. ASSUME NEW i \in 1..Len(P)
        PROVE  \/ i = 1
               \/ \E k \in 1..n : i \in {5 * k - 3, 5 * k - 2, 5 * k - 1, 5 * k, 5 * k + 1}
               \/ i \in {m + 2, m + 3, m + 4, m + 5}
    <2>1. ASSUME NEW q \in 0..(n - 1), NEW r \in 1..5, i = 5 * q + r + 1
          PROVE  \E k \in 1..n : i \in {5 * k - 3, 5 * k - 2, 5 * k - 1, 5 * k, 5 * k + 1}
      <3>1. PICK k \in 1..n : k = q + 1
        OBVIOUS
      <3>2. i \in {5 * k - 3, 5 * k - 2, 5 * k - 1, 5 * k, 5 * k + 1}
        BY <2>1, <3>1
      <3> QED BY <3>2
    <2> QED BY <1>4, <2>1
  <1>7. ASSUME NEW i \in 1..Len(P)
        PROVE  \/ i = 1 /\ P[i] = Do("rules", {})
               \/ i > 1 /\ \E d \in cfg :
                      \/ P[i] = Do("stop", {d})
                      \/ P[i] = Do("clean", {d}) /\ P[i - 1] = Do("stop", {d})
                      \/ P[i] = Do("clear", {d}) /\ P[i - 1] = Do("clean", {d})
                      \/ P[i] = Do("unbind", {d}) /\ P[i - 1] = Do("clear", {d})
                      \/ P[i] = Do("probe", {d}) /\ P[i - 1] = Do("unbind", {d})
               \/ i = m + 2 /\ P[i] = Do("remove", {"user"})
               \/ i = m + 3 /\ P[i] = Do("remove", {"unit"})
               \/ i = m + 4 /\ P[i] = Do("remove", {"lib"})
               \/ i = m + 5 /\ P[i] = Do("remove", {"bin"})
    <2>1. CASE i = 1
      BY <1>4, <2>1
    <2>2. ASSUME NEW k \in 1..n,
                 i \in {5 * k - 3, 5 * k - 2, 5 * k - 1, 5 * k, 5 * k + 1}
          PROVE  i > 1 /\ \E d \in cfg :
                     \/ P[i] = Do("stop", {d})
                     \/ P[i] = Do("clean", {d}) /\ P[i - 1] = Do("stop", {d})
                     \/ P[i] = Do("clear", {d}) /\ P[i - 1] = Do("clean", {d})
                     \/ P[i] = Do("unbind", {d}) /\ P[i - 1] = Do("clear", {d})
                     \/ P[i] = Do("probe", {d}) /\ P[i - 1] = Do("unbind", {d})
      <3>1. PICK d \in cfg : d = names[k]
        BY <1>3
      <3>2. /\ i = 5 * k - 2 => i - 1 = 5 * k - 3
            /\ i = 5 * k - 1 => i - 1 = 5 * k - 2
            /\ i = 5 * k => i - 1 = 5 * k - 1
            /\ i = 5 * k + 1 => i - 1 = 5 * k
            /\ i > 1
        BY <2>2
      <3> QED BY <1>5, <2>2, <3>1, <3>2
    <2>3. CASE i \in {m + 2, m + 3, m + 4, m + 5}
      BY <1>4, <2>3
    <2> QED BY <1>6, <2>1, <2>2, <2>3
  <1>8. ASSUME NEW d \in cfg
         PROVE  \E j \in 2..(m + 1) : P[j] = Do("probe", {d})
    <2>1. PICK k \in 1..n : names[k] = d
      BY <1>3
    <2>2. 5 * k + 1 \in 2..(m + 1) /\ P[5 * k + 1] = Do("probe", {d})
      BY <1>5, <2>1
    <2> QED BY <2>2
  <1>9. m <= 5 * Cardinality(Devices)
    BY <1>1, <1>2, <1>4
  <1> QED BY <1>4, <1>7, <1>8, <1>9 DEF Steps

(* The plan of uninstall gives back every device before the parts go.      *)
LEMMA PlannedUninstall ==
    ASSUME IInv, NEW names \in SetToSeqs(recorded), plan' = UninstallPlan(names),
           UNCHANGED recorded
    PROVE  /\ PlanInv' /\ plan' \in Seq(Action)
           /\ Len(plan') <= 5 * Cardinality(Devices) + 5
  <1>1. PICK cfg \in SUBSET Devices : cfg = recorded
    BY DEF IInv, TypeOK
  <1>2. PICK P, m : P = plan' /\ m = Len(StagesOf(names))
    OBVIOUS
  <1>3. names \in SetToSeqs(cfg) /\ P = UninstallPlan(names)
    BY <1>1, <1>2
  <1>4. Steps(P, cfg, m)
    BY <1>2, <1>3, UninstallSteps
  <1>5. ASSUME NEW i \in 1..Len(P)
        PROVE  /\ i = 1 \/ P[i].do \in Stages \cup {"remove"}
               /\ P[i].do \in Stages => \E d \in Devices : P[i].on = {d}
               /\ P[i].do = "remove" => i > m + 1 /\ \E p \in Parts : P[i].on = {p}
               /\ P[i] = Do("remove", {"bin"}) => i = m + 5
               /\ P[i].do = "clean" => i > 1 /\ P[i - 1] = Do("stop", P[i].on)
               /\ P[i].do = "clear" => i > 1 /\ P[i - 1] = Do("clean", P[i].on)
               /\ P[i].do = "unbind" => i > 1 /\ P[i - 1] = Do("clear", P[i].on)
               /\ P[i].do = "probe" => i > 1 /\ P[i - 1] = Do("unbind", P[i].on)
    <2>1. CASE i = 1
      BY <1>4, <2>1 DEF Steps, Do, Stages
    <2>2. ASSUME i > 1, NEW d \in cfg,
                 \/ P[i] = Do("stop", {d})
                 \/ P[i] = Do("clean", {d}) /\ P[i - 1] = Do("stop", {d})
                 \/ P[i] = Do("clear", {d}) /\ P[i - 1] = Do("clean", {d})
                 \/ P[i] = Do("unbind", {d}) /\ P[i - 1] = Do("clear", {d})
                 \/ P[i] = Do("probe", {d}) /\ P[i - 1] = Do("unbind", {d})
          PROVE  /\ P[i].do \in Stages /\ P[i].on = {d} /\ d \in Devices
                 /\ P[i].do = "clean" => P[i - 1] = Do("stop", {d})
                 /\ P[i].do = "clear" => P[i - 1] = Do("clean", {d})
                 /\ P[i].do = "unbind" => P[i - 1] = Do("clear", {d})
                 /\ P[i].do = "probe" => P[i - 1] = Do("unbind", {d})
      BY <2>2 DEF Do, Stages
    <2>3. CASE /\ i \in {m + 2, m + 3, m + 4, m + 5}
               /\ \E p \in Parts : P[i] = Do("remove", {p}) /\ (p = "bin" => i = m + 5)
      <3>1. m \in Nat
        BY <1>4 DEF Steps
      <3>2. PICK p \in Parts : P[i] = Do("remove", {p}) /\ (p = "bin" => i = m + 5)
        BY <2>3
      <3>3. P[i].do = "remove" /\ P[i].on = {p} /\ i > m + 1
        BY <2>3, <3>1, <3>2 DEF Do
      <3>4. P[i] = Do("remove", {"bin"}) => i = m + 5
        BY <3>2, <3>3 DEF Do
      <3> QED BY <3>3, <3>4 DEF Stages
    <2>4. \/ i = 1
          \/ i > 1 /\ \E d \in cfg :
                \/ P[i] = Do("stop", {d})
                \/ P[i] = Do("clean", {d}) /\ P[i - 1] = Do("stop", {d})
                \/ P[i] = Do("clear", {d}) /\ P[i - 1] = Do("clean", {d})
                \/ P[i] = Do("unbind", {d}) /\ P[i - 1] = Do("clear", {d})
                \/ P[i] = Do("probe", {d}) /\ P[i - 1] = Do("unbind", {d})
          \/ /\ i \in {m + 2, m + 3, m + 4, m + 5}
             /\ \E p \in Parts : P[i] = Do("remove", {p}) /\ (p = "bin" => i = m + 5)
      BY <1>4 DEF Steps, Parts
    <2>5. P[i].do \in Stages => P[i].do # "remove" /\ P[i] # Do("remove", {"bin"})
      BY DEF Stages, Do
    <2> QED BY <2>1, <2>2, <2>3, <2>4, <2>5
  <1>6. ASSUME NEW i \in 1..Len(P)
        PROVE  /\ i = 1 \/ P[i].do \in Stages \cup {"remove"}
               /\ P[i].do \in Stages => \E d \in Devices : P[i].on = {d}
               /\ P[i].do = "remove" => i > m + 1 /\ \E p \in Parts : P[i].on = {p}
    BY <1>5
  <1>7. P[1].do = "rules" /\ P[1].on = {}
    BY <1>4 DEF Steps, Do
  <1>8. OneInv' /\ OrderInv' /\ RuleInv'
    <2>1. ASSUME NEW i \in 1..Len(P)
          PROVE  /\ P[i].do # "start" /\ P[i].do # "save" /\ P[i].do # "add"
                 /\ P[i].do = "rules" => i = 1
      BY <1>6, <1>7 DEF Stages
    <2>2. OneInv'
      BY <1>2, <1>6, <2>1 DEF OneInv
    <2>3. OrderInv'
      BY <1>2, <2>1 DEF OrderInv
    <2>4. RuleInv'
      BY <1>2, <1>6, <1>7, <2>1 DEF RuleInv
    <2> QED BY <2>2, <2>3, <2>4
  <1>9. StageInv'
    BY <1>2, <1>5, <1>7 DEF StageInv, Before
  <1>10. GiveBackInv'
    <2>1. ASSUME NEW i \in 1..Len(P), P[i].do = "remove", NEW d \in recorded
          PROVE  Given(d, i)'
      <3>1. PICK j \in 2..(m + 1) : P[j] = Do("probe", {d})
        BY <1>1, <1>4 DEF Steps
      <3>2. j \in 1..(i - 1)
        BY <1>4, <1>5, <2>1 DEF Steps
      <3> QED BY <1>2, <3>1, <3>2 DEF Given, Do
    <2> QED BY <1>2, <1>5, <1>7, <2>1 DEF GiveBackInv, Stages
  <1>11. PartsInv'
    <2>1. ASSUME NEW i \in 1..Len(P), P[i] = Do("remove", {"bin"})
          PROVE  \E j \in 1..(i - 1) : P[j] = Do("remove", {"unit"})
      <3>1. i = m + 5
        BY <1>5, <2>1
      <3>2. m + 3 \in 1..(i - 1) /\ P[m + 3] = Do("remove", {"unit"})
        BY <1>4, <3>1 DEF Steps
      <3> QED BY <3>2
    <2> QED BY <1>2, <1>6, <1>7, <2>1 DEF PartsInv, Do, Stages
  <1>12. m + 5 <= 5 * Cardinality(Devices) + 5
    BY <1>4, DevicesAssumption, FS_CardinalityType DEF Steps
  <1> QED BY <1>2, <1>4, <1>8, <1>9, <1>10, <1>11, <1>12 DEF PlanInv, Steps

(* Each command starts with a plan that keeps the invariant.               *)
LEMMA CommandKeeps ==
    ASSUME IInv, Command
    PROVE  IInv'
  <1> USE DEF IInv, Command, files, services, pciState
  <1>1. HostInv'
    BY DEF HostInv, Returned, Cleared, OffBus, Stopped
  <1>2. /\ PlanInv' /\ plan' \in Seq(Action)
        /\ Len(plan') <= 5 * Cardinality(Devices) + 5
    <2>1. Cardinality(Devices) \in Nat
      BY DevicesAssumption, FS_CardinalityType
    <2>2. CASE plan' = InstallPlan(recorded)
      <3>1. PlanInv' /\ plan' \in Seq(Action) /\ Len(plan') <= 5
        BY <2>2, PlannedInstall
      <3>2. Len(plan') \in Nat
        BY <3>1
      <3> QED BY <2>1, <3>1, <3>2
    <2>3. ASSUME NEW d \in Devices, plan' = EnablePlan(recorded, d)
          PROVE  /\ PlanInv' /\ plan' \in Seq(Action)
                 /\ Len(plan') <= 5 * Cardinality(Devices) + 5
      <3>1. PlanInv' /\ plan' \in Seq(Action) /\ Len(plan') <= 5
        BY <2>3, PlannedEnable
      <3>2. Len(plan') \in Nat
        BY <3>1
      <3> QED BY <2>1, <3>1, <3>2
    <2>4. ASSUME NEW d \in recorded, plan' = DisablePlan(recorded, d)
          PROVE  /\ PlanInv' /\ plan' \in Seq(Action)
                 /\ Len(plan') <= 5 * Cardinality(Devices) + 5
      <3>1. PlanInv' /\ plan' \in Seq(Action) /\ Len(plan') = 7
        BY <2>4, PlannedDisable
      <3>2. Cardinality(Devices) # 0
        BY DevicesAssumption, FS_EmptySet DEF TypeOK
      <3> QED BY <2>1, <3>1, <3>2
    <2>5. ASSUME NEW names \in SetToSeqs(recorded), plan' = UninstallPlan(names)
          PROVE  /\ PlanInv' /\ plan' \in Seq(Action)
                 /\ Len(plan') <= 5 * Cardinality(Devices) + 5
      BY <2>5, PlannedUninstall
    <2> QED BY <2>2, <2>3, <2>4, <2>5
  <1>3. TypeOK'
    BY <1>2 DEF TypeOK
  <1> QED BY <1>1, <1>2, <1>3

-----------------------------------------------------------------------------
(* The invariant holds at first.                                           *)
LEMMA Initial == Init => IInv
  <1> SUFFICES ASSUME Init
               PROVE  IInv
    OBVIOUS
  <1>1. TypeOK
    <2>1. plan \in Seq(Action) /\ Len(plan) = 0
      BY EmptySeq DEF Init
    <2> QED BY <2>1, DevicesAssumption, FS_CardinalityType DEF Init, TypeOK
  <1>2. HostInv
    BY DEF Init, HostInv, Returned, Cleared, OffBus, Stopped
  <1>3. PlanInv
    <2>1. 1..Len(plan) = {}
      BY EmptySeq DEF Init
    <2> QED BY <2>1 DEF PlanInv, OneInv, OrderInv, RuleInv, StageInv, GiveBackInv, PartsInv
  <1> QED BY <1>1, <1>2, <1>3 DEF IInv

(* Every step keeps it.                                                    *)
LEMMA Inductive == IInv /\ [Next]_vars => IInv'
  <1> SUFFICES ASSUME IInv, [Next]_vars
               PROVE  IInv'
    OBVIOUS
  <1>1. CASE UNCHANGED vars
    <2>1. UNCHANGED <<installed, plan, recorded, rules, wanted, active, onBus, driver,
                      override>>
      BY <1>1 DEF vars, files, services, pciState
    <2>2. TypeOK' /\ HostInv'
      BY <2>1 DEF IInv, TypeOK, HostInv, Returned, Cleared, OffBus, Stopped
    <2>3. \A D : Keeps(D)
      BY <2>1 DEF Keeps, Stopped, OffBus, Cleared, Unbound, Returned
    <2>4. PlanInv'
      BY <2>1, <2>3, PlanStays DEF files
    <2> QED BY <2>2, <2>4 DEF IInv
  <1>2. CASE Next
    BY <1>2, CommandKeeps, AddPartKeeps, RemovePartKeeps, SaveConfigKeeps, WriteRulesKeeps,
       StartServiceKeeps, StopServiceKeeps, RemoveLeftoversKeeps, ClearOverrideKeeps,
       UnbindVFIOKeeps, ProbeDriverKeeps, StopEarlyKeeps, ServiceRunsKeeps,
       ServiceFailsKeeps, RebootKeeps DEF Next
  <1> QED BY <1>1, <1>2

(* So it always holds.                                                     *)
LEMMA Invariance == Spec => []IInv
  BY Initial, Inductive, PTL DEF Spec

(* Every plan is a sequence of actions on known devices and parts, of no more *)
(* than five for each device and five besides.                              *)
THEOREM TypeCorrect == Spec => []TypeOK
  BY Invariance, PTL DEF IInv

(* Whatever enable did to a device can be undone, at whichever action the      *)
(* commands before have stopped or the host was rebooted (plan.go, install.go). *)
THEOREM CanBeUndone == Spec => []Undoable
  <1>1. IInv => Undoable
    BY DEF IInv, HostInv, Returned, Cleared, OffBus, Stopped, Undoable
  <1> QED BY <1>1, Invariance, PTL

(* No stage of disable or uninstall touches a device that still has a rule.    *)
THEOREM RulesGoFirst == Spec => []RuleGoesFirst
  <1>1. IInv => RuleGoesFirst
    <2> SUFFICES ASSUME IInv, plan # <<>>, Head(plan).do \in Stages
                 PROVE  Target \notin rules
      BY DEF RuleGoesFirst, Stages
    <2>1. Head(plan) = plan[1] /\ 1 \in 1..Len(plan)
      BY Dequeued DEF IInv, TypeOK
    <2>2. plan[1].on = {Target}
      BY <2>1, TheTarget DEF IInv, PlanInv
    <2>3. plan[1].on \cap rules = {}
      BY <2>1, StageFirst DEF IInv, PlanInv, StageInv, Stages, Stopped, OffBus, Cleared, Unbound
    <2> QED BY <2>2, <2>3
  <1> QED BY <1>1, Invariance, PTL
=============================================================================
