---------------------------- MODULE MCSupervisor ----------------------------
(* Instances of Supervisor for TLC.  The runs of a device differ in nothing, *)
(* so they are symmetric wherever no liveness is checked.                    *)
EXTENDS Supervisor, TLC

Symmetry == Permutations(Runs)

(* The states that an earlier supervisor can leave to one run: no device, a  *)
(* device off the bus that could not be destroyed or whose supervisor was   *)
(* killed, or one on the bus.                                               *)
LeftoverInit ==
    /\ pc = [r \in Runs |-> "idle"]
    /\ sigs = [r \in Runs |-> 0]
    /\ stopping = [r \in Runs |-> FALSE] /\ warned = [r \in Runs |-> FALSE]
    /\ att = [r \in Runs |-> "none"]
    /\ stopped = [r \in Runs |-> FALSE] /\ live = [r \in Runs |-> FALSE]
    /\ waiter = [r \in Runs |-> "waiting"] /\ launcher = [r \in Runs |-> "none"]
    /\ term = [r \in Runs |-> FALSE] /\ guest = [r \in Runs |-> "none"]
    /\ lock = NoRun /\ fd = NoRun
    /\ \/ dev = "absent" /\ bound = FALSE /\ broken = FALSE /\ low = FALSE
       \/ dev \in {"created", "ready"} /\ bound = FALSE /\ broken = FALSE /\ low \in BOOLEAN
       \/ dev = "bus" /\ bound \in BOOLEAN /\ broken \in BOOLEAN /\ low \in BOOLEAN

LeftoverFairSpec == LeftoverInit /\ [][Next]_vars /\ Fairness
=============================================================================
