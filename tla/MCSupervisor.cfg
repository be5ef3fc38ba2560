\* A net device, with supervisors that may be killed.
CONSTANTS
    Runs = {r1, r2}
    NoRun = none
    Wlan = FALSE
    MayCrash = TRUE
SPECIFICATION Spec
SYMMETRY Symmetry
INVARIANTS TypeOK OneSupervisor NoAttachAfterStop RemovedBeforeSignal KeptOnlyIfLive 
PROPERTIES OnlyOwnStopRemoves Tenancy
\* Every run ends, and there are two of them.
CHECK_DEADLOCK FALSE
