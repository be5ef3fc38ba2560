\* A net device, with supervisors that are never killed.
CONSTANTS
    Runs = {r1, r2}
    NoRun = none
    Wlan = FALSE
    MayCrash = FALSE
SPECIFICATION Spec
SYMMETRY Symmetry
INVARIANT DeadAddNeverLive
CHECK_DEADLOCK FALSE
