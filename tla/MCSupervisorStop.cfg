\* One run of a wlan device, on whatever an earlier one left, with fairness.
CONSTANTS
    Runs = {r1}
    NoRun = none
    Wlan = TRUE
    MayCrash = FALSE
SPECIFICATION LeftoverFairSpec
INVARIANT StopLeavesNothing
PROPERTY StopEnds
\* Every run ends.
CHECK_DEADLOCK FALSE
