\* A launcher under a supervisor, neither of which is killed.
CONSTANTS
    Exports = {e1}
    StopSignals = {term, int}
    MaxRequests = 2
    MaxLog = 2
    Restart = TRUE
    HostDestroys = TRUE
    MayBeKilled = FALSE
SPECIFICATION Spec
SYMMETRY Symmetry
INVARIANT GoneDeviceEmptyLog
