\* A launcher that restarts its guest, and may be killed, under a supervisor.
CONSTANTS
    Exports = {e1}
    StopSignals = {term, int}
    MaxRequests = 2
    MaxLog = 2
    Restart = TRUE
    HostDestroys = TRUE
    MayBeKilled = TRUE
SPECIFICATION FairSpec
INVARIANTS TypeOK LogsSettled
PROPERTIES StopEndsLauncher AskedBeforeKilled NewGuestAlone
