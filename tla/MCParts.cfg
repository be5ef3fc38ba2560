SPECIFICATION PartsSpec
CHECK_DEADLOCK FALSE
CONSTANTS
    MaxRuns = 2
    PipeSize = 2
    MaxLogLine = 4
    Callers = {"launcher", "bind", "unbind"}
    Does <- MCDoes
INVARIANT LeftInOrder
 
INVARIANT OutputPlain
PROPERTY LauncherEnds
PROPERTY GuestReached
PROPERTY Steered
PROPERTY Detached
