SPECIFICATION LiveSpec
CONSTANTS
    Callers = {c, d}
    NoCaller = NoCaller
    Studies = {s, t}
    Versions <- TwoVersions
    MaxFileEdits = 1
    MaxSubmits = 2
    MaxStops = 2
PROPERTIES
    StudiesAreRegistered
    NothingRunsUnasked
    QueueIsServed
CHECK_DEADLOCK FALSE
