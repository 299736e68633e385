SPECIFICATION LiveSpec
CONSTANTS
    Procs = {p, q}
    Nobody = Nobody
    Editions <- TwoEditions
    Broken = 0
    Session = 2
    Start = 3
    Ttl = 1
    MaxClock = 3
    MaxPreviews = 2
    MaxEdits = 1
    MaxFaults = 1
INVARIANTS
    RegistrationIsSound
PROPERTIES
    EvidenceStands
    RegisteredIsPublished
CHECK_DEADLOCK FALSE
