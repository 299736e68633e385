SPECIFICATION FairSpec
CONSTANTS
    Jobs = {j1}
    r1 = r1
    kA = kA
    w1 = w1
    w2 = w2
    Requests = {r1}
    NoRequest = NoRequest
    Kinds = {kA}
    Workers = {w1, w2}
    KindOf <- MCKindOf
    MaxAttempts <- MCMaxAttempts
    Serves <- MCServes
    AttemptLimit = 2
    Lease = 2
    MaxSkew = 0
    Evidence = {"process_started"}
    MaxNotes = 1
INVARIANTS StoreInvariant AcknowledgedMeansStopped DecisionsAreEarned
    JournalTellsAll
PROPERTIES EveryJobIsDecided
