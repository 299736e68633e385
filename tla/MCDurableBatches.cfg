SPECIFICATION BSpec
CONSTANTS
    r1 = r1
    r2 = r2
    kA = kA
    kB = kB
    w1 = w1
    b1 = b1
    b2 = b2
    c1 = c1
    c2 = c2
    Jobs <- MCJobs
    Requests = {r1, r2}
    NoRequest = NoRequest
    Kinds = {kA, kB}
    Workers = {w1}
    KindOf <- MCKindOf
    MaxAttempts <- MCMaxAttempts
    Serves <- MCServes
    AttemptLimit = 1
    Lease = 1
    MaxSkew = 1
    Evidence = {"process_started"}
    MaxNotes = 0
    Batches = {b1, b2}
    NoBatch = NoBatch
    Candidates = {c1, c2}
    NoSource = NoSource
    Documents <- MCDocuments
    ChildKey <- MCChildKey
    MaxCalls = 1
SYMMETRY Symmetry
CONSTRAINT FewJobs
INVARIANTS BatchInvariant PinnedBeforeVisible
PROPERTIES BatchesStand EveryJobFollowsLifecycle
