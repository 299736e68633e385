SPECIFICATION FairSpec
CONSTANTS
    fetch = fetch
    build = build
    audit = audit
    source = source
    raw = raw
    v1 = v1
    v2 = v2
    Steps = {fetch, build, audit}
    Topology <- MCTopology
    Needs <- MCNeeds
    Inputs <- MCInputs
    Outputs <- MCOutputs
    MaxAttempts <- MCMaxAttempts
    Gates = {audit}
    Artifacts = {source, raw}
    Optional = {raw}
    Mutable = {}
    Allowed <- MCAllowed
    Contents = {v1, v2}
    Missing = Missing
    Unrecorded = Unrecorded
    MaxTampers = 1
INVARIANTS CheckpointIsTrue TamperIsCaught InterruptionIsResumable
PROPERTIES DecisionsHold
CHECK_DEADLOCK FALSE
