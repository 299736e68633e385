SPECIFICATION FSpec
CONSTANTS
    p1 = p1
    p2 = p2
    Procs = {p1, p2}
    Nobody = Nobody
    Days <- MCDays
    Sessions <- MCSessions
    Start = 2
    End = 2
    Recipes = {"x"}
    Gains = {0}
    Timely = FALSE
    MaxBundles = 2
    MaxRewrites = 2
    MaxAttempts = 2
    MaxDamage = 1
    MaxConfigs = 1
    MaxRuns = 2
CONSTRAINT ChangesAreUndone
SYMMETRY Symmetry
CHECK_DEADLOCK FALSE
INVARIANTS NoBackfill CommittedOnItsInputs RunsAreTold
