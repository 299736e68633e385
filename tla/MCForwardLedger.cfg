SPECIFICATION LedgerSpec
CONSTANTS
    p1 = p1
    p2 = p2
    Procs = {p1, p2}
    Nobody = Nobody
    Days <- MCDays
    Sessions <- MCSessions
    Start = 2
    End = 4
    Recipes = {"x"}
    Gains = {0, 1}
    Timely = TRUE
    MaxBundles = 1
    MaxRewrites = 1
    MaxAttempts = 3
    MaxDamage = 1
INVARIANTS AccountIsSound FillsWereOrdered
PROPERTIES LedgerMovesForward AccountOnlyGrows
CONSTRAINT PromotionsAreEarly
SYMMETRY Symmetry
CHECK_DEADLOCK FALSE
