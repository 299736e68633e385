SPECIFICATION Spec
CONSTANTS
    Procs = {p1, p2}
    Nobody = Nobody
    Days <- TwoDays
    Sessions <- TwoDays
    Holdout <- TwoDays
    Slots = 2
    Editions <- ThreeEditions
    Unregistered = {2}
    MaxOps = 2
SYMMETRY Symmetry
INVARIANTS SlotsFetchOnce OperatorIsTold
PROPERTIES OnlyByHand
CHECK_DEADLOCK FALSE
