SPECIFICATION Spec
CONSTANTS
    p1 = p1
    Procs = {p1}
    Nobody = Nobody
    Days <- MCOneDay
    Sessions <- MCOneDay
    Slots = 2
    MaxAge = 1
    MaxOps = 2
    MaxSwitches = 1
INVARIANTS RecordsAreTrue OrphansKeepOut InterruptedIsRecoverable
 
CHECK_DEADLOCK FALSE
CONSTRAINTS WhatIsReadMatters BrokenMatters
