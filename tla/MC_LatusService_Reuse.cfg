\* The caller keeps calling the same LATUS_Service object after simulate().
CONSTANTS
    r1 = r1
    r2 = r2
    f1 = f1
    f2 = f2
    d1 = d1
    d2 = d2
    ba = ba
    aa = aa
    unset = unset
    RunNumbers <- MCRunNumbers
    FileNames <- MCFileNames
    Dates <- MCDates
    Inv1AirlineCode = ba
    Inv2AirlineCode = aa
    Unset = unset
    ReuseAfterSimulate = TRUE

SPECIFICATION Spec

CHECK_DEADLOCK FALSE

INVARIANT
    ContextsReached
