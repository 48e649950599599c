\* The caller uses the service once: simulate() is its last call, after
\* which the program ends, so the final states have no successor.
CONSTANTS
    r1 = r1
    r2 = r2
    f1 = f1
    f2 = f2
    d1 = d1
    d2 = d2
    ba = ba
    aa = aa
    unset = unset
    RunNumbers <- MCRunNumbers
    FileNames <- MCFileNames
    Dates <- MCDates
    Inv1AirlineCode = ba
    Inv2AirlineCode = aa
    Unset = unset
    ReuseAfterSimulate = FALSE

SPECIFICATION Spec

CHECK_DEADLOCK FALSE

INVARIANT
    ContextsReached
