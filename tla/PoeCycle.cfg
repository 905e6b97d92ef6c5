\* Two calls at once, over any stacks of the switch, and one plug event or fault.
SPECIFICATION Spec
CONSTANTS
    g1 = g1
    g2 = g2
    Callers <- MCCallers
    Switches <- MCSwitches
    IsProtected = TRUE
    MaxCalls = 2
    MaxEvents = 1
SYMMETRY Symmetry
INVARIANTS TypeOK LeftDarkIsReported
PROPERTIES CycleVerdictIsTrue
CHECK_DEADLOCK FALSE
