\* Three calls, two at once, over any stacks of each kind of switch.
SPECIFICATION Spec
CONSTANTS
    g1 = g1
    g2 = g2
    Callers <- MCCallers
    Switches <- MCSwitches
    IsProtected = TRUE
    Hosts <- MCHosts
    MaxRows = 3
    Ops <- MCOps
    MaxCalls = 3
SYMMETRY Symmetry
INVARIANTS TypeOK SplitAddressIsReported
PROPERTIES ExactWhenAlone CollateralNeedsStaleRead
CHECK_DEADLOCK FALSE
