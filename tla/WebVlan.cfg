\* Two calls at once and one change over another interface, in each dialect.
SPECIFICATION Spec
CONSTANTS
    g1 = g1
    g2 = g2
    Callers <- MCCallers
    Dialects = {"standard", "fastpath", "goahead"}
    VlanIds <- MCVlans
    Ports <- MCPorts
    ProtectedPorts <- MCLocked
    LockedPorts <- MCLocked
    Starts <- MCStarts
    Ops <- MCOps
    MaxCalls = 2
    MaxMoves = 1
SYMMETRY Symmetry
INVARIANTS TypeOK DanglingNeedsDelete
PROPERTIES ExactWhenAlone CollateralNeedsStalePage
CHECK_DEADLOCK FALSE
