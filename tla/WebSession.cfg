\* Two goroutines, three calls, sessions ended twice, in the three login families.
SPECIFICATION Spec
CONSTANTS
    g1 = g1
    g2 = g2
    absent = absent
    Callers <- MCCallers
    Schemes <- MCSchemes
    None <- absent
    Retries = 2
    MaxCalls = 3
    MaxLosses = 2
SYMMETRY Symmetry
INVARIANTS TypeOK WriteSentOnce AuthNeedsCause SilentWriteNeedsLoss
CHECK_DEADLOCK FALSE
