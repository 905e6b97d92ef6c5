\* One caller whose context is cancelled in the middle of a write.
SPECIFICATION Spec
CONSTANTS
    g1 = g1
    g2 = g2
    p1 = p1
    p2 = p2
    Callers = {g1}
    Ports = {p1, p2}
    ProtectedPorts = {p2}
    AccessPorts = {p1}
    Ops <- MCOps
    MaxCalls = 3
    Refusable = {"interface", "tagging", "vlan", "pvid"}
    Inert = {}
    CancelPhases = {"before", "enter", "body", "unwind", "after"}
    DeadlineCloses = TRUE
    NoPort = NoPort
    NoCommand = NoCommand
INVARIANT Unwound
CHECK_DEADLOCK FALSE
