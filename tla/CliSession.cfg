\* One caller at a time over SSH: refusals, deadlines, and
\* contexts cancelled before or after the configuration commands.
SPECIFICATION Spec
CONSTANTS
    g1 = g1
    g2 = g2
    p1 = p1
    p2 = p2
    Callers = {g1}
    Ports = {p1, p2}
    ProtectedPorts = {p2}
    AccessPorts = {p1}
    Ops <- MCOps
    MaxCalls = 3
    Refusable = {"interface", "tagging", "vlan", "pvid"}
    Inert = {"tagging", "pvid", "no vlan"}
    CancelPhases = {"before", "after"}
    DeadlineCloses = TRUE
    NoPort = NoPort
    NoCommand = NoCommand
INVARIANTS TypeOK Unwound InStep
PROPERTY VerdictIsTrue
CHECK_DEADLOCK FALSE
