\* A port that is to leave VLAN 1.
SPECIFICATION Spec
CONSTANTS
    g1 = g1
    g2 = g2
    Callers = {g1, g2}
    Ports = {1, 2}
    ProtectedPorts = {2}
    VlanIds = {1, 2, 3}
    DefaultVlan = 1
    Names = {"lab"}
    Models <- MCModels
    Starts <- MCStarts
    Ops <- MCOps
    MaxCalls <- MCOne
    Retries = 1
    NoName = NoName
    NoMode = NoMode
PROPERTIES ExcludedIsOut
CHECK_DEADLOCK FALSE
