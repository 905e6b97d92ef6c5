\* The id 65537, as the VLAN to delete.
SPECIFICATION WriterSpec
CONSTANTS
    g1 = g1
    g2 = g2
    Writers = {g1, g2}
    Ports = {1, 2}
    ProtectedPorts = {2}
    VlanIds = {1, 2, 65537}
    DefaultVlan = 1
    PortSettings <- MCPortSettings
    Values = {"old", "new", "", "not ascii"}
    Empty = ""
    Malformed = {"not ascii"}
    Ops <- MCOps
    MaxCalls <- MCTwoThenOne
INVARIANT DeletionSparesOthers
CHECK_DEADLOCK FALSE
