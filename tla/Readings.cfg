CONSTANTS
    Interfaces = {1, 2, 3}
    PortCount = 2
    VlanIds = {1, 2}
    Half = 4
    Vias = {"cli", "xe", "s3300", "m4300", "standard", "gs105pe", "gs110emx", "goahead", "nsdp", "snmp"}
    Start <- MCStart
    Contents <- MCContents
    MaxReads = 2
    MaxMoves = 3
SPECIFICATION Spec
INVARIANTS
    NothingInvented
    NothingLost
CHECK_DEADLOCK FALSE
