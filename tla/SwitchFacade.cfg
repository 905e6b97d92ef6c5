\* Two goroutines use one Switch over several backends while a third closes it.
SPECIFICATION FairSpec
CONSTANTS
    g1 = g1
    g2 = g2
    Callers = {g1, g2}
    Preference <- MCPreference
    Declared = {"nsdp", "http", "ssh"}
    Pinned = NoBackend
    HttpKinds = {"http"}
    CliKinds = {"ssh"}
    Readable = {"nsdp", "ssh", "http"}
    Writable = {"nsdp", "http"}
    Serves <- MCServes
    Ops <- MCOps
    MaxCalls = 3
    CallsAfterClose = TRUE
    NoBackend = NoBackend
    NoCell = NoCell
INVARIANTS TypeOK NoSubstitution OneSessionPerKind
PROPERTY EverybodyReturns
CHECK_DEADLOCK FALSE
