\* Two goroutines on one client and v2 firmware, on the default port: a late
\* reply can reach any exchange.
SPECIFICATION Spec
CONSTANTS
    g1 = g1
    g2 = g2
    udp1 = udp1
    Callers = {g1, g2}
    Clients = {udp1}
    ClientOf <- MCClientOf
    AuthScheme <- MCAutoScheme
    GoodPassword = {g1}
    DeviceScheme = "v2"
    FixedPort = TRUE
    SeqMod = 65536
    MaxSeq = 5
    EscalateAt = 0
    SilenceAt = 0
    NoSalt = NoSalt
INVARIANTS TypeOK RejectionHasCause
PROPERTIES WrongSchemeFromStray KeepsPromise
CHECK_DEADLOCK FALSE
