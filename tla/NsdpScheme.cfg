\* The default port: the scheme an "auto" client takes up from a late reply.
SPECIFICATION Spec
CONSTANTS
    g1 = g1
    g2 = g2
    udp1 = udp1
    Callers = {g1, g2}
    Clients = {udp1}
    ClientOf <- MCClientOf
    AuthScheme <- MCAutoScheme
    GoodPassword = {g1}
    DeviceScheme = "v2"
    FixedPort = TRUE
    SeqMod = 65536
    MaxSeq = 5
    EscalateAt = 0
    SilenceAt = 0
    NoSalt = NoSalt
INVARIANT V1OnlyWhenForced
CHECK_DEADLOCK FALSE
