\* Two connections in the two client modes, two shutdown signals, listeners freed at any time.
CONSTANTS
    c1 = c1  c2 = c2  c3 = c3
    Null = Null
    Conns <- MCConns2
    Modes = {"simple_client", "socks_client"}
    MaxData = 0
    MaxSignals = 2
    RecvResults = {"ok"}
    SocksCmds = {"connect"}
    PartialFrames = FALSE
    ResourceFailures = TRUE
    PeersMayReset = FALSE
    EarlyReads = TRUE
SPECIFICATION Spec
SYMMETRY MCSymmetry
INVARIANT RegistryMatchesLive
INVARIANT FinishNotMissed
PROPERTY FinishOnlyWhenDrained
PROPERTY ImplementsRegistry
\* The reactor may block forever waiting for quiet peers.
CHECK_DEADLOCK FALSE
