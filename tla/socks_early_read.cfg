\* SOCKS-client mode, one CONNECT, the target sends data as soon as it
\* accepts, and libevent runs the read callback of the connecting
\* bufferevent before it reports CONNECTED.
CONSTANTS
    c1 = c1  c2 = c2  c3 = c3
    Null = Null
    Conns <- MCConns1
    Modes = {"socks_client"}
    MaxData = 1
    MaxSignals = 0
    RecvResults = {"ok"}
    SocksCmds = {"connect"}
    PartialFrames = FALSE
    ResourceFailures = FALSE
    PeersMayReset = FALSE
    EarlyReads = TRUE
SPECIFICATION Spec
INVARIANT StreamIntegrity
\* The reactor may block forever waiting for quiet peers.
CHECK_DEADLOCK FALSE
