\* SOCKS-client mode, one CONNECT: the target accepts, libevent reads the
\* connecting socket first and sees a reset, socks_event_cb sends the
\* negative reply, and the pending connect then completes.
CONSTANTS
    c1 = c1  c2 = c2  c3 = c3
    Null = Null
    Conns <- MCConns1
    Modes = {"socks_client"}
    MaxData = 0
    MaxSignals = 0
    RecvResults = {"ok"}
    SocksCmds = {"connect"}
    PartialFrames = FALSE
    ResourceFailures = FALSE
    PeersMayReset = TRUE
    EarlyReads = TRUE
SPECIFICATION Spec
PROPERTY ImplementsLifecycle
\* The reactor may block forever waiting for quiet peers.
CHECK_DEADLOCK FALSE
