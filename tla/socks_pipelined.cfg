\* Client data pipelined behind a SOCKS CONNECT reaches undefined behaviour in socks_event_cb.
CONSTANTS
    c1 = c1  c2 = c2  c3 = c3
    Null = Null
    Conns <- MCConns1
    Modes = {"socks_client"}
    MaxData = 1
    MaxSignals = 0
    RecvResults = {"ok"}
    SocksCmds = {"connect"}
    PartialFrames = FALSE
    ResourceFailures = FALSE
    PeersMayReset = FALSE
    EarlyReads = FALSE
SPECIFICATION Spec
INVARIANT NoAbort
\* The reactor may block forever waiting for quiet peers.
CHECK_DEADLOCK FALSE
