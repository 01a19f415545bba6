\* finish_shutdown is called again by a second signal or a connection accepted after it.
CONSTANTS
    c1 = c1  c2 = c2  c3 = c3
    Null = Null
    Conns <- MCConns1
    Modes = {"simple_client"}
    MaxData = 0
    MaxSignals = 2
    RecvResults = {"ok"}
    SocksCmds = {"connect"}
    PartialFrames = FALSE
    ResourceFailures = FALSE
    PeersMayReset = FALSE
    EarlyReads = FALSE
SPECIFICATION Spec
INVARIANT FinishAtMostOnce
\* The reactor may block forever waiting for quiet peers.
CHECK_DEADLOCK FALSE
