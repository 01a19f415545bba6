\* SOCKS-client mode with one well-formed CONNECT and no peer misbehaviour:
\* the only failure allowed is running out of memory, and the unchecked
\* bufferevent_socket_new in socks_read_cb turns it into a crash.
CONSTANTS
    c1 = c1  c2 = c2  c3 = c3
    Null = Null
    Conns <- MCConns1
    Modes = {"socks_client"}
    MaxData = 0
    MaxSignals = 0
    RecvResults = {"ok"}
    SocksCmds = {"connect"}
    PartialFrames = FALSE
    ResourceFailures = TRUE
    PeersMayReset = FALSE
    EarlyReads = FALSE
SPECIFICATION Spec
INVARIANT NoAbort
\* The reactor may block forever waiting for quiet peers.
CHECK_DEADLOCK FALSE
