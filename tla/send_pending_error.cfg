\* Simple-client mode where proto_recv asks for a send and that proto_send
\* fails: the connection is expected to be closed (spec section 7).
CONSTANTS
    c1 = c1  c2 = c2  c3 = c3
    Null = Null
    Conns <- MCConns1
    Modes = {"simple_client"}
    MaxData = 1
    MaxSignals = 0
    RecvResults = {"ok", "send_pending"}
    SocksCmds = {"connect"}
    PartialFrames = FALSE
    ResourceFailures = TRUE
    PeersMayReset = FALSE
    EarlyReads = FALSE
SPECIFICATION Spec
INVARIANT ProtoErrorCloses
\* The reactor may block forever waiting for quiet peers.
CHECK_DEADLOCK FALSE
