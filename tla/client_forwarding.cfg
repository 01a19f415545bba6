\* The two client-side modes, simple and SOCKS: one accepted connection with
\* every failure the code handles, SOCKS connect, bind and junk requests,
\* partial frames, every proto_recv result and peer resets.
CONSTANTS
    c1 = c1  c2 = c2  c3 = c3
    Null = Null
    Conns <- MCConns1
    Modes = {"simple_client", "socks_client"}
    MaxData = 2
    MaxSignals = 0
    RecvResults = {"ok", "bad", "send_pending"}
    SocksCmds = {"connect", "bind", "junk"}
    PartialFrames = TRUE
    ResourceFailures = TRUE
    PeersMayReset = TRUE
    EarlyReads = FALSE
SPECIFICATION Spec
PROPERTY ImplementsLifecycle
INVARIANT TypeOK
INVARIANT StreamIntegrity
INVARIANT NoForwardingBeforeOpen
PROPERTY HalfCloseTerminates
\* The reactor may block forever waiting for quiet peers.
CHECK_DEADLOCK FALSE
