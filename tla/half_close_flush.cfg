\* One connection in any of the three modes, peers that may close or reset
\* in any order, and a protocol that never rejects data: nothing queued for
\* a peer that is still there may be lost, both streams stay intact and
\* every connection follows the abstract lifecycle.
CONSTANTS
    c1 = c1  c2 = c2  c3 = c3
    Null = Null
    Conns <- MCConns1
    Modes = {"simple_client", "simple_server", "socks_client"}
    MaxData = 2
    MaxSignals = 0
    RecvResults = {"ok"}
    SocksCmds = {"connect"}
    PartialFrames = TRUE
    ResourceFailures = FALSE
    PeersMayReset = TRUE
    EarlyReads = FALSE
SPECIFICATION Spec
INVARIANT StreamIntegrity
PROPERTY BufferedDataDelivered
PROPERTY HalfCloseTerminates
PROPERTY ImplementsLifecycle
\* The reactor may block forever waiting for quiet peers.
CHECK_DEADLOCK FALSE
