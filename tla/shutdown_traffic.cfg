\* Two simple-client connections carrying data, peers that close or reset,
\* and one shutdown signal of either kind: shutdown races flushing
\* connections and the last close_conn_on_flush.
CONSTANTS
    c1 = c1  c2 = c2  c3 = c3
    Null = Null
    Conns <- MCConns2
    Modes = {"simple_client"}
    MaxData = 1
    MaxSignals = 1
    RecvResults = {"ok"}
    SocksCmds = {"connect"}
    PartialFrames = FALSE
    ResourceFailures = FALSE
    PeersMayReset = TRUE
    EarlyReads = FALSE
SPECIFICATION Spec
SYMMETRY MCSymmetry
INVARIANT RegistryMatchesLive
INVARIANT FinishNotMissed
PROPERTY FinishOnlyWhenDrained
\* The reactor may block forever waiting for quiet peers.
CHECK_DEADLOCK FALSE
