\* Server mode: RECV_SEND_PENDING obfuscates leftover inbound wire bytes toward the plaintext target.
CONSTANTS
    c1 = c1  c2 = c2  c3 = c3
    Null = Null
    Conns <- MCConns1
    Modes = {"simple_server"}
    MaxData = 2
    MaxSignals = 0
    RecvResults = {"ok", "send_pending"}
    SocksCmds = {"connect"}
    PartialFrames = TRUE
    ResourceFailures = FALSE
    PeersMayReset = FALSE
    EarlyReads = FALSE
SPECIFICATION Spec
INVARIANT StreamIntegrity
\* The reactor may block forever waiting for quiet peers.
CHECK_DEADLOCK FALSE
