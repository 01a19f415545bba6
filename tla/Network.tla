------------------------------ MODULE Network ------------------------------
(***************************************************************************)
(* The connection-forwarding engine of src/src/network.c: listeners, the   *)
(* per-connection callback state machine (SOCKS negotiation, outbound      *)
(* connect, forwarding, half-close flushing, teardown), the process-wide   *)
(* connection registry and shutdown.                                       *)
(*                                                                         *)
(* Every callback of network.c is one operator that returns the whole      *)
(* effect of one run of that callback.  The reactor (libevent) and the two *)
(* TCP peers of each connection are the environment: their steps deliver  *)
(* one socket event and run the callback that is registered for it.        *)
(* Bytes are abstracted to tokens that remember who sent them, their       *)
(* position in the sender's stream and how many times they are obfuscated. *)
(***************************************************************************)
EXTENDS Naturals, Sequences, SequencesExt

CONSTANTS
    Conns,            \* accepted-connection slots (model values)
    Modes,            \* listener modes for which listener_new is called
    MaxData,          \* data tokens each TCP peer may send
    MaxSignals,       \* start_shutdown invocations by the signal handlers
    RecvResults,      \* results proto_recv may return
    SocksCmds,        \* commands a SOCKS client may request
    PartialFrames,    \* proto_recv may leave an incomplete frame behind
    ResourceFailures, \* bind/allocation/protocol steps may fail
    PeersMayReset,    \* TCP peers may reset their connection
    EarlyReads,       \* libevent may read a connecting socket before CONNECTED
    Null              \* the released (NULL) smartlist

AllModes == {"simple_client", "simple_server", "socks_client"}

ASSUME /\ Modes \subseteq AllModes
       /\ MaxData \in Nat /\ MaxSignals \in Nat
       /\ RecvResults \subseteq {"ok", "bad", "send_pending"}
       /\ SocksCmds \subseteq {"connect", "bind", "junk"}
       /\ PartialFrames \in BOOLEAN /\ ResourceFailures \in BOOLEAN
       /\ PeersMayReset \in BOOLEAN

VARIABLES
    conn,          \* conn_t of each slot, plus its bufferevents' callbacks and enabled events
    rbuf,          \* input evbuffer of each bufferevent: rbuf[c]["in"|"out"]
    wbuf,          \* output evbuffer of each bufferevent
    peer,          \* the TCP peer behind each socket: what it sent, what it received
    connections,   \* static smartlist_t *connections (Null when released)
    listeners,     \* static smartlist_t *listeners (Null when released)
    lsn,           \* lifecycle of the listener/params of each mode
    shuttingDown,  \* static int shutting_down
    finishCalls,   \* number of calls of the hosting program's finish_shutdown()
    signals,       \* start_shutdown calls made so far
    crashed        \* "none", or the reason the process aborted

vars == <<conn, rbuf, wbuf, peer, connections, listeners, lsn,
          shuttingDown, finishCalls, signals, crashed>>

Sides == {"in", "out"}   \* conn->input (accepted socket), conn->output (target)

(* The bufferevent on the other side; upstream_read_cb/downstream_read_cb. *)
Other(s) == IF s = "in" THEN "out" ELSE "in"

---------------------------------------------------------------------------
(* Stream contents.                                                        *)

Tok(k, f, n, w) == [kind |-> k, from |-> f, seq |-> n, wrap |-> w]
Data(f, n, w)   == Tok("data", f, n, w)
Hs              == Tok("hs", "proto", 0, 1)      \* proto_handshake output
Greet           == Tok("greet", "in", 0, 0)      \* SOCKS5 method negotiation
Request(cmd)    == Tok(cmd, "in", 0, 0)          \* SOCKS request
Method          == Tok("method", "socks", 0, 0)  \* SOCKS5 method reply
Reply(ok)       == Tok(IF ok THEN "reply_ok" ELSE "reply_fail", "socks", 0, 0)
IsData(t)       == t.kind = "data"
DataOf(q)       == SelectSeq(q, IsData)

(* Obfuscation depth spoken by the peer on side s: the obfuscated wire is *)
(* conn->output for the clients and conn->input for the server.           *)
PeerWrap(m, s) == IF (m = "simple_server") = (s = "in") THEN 1 ELSE 0

(* The n-th token the peer on side s may send.                             *)
NextTokens(m, s, n) ==
    IF m = "socks_client" /\ s = "in"
    THEN CASE n = 1 -> {Greet}
           [] n = 2 -> {Request(cmd) : cmd \in SocksCmds}
           [] OTHER -> {Data(s, n - 2, 0)}
    ELSE {Data(s, n, PeerWrap(m, s))}

ScriptLen(m, s) == MaxData + (IF m = "socks_client" /\ s = "in" THEN 2 ELSE 0)

---------------------------------------------------------------------------
(* The protocol object (protocol.h, not under src/).                       *)

ProtoSendAll(q) == [i \in DOMAIN q |-> [q[i] EXCEPT !.wrap = @ + 1]]
ProtoRecvOut(q) == [i \in DOMAIN q |-> [q[i] EXCEPT !.wrap = @ - 1]]
Decodable(q)    == \A i \in DOMAIN q : IsData(q[i]) /\ q[i].wrap > 0
RecvPrefixLens(n) == IF PartialFrames THEN 1..n ELSE {n}

(* handle_socks (socks.c, not under src/): one parser step.                *)
HandleSocks(st, q, w) ==
    LET R(ret, st2, q2, w2) == [ret |-> ret, st |-> st2, q |-> q2, w |-> w2]
    IN  IF q = <<>> THEN R("incomplete", st, q, w)
        ELSE CASE st = "init" /\ Head(q) = Greet ->
                    R("good", "negotiated", Tail(q), Append(w, Method))
               [] st = "negotiated" /\ Head(q) = Request("connect") ->
                    R("good", "have_addr", Tail(q), w)
               [] st = "negotiated" /\ Head(q) = Request("bind") ->
                    R("cmd_not_connect", st, Tail(q), w)
               [] OTHER -> R("broken", st, q, w)

---------------------------------------------------------------------------
(* Connection records.                                                     *)

NoBufs == [s \in Sides |-> <<>>]
NewBevEnabled == {"W"}   \* bufferevent_socket_new enables EV_WRITE only

UnbornConn ==
    [status |-> "unborn", mode |-> "none", isOpen |-> FALSE, flushing |-> FALSE,
     socks |-> "null", out |-> "none", fdCloses |-> 0, protoErr |-> FALSE,
     en |-> [s \in Sides |-> {}], rcb |-> [s \in Sides |-> "none"],
     wcb |-> [s \in Sides |-> "none"], ecb |-> [s \in Sides |-> "none"]]

PeerInit == [sent |-> 0, kern |-> <<>>, fin |-> FALSE, gone |-> FALSE, got |-> <<>>]

Running == crashed = "none"   \* the process has not aborted

Live == {c \in Conns : conn[c].status = "live"}

(* conn_free: the input bufferevent closes the accepted fd.                *)
ConnFree(cr) == [UnbornConn EXCEPT !.status = "freed", !.mode = cr.mode,
                                   !.fdCloses = cr.fdCloses + 1]

(* Mutant: the handshake is always queued on conn->output.                *)
HandshakeSideAlwaysOutput(m) == "out"

(* Handshake queued on conn->output, except in server mode.               *)
HandshakeSide(m) == IF m = "simple_server" THEN "in" ELSE "out"

(* Mutant: the registry is recreated on every accept.                      *)
AddConnRecreate(c) == {c}

AddConn(c) == IF connections = Null THEN {c} ELSE connections \cup {c}

(* Failure points of a listener callback, in the order the code meets them. *)
SimpleSteps == {"proto", "input", "output", "handshake", "connect"}
SocksSteps  == {"proto", "input"}
AcceptOutcomes(steps) == {"ok"} \cup (IF ResourceFailures THEN steps ELSE {})

InputWrapped(f) == f \notin {"proto", "input"}
FdStillOwned(f) == ~InputWrapped(f)   \* fd = -1 once conn->input owns it
FdClosesOnError(f) ==
    (IF InputWrapped(f) THEN 1 ELSE 0) + (IF FdStillOwned(f) THEN 1 ELSE 0)
FailedConn(m, f) ==
    [UnbornConn EXCEPT !.status = "freed", !.mode = m, !.fdCloses = FdClosesOnError(f)]

---------------------------------------------------------------------------
(* Effects shared by the callbacks.  c is the connection, cr/rb/wb its     *)
(* record and buffers as the callback has left them so far.                *)

Commit(c, cr, rb, wb) ==
    /\ conn' = [conn EXCEPT ![c] = cr]
    /\ rbuf' = [rbuf EXCEPT ![c] = rb]
    /\ wbuf' = [wbuf EXCEPT ![c] = wb]
    /\ UNCHANGED <<connections, finishCalls, crashed>>

(* obfs_assert / obfs_abort: the whole process exits.                      *)
Abort(reason) ==
    /\ crashed' = reason
    /\ UNCHANGED <<conn, rbuf, wbuf, connections, finishCalls>>

(* Mutant: the emptied registry is kept instead of released.              *)
ReleaseIfEmptyLeaksEmpty(set) == set
(* Mutant: the shutdown test reads the registry as it was before removal. *)
FinishDueStale(reg) == connections = Null /\ shuttingDown

ReleaseIfEmpty(set) == IF set = {} THEN Null ELSE set
FinishDue(reg) == reg = Null /\ shuttingDown

CloseConn(c) ==
    LET reg == ReleaseIfEmpty(connections \ {c}) IN
    /\ connections' = reg
    /\ conn' = [conn EXCEPT ![c] = ConnFree(@)]
    /\ rbuf' = [rbuf EXCEPT ![c] = NoBufs]
    /\ wbuf' = [wbuf EXCEPT ![c] = NoBufs]
    /\ finishCalls' = IF FinishDue(reg) THEN finishCalls + 1 ELSE finishCalls
    /\ UNCHANGED crashed

(* Mutant: the drained connection is freed without leaving the registry.  *)
CloseConnOnFlushFreeOnly(c, cr, rb, wb, s) ==
    IF wb[s] = <<>>
    THEN /\ conn' = [conn EXCEPT ![c] = ConnFree(@)]
         /\ rbuf' = [rbuf EXCEPT ![c] = NoBufs]
         /\ wbuf' = [wbuf EXCEPT ![c] = NoBufs]
         /\ UNCHANGED <<connections, finishCalls, crashed>>
    ELSE Commit(c, cr, rb, wb)

CloseConnOnFlush(c, cr, rb, wb, s) ==
    IF wb[s] = <<>> THEN CloseConn(c) ELSE Commit(c, cr, rb, wb)

(* Mutant: error_or_eof does not install close_conn_on_flush.             *)
FlushRewireNoCloseCb(cr, err, fl) ==
    [cr EXCEPT !.flushing = TRUE, !.en[err] = {},
               !.en[fl] = (@ \ {"R"}) \cup {"W"},
               !.rcb[fl] = "none", !.ecb[fl] = "output"]

(* error_or_eof, when it keeps the connection to flush bev_flush.          *)
FlushRewire(cr, err, fl) ==
    [cr EXCEPT !.flushing = TRUE, !.en[err] = {},
               !.en[fl] = (@ \ {"R"}) \cup {"W"},
               !.rcb[fl] = "none", !.wcb[fl] = "flush", !.ecb[fl] = "output"]

(* Mutant: the close-or-flush test looks at the errored side's buffer.   *)
ErrorOrEofChecksErrored(c, cr, rb, wb, err, fl) ==
    IF cr.flushing \/ ~cr.isOpen \/ wb[err] = <<>>
    THEN CloseConn(c)
    ELSE Commit(c, FlushRewire(cr, err, fl), rb, wb)

(* Mutant: a connection that never opened is flushed instead of closed.   *)
ErrorOrEofNoOpenCheck(c, cr, rb, wb, err, fl) ==
    IF cr.flushing \/ wb[fl] = <<>>
    THEN CloseConn(c)
    ELSE Commit(c, FlushRewire(cr, err, fl), rb, wb)

ErrorOrEof(c, cr, rb, wb, err, fl) ==
    IF cr.flushing \/ ~cr.isOpen \/ wb[fl] = <<>>
    THEN CloseConn(c)
    ELSE Commit(c, FlushRewire(cr, err, fl), rb, wb)

InputEventCb(c, cr, rb, wb) == ErrorOrEof(c, cr, rb, wb, "in", "out")

(* Mutant: only EV_WRITE is enabled on conn->input once connected.        *)
OpenInputWriteOnly(cr) == [cr EXCEPT !.isOpen = TRUE, !.en["in"] = @ \cup {"W"}]

(* BEV_EVENT_CONNECTED: is_open, and traffic enabled on the input side.    *)
OpenInput(cr) == [cr EXCEPT !.isOpen = TRUE, !.en["in"] = @ \cup {"R", "W"}]

OutputEventCb(c, cr, rb, wb, s, what) ==
    IF s # "out" THEN Abort("output_event_cb_on_input")
    ELSE IF cr.flushing \/ what \in {"eof", "error"}
    THEN ErrorOrEof(c, cr, rb, wb, "out", "in")
    ELSE Commit(c, OpenInput(cr), rb, wb)

(* A negative SOCKS reply is queued; close once it has drained.            *)
ReplyAndDrain(cr) ==
    [cr EXCEPT !.en["in"] = (@ \cup {"W"}) \ {"R"}, !.socks = "sent_reply",
               !.rcb["in"] = "none", !.wcb["in"] = "flush", !.ecb["in"] = "output"]

(* socks_event_cb on CONNECTED: socks_state freed, steady-state callbacks. *)
SteadyStateCallbacks(cr) ==
    [cr EXCEPT !.socks = "null",
               !.rcb = [s \in Sides |-> IF s = "in" THEN "upstream" ELSE "downstream"],
               !.wcb = [s \in Sides |-> "none"],
               !.ecb = [s \in Sides |-> IF s = "in" THEN "input" ELSE "output"]]

SocksEventCb(c, cr, rb, wb, what) ==
    IF what = "error" /\ cr.socks = "have_addr"
    THEN Commit(c, ReplyAndDrain(cr), rb, [wb EXCEPT !["in"] = Append(@, Reply(FALSE))])
    ELSE IF what = "connected"
    THEN LET wb2 == [wb EXCEPT !["in"] = Append(@, Reply(TRUE))] IN
         \* downstream_read_cb(bev, conn->input): a bufferevent is used as the conn_t
         \/ /\ rb["in"] # <<>>
            /\ Abort("downstream_read_cb_given_bufferevent")
         \/ OutputEventCb(c, SteadyStateCallbacks(cr), rb, wb2, "out", what)
    ELSE OutputEventCb(c, cr, rb, wb, "out", what)

UpstreamReadCb(c, cr, rb, wb, s) ==
    \/ /\ ResourceFailures          \* proto_send < 0
       /\ CloseConn(c)
    \/ Commit(c, cr, [rb EXCEPT ![s] = <<>>],
              [wb EXCEPT ![Other(s)] = @ \o ProtoSendAll(rb[s])])

DownstreamReadCb(c, cr, rb, wb, s) ==
    \E k \in RecvPrefixLens(Len(rb[s])), r \in RecvResults :
        LET part == SubSeq(rb[s], 1, k)
            rb2  == [rb EXCEPT ![s] = SubSeq(@, k + 1, Len(@))]
            wb2  == [wb EXCEPT ![Other(s)] = @ \o ProtoRecvOut(part)]
        IN  IF r = "bad" \/ ~Decodable(part) THEN CloseConn(c)
            ELSE IF r = "send_pending"
            THEN \* the result of this proto_send is not checked
                 \/ Commit(c, cr, [rb2 EXCEPT !["in"] = <<>>],
                           [wb2 EXCEPT !["out"] = @ \o ProtoSendAll(rb2["in"])])
                 \/ /\ ResourceFailures      \* proto_send < 0
                    /\ Commit(c, [cr EXCEPT !.protoErr = TRUE], rb2, wb2)
            ELSE Commit(c, cr, rb2, wb2)

(* The do { ... } while (socks_ret == SOCKS_GOOD) loop of socks_read_cb.   *)
RECURSIVE SocksLoop(_, _, _)
SocksLoop(st, q, w) ==
    IF st = "sent_reply" THEN [ret |-> "abort", st |-> st, q |-> q, w |-> w]
    ELSE IF st = "have_addr" THEN [ret |-> "have_addr", st |-> st, q |-> q, w |-> w]
    ELSE LET h == HandleSocks(st, q, w) IN
         IF h.ret = "good" THEN SocksLoop(h.st, h.q, h.w) ELSE h

(* ST_HAVE_ADDR: create conn->output, queue the handshake, connect.        *)
(* Mutant: is_open is set when the connect is launched, not on CONNECTED. *)
AttachOutboundOpensEarly(c, cr, rb, wb) ==
    Commit(c, [cr EXCEPT !.out = "connecting", !.rcb["out"] = "downstream",
                         !.ecb["out"] = "socks", !.en["out"] = {"R", "W"},
                         !.en["in"] = {}, !.isOpen = TRUE],
           rb, [wb EXCEPT ![HandshakeSide(cr.mode)] = <<Hs>>])

(* Unlike the accept paths, the result of bufferevent_socket_new is not   *)
(* checked: a NULL conn->output goes straight into bufferevent_setcb,      *)
(* which dereferences it, and the process dies.                           *)
AttachOutbound(c, cr, rb, wb) ==
    \/ /\ ResourceFailures   \* bufferevent_socket_new returns NULL
       /\ Abort("null_output_bev")
    \/ /\ ResourceFailures   \* proto_handshake or connect_hostname < 0
       /\ CloseConn(c)
    \/ Commit(c, [cr EXCEPT !.out = "connecting", !.rcb["out"] = "downstream",
                            !.ecb["out"] = "socks", !.en["out"] = {"R", "W"},
                            !.en["in"] = {}],
              rb, [wb EXCEPT ![HandshakeSide(cr.mode)] = <<Hs>>])

SocksReadCb(c, cr, rb, wb) ==
    LET h   == SocksLoop(cr.socks, rb["in"], wb["in"])
        cr1 == [cr EXCEPT !.socks = h.st]
        rb1 == [rb EXCEPT !["in"] = h.q]
        wb1 == [wb EXCEPT !["in"] = h.w]
    IN  CASE h.ret = "abort"      -> Abort("socks_read_after_reply")
          [] h.ret = "have_addr"  -> AttachOutbound(c, cr1, rb1, wb1)
          [] h.ret = "incomplete" -> Commit(c, cr1, rb1, wb1)
          [] h.ret = "broken"     -> CloseConn(c)
          [] OTHER                -> \* SOCKS_CMD_NOT_CONNECT
               Commit(c, ReplyAndDrain(cr1), rb1,
                      [wb1 EXCEPT !["in"] = Append(@, Reply(FALSE))])

(* Dispatch on the callbacks installed with bufferevent_setcb.             *)
RunReadCb(c, cr, rb, wb, s) ==
    CASE cr.rcb[s] = "upstream"   -> UpstreamReadCb(c, cr, rb, wb, s)
      [] cr.rcb[s] = "downstream" -> DownstreamReadCb(c, cr, rb, wb, s)
      [] cr.rcb[s] = "socks"      -> SocksReadCb(c, cr, rb, wb)
      [] OTHER                    -> Commit(c, cr, rb, wb)

RunEventCb(c, cr, rb, wb, s, what) ==
    CASE cr.ecb[s] = "input"  -> InputEventCb(c, cr, rb, wb)
      [] cr.ecb[s] = "output" -> OutputEventCb(c, cr, rb, wb, s, what)
      [] OTHER                -> SocksEventCb(c, cr, rb, wb, what)

RunWriteCb(c, cr, rb, wb, s) ==
    IF cr.wcb[s] = "flush" THEN CloseConnOnFlush(c, cr, rb, wb, s)
    ELSE Commit(c, cr, rb, wb)


---------------------------------------------------------------------------
(* Listeners and acceptance.                                               *)

Init ==
    /\ conn = [c \in Conns |-> UnbornConn]
    /\ rbuf = [c \in Conns |-> NoBufs]
    /\ wbuf = [c \in Conns |-> NoBufs]
    /\ peer = [c \in Conns |-> [s \in Sides |-> PeerInit]]
    /\ connections = Null
    /\ listeners = Null
    /\ lsn = [m \in AllModes |-> IF m \in Modes THEN "params" ELSE "none"]
    /\ shuttingDown = FALSE
    /\ finishCalls = 0
    /\ signals = 0
    /\ crashed = "none"

ListenerNew(m) ==
    /\ Running /\ lsn[m] = "params"
    /\ \/ /\ lsn' = [lsn EXCEPT ![m] = "bound"]
          /\ listeners' = IF listeners = Null THEN {m} ELSE listeners \cup {m}
       \/ /\ ResourceFailures   \* evconnlistener_new_bind failed: params freed
          /\ lsn' = [lsn EXCEPT ![m] = "failed"]
          /\ UNCHANGED listeners
    /\ UNCHANGED <<conn, rbuf, wbuf, peer, connections, shuttingDown,
                   finishCalls, signals, crashed>>

FreeAllListeners ==
    /\ Running /\ listeners # Null
    /\ lsn' = [m \in AllModes |-> IF m \in listeners THEN "freed" ELSE lsn[m]]
    /\ listeners' = Null
    /\ UNCHANGED <<conn, rbuf, wbuf, peer, connections, shuttingDown,
                   finishCalls, signals, crashed>>

(* Mutant: listener_free leaves the evconnlistener registered.          *)
AcceptingAfterFree(m) == lsn[m] \in {"bound", "freed"}

(* The evconnlistener of mode m exists and calls back on connections.    *)
Accepting(m) == lsn[m] = "bound"

(* Mutant: conn->input is enabled for reading at accept time.             *)
SimpleAcceptEnabledEager(s) == {"R", "W"}

(* Events enabled on each bufferevent right after simple-mode setup.       *)
SimpleAcceptEnabled(s) == IF s = "in" THEN NewBevEnabled ELSE {"R", "W"}

SimpleAccept(c, m, inRcb, outRcb) ==
    /\ Running /\ conn[c].status = "unborn" /\ Accepting(m)
    /\ \E f \in AcceptOutcomes(SimpleSteps) :
         IF f = "ok"
         THEN /\ conn' = [conn EXCEPT ![c] =
                   [UnbornConn EXCEPT !.status = "live", !.mode = m, !.out = "connecting",
                      !.en  = [s \in Sides |-> SimpleAcceptEnabled(s)],
                      !.rcb = [s \in Sides |-> IF s = "in" THEN inRcb ELSE outRcb],
                      !.ecb = [s \in Sides |-> IF s = "in" THEN "input" ELSE "output"]]]
              /\ wbuf' = [wbuf EXCEPT ![c][HandshakeSide(m)] = <<Hs>>]
              /\ connections' = AddConn(c)
         ELSE /\ conn' = [conn EXCEPT ![c] = FailedConn(m, f)]
              /\ UNCHANGED <<wbuf, connections>>
    /\ UNCHANGED <<rbuf, peer, listeners, lsn, shuttingDown, finishCalls, signals, crashed>>

(* Mutant: the simple client pairs its read callbacks like the server.    *)
SimpleClientListenerCbSwapped(c) == SimpleAccept(c, "simple_client", "downstream", "upstream")

SimpleClientListenerCb(c) == SimpleAccept(c, "simple_client", "upstream", "downstream")

SocksClientListenerCb(c) ==
    /\ Running /\ conn[c].status = "unborn" /\ Accepting("socks_client")
    /\ \E f \in AcceptOutcomes(SocksSteps) :
         IF f = "ok"
         THEN /\ conn' = [conn EXCEPT ![c] =
                   [UnbornConn EXCEPT !.status = "live", !.mode = "socks_client",
                      !.socks = "init", !.en["in"] = {"R", "W"},
                      !.rcb["in"] = "socks", !.ecb["in"] = "input"]]
              /\ connections' = AddConn(c)
         ELSE /\ conn' = [conn EXCEPT ![c] = FailedConn("socks_client", f)]
              /\ UNCHANGED connections
    /\ UNCHANGED <<rbuf, wbuf, peer, listeners, lsn, shuttingDown, finishCalls, signals, crashed>>

SimpleServerListenerCb(c) == SimpleAccept(c, "simple_server", "downstream", "upstream")

---------------------------------------------------------------------------
(* Shutdown (called from the hosting program's signal handlers).           *)

ClosedByBarbaric(barbaric) ==
    IF barbaric /\ connections # Null THEN connections ELSE {}

(* Mutant: start_shutdown calls finish_shutdown unconditionally.          *)
ShutdownFinishDueAlways(reg) == TRUE

ShutdownFinishDue(reg) == reg = Null

StartShutdown(barbaric) ==
    /\ Running /\ signals < MaxSignals
    /\ signals' = signals + 1
    /\ shuttingDown' = TRUE
    /\ LET closed == ClosedByBarbaric(barbaric)
           reg == IF barbaric THEN Null
                  ELSE IF connections # Null /\ connections = {} THEN Null
                  ELSE connections
       IN  /\ conn' = [c \in Conns |-> IF c \in closed THEN ConnFree(conn[c]) ELSE conn[c]]
           /\ rbuf' = [c \in Conns |-> IF c \in closed THEN NoBufs ELSE rbuf[c]]
           /\ wbuf' = [c \in Conns |-> IF c \in closed THEN NoBufs ELSE wbuf[c]]
           /\ connections' = reg
           /\ finishCalls' = IF ShutdownFinishDue(reg) THEN finishCalls + 1 ELSE finishCalls
    /\ UNCHANGED <<peer, listeners, lsn, crashed>>

---------------------------------------------------------------------------
(* The reactor and the TCP peers.  Each step delivers one socket event to  *)
(* a live connection and runs the callback registered for it.             *)

Serving(c) == Running /\ conn[c].status = "live"
Connected(c, s) == s = "in" \/ conn[c].out = "connected"
(* The TCP connection exists, whether or not libevent has reported it.     *)
PeerUp(c, s) == Connected(c, s) \/ (s = "out" /\ conn[c].out = "established")
EnvUnchanged == UNCHANGED <<listeners, lsn, shuttingDown, signals>>

PeerSend(c, s) ==
    /\ Serving(c) /\ PeerUp(c, s)
    /\ ~peer[c][s].fin /\ ~peer[c][s].gone
    /\ peer[c][s].sent < ScriptLen(conn[c].mode, s)
    /\ \E t \in NextTokens(conn[c].mode, s, peer[c][s].sent + 1) :
         peer' = [peer EXCEPT ![c][s].sent = @ + 1, ![c][s].kern = Append(@, t)]
    /\ UNCHANGED <<conn, rbuf, wbuf, connections, finishCalls, crashed>>
    /\ EnvUnchanged

PeerFin(c, s) ==
    /\ Serving(c) /\ PeerUp(c, s)
    /\ ~peer[c][s].fin /\ ~peer[c][s].gone
    /\ peer' = [peer EXCEPT ![c][s].fin = TRUE]
    /\ UNCHANGED <<conn, rbuf, wbuf, connections, finishCalls, crashed>>
    /\ EnvUnchanged

(* A reset is noticed by the first read or write libevent attempts.        *)
PeerReset(c, s) ==
    /\ PeersMayReset /\ Serving(c) /\ PeerUp(c, s) /\ ~peer[c][s].gone
    /\ LET en == conn[c].en[s] IN
       /\ "R" \in en \/ ("W" \in en /\ wbuf[c][s] # <<>>)
       /\ peer' = [peer EXCEPT ![c][s].gone = TRUE, ![c][s].kern = <<>>]
       /\ RunEventCb(c, [conn[c] EXCEPT !.en[s] = en \ (IF "R" \in en THEN {"R"} ELSE {"W"})],
                     rbuf[c], wbuf[c], s, "error")
    /\ EnvUnchanged

SocketReadable(c, s) ==
    /\ Serving(c) /\ "R" \in conn[c].en[s] /\ peer[c][s].kern # <<>>
    /\ peer' = [peer EXCEPT ![c][s].kern = <<>>]
    /\ RunReadCb(c, conn[c], [rbuf[c] EXCEPT ![s] = @ \o peer[c][s].kern], wbuf[c], s)
    /\ EnvUnchanged

SocketEof(c, s) ==
    /\ Serving(c) /\ "R" \in conn[c].en[s]
    /\ peer[c][s].kern = <<>> /\ peer[c][s].fin
    /\ RunEventCb(c, [conn[c] EXCEPT !.en[s] = @ \ {"R"}], rbuf[c], wbuf[c], s, "eof")
    /\ UNCHANGED peer
    /\ EnvUnchanged

SocketWritable(c, s) ==
    /\ Serving(c) /\ "W" \in conn[c].en[s] /\ wbuf[c][s] # <<>>
    /\ Connected(c, s) /\ ~peer[c][s].gone
    /\ peer' = [peer EXCEPT ![c][s].got = Append(@, Head(wbuf[c][s]))]
    /\ LET wb == [wbuf[c] EXCEPT ![s] = Tail(@)] IN
       IF wb[s] = <<>> THEN RunWriteCb(c, conn[c], rbuf[c], wb, s)
       ELSE Commit(c, conn[c], rbuf[c], wb)
    /\ EnvUnchanged

(* The SOCKS path calls bufferevent_socket_connect_hostname before it     *)
(* enables EV_READ on conn->output; when the name needs a DNS lookup the  *)
(* socket is only connected after the read event is registered, so the    *)
(* kernel may report the socket readable in the same poll as writable and *)
(* libevent may run downstream_read_cb before socks_event_cb sees          *)
(* CONNECTED.  The simple modes connect before enabling reads.             *)
OutboundEstablished(c) ==
    /\ EarlyReads /\ Serving(c)
    /\ conn[c].mode = "socks_client" /\ conn[c].out = "connecting"
    /\ conn' = [conn EXCEPT ![c].out = "established"]
    /\ UNCHANGED <<rbuf, wbuf, peer, connections, finishCalls, crashed>>
    /\ EnvUnchanged

OutboundConnected(c) ==
    /\ Serving(c) /\ conn[c].out \in {"connecting", "established"}
    /\ RunEventCb(c, [conn[c] EXCEPT !.out = "connected"], rbuf[c], wbuf[c], "out", "connected")
    /\ UNCHANGED peer
    /\ EnvUnchanged

OutboundFailed(c) ==
    /\ Serving(c) /\ conn[c].out = "connecting"
    /\ RunEventCb(c, [conn[c] EXCEPT !.out = "failed", !.en["out"] = {}],
                  rbuf[c], wbuf[c], "out", "error")
    /\ UNCHANGED peer
    /\ EnvUnchanged

---------------------------------------------------------------------------

Next ==
    \/ \E m \in Modes : ListenerNew(m)
    \/ FreeAllListeners
    \/ \E b \in BOOLEAN : StartShutdown(b)
    \/ \E c \in Conns :
         \/ SimpleClientListenerCb(c)
         \/ SimpleServerListenerCb(c)
         \/ SocksClientListenerCb(c)
         \/ OutboundEstablished(c)
         \/ OutboundConnected(c)
         \/ OutboundFailed(c)
         \/ \E s \in Sides :
              \/ PeerSend(c, s) \/ PeerFin(c, s) \/ PeerReset(c, s)
              \/ SocketReadable(c, s) \/ SocketEof(c, s) \/ SocketWritable(c, s)

(* libevent runs every ready callback; a connect completes or fails; a     *)
(* peer that has not reset keeps reading its socket.                       *)
Fairness ==
    \A c \in Conns :
        /\ WF_vars(OutboundConnected(c) \/ OutboundFailed(c))
        /\ \A s \in Sides : /\ WF_vars(SocketReadable(c, s))
                            /\ WF_vars(SocketEof(c, s))
                            /\ WF_vars(SocketWritable(c, s))

Spec == Init /\ [][Next]_vars /\ Fairness


---------------------------------------------------------------------------
(* Properties.                                                             *)

Token == [kind : {"data", "hs", "greet", "connect", "bind", "junk", "method",
                  "reply_ok", "reply_fail"},
          from : Sides \cup {"proto", "socks"}, seq : 0..MaxData, wrap : 0..2]

ConnType ==
    [status : {"unborn", "live", "freed"}, mode : AllModes \cup {"none"},
     isOpen : BOOLEAN, flushing : BOOLEAN,
     socks : {"null", "init", "negotiated", "have_addr", "sent_reply"},
     out : {"none", "connecting", "established", "connected", "failed"}, fdCloses : 0..2,
     protoErr : BOOLEAN,
     en : [Sides -> SUBSET {"R", "W"}],
     rcb : [Sides -> {"none", "upstream", "downstream", "socks"}],
     wcb : [Sides -> {"none", "flush"}],
     ecb : [Sides -> {"none", "input", "output", "socks"}]]

(* Every variable has its type; a smartlist is either released (NULL) or  *)
(* holds at least one element, as close_conn and start_shutdown free an   *)
(* empty one.                                                              *)
TypeOK ==
    /\ conn \in [Conns -> ConnType]
    /\ rbuf \in [Conns -> [Sides -> Seq(Token)]]
    /\ wbuf \in [Conns -> [Sides -> Seq(Token)]]
    /\ peer \in [Conns -> [Sides -> [sent : Nat, kern : Seq(Token), fin : BOOLEAN,
                                     gone : BOOLEAN, got : Seq(Token)]]]
    /\ connections \in {Null} \cup (SUBSET Conns \ {{}})
    /\ listeners \in {Null} \cup (SUBSET AllModes \ {{}})
    /\ lsn \in [AllModes -> {"none", "params", "bound", "failed", "freed"}]
    /\ shuttingDown \in BOOLEAN /\ finishCalls \in Nat /\ signals \in Nat
    /\ crashed \in {"none", "output_event_cb_on_input", "socks_read_after_reply",
                    "downstream_read_cb_given_bufferevent", "null_output_bev"}

(* The registry holds exactly the connections that were set up and not    *)
(* yet freed, and is released exactly when there are none (listener       *)
(* callbacks, close_conn, close_all_connections).                          *)
RegistryMatchesLive ==
    IF Live = {} THEN connections = Null ELSE connections = Live

(* What each peer receives is its preamble (protocol handshake, SOCKS      *)
(* replies) followed by the other peer's data, in order, without gaps or   *)
(* duplicates, and obfuscated exactly as that peer expects: the callback   *)
(* pairing of the listener callbacks, the handshake buffer, the SOCKS      *)
(* reply and callback rewiring, and the RECV_SEND_PENDING path.            *)
Preamble(m, s) ==
    CASE s = "out" /\ m \in {"simple_client", "socks_client"} -> <<Hs>>
      [] s = "in" /\ m = "simple_server" -> <<Hs>>
      [] s = "in" /\ m = "socks_client"  -> <<Method, Reply(TRUE)>>
      [] OTHER -> <<>>

StreamIntegrity ==
    \A c \in Conns, s \in Sides :
        LET g == peer[c][s].got
            d == DataOf(g)
        IN  /\ d = [i \in 1..Len(d) |-> Data(Other(s), i, PeerWrap(conn[c].mode, s))]
            /\ d # <<>> => g = Preamble(conn[c].mode, s) \o d

(* No data crosses the proxy in either direction before output_event_cb   *)
(* has seen the outbound connection complete (is_open).                    *)
NoForwardingBeforeOpen ==
    \A c \in Live : ~conn[c].isOpen =>
        \A s \in Sides : DataOf(wbuf[c][s]) = <<>> /\ DataOf(peer[c][s].got) = <<>>

(* Once either peer has closed or reset, the connection is eventually      *)
(* freed (after flushing what is buffered for the surviving peer), unless  *)
(* the process aborted.                                                    *)
HalfCloseTerminates ==
    \A c \in Conns :
        (Serving(c) /\ \E s \in Sides : peer[c][s].fin \/ peer[c][s].gone)
            ~> (conn[c].status = "freed" \/ crashed # "none")

(* Refinement: the registry and shutdown, seen from the hosting program.  *)
Reg == INSTANCE Registry WITH Slots <- Conns, live <- Live,
                              accepting <- \E m \in AllModes : lsn[m] = "bound",
                              closing <- shuttingDown, finished <- finishCalls

(* Connections join only through a bound listener and leave one per step  *)
(* (close_conn, a failed accept never joins) or all together (barbaric    *)
(* start_shutdown), and finish_shutdown is called exactly at the steps    *)
(* that find or leave the registry empty while shutting down: every       *)
(* close_conn, close_all_connections and start_shutdown path.             *)
ImplementsRegistry == Reg!Spec

(* The data token number n of the peer on side f is in queue q.           *)
Holds(q, f, n) == \E i \in DOMAIN q : IsData(q[i]) /\ q[i].from = f /\ q[i].seq = n

(* Spec section 8.2, flush on half-close: data queued in a write buffer    *)
(* toward a peer reaches that peer, whichever side ended first, unless    *)
(* the receiving peer itself closed or reset (error_or_eof then drops     *)
(* that direction) or the process aborted.  It rests on error_or_eof      *)
(* choosing between closing and flushing by the right buffer, and on      *)
(* close_conn_on_flush closing only once the flush side has drained.      *)
BufferedDataDelivered ==
    \A c \in Conns, s \in Sides, n \in 1..MaxData :
        Holds(wbuf[c][s], Other(s), n)
            ~> \/ Holds(peer[c][s].got, Other(s), n)
               \/ peer[c][s].fin \/ peer[c][s].gone \/ crashed # "none"

(* finish_shutdown is called only while shutting down and with no live     *)
(* connection (start_shutdown, close_conn).                                *)
FinishOnlyWhenDrained ==
    [][finishCalls' > finishCalls => shuttingDown' /\ Live' = {}]_vars

(* Once shutting down with no live connection, finish_shutdown has been    *)
(* called: the last close_conn, or start_shutdown itself, calls it.        *)
FinishNotMissed ==
    shuttingDown /\ Live = {} => finishCalls > 0

---------------------------------------------------------------------------
(* Refinement: each connection slot follows the abstract lifecycle.  The   *)
(* phase is read off the callback state network.c keeps: the SOCKS status,*)
(* flushing and is_open.                                                   *)

Phase(c) ==
    LET cr == conn[c] IN
    CASE cr.status = "unborn"                  -> "unborn"
      [] cr.status = "freed"                   -> "closed"
      [] cr.socks \in {"init", "negotiated"}   -> "negotiating"
      [] cr.socks = "sent_reply"               -> "draining"
      [] cr.flushing                           -> "flushing"
      [] cr.isOpen                             -> "open"
      [] OTHER                                 -> "connecting"

Lifecycle(c) == INSTANCE ConnLifecycle WITH phase <- Phase(c), halted <- crashed # "none"

(* Every connection moves only along the lifecycle of the spec's design    *)
(* notes (no flush before open, no reopen after a half-close, no reply    *)
(* drain after forwarding began), and a pending connect, a flush or a     *)
(* SOCKS reply drain always ends: the callback rewiring of the listener   *)
(* callbacks, error_or_eof, socks_read_cb and socks_event_cb.             *)
ImplementsLifecycle ==
    /\ \A c \in Conns : Lifecycle(c)!Init
    /\ [][\A c \in Conns : [Lifecycle(c)!Next]_<<Phase(c), crashed # "none">>]_vars
    /\ \A c \in Conns : Lifecycle(c)!Settles

(* Section 7 of the spec: a proto_send or proto_recv that fails is fatal  *)
(* to its connection, which close_conn frees in the same callback         *)
(* (upstream_read_cb, downstream_read_cb).                                 *)
ProtoErrorCloses == \A c \in Live : ~conn[c].protoErr

(* Section 7 of the spec: peer-initiated ends (EOF, reset) and stream     *)
(* allocation failures lead to a half-close or a close, never to a        *)
(* process abort.                                                           *)
NoAbort == crashed = "none"

(* Section 8.4 of the spec: finish_shutdown is called exactly once.        *)
FinishAtMostOnce == finishCalls <= 1

=============================================================================
