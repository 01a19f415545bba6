# TLA+ model of the StegoTorus connection engine (`src/src/network.c`)

This directory models the part of StegoTorus (an obfsproxy derivative) that
accepts TCP connections, sets up the outbound half of each one, forwards
bytes between the two halves through a protocol object, and tears them
down. The models are checked with TLC.

## 1. The system and its parts

`network.c` runs inside a libevent reactor. It is single-threaded: every
operation is one callback run to completion. The concurrency comes from the
reactor running the callbacks of many connections in any order, and from
the two TCP peers of each connection (the client on `conn->input` and the
target on `conn->output`) acting independently.

| Part | Code | State it keeps | Operations |
|---|---|---|---|
| Listener | `listener_new`, `listener_free`, `free_all_listeners` (105-178) | `listeners` smartlist (NULL when released), `listener_t` and its `protocol_params_t` | bind and register (or fail and free the params); free all |
| Acceptance flows | `simple_client_listener_cb`, `socks_client_listener_cb`, `simple_server_listener_cb` (180-377) | new `conn_t`: mode, protocol object, SOCKS state, two bufferevents and their callbacks and enabled events | allocate, wrap the fd, create the outbound bufferevent, queue the handshake, connect, register; on any failure `conn_free` and close the fd |
| Forwarding state machine | `upstream_read_cb`, `downstream_read_cb`, `input_event_cb`, `output_event_cb`, `error_or_eof`, `close_conn_on_flush` (505-629) | `is_open`, `flushing`, callbacks per bufferevent, evbuffers | obfuscate (`proto_send`) or deobfuscate (`proto_recv`, with RECV_SEND_PENDING); mark open on CONNECTED; half-close: disable the errored side, flush the other, close when drained |
| SOCKS negotiation | `socks_read_cb`, `socks_event_cb` (434-503, 631-689) | SOCKS status (`init`, `have_addr`, `sent_reply`) | parse loop; create and connect the outbound side; negative reply and drain; positive reply, rewire to steady state, forward pipelined data |
| Registry and shutdown | `start_shutdown`, `close_all_connections`, `close_conn`, `conn_free` (63-103, 379-419) | `connections` smartlist (NULL when released), `shutting_down` | graceful or barbaric shutdown; free a connection; call `finish_shutdown` |
| Protocol objects | `protocol.c` (not under `src/`) | per-connection protocol state | `proto_handshake`, `proto_send`, `proto_recv`: modelled from the spec |
| SOCKS parser | `socks.c` (not under `src/`) | parser state | `handle_socks`, `socks_send_reply`: modelled from the spec |
| Reactor | libevent | readiness of sockets, enabled events | delivers read, write, EOF, error and CONNECTED events to enabled bufferevents: the environment |
| Hosting program | `main.c` (not under `src/`) | signal handling | calls `start_shutdown`, `free_all_listeners`; provides `finish_shutdown` |

**How the parts interact.**
- A listener callback creates a connection and puts it in the registry.
- Callbacks then rewire each other: `error_or_eof`, the SOCKS callbacks and
  `output_event_cb` swap callbacks and enabled events with
  `bufferevent_setcb`, `bufferevent_enable` and `bufferevent_disable`.
- `close_conn` removes a connection from the registry, and may call
  `finish_shutdown` when it was the last one during shutdown.

**What is hard.**
- The callback graph depends on history. A bufferevent may carry a callback
  that asserts it is attached to the *other* bufferevent (`output_event_cb`
  on `conn->input`).
- The order of peer events against the flush and drain windows matters.
- Partial frames left behind by `proto_recv` and data pipelined behind a
  SOCKS request are edge cases that tests rarely reach.
- Each accepted fd must be closed exactly once on every error path.
- `finish_shutdown` must be called at the right moment, and it is not
  latched.

## 2. Modules

### `Network.tla`: the whole engine, one module

The components share `conn_t`, the registry and the callbacks. Each
callback calls into the others, so they are modelled in one module.

**State.**

| Variable | What it holds |
|---|---|
| `conn[c]` | The `conn_t` of slot `c`. It has `status` (unborn, live, freed), `mode`, `isOpen`, `flushing`, `socks` status, and `out` (the outbound connect's progress). `fdCloses` counts how often the accepted fd was closed. Per side (`"in"` = `conn->input`, `"out"` = `conn->output`) it also has the installed callbacks `rcb`, `wcb`, `ecb` and the enabled events `en`. |
| `rbuf[c][s]`, `wbuf[c][s]` | The input and output evbuffers of each bufferevent, as sequences of tokens. |
| `peer[c][s]` | The TCP peer: tokens sent so far, bytes in flight (`kern`), FIN sent, reset (`gone`), tokens received (`got`). |
| `connections`, `listeners` | The two smartlists. The model value `Null` stands for the released pointer. |
| `shuttingDown` | `shutting_down`. |
| `finishCalls` | Counts `finish_shutdown` calls. |
| `signals` | Counts `start_shutdown` calls. |
| `lsn` | Where each mode's listener is in its lifecycle. |
| `crashed` | Why the process aborted (failed `obfs_assert` or `obfs_abort`, or undefined behaviour). Once set, no action is enabled. |

**Data.** A token records its kind (data, handshake, SOCKS messages), its
sender, its position in the sender's stream and its obfuscation depth
`wrap`:
- `proto_send` adds one layer;
- `proto_recv` removes one layer and may leave a partial frame behind;
- the handshake is its own token.

**Actions.**

| Action | Code it models |
|---|---|
| `ListenerNew(m)` | `listener_new`, for one mode |
| `FreeAllListeners` | `free_all_listeners` |
| `SimpleClientListenerCb(c)` | its listener callback, each failure point a disjunct |
| `SocksClientListenerCb(c)` | its listener callback, each failure point a disjunct |
| `SimpleServerListenerCb(c)` | its listener callback, each failure point a disjunct |
| `StartShutdown(barbaric)` | `start_shutdown` |

**Environment actions.** Each one delivers one socket event and then runs
the callback that is installed for it (`RunReadCb`, `RunWriteCb`,
`RunEventCb`):
- `PeerSend`, `PeerFin`, `PeerReset`;
- `SocketReadable`, `SocketEof`, `SocketWritable`;
- `OutboundEstablished`, `OutboundConnected`, `OutboundFailed`.

`OutboundEstablished` is the TCP connect of a SOCKS outbound socket having
completed before libevent reports it (`out = "established"`; `PeerUp`
lets the target send, close or reset from then on). It is allowed only
when the constant `EarlyReads` is TRUE. `socks_read_cb` calls
`bufferevent_socket_connect_hostname` before it enables `EV_READ`. When the
name needs a DNS lookup, the socket connects after the read event is
registered, so libevent may run `downstream_read_cb`, or report EOF or a
reset, before `socks_event_cb` sees CONNECTED. The simple modes connect
before they enable reads, so libevent reports the connect first there.

The callbacks are operators, one per C function. Each returns the whole
effect of one call:
- `UpstreamReadCb`, `DownstreamReadCb`, `InputEventCb`, `OutputEventCb`;
- `ErrorOrEof`, `CloseConnOnFlush`, `CloseConn`, `ConnFree`;
- `SocksReadCb` with the RECURSIVE `SocksLoop`, and `SocksEventCb`.

`SocksLoop` runs over a `handle_socks` modelled from the spec, in which
every GOOD step consumes a token. So the loop's termination and its
handling of pipelined requests come from that model, not from `socks.c`,
and no property claims them.

The libevent defaults that matter are modelled:
- a new socket bufferevent has only `EV_WRITE` enabled (`NewBevEnabled`);
- an EOF disables reading.

**Undefined behaviour** at network.c:684 is a nondeterministic choice
between a crash and no effect.

### `ConnLifecycle.tla`: what one connection promises

The abstract specification of one connection, following the per-connection
state enum of the spec's design notes (section 9). `phase` is one of:
`unborn`, `negotiating`, `connecting`, `open`, `flushing`, `draining` (a
negative SOCKS reply is queued), `closed`. `halted` records that the process
has aborted.

| Action | Phase change |
|---|---|
| `Accept` | `unborn` to `negotiating`, `connecting` or `closed` |
| `AddressKnown` | `negotiating` to `connecting` |
| `Refuse` | `negotiating` or `connecting` to `draining` |
| `Establish` | `connecting` to `open` |
| `HalfClose` | `open` to `flushing` |
| `Close` | any active phase to `closed` |
| `Halt` | sets `halted`; the phase does not change |

Weak fairness on `Settle` requires that a pending connect, a flush and a
reply drain each end.

**Refinement.** `Network` maps each slot onto the abstract lifecycle with
`Lifecycle(c) == INSTANCE ConnLifecycle WITH phase <- Phase(c), halted <-
crashed # "none"`. `Phase` reads the phase off the fields `network.c`
keeps, in this order:
1. the slot's status (unborn or freed);
2. the SOCKS status;
3. `flushing`;
4. `is_open`.

TLC cannot evaluate `ENABLED` through a mapping onto a computed expression.
So `ImplementsLifecycle` checks `SafeSpec` (Init and the box of Next) for
each slot, and replaces the fairness condition with the leads-to `Settles`.
Under `SafeSpec`, the two say the same thing, as the module's comment
explains.

### `Registry.tla`: what the registry and shutdown promise

The abstract specification of spec sections 4.6 and 4.7, seen from the
hosting program.

| Variable | Maps from `Network` |
|---|---|
| `live` | `Live` |
| `accepting` | some listener is bound |
| `closing` | `shuttingDown` |
| `finished` | `finishCalls` |

| Action | What it does |
|---|---|
| `Register(c)` | Only while accepting. |
| `Release(c)` | One connection. It calls finish when it leaves the set empty during shutdown. |
| `Shutdown(barbaric)` | Empties the set if barbaric. It calls finish if the set is then empty. |
| `Listen`, `StopAccepting` | Listeners come and go. |

It follows section 4.7, which calls finish at every drain. So it allows
several calls, and the finding against section 8.4 stays a separate
violation run.

`Network` declares `Reg == INSTANCE Registry WITH ...`.
`ImplementsRegistry == Reg!Spec` is checked in `registry_shutdown`. It is
stronger than the registry invariants:
- `Live` changes by one connection per step, except for a barbaric
  shutdown;
- each call of `finish_shutdown` falls on exactly such an emptying step;
- no connection joins after the listeners are freed.

### `MCNetwork.tla`

Declares the model values `c1`, `c2`, `c3`, the connection-slot sets and
the symmetry set.

`PROJECT.json` maps every definition to its lines. The protocol, SOCKS
parser and reactor definitions are marked spec-modelled, because their code
is not in `src/`.

## 3. Runs

| Run | Expect | Checks | Shows |
|---|---|---|---|
| `client_forwarding` | pass | `TypeOK`, `StreamIntegrity`, `NoForwardingBeforeOpen`, `HalfCloseTerminates`, `ImplementsLifecycle` | One connection in simple-client or SOCKS-client mode. It runs with partial frames, every `proto_recv` result, resource failures, resets, and SOCKS connect, bind and junk requests. Both streams are forwarded intact, and the SOCKS client gets the method reply and the positive reply before any data. Nothing is forwarded before CONNECTED, every half-closed connection is freed, and each connection refines `ConnLifecycle`. |
| `registry_shutdown` | pass | `RegistryMatchesLive`, `AcceptedFdClosedOnce`, `FinishNotMissed`, `FinishOnlyWhenDrained`, `ImplementsRegistry` | Two connections, accept failures, listener teardown, and both kinds of shutdown, with early reads on SOCKS outbound sockets. See the note below this table. |
| `half_close_flush` | pass | `StreamIntegrity`, `BufferedDataDelivered`, `HalfCloseTerminates`, `ImplementsLifecycle` | One connection in every mode. Peers close or reset in any order, and the protocol never rejects data. Data queued toward a peer reaches it unless that peer ended itself (spec section 8.2). Both streams stay intact: in simple-server mode the handshake goes back on the inbound wire. Every connection ends and refines `ConnLifecycle`. |
| `shutdown_traffic` | pass | `RegistryMatchesLive`, `FinishNotMissed`, `FinishOnlyWhenDrained` | Two connections with data and resets, and one shutdown of either kind. The last connection can close from `close_conn_on_flush`, and the registry and `finish_shutdown` still behave. |
| `flush_abort` | violation | `NoAbort` | The target sends data, then closes, so the proxy flushes toward the client. The client resets, `output_event_cb` runs on `conn->input`, and the assertion at line 606 aborts the process. |
| `socks_pipelined` | violation | `NoAbort` | The client's data is pipelined behind CONNECT. Line 684 passes a bufferevent as `conn_t *` (undefined behaviour). |
| `server_send_pending` | violation | `StreamIntegrity` | In server mode, RECV_SEND_PENDING obfuscates leftover wire bytes toward the plaintext target (lines 544-547). |
| `send_pending_error` | violation | `ProtoErrorCloses` | `proto_send` fails after `proto_recv` returned RECV_SEND_PENDING. `downstream_read_cb` ignores the failure, and the connection stays live. |
| `socks_output_alloc` | violation | `NoAbort` | The outbound bufferevent of a SOCKS connection cannot be allocated. Line 455 does not check it, and `bufferevent_setcb` dereferences NULL. |
| `socks_early_read` | violation | `StreamIntegrity` | The target sends data at once, and libevent reads it before CONNECTED. The data is queued to the SOCKS client ahead of the SOCKS reply. |
| `socks_reply_twice` | violation | `ImplementsLifecycle` | The target resets, and libevent reads the reset before CONNECTED. `socks_event_cb` queues the negative reply. The pending connect then completes, and a positive reply follows: the draining connection is reopened. |
| `finish_twice` | violation | `FinishAtMostOnce` | Two signals with no connections call `finish_shutdown` twice. Spec section 8.4 says once. |

What `registry_shutdown` checks:
- the registry equals the live connections and is NULL when there are
  none;
- `finish_shutdown` is called when, and only when, shutdown has drained.

Every property of a passing run has a mutant in `PROJECT.json`: a plausible
bug in the mapped code that TLC then catches.

**Bounds.**
- **The data runs use one connection.** Connections share nothing but the
  registry, so a single connection shows every per-connection interleaving.
- **`MaxData = 2`.** Two data tokens per peer are enough for:
  - a partial frame followed by the rest of it;
  - data on both sides of a half-close;
  - data pipelined behind a SOCKS request.
- **`registry_shutdown` uses two connection slots and two signals.** This
  reaches:
  - a close racing the other connection's accept;
  - a registry emptied and refilled;
  - a second `start_shutdown`.

  It leaves out data and resets to stay small; the data runs cover those.
  Symmetry over the slots is sound there, because no property or action
  tells slots apart.
- **`shutdown_traffic` adds what `registry_shutdown` leaves out.** It uses
  two connections with one data token each, resets and one signal. This is
  where a shutdown meets a half-close flush in progress.
- **`half_close_flush` uses one connection in every mode.**
  `client_forwarding` uses one connection in either client-side mode. The
  properties are per connection. Simple-server mode is checked without
  resource failures and `bad` results. Those failures end in the same
  `close_conn` that `client_forwarding` covers with them.

**Fairness.** Weak fairness is assumed for:
- the reactor's readable, EOF and writable deliveries on every socket;
- the outcome of every pending connect.

The reactor's loop guarantees these: an enabled bufferevent with a ready
socket gets its callback. No fairness is given to the peers. The liveness
property asks only that a connection whose peer *has* closed is eventually
freed. That relies on the surviving peer reading what is flushed to it (see
the hazards). Every cfg sets `CHECK_DEADLOCK FALSE`, because the reactor
legitimately blocks forever when peers are silent.

## 4. Findings

- **Abort on a client reset during a flush or drain** (code bug). See
  `flush_abort`. The same rewiring happens at lines 499-500 and 655-656.
- **Undefined behaviour with pipelined SOCKS data** (code bug). See
  `socks_pipelined`.
- **Wrong direction on RECV_SEND_PENDING in server mode** (code bug). See
  `server_send_pending`.
- **`finish_shutdown` is not latched** (divergence from the spec). Accepts
  continue during graceful shutdown, even though the comment at line 39 says
  they are blocked. See `finish_twice`.
- **Ignored `proto_send` failure on RECV_SEND_PENDING** (divergence from the
  spec). Line 545 discards the result. Spec section 7 makes a failing
  `proto.send` fatal to the connection, and `upstream_read_cb` does close on
  it. The model does not know what a failing `proto_send` leaves in the
  buffers, so it takes the failure as consuming and producing nothing. The
  protocol object is then marked failed (`protoErr`). See
  `send_pending_error`.
- **Unchecked allocation of the SOCKS outbound bufferevent** (code bug).
  The accept paths check the same call. Spec section 7 says the failure is
  cleaned up, not fatal to the process. See `socks_output_alloc`.
- **Target data can precede the SOCKS reply** (code bug, if libevent reads
  before CONNECTED). `EV_READ` is enabled on `conn->output` with
  `downstream_read_cb` installed while the connect is pending (lines
  469-472). See `socks_early_read`.
- **A connect error does not end the SOCKS connect** (code bug, same
  precondition). The error branch of `socks_event_cb` (lines 646-657)
  leaves `conn->output` connecting and `socks_state` allocated. A later
  CONNECTED sends a second reply and reopens the connection. See
  `socks_reply_twice`.

## 5. Not modelled, and why

- **The internals of protocols, the SOCKS parser and libevent.** They are
  not in `src/`. Only the effects the spec gives them are modelled.
- **`BEV_EVENT_TIMEOUT`.** `network.c` never sets a timeout, so the event
  cannot occur.
- **DNS, address formatting and logging.** No property depends on them.
- **Read events before CONNECTED in the simple modes.** Those paths
  connect before they enable reads, so libevent reports the connect first.
  Early reads are modelled only for the SOCKS path (`EarlyReads`). The
  data runs keep `EarlyReads = FALSE`, so that they check
  the other behaviours apart from the two findings above.
- **Whether protocol objects keep pointers to the listener's params.**
  `free_all_listeners` frees them while connections may still be live.
  Whether that is a use after free depends on `protocol.c`, which is not in
  `src/`, so it is neither modelled nor listed as a hazard.
- **The fd count of an accepted connection.** `conn[c].fdCloses` is kept
  for the type invariant, but no property checks it. `fd = -1` after
  wrapping (line 209) makes "closed once" follow directly from the
  definitions.

## 6. Plan for the next sittings

Done so far:
- the abstract lifecycle and its refinement (`ConnLifecycle`, in runs
  `client_forwarding` and `half_close_flush`);
- the abstract registry and its refinement (`Registry`, in run
  `registry_shutdown`);
- flush on half-close (`half_close_flush`);
- shutdown with traffic (`shutdown_traffic`);
- the failure of `proto_send` on RECV_SEND_PENDING (`send_pending_error`);
- allocation failure of the SOCKS outbound bufferevent
  (`socks_output_alloc`);
- libevent reading a connecting SOCKS socket before CONNECTED
  (`EarlyReads`, with runs `socks_early_read` and `socks_reply_twice`).

Left:
1. **A run mixing SOCKS and simple connections with data.**
2. **A SOCKS parser module.** Move the spec-modelled `handle_socks` into a
   module of its own.
3. **Repair checks.** Once the findings are fixed in the code, add passing
   runs of `socks_early_read` and `socks_reply_twice` to guard the fixes.
