# evmongoose in TLA+

evmongoose is the Mongoose networking library (one large file,
`src/src/mongoose.c`) with its `select()` loop replaced by libev: every
connection owns a read watcher, a write watcher and a repeating one-second
timer, and their callbacks drive it. This directory models the parts of that
code whose correctness depends on the order of things, checks them with TLC on
small instances, and proves the most important invariants with TLAPS for every
value of the constants.

All line numbers are those of `src/src/mongoose.c` unless a file is named.

## 1. The system

### Components

| Component | State it keeps | Operations | Modelled in |
|---|---|---|---|
| Connection core (`net.c`, 1957-3000) | `struct mg_connection`: flags, buffers, `last_io_time`, watchers, timer; the manager's list | `mg_connect`, `mg_bind`, `mg_send`, `mg_call`, `mg_if_*_cb`, `mg_close_conn`, `mg_connection_timer_cb`, `mg_mgr_free` | `NetCore`, `SocketIf`, `ConnLife` |
| Socket interface (`net_if_socket.c`, 3109-3890) | descriptors, libev watchers | `ev_read_cb`, `ev_write_cb`, `mg_mgr_handle_conn`, accept, read, write, the `select()` poll of `mg_mgr_free` | `SocketIf` (TCP), `UdpServer`, `Resolver` (UDP) |
| SSL interface (OpenSSL, mbedTLS, 4064-4876) | the library's session | handshake, read, write | their results, in `SocketIf` |
| UDP listener (2553-2608, 3197-3238, 3443-3467) | one "fake" connection per sender, sharing the listener's descriptor | `mg_if_recv_udp_cb` | `UdpServer` |
| Asynchronous resolver (`resolv.c`, 10697-10968) | request: retries, last query, error; the DNS connection; the client that waits | `mg_resolve_async_opt`, `mg_resolve_async_eh`, `resolve_cb` | `Resolver` |
| MQTT client and codec (9664-10068) | keep-alive times, `recv_mbuf` | `parse_mqtt`, `mqtt_handler`, packet builders | `MqttConn` |
| MQTT broker (10070-10249) | sessions, their subscriptions, `nc->user_data` | CONNECT, SUBSCRIBE, PUBLISH, close, topic match | `MqttBroker`, `PubSub`, `Text` (match) |
| WebSocket (8876-9276) | reassembly buffer at the front of `recv_mbuf` | `mg_deliver_websocket_data`, frame header, masking, CLOSE | `WebSocket` |
| HTTP (5055-7911) | per-connection protocol data: chunked body, multipart, file transfer, proxy | `mg_http_handler` and its transfers, `mg_serve_http`, `mg_file_upload_handler` | `HttpConn`, `HttpMultipart`, `FileUpload`, `HttpFile`, `HttpProxy`, `HttpServe` |
| CGI (7913-8407); SSI, WebDAV | the program's connection and its client | `mg_handle_cgi`, `mg_cgi_ev_handler` | `HttpCgi`; SSI and WebDAV no |
| DNS codec and server (10251-10696) | a reply under construction | names, records, `dns_handler`, `mg_dns_reply_record` | `Dns` |
| CoAP (10971-11567) | none | compose, parse, acknowledge | `Coap` |
| SNTP, TUN (11569-12147) | retries; dispatcher, streams | `mg_sntp_get_time`; `mg_tun_bind_opt` and its connections | `Sntp`, `Tun` |
| base64 (339-587), mbuf (1008-1110), URIs (4878-5053), patterns (`util.c`, 9278-9662) | base64: up to two bytes | `cs_base64_*`, `mg_parse_uri`, `mg_match_prefix_n` | `Text`; an mbuf in `WebSocket` |
| SSL configuration (4064-4876) | contexts and sessions, in OpenSSL or mbedTLS | `mg_ssl_if_conn_init`, `_accept`, `_free` | `SslContext` |
| lwIP interface (13850-14910) | signal queue between two tasks, segments received | callbacks, `mg_lwip_if_poll` | `LwipIf` |
| SimpleLink interface (13127-13848) and its C library files (12350-12991) | sockets of the network processor; table of files, size hints | poll, `sl_restart_cb`, `fs_slfs_*` | `SimpleLinkIf`, `SlFs` |
| Lua binding (`src/src/lua/lua_mongoose.c`) | userdata, registry, uploads | `lua_mg_*`, `lua_mg_ev_handler` | `LuaBinding` |
| Examples | | | `big_upload.c` in `HttpMultipart` |
| NXP, PIC32, WinCE, `lua_posix.c`, hashes, printf | | | no: section 6 |

### How they interact

Everything runs in one thread, in libev callbacks. A callback calls
`mg_mgr_handle_conn`, which may connect, handshake, read and write; each of
these calls `mg_call`, which runs the protocol handler (HTTP, MQTT, DNS, the
resolver's) and the application's event handler in the middle of the callback.
The handler may send (which starts the write watcher), set close flags, consume
received data, open connections. When the callback is about to return it looks
at the close flags and may free the connection on the spot. The connecting
client, the request and the DNS connection of a name resolution point to each
other; the connections of a UDP listener share its descriptor; the two sides of a
reverse proxy and the MQTT sessions hold pointers to connections.

A program runs one of the network interfaces: BSD sockets on libev or, on embedded
boards, lwIP (whose callbacks run in lwIP's own task and post signals into a
queue) or SimpleLink (polled with `select()`, its sockets lost when the network
processor restarts). The Lua binding sits on top: its event handler finds the
Lua object of a connection in the registry and calls the script, which may fail.

### What is hard

- *Order inside a callback*: connect, read, write and close of one connection
  in one call, with the application's handler in between.
- *Interleaving of callbacks*: three watchers per connection, several
  connections per descriptor (UDP), pending callbacks of closed connections.
- *Failure in any of several places*: `socket()`, `connect()`, `SO_ERROR`, the
  handshake, a timeout; each must be reported and end the connection.
- *Things that must happen though nothing is ready*: giving up a `connect()`,
  closing a marked connection, ending a resolution whose every packet is lost.
- *Streams and datagrams*: every protocol reads a stream that arrives cut
  anywhere, or datagrams that are lost, repeated or corrupt.
- *Pointers between connections*: proxy, CGI, tunnel, MQTT session, Lua object,
  SSL configuration; either end may go first.
- *Shutdown*: `mg_mgr_free` polls once more, running handlers, and then closes.

`PROJECT.json` lists the individual hazards with their lines, and which property
is there for each.

## 2. The modules

| Module | Models |
|---|---|
| `NetCore` | the connection record and the functions of `net.c`, as operators from a connection to the set of connections the call can leave (one per choice of the handler, the kernel or the peer); no variables of its own |
| `SocketIf` | TCP connections of one manager; one action per libev callback and per call the application makes between callbacks |
| `ConnLife` | abstract: what the library promises an application about the life of a connection; `SocketIf` refines it |
| `UdpServer` | a UDP listener, its datagrams, its connections; libev's set of pending callbacks is a variable, since one callback can invalidate another |
| `Resolver` | one name resolution: request, DNS connection and waiting client, with seconds |
| `PubSub` | abstract: what a broker promises its clients, without sessions, arrays or lists; `MqttBroker` refines it |
| `MqttBroker` | the broker's handler: sessions, the list, the pointers between sessions and connections |
| `WebSocket` | frames of one connection in both directions: header, mask, fragments put together in `recv_mbuf`, control frames, CLOSE |
| `MqttConn` | packets of one MQTT connection, cut anywhere, and their acknowledgements |
| `HttpConn` | messages of one HTTP connection: lengths, chunks, upgrades, the end of the stream |
| `HttpMultipart` | the streaming multipart parser and the handler of `big_upload.c` |
| `FileUpload` | `mg_file_upload_handler`: several clients storing parts in files that may fail at every step |
| `HttpFile` | files or ranges of them sent against a bounded `send_mbuf`, one request behind the other; PUT |
| `HttpProxy` | the connections of a reverse proxy and the pointers between them |
| `HttpCgi` | a CGI program's connection and its client |
| `HttpServe` | from a request to what is served: rewrites, dots, index, access and password files |
| `Text` | base64, `mg_parse_uri`, `mg_match_prefix_n`, MQTT topics, against reference definitions |
| `Dns` | a client and a server that write and read names, questions and records, over UDP or TCP |
| `Coap` | messages with options, composed, sent over UDP, parsed |
| `LwipIf` | the lwIP interface: lwIP's task and Mongoose's task, and the queue between them |
| `SimpleLinkIf`, `SlFs` | the SimpleLink interface with restarts of the network processor; its files |
| `SslContext` | what a listener, its connections and clients share of an SSL library's configuration |
| `Tun`, `Sntp` | the tunnel client; a query for the time |
| `LuaBinding` | Lua objects, the registry, connections and uploads |
| `MqttStream` | an MQTT connection among the protocols of one run: the constants and variables of `MqttConn`, what its clients may send, and `MqttPackets` |
| `NetCore_proofs` | lemmas: what an event handler can do to its connection |
| `Protocols` | stored uploads, files, CGI and MQTT's packets (`MqttStream`) beside the reverse proxy, each an instance of its module with variables of its own |
| `Ports` | `LwipIf`, `SimpleLinkIf`, `SlFs`, `SslContext`, `Tun` and `Sntp` beside the Lua binding, likewise |
| `SocketIf_proofs`, `Resolver_proofs`, `UdpServer_proofs`, `Mqtt_proofs`, `Protocols_proofs`, `Ports_proofs`, `DevicePorts_proofs` | the theorems. `Mqtt_proofs` is about the broker and about the packets of a connection; `DevicePorts_proofs` about the parts of `Ports` that run on a device, lwIP and SimpleLink's files |
| `MCSocketIf`, `MCUdpServer`, `MCMqttBroker` | values for TLC |
| `MCProtocols`, `MCPorts` | `Protocols` and `Ports` with the other components from `WebSocket` on, each on a small instance: a variable `system` says which of them a behaviour runs |

An operator whose name ends in `_Slip` is its neighbour with one plausible
mistake. No specification uses it; it is there to show that a property notices
when the neighbour is replaced by it.

### Correspondence

`NetCore!Connection` is `struct mg_connection` with buffers reduced to lengths
(`slen`, `rlen`), the socket to what the kernel would answer (`net`), watchers
to uninitialised / idle / active, `last_io_time` to an age, and with a history
`seen` of the events delivered. `stray` records that `ev_io_start` was called on
the zeroed write watcher, before `ev_io_init` (3264).

`NetCore!MgCall` is `mg_call` with an arbitrary handler: it may send if
the event is in `SendIn`, set close flags if it is in `CloseIn`, and empty
`recv_mbuf` on RECV. `MgCloseConn` is `mg_close_conn` with its order (socket and
watchers first, then CLOSE, then the timer). `MgConnectionTimerCb` is the whole
timer callback.

`SocketIf!MgMgrHandleConn` is `mg_mgr_handle_conn`, made of `ConnectStep`,
`ReadStep`, `WriteStep` in the code's order. `ReadCb`, `WriteCb`, `AcceptCb`
add the `CloseIfDue` that ends `ev_read_cb` and `ev_write_cb`. `MgrFree` is
`mg_mgr_free`: one poll with every outcome `select()` may report, then
everything is closed.

In `UdpServer`, `Poll` is libev finding the watchers of the ready descriptor,
`ReadCb`, `ReadKnown`, `ReadNew`, `WriteCb` run one pending callback.
`ReadNothing` is a callback for which `recvfrom` has nothing left: the code goes
on with a released buffer and the length -1, so the model notes it (`wild`) and
says nothing about the rest of that behaviour. `PollClosed` is what libev does
about watchers of a closed descriptor. libev promises no order among pending
callbacks and neither does the model.

In `Resolver`, the functions of `mg_resolve_async_eh` are split by event
(`EvConnect`, `EvPoll`, `EvRecv`, `EvSend`, `EvClose`), `Callback` is
`resolve_cb`. `TimerCb` advances the clock by 1 to `Lag` seconds, `Lag` being
how late a busy loop may be.

In `MqttBroker`, one action is one packet that `mqtt_handler` takes out of
`recv_mbuf` (`HandleConnect`, `HandleSubscribe`, `HandlePublish`) or one CLOSE.
The list is a set: its order only decides in which order copies go into the
send buffers of different connections. Names of sessions are not reused, so a
pointer to a freed session stays visible. `wild` becomes true where the code
would use memory that is not its own: SUBSCRIBE without a session (10154), an
array written or read past its end (10158, 10101, 10193), PUBLISH to a freed connection
(10202), an event of a connection whose listener is gone (10217). Nothing is said
about what follows. `copies` is a history variable: what went into whose send
buffer.

*The protocols* are modelled at the level of bytes or symbols where their
hazard is the cutting of a stream: the sender writes whole messages, an action
delivers any of a few numbers of them, and what the library does with
`recv_mbuf` is one action per call of the handler, or per turn of its loop where
the loop is what can go wrong (`HttpMultipart`). In `WebSocket`, `mem` is the
buffer of `recv_mbuf` with what lies behind its length, because two tests of the
header read there; `HttpConn` and `HttpMultipart` have a flag `wild` for the same.
History variables hold what was sent and what the application was told, and the
properties compare them.

*The links* (`HttpProxy`, `HttpCgi`, `Tun`, `LuaBinding`, `SslContext`) are
modelled as the objects with their pointers, one action per event of each of
them; freed names are not reused, so a pointer to what was freed stays visible
(`usedFreed`, `wild`, `late`).

*The ports* (`LwipIf`, `SimpleLinkIf`) have one action per callback and one per
step of the poll that another task can come between. `SlFs` has one action per C
library call. What a program is built with is chosen at the start and
kept: `build` in `LwipIf` (the connections, which of them use SSL, the length of the
signal queue), `library` in `SslContext`, and `timers` in `Sntp`, TRUE for the interfaces
that call `mg_if_timer` (13402, 14617), FALSE for libev, which never does.

*Computations* (`Text`, `Coap`, `Dns`, `HttpServe`) are operators, written as the
code computes, on which the properties are compared with definitions that say
what is meant.

## 3. What is checked

| Run | Module, bounds | Properties |
|---|---|---|
| `socket_safety` | `MCSocketIf`, 2 connections in any role, plain and SSL, send buffer up to 2, receive limit 1, an application that sends and closes from every handler | `TypeOK`, `NothingFiresAfterFree`, `EventOrder`, `FailedIsGone`, `SslBeforeData`, `OnlyAcceptSendStalls`, `AllClosedByMgrFree`, `ImplementsConnLife` |
| `socket_live` | 1 connection, 5 s connect timeout | `CloseHappens`, `ConnectEnds` |
| `udp_safety` | `MCUdpServer`, 2 senders, 2 connections, 1 datagram waiting | `TypeOK`, `OneChildPerPeer`, `ListenerKeepsSocket`, `FreedIsSilent` |
| `resolver` | `Resolver` with the constants of the code (2 retries, 5 s, 5 s), `Lag` 2 | `TypeOK`, `CalledOnce`, `RetriesBounded`, `TimeoutIsEarned`, `SilentOnlyAtFree`, `QueryIsPushed`, `ResolutionEnds` |
| `broker` | `MCMqttBroker`, 2 clients, 3 sessions, 2 filters, 2 messages, up to 2 topics in a SUBSCRIBE and 2 CONNECT packets per client | `TypeOK`, `UserDataIsSession`, `SessionsHaveClients`, `ImplementsPubSub` |
| `protocols_safety` | `MCProtocols`: `HttpProxy` with 3 upstream connections and 2 requests, and one instance each of `WebSocket`, `MqttConn`, `HttpConn`, `HttpMultipart`, `FileUpload`, `HttpFile`, `HttpCgi`, `HttpServe`, `Text`, `Coap`, and two of `Dns` | `ProxySound`, `WsMessages`, `MqttPackets`, `HttpWhole`, `FilesStored`, `FilesServed`, `CgiScripts`, `UdpMessages` |
| `ports_safety` | `MCPorts`: `LuaBinding` with 2 connections and 2 objects, `LwipIf` in three builds, `SimpleLinkIf` and `SslContext` in each of theirs, `Sntp` with and without timers, `SlFs`, `Tun` | `ObjectsKept`, `LwipSignals`, `SimpleLinkPort`, `SslConfigurations`, `TunnelStreams`, `TimeToldOnce`, `FilesKept` |
| `failed_connect`, `send_on_accept`, `reconnect_on_close`, `udp_right_peer`, `broker_array` | | counterexamples, see section 5 |

*The properties of the two collective runs* are conjunctions of what the
component modules state, each while its component runs:

- `WsMessages`: messages arrive as they were sent, fragments joined, control
  frames in between; CLOSE is answered; header tests never decide on bytes that
  did not arrive, but where the module says so (`LengthsRead`).
- `MqttPackets`: packets arrive whole, in order and once, and PUBLISH is acknowledged
  once.
- `HttpWhole`: every message is handed on once, whole, with its own body and
  nothing of the next one's; an upgrade is answered before frames are read. The parts
  of a multipart body arrive with their names and exactly their data, each ended
  before the next begins, and the request ends once. What `mg_serve_http` serves is what
  the URI names under the rules in force, and never behind a password file without a login
  (`ServedAsNamed`, `Guarded`). What `Text` computes belongs to no connection and is asked here:
  URIs, patterns and base64 are read as they are meant, and a message reaches the
  subscriptions to its topic (`TopicsReach`).
- `FilesStored`: what is stored is what was sent if the answer says so, every part
  is answered once, and no cut-off file stays but where the connection or `fclose`
  failed.
- `FilesServed`: a client that waits for its answers gets a head and as many bytes of
  the range as the head says, in order and from the right place; `send_mbuf`
  keeps its bound, a PUT that could be written is in the file, and no open file is
  forgotten.
- `CgiScripts`: the client gets what the program wrote, under a proper header,
  and neither connection is left waiting for the other.
- `UdpMessages`: for CoAP and DNS, what is read is what was written, options and
  names included, across every extension and pointer.
- `ProxySound`: linked connections are alive and point to each other; a client that
  waits has someone working for it or is told to close.
- `ObjectsKept`: an object whose connection may still call the script is in the
  registry, the registry keeps nothing else, and uploads are cleaned up.
- `LwipSignals`: nothing that came is forgotten, and a connection's events come
  in order.
- `SimpleLinkPort`: every open socket has one owner, through restarts; CONNECT and
  ACCEPT come once.
- `SslConfigurations`: a session's configuration is not freed under it, and not kept
  without one; a session has the pre-shared key that was asked for, or none.
- `TunnelStreams`: one dispatcher at a time, and streams of different sessions kept
  apart. `TimeToldOnce`: one outcome of a query for the time.
- `FilesKept`: every handle that is open on SimpleLink's device is one descriptor's; a
  file that is only read gives its data in order; a size hint is used once.

*Why the bounds are enough.* Two TCP connections are a listener and what it
accepts, or two clients; connections do not touch each other otherwise, so a
third adds only interleavings of independent steps (and the proofs are for any
number). A send buffer of 2 tells "all sent", "some sent" and "more queued
meanwhile" apart. A receive limit of 1 tells an empty buffer from a full one;
SSL can overrun it, which the model shows as `MaxRecv + 1`. For UDP, two
connections and two senders are what a mix-up takes, and one waiting datagram
is enough because another can arrive between two callbacks. Names of connections
are not reused: a freed connection stays in the model so that calls to it would
be seen. For the broker, two clients are a publisher and a subscriber (or one
that is both), three sessions let one of them send CONNECT twice, and of two
filters one matches both messages and the other only one, so that overlapping
subscriptions and a message that nobody wants occur.

For the protocols the inputs sit at the boundaries of the encodings: MQTT and
WebSocket payloads on both sides of a longer length field, CoAP options whose differences
and lengths need none, one or two more bytes, multipart data that look like a
boundary, chunks in every position, reads of one byte and of nearly all. Two
messages on a connection are what it takes to confuse them; three upstream connections let a
kept-alive one, a closing one and a new one exist together. For lwIP a queue of
two signals is full while more callbacks come, one of three holds data and an end
behind the result of a connect(); two connections are what it takes to handle the
signal of the wrong one; for SimpleLink two sockets are a
listener and its child, or one that survives a restart and one that does not. In
`MCProtocols` and `MCPorts` the components do not share state in the program either
(a connection speaks one protocol, a program is built with one interface), so running
each by itself loses no behaviour of theirs.

*Fairness.* The only fairness assumed is weak fairness of the timer callback of
each live connection: `mg_add_conn` starts a repeating libev timer and libev
invokes it as long as the loop runs. Nothing is assumed of readiness, peers or
the application. `socket_live` uses an application that does not send while its
connection is still opening (`SendsWhenOpen`): `mg_send` refreshes
`last_io_time`, so a POLL handler that sends every second puts the connect
timeout off for ever. (The library's own MQTT and WebSocket pings, 9810 and 9141,
are such handlers.) The protocol and port modules state no liveness: what must not be
forgotten is stated there as an invariant, "everything arrived and handled implies everything
reported", or "who waits has someone working for it".

*Bounds on counters.* `MaxSend` and `MaxRecv + 1` saturate; `age` stops at
`ConnectTimeout + 1`, above which the code makes no distinction; `MaxQueue`
bounds the datagrams waiting; `MaxConnects` and `MaxTopics` bound the CONNECT
packets of a client and the topics of a SUBSCRIBE. The resolver's clock is unbounded in the
specification and stays finite because every resolution ends. `MaxRequests`,
`MaxFrames`, `MaxMessages`, `MaxPackets`, `MaxQueries`, `MaxOpens`, `MaxReplies` and the like bound
how much is sent or asked in one behaviour.

## 4. What is proved

All theorems hold for every value of the constants under the assumptions named
in the modules (`NetCoreAssumption`, `SocketIfAssumption`, `ResolverAssumption`,
`UdpServerAssumption`, `MqttBrokerAssumption`, `MqttAssumption`, `HttpProxyAssumption`,
`ProtocolsAssumption`, `LuaBindingAssumption`, `PortsAssumption`): sizes are natural
numbers, limits positive, sets of events arbitrary, the name for "none" is not that of a
thing, a `Range:` header names at most two numbers, what is sent with MQTT fits the fields for
its length. Every inductive invariant named below
was an invariant of a TLC run first.

Some of what is proved is said by recursive functions (`Due` in `HttpFile`, `Due` and `StringsFrom`
in `MqttConn`, `KeyOf` in `SslContext`) or by the least and the largest of a set. The induction theorems of the
library take an operator as their parameter, which no backend can instantiate; `NatSet`, that a
set with 0 and the successor of each of its numbers has all naturals, is first-order. It is proved
from the theorems on finite sets: below a number it lacked, the successor would be an
injection of a finite set into itself that misses 0. Each recursive function is then shown to be
the one its equations define, since it has a value by `NatSet` for every argument.

**`SocketIf_proofs`.** The argument is local to one connection. `Mid(c)` holds
at every point *inside* a callback: it relates the watchers to the socket and
the queued data, the flags to what has been announced, the SSL handshake to the
data. Each function of the code keeps it: one lemma per function, resting on
`MgCallFrame` (in `NetCore_proofs`), which says all that an event handler can do. `Safe(c)` is what
holds *between* callbacks: the name is unused, or `Mid` and no failure has been
reported, or it is a listener, or it is gone and inert. The step from `Mid` to
`Safe` is the `CloseIfDue` at the end of each callback: this is why "a failed
connection is freed in the callback that reports it" is provable although
`mg_if_connect_cb` only sets a flag. The properties alone are not inductive:
`FailedIsGone`, for instance, needs that CONNECT_FAILED is only announced
together with CLOSE_IMMEDIATELY, and `EventOrder` needs that the connecting
flag is there as long as nothing was announced. From `Inductive` follow
`TypeCorrect`, `FreedIsInert`, `EventsInOrder`, `FailureIsFinal`,
`HandshakeFirst`, `DataIsWatched` and, for an application that does not
reconnect in its CLOSE handler, `MgrFreeClosesAll`.

`Implements` is the refinement of `ConnLife`: whatever sockets, watchers, timers and
buffers do, an application sees each connection live one of its lives. `Safe` says in
which states a connection can be; what a *step* needs besides is `Kept(c, d)`: a
function leaves the connection of its kind, never takes back what its application
was told, and goes from live to freed only. It is transitive, so a callback keeps it
when each of its functions does, again one lemma each (`MgCallKept` to
`MgConnectionTimerCbKept`). From `Safe` before and after and `Kept` between, every
step of one connection is one of `ConnLife` or leaves what it sees as it was; a step that
opens one, or accepts one on a listener, is treated by itself.

**`Resolver_proofs`.** The invariant distinguishes a resolution that has not
begun, one that waits (`Waits`: the request is there, the callback has not run,
and the number of queries made bounds the time from below, by `Timing`) and one
that has ended. `Reasoned`, that a close is under way exactly when there is an
error to report, is what makes "OK without a message" impossible outside
`mg_mgr_free`; it needs the resolver's timeout to be at most the connection's plus
one, an explicit hypothesis of `SilenceOnlyAtFree` that the code's 5 and 5 meet.
Proved: `ResolverTypes`, `CallbackOnce`, `QueriesBounded`, `TimeoutTakesTime`,
`QueriesArePushed`, `SilenceOnlyAtFree`.

**`UdpServer_proofs`.** A connection `Serves` inside a callback and between
callbacks either serves or is `Silent`; the functions of `NetCore` keep this, one
lemma each. `CallbackKeeps` carries it to the whole: a callback that changes
connections only in allowed ways leaves pending callbacks to live connections
only, and the descriptor open as long as the listener lives. The four properties
need each other: `FreedIsSilent` needs that pending callbacks belong to live
connections, and that in turn that freed ones have no active watcher for the
next poll to find. Proved: `UdpTypes`, `PeersApart`, `DescriptorKept`,
`NoCallbackAfterFree`. What happens after `recvfrom` failed (`wild`) is not
modelled, so the theorems say nothing about it.

**`Mqtt_proofs`**, the broker. A session and its connection point to each other, and
the invariant says so from both ends: `Connected(c)`, what an open connection
points to is a listed session of its own; `Owned(s)`, a session that is
allocated is what its open connection points to, unless the client sent CONNECT
more than once. Neither end is inductive without the other, nor without
"nobody sends before it is accepted". `BrokerImplementsPubSub` is the
refinement: `OneHolder` turns the invariant into "a client gets messages through
one session at most", from which one copy per subscriber follows
(`CopiesForOne`), and one lemma per kind of packet says what it does to the
topics asked for. From the same invariant follow `BrokerTypes`, `UserDataOwned`
and `SessionsOwned`. The theorem is only as strong as `PubSub` is: it promises
nothing after `broken`, which is why the run `broker_array` is there.

**`Mqtt_proofs`**, the packets. `MqttPacketsWhole` proves `MqttPackets` for any topics, payloads,
ids and clients, any way to cut the stream, and any byte that may lie behind what
has arrived. The assumption `MqttAssumption` says that all of it fits: strings are
shorter than 65536, packets have at most four length bytes, and CONNECT, whose length the
code writes as one byte (9838), fits in seven bits; beyond that the code does not write what
it means. The proof has three layers.

- A packet: each function that sends appends bytes that are read as what was meant, whatever
  stands before and behind them (`MqPacketIs`, `MqMeans`; `MqSomePacket` has them all). The
  remaining length is written as the digits of a number to the base 128 and
  decoded to that number (`MqLengthWritten`, `MqDecoded`), with the powers as four constants
  (`MqScale`) because the solver does not decide powers; the strings of CONNECT and the topics of
  SUBSCRIBE are read back by induction on their number (`MqStringsRead`).
- A call of `parse_mqtt`: of a whole packet it makes that packet (`MqWhole`), of one that is cut it
  makes nothing (`MqCut`), also in the middle of its length bytes, where the byte that it looks
  at may be one that never arrived.
- The stream: the invariant `MqInv` says that `recv_mbuf` and what is on its way are together the
  packets not handled yet, one behind the other (`MqStream`), and that, when the handler is not
  running, the next one is not whole in the buffer (`MqWaits`). The second is what makes "all
  arrived and handled implies all reported" inductive, and it is established by the last
  turn of the handler's loop only, hence `MqTurn`. That each PUBLISH got one acknowledgement
  is `acks = Due(events)`, an append at a time (`MqDueAppend`).

**`Protocols_proofs`.** `ProxyPaired` proves `ProxySound` for any number of
connections and requests. `Paired` says that links are mutual and join live connections;
it is not inductive, because a request that finds an old link would replace it, so
`NothingAsked` is added: a client that waits for nothing is linked to nothing.
Each function of the code (`Destroyed`, `Answered`, `Replied`, `Linked`) has a
lemma on types and one on links. All of it holds only as long as no
request came late (`late`): `TypeOK` alone is unconditional (`ProxyTypes`).

`ScriptsAnswered` proves `CgiScripts`, for any outputs, bodies and ways to cut what is read. The
invariant speaks of two stretches of the life of a request: before it is complete every
script is unused, and what has come and what is on its way are the request
(`CgNotServed`); after that (`CgServed`) one script has the whole body, what it wrote is, in
order, in the buffer where the headers are looked for or with the client, and the rest is
still to be read; and the two connections point to each other for as long as both live
(`CgLinked`). That the headers end at the same place however the output is cut is why
`CgHeaders` describes the buffer before the first empty line and `CgAnswer` the answer
after it. All of it holds until a request comes after another was asked (`eager`).

`UploadsKept` proves `FilesStored`, for any number of connections, names and requests, any
cutting of a part into reads, and a file system that may fail in every call. `UpInductive`
has a part for each of the things that could go wrong. `UpTold`: each part but the
present one was answered exactly once, and the present one unless its file is open, so that
an open file is the debt of an answer. `UpAlone`: the file of an upload that shares it
with none holds the bytes up to `pos`, and its stdio buffer those from there to what was
received; nothing else that is being written has the same file. `UpNamed`: no two names are of
one file, without which `remove` of one would take another's. `UpFound`: a name that is
taken was answered "200 OK" or has an open file. The end of a part and the begin of the
next are one step of the code and two of the proof, which therefore takes the
connections and the disk as parameters (`UpHolds`).

`FilesAnswered` proves `FilesServed`, for any lengths, ranges, requests and bound of `send_mbuf`, a
file that may change its length, and reads and writes that may fail. `FiFramed` says where the
answers are: what has left the connection, what is in `send_mbuf` and what is left of the open
file (`FiRest`) are together what is due for the requests so far. The property asks for a prefix
only, which no step could keep by itself. `FiFits` is why the rest will come: it is in the
file. Both are given up when the client did not wait (`eager`) or the file changed under the transfer
(`changed`), as in the property. `FiPut`: a PUT is the last request of its connection, which
is why its body can only be in the file, or be what an open file is still owed.
`FiMoves` describes one call of `mg_http_transfer_file_data`, `FiRange` what the code makes of a
range, `FiServed` what a response leaves; each event of the connection is made of these.

**`Ports_proofs`.** One invariant per component.

`LuaObjectsKept` proves `ObjectsKept`. The property
speaks of what a handler will find; the invariant says why it is there: `Owned`
(a live connection of its own has a registered object that knows it),
`Descended` (a child's listener was made before it, and is no child), so that
following the pointers from a child ends at a registered object, and `Stored`,
which is stronger than `UploadsCleanUp`: a stored file is not only somebody's, it is
open in the part it came with, without which a part's end could leave another's file.

`OutcomeOnce` (`TimeToldOnce`): before an outcome nothing was heard, after it the
connection is on its way out (`SnTold`), and the client's count of attempts is the number of
requests made (`SnCounted`), which is what earns a failure its ten-second waits.

`ConfigurationsCounted` (`SslConfigurations`): reference counts are right. `ScShaped` says whose
configuration each connection points to, by its kind and the library; `ScCounted`, that a
configuration has one reference for its owner and, with OpenSSL, one for each session that
uses it. The property asks only that a count is positive exactly while it is used, and is
not inductive, because a decrement needs to know the exact number. With mbedTLS nothing is counted and
an accepted session outlives its listener's configuration: `orphaned` notes it, and the theorem
says that a session has its configuration only until then. `ScKeys` is about the pre-shared key:
a client with SSL was asked for settings that can be met, and has the key that
`mg_ssl_if_ossl_set_psk` computes from their digits. That this is the number each pair of digits
means (`KeyAsAsked`) is `ScKeyOf`, by induction on the digits read, in the middle of a
pair too; with any other number of digits than 32 or 64, or one that is none, there is no
key and no connection.

`StreamsKeptApart` (`TunnelStreams`): the client's dispatcher is the last connection made, and the
only one open (`TnDispatcher`); bodies of a stream are in the pipe in order (`TnOrdered`); what a
tunnel has and what is on its way to it are, together and without overlap, what
was sent (`TnStreams`, with `TnHas`). The last is what makes it impossible that a frame of
a session that ended reaches a stream of the next.

`SocketsHaveOwners` (`SimpleLinkPort`): the list holds each live connection once, the copy that
the poll works on only live ones (`SlLists`), no two live connections have one socket, and a live
connection's socket is open (`SlSockets`); a restart rebuilds all of it one connection at
a time, so the invariant has to hold in the middle. `SlTold` relates what a
connection heard to its flags: a client that connects was told nothing yet.

**`DevicePorts_proofs`.** `SignalsKept` (`LwipSignals`), for any connections, plain or with SSL, and any length of
the queue. A connection sees of the queue only its own signals, so the invariant speaks of
a *view* (`LwView`): which signals a connection has in the queue, which of them have no
other before them, which are there once, and whether data come before an end. Posting
a signal, taking the first and turning a closed connection's into tombstones change the
view of one connection and no other's (`LwPosted`, `LwTaken`, `LwTombstoned`). A connection
and its view then owe each other two things. `LwKept`, what has come and is not handled has
its signal, holds as long as the queue was not full and nothing freed was used.
`LwOrder` holds as long as, besides, no connection failed while it opened or closed: it
says which signal the next event of a connection will come from. For an accepted one,
ACCEPT waits, before all others, exactly until the application was told; for a client,
CONNECT_RESULT does; with SSL the handshake decides instead, and the invariant follows it
through `LwSslNew`, `LwSslStarted`, `LwSslFailed` and `LwSslDone`. A connection that is closed or being
closed has no signals but tombstones, which is why nothing freed is used. Neither part
of the property is inductive: that data do not reach a handler before
ACCEPT rests on the order of the queue, and that a failing handshake is reported
again only directly after the first report rests on the flag that the report leaves behind.
The proof has one lemma per step on the connection and its view alone (`LwGood`), and
one that carries it to the whole (`LwFrame`).

`FilesOfTheDevice` (`FilesKept`), for any names, paths, sizes of the tables and of the files.
`SfOwned` is a bijection: the handles open on the device are those of the open descriptors.
It needs `SfApart`, that no two descriptors have one handle, and that two have one file only
to read it, without which a write to one would spoil what the other has read
(`SfGood`). A descriptor's `size` is still its file's, so that the end of the file
is recognised before the device would report an error. `SfCounted`: each hint is in the table
or was used, as often as it was given. The count is over a table and two
histories that change one entry at a time (`SfTimesAppend`, `SfTimesWrite`).

**Only model-checked**, and why:

- Liveness (`CloseHappens`, `ConnectEnds`, `ResolutionEnds`): outside what the prover
  handles.
- `WsMessages`, `HttpWhole`, `UdpMessages`: they say that a parser is the inverse of a
  writer, as `MqttPackets` does, but through a nesting: of masks and fragments that are joined in the
  buffer they are read from, of chunks that are moved over their own headers and
  the texts of `Text`, of options and of DNS names with pointers back into the message. The
  argument for MQTT, an encoding at a time and then the stream, would be needed for each
  of them, with an induction inside another for names and fragments; it was not attempted.

## 5. Where the code and its documentation disagree

1. `failed_connect`: a `connect()` that fails at once leaves its error in
   `nc->err`, which the libev callbacks never look at (3509-3541); the
   application is told that the connection succeeded.
2. `send_on_accept`: data sent in the ACCEPT handler has no write watcher
   (3264): it stays in the buffer until a later `mg_send` starts one.
3. `reconnect_on_close`: a connection opened by a CLOSE handler during
   `mg_mgr_free` is neither closed nor freed (2246).
4. `udp_right_peer`: a connection made for one UDP sender is given another's
   datagram (3656), because it has a read watcher on the shared descriptor.
5. `broker_array`: a second SUBSCRIBE reallocates the subscriptions to the size of
   the new packet and writes behind the old ones (10154), past the array whose
   size `num_subscriptions` is said to be (mongoose.h:5223).

Seen in the models, and contradicting nothing that is written down:

- two watchers on one UDP descriptor make `recvfrom` fail in an ordinary run,
  and `mg_handle_udp_read` does not look at its result (3466);
- a full receive buffer makes `recv()` return 0, which is taken for the end of
  the stream (3427);
- the last query of a resolution gets about one second, not `timeout`, because
  the retry count is tested before the time (10868);
- a resolution cut short by `mg_mgr_free` calls back with MG_RESOLVE_OK and no
  message (10906);
- POLL can precede CONNECT (`ConnectIsFirst` in `SocketIf`, checked by no run);
- with SSL, a handshake that fails in the read step can be reported twice;
- a client that sends CONNECT twice leaves a session behind whose connection is
  freed (10132), SUBSCRIBE before CONNECT finds no session (10154), and an event
  of an accepted connection reads its listener's `user_data` even when the
  listener was closed (10217).
- a request body is put together in chunks while later bytes wait: a reply whose
  last chunk comes alone is reported without its whole body (`FullBody` in `HttpConn`);
- MG_EV_HTTP_PART_END can come without a PART_BEGIN (`EndsAPart` in `HttpMultipart`);
- when a connection closes in a part, PART_END comes with no `user_data` (5695), so
  `mg_file_upload_handler` never reaches its branch for `status < 0`: the open
  FILE, its state and the partial file stay (`ClosedWithConnection` in `FileUpload`);
  "200 OK" is sent before `fclose`, whose failure nobody sees (7672); two clients that name one
  file write into each other's;
- a backend whose client has gone is not always told to close, although the comment
  at 7100 has them die together (`LiveAndDieTogether` in `HttpProxy`);
- `fork()` that fails is taken for a child (its -1 is not 0); output that ends
  before its headers do is never forwarded; a request served while the connection closes
  leaves the program's connection with a dangling pointer (`HttpCgi`);
- a fragment of a URI without a query becomes part of the path, an empty first
  alternative of a pattern gives way to the next, `$` ends a pattern whatever
  follows it, and a pattern may be compared with the byte behind the string (5614);
- `mg_mqtt_match_topic_expression` compares prefixes: "a/#" and "a" match the
  topic "ab", "#" matches nothing, and a comparison can run on into the payload
  (`TopicsOnlyAsAsked` in `Text`);
- WebSocket closes a connection for data that begin like a CLOSE frame
  (`ClosesOnlyIfClientDoes`), and a control frame between fragments spoils the
  message (`Defragmented`); CONNECT of MQTT has one byte for its length (9838);
- DNS labels of 64 to 127 bytes are written, but read as pointers; an empty label is
  written as the end of the name; a TCP message in two reads is handed on as two;
- CoAP: MG_COAP_IGNORE contains MG_COAP_ERROR, so a malformed message is ignored
  silently; option numbers wrap at 65536;
- lwIP: with its queue full, a RECV signal is dropped while `recv_pending` stays
  set, and the connection never reads again (`lost`); a reset between `accept` and its
  signal leaves a NULL pcb (14180); a callback between the removal and the end of a
  connection posts a signal for freed memory (`raced`);
- SimpleLink: an SSL connect that succeeds at once never sets the flag that its
  handshake is done; a restart whose SSL options fail loses a socket; `lseek`
  returns 0, and a size hint is used up by an open that fails;
- SSL: `mg_accept_conn` goes on after the session could not be made (3260); with
  mbedTLS a session keeps a pointer to the configuration of a listener that has gone
  (`orphaned`);
- Lua: `con2` is never initialised; a registry entry stays when connect, listen or
  resolve fails (`leaked`); an error in the callback of a part's end leaves a closed FILE to be used;
- TUN: when the listener is closed the tunnels keep a pointer to a freed client;
  a reconnect that fails at once is never tried again. SNTP: a request that cannot
  be written ends the connection with no outcome (`failed`); replies are not matched
  with requests;
- under libev nobody calls `mg_if_timer`: MG_EV_TIMER, and with it SNTP's retries
  and TUN's reconnect, never happen; and the socket pair of `mg_broadcast` is read only by
  the `select()` poll of `mg_mgr_free` (3758), so another thread that calls it waits until then.

## 6. What is not modelled

Allocation failures; `mg_broadcast`, `mg_sock_set` by the
application; handlers that clear a close flag on their own (except a UDP
connection's SEND_AND_CLOSE); the WANT_READ / WANT_WRITE flags, which only
`mg_mgr_poll` reads; error sets of `select()`; the failure of `mg_ssl_if_conn_init`
on accept, in `SocketIf` (it is in `SslContext`). In `Resolver`: TCP name servers, transaction
ids (the code does not check them), `recvfrom` failing or an empty datagram,
`/etc/resolv.conf` and `/etc/hosts`. In `MqttBroker`: how topics match (`Matches`
is any relation; the code's own is in `Text`), QoS, parsing (`MqttConn`).

SSI, WebDAV, directory listings and digest computation: file input and output and
text, with no state across events but the ones above. MD5, SHA-1 and the handshake key of
WebSocket: their value is their test vectors. `cs_dirent`, `cs_time`, printf, logging. The
keep-alive pings of MQTT and WebSocket (but for what they do to the connect
timeout). NXP, PIC32 and WinCE: replacements of single calls; `mg_lwip_ssl_if.c`
beyond its handshake, read and write in `LwipIf`; `sl_socket.c`, `sl_mg_task.c`.
`lua_posix.c`: wrappers of single system calls. The examples other than
`big_upload.c` hold no state.

## 7. Plan

1. Done: the modules of section 2, and the proofs of section 4.
2. Proofs that would add something: the other parsers, one encoding at a time, as for MQTT:
   the headers of WebSocket and its stream, then CoAP's options.
3. Models that would add something: `mg_broadcast` with its second thread, on an
   interface where it is read; lwIP and SimpleLink as implementations of
   `ConnLife`; the broker on top of `MqttConn`, with QoS.
