------------------------------ MODULE HttpConn ------------------------------
(***************************************************************************)
(* One direction of an HTTP connection (http.c): the messages a peer sends *)
(* and mg_http_handler, which finds them in recv_mbuf, undoes the chunked  *)
(* encoding in place, calls the handler, and hands the connection to the   *)
(* WebSocket protocol when it is upgraded.                                 *)
(*                                                                         *)
(* The buffer is a sequence of symbols: a start line, a header field, the  *)
(* empty line that ends the header, a hexadecimal digit, CR, LF, a byte of *)
(* data.  Only a start line holds spaces.                                  *)
(***************************************************************************)
EXTENDS Integers, Sequences, SequencesExt, Folds, FiniteSets

CONSTANTS Messages,       \* what a peer may send
          MaxMessages,    \* bounds the messages sent
          Endpoints,      \* names given to mg_register_http_endpoint
          MaxRequestSize, \* MG_MAX_HTTP_REQUEST_SIZE
          Chunks          \* how many symbols one read may deliver

VARIABLES
    isReq,      \* nc->listener # NULL: we are the server
    deletes,    \* the application sets MG_F_DELETE_CHUNK at every chunk
    wire,       \* symbols sent and not yet received
    buf,        \* recv_mbuf
    bodyLen,    \* pd->chunk.body_len
    upgraded,   \* proto_handler is mg_ws_handler
    pending,    \* send_mbuf is not empty
    flags,      \* subset of {"SEND_AND_CLOSE", "CLOSE_IMMEDIATELY"}
    closed,     \* CLOSE has been delivered
    aborted,    \* the assertion in mg_handle_chunked failed
    owed,       \* history: messages sent
    eager,      \* history: the peer did not wait for one message to be handled
                \* and answered before it sent more
    events      \* history: what the application was called with, and the 101
                \* mg_ws_handshake sends if nothing waits in send_mbuf

vars == <<isReq, deletes, wire, buf, bodyLen, upgraded, pending, flags, closed,
          aborted, owed, eager, events>>

None == [framing |-> "none"]
Nowhere == -1                 \* the length of what is not set: ~0
Start(m) == [s |-> "start", of |-> m]
Field == [s |-> "field"]
Empty == [s |-> "empty"]
Hex(n) == [s |-> "hex", n |-> n]
CR == [s |-> "cr"]
LF == [s |-> "lf"]
Data(d) == [s |-> "data", d |-> d]
-----------------------------------------------------------------------------
(* The peer.  A message has a framing, the number of its header fields, its *)
(* uri and its body, a sequence of chunks of data.                          *)

Body(m) == FlattenSeq(m.body)
Chunk(c) == <<Hex(Len(c)), CR, LF>> \o c \o <<CR, LF>>

Encoded(m) ==
    <<Start(m)>> \o [i \in 1..m.fields |-> Field] \o <<Empty>>
      \o (IF m.framing \in {"chunked", "bodyless"}
          THEN FlattenSeq([i \in DOMAIN m.body |-> Chunk(m.body[i])]) \o Chunk(<<>>)
          ELSE Body(m))

\* Nothing follows a message that ends with the connection, or an upgrade.
Send(m) ==
    /\ Len(owed) < MaxMessages /\ ~closed /\ (m.framing = "bodyless" => isReq)
    /\ \A i \in DOMAIN owed : owed[i].framing \notin {"toClose", "upgrade"}
    /\ wire' = wire \o Encoded(m)
    /\ owed' = Append(owed, m)
    /\ eager' = (eager \/ wire # <<>> \/ buf # <<>> \/ pending
                     \/ (isReq /\ m.framing = "upgrade" /\ Body(m) # <<>>))
    /\ UNCHANGED <<isReq, deletes, buf, bodyLen, upgraded, pending, flags, closed,
                   aborted, events>>
-----------------------------------------------------------------------------
(* Parsing *)

\* mg_http_get_request_len: up to the first empty line, and 0 without one.
RequestLen(b) ==
    LET ends == {i \in DOMAIN b : b[i] = Empty \/ (i > 2 /\ b[i] = LF /\ b[i-1] = CR /\ b[i-2] = LF)}
    IN  IF ends = {} THEN 0 ELSE CHOOSE i \in ends : \A j \in ends : i <= j

\* mg_parse_http, mg_http_parse_headers: -1 if the first line is not a start
\* line.  Without a length, a request has no body unless it is PUT or POST.
ParseHttp(b) ==
    LET len == RequestLen(b)
    IN  IF len > 0 /\ b[1].s # "start" THEN [len |-> -1, total |-> Nowhere]
        ELSE IF len = 0 THEN [len |-> 0, total |-> Nowhere]
        ELSE [len |-> len, of |-> b[1].of,
              total |-> CASE b[1].of.framing = "length" -> len + Len(Body(b[1].of))
                          [] isReq /\ b[1].of.framing \in {"bodyless", "upgrade"} -> len
                          [] OTHER -> Nowhere]

\* A slip in it: the line break behind the data need not be whole.
ChunkAt_Slip(b, i) ==
    LET n == b[i].n
        whole == /\ i + 2 <= Len(b) /\ b[i].s = "hex" /\ b[i+1] = CR /\ b[i+2] = LF
                 /\ i + n + 3 <= Len(b) /\ b[i+n+3] = CR
    IN  IF whole THEN [took |-> n + 5, data |-> SubSeq(b, i + 3, i + n + 2)]
        ELSE [took |-> 0, data |-> <<>>]

\* mg_http_parse_chunk: the symbols the chunk at i takes, 0 if it is not whole.
ChunkAt(b, i) ==
    LET n == b[i].n
        whole == /\ i + 2 <= Len(b) /\ b[i].s = "hex" /\ b[i+1] = CR /\ b[i+2] = LF
                 /\ i + n + 4 <= Len(b) /\ b[i+n+3] = CR /\ b[i+n+4] = LF
    IN  IF whole THEN [took |-> n + 5, data |-> SubSeq(b, i + 3, i + n + 2)]
        ELSE [took |-> 0, data |-> <<>>]

\* The loop of mg_handle_chunked: all whole chunks of body from offset start
\* on, up to the zero chunk.
Collapsed(body, start) ==
    FoldLeft(LAMBDA acc, k :
                 LET c == ChunkAt(body, acc.i + 1)
                 IN  IF acc.zero \/ c.took = 0 THEN acc
                     ELSE [i |-> acc.i + c.took, data |-> acc.data \o c.data,
                           zero |-> c.data = <<>>],
             [i |-> start, data |-> SubSeq(body, 1, start), zero |-> FALSE],
             body)

\* The longest name that is a prefix of the uri; the connection's own handler
\* without one.
EndpointFor(uri) ==
    LET fits == {e \in Endpoints : e # <<>> /\ IsPrefix(e, uri)}
    IN  IF fits = {} THEN <<>> ELSE CHOOSE e \in fits : \A f \in fits : Len(f) <= Len(e)

Event(ev, to, of, body) == [ev |-> ev, to |-> to, of |-> of, body |-> body]
MessageEvent(of, body) ==
    IF isReq THEN Event("REQUEST", EndpointFor(of.uri), of, body)
    ELSE Event("REPLY", <<>>, of, body)

\* mg_handle_chunked on the buffer b, after ParseHttp gave p: the buffer it
\* leaves, how much of it is body, where the message ends, and the CHUNK event.
HandleChunked(b, p) ==
    LET body == SubSeq(b, p.len + 1, Len(b))
        c == Collapsed(body, bodyLen)
        rest == SubSeq(body, c.i + 1, Len(body))
        kept == IF deletes THEN <<>> ELSE c.data
    IN  IF c.i = Len(c.data)
        THEN [buf |-> b, bodyLen |-> bodyLen, body |-> <<>>, total |-> p.total, chunk |-> <<>>]
        ELSE [buf |-> SubSeq(b, 1, p.len) \o kept \o rest,
              bodyLen |-> Len(kept), body |-> kept,
              total |-> IF c.zero THEN p.len + Len(kept) + Len(rest) ELSE p.total,
              chunk |-> <<Event("CHUNK", <<>>, p.of, c.data)>>]

\* The same for a message that is not chunked.
NotChunked(b, p) ==
    [buf |-> b, bodyLen |-> bodyLen, total |-> p.total, chunk |-> <<>>,
     body |-> IF p.total \in p.len..Len(b) THEN SubSeq(b, p.len + 1, p.total) ELSE <<>>]
-----------------------------------------------------------------------------
(* mg_http_handler *)

IsChunked(p) == p.len > 0 /\ p.of.framing \in {"chunked", "bodyless"}

\* No whole header yet, too long a one, or something else.
NotAMessage(b, p) ==
    /\ p.len <= 0
    /\ flags' = IF p.len < 0 \/ Len(b) >= MaxRequestSize
                THEN flags \cup {"CLOSE_IMMEDIATELY"} ELSE flags
    /\ buf' = b
    /\ UNCHANGED <<bodyLen, upgraded, pending, events>>

\* The upgrade to WebSocket.  The server reads uri and key of the request after
\* it has removed it from the buffer: bytes behind it, of a client that does not
\* wait for the answer, may have taken their place.
Upgrade(b, p) ==
    /\ p.len > 0 /\ p.of.framing = "upgrade"
    /\ buf' = SubSeq(b, p.len + 1, Len(b))
    /\ upgraded' = TRUE
    /\ UNCHANGED bodyLen
    /\ IF ~isReq
       THEN /\ events' = Append(events, Event("HANDSHAKE_DONE", <<>>, p.of, <<>>))
            /\ UNCHANGED <<flags, pending>>
       ELSE \E to \in IF buf' = <<>> THEN {EndpointFor(p.of.uri)} ELSE Endpoints \cup {<<>>},
               refused \in BOOLEAN :
              /\ flags' = IF refused THEN flags \cup {"SEND_AND_CLOSE"} ELSE flags
              /\ pending' = (pending \/ ~refused)
              /\ events' = events \o <<Event("HANDSHAKE_REQUEST", to, p.of, <<>>)>>
                   \o (IF refused \/ pending THEN <<>>
                       ELSE <<Event("SWITCHING_PROTOCOLS", <<>>, p.of, <<>>)>>)
                   \o (IF refused THEN <<>> ELSE <<Event("HANDSHAKE_DONE", to, p.of, <<>>)>>)

\* Calls the handler if the whole message is there, once for each read.
Message(b, p) ==
    LET c == IF IsChunked(p) THEN HandleChunked(b, p) ELSE NotChunked(b, p)
        whole == c.total # Nowhere /\ c.total <= Len(c.buf)
    IN  /\ p.len > 0 /\ p.of.framing # "upgrade"
        /\ bodyLen' = c.bodyLen
        /\ events' = events \o c.chunk
                       \o (IF whole THEN <<MessageEvent(p.of, c.body)>> ELSE <<>>)
        /\ buf' = IF whole THEN SubSeq(c.buf, c.total + 1, Len(c.buf)) ELSE c.buf
        /\ pending' \in {pending, pending \/ whole}
        /\ UNCHANGED <<upgraded, flags>>

\* The assertion blen >= body_len of mg_handle_chunked.
Aborts(b, p) == IsChunked(p) /\ Len(b) - p.len < bodyLen

\* A read and MG_EV_RECV.
Receive(n) ==
    LET b == buf \o SubSeq(wire, 1, n)
        p == ParseHttp(b)
    IN  /\ ~closed /\ ~aborted /\ "CLOSE_IMMEDIATELY" \notin flags
        /\ n <= Len(wire)
        /\ wire' = SubSeq(wire, n + 1, Len(wire))
        /\ aborted' = (~upgraded /\ Aborts(b, p))
        /\ IF upgraded \/ aborted'
           THEN buf' = b /\ UNCHANGED <<bodyLen, upgraded, pending, flags, events>>
           ELSE NotAMessage(b, p) \/ Upgrade(b, p) \/ Message(b, p)
        /\ UNCHANGED <<isReq, deletes, closed, owed, eager>>

\* MG_EV_CLOSE: what is left is reported as a message if its header is whole.
Close ==
    LET p == ParseHttp(buf)
    IN  /\ ~closed /\ ~aborted
        /\ closed' = TRUE
        /\ events' = (IF ~upgraded /\ p.len > 0
                      THEN Append(events, MessageEvent(p.of, SubSeq(buf, p.len + 1, Len(buf))))
                      ELSE events) \o <<Event("CLOSE", <<>>, None, <<>>)>>
        /\ UNCHANGED <<isReq, deletes, wire, buf, bodyLen, upgraded, pending, flags,
                       aborted, owed, eager>>

\* What the handler sent has left.
Drain ==
    /\ pending /\ ~closed
    /\ pending' = FALSE
    /\ UNCHANGED <<isReq, deletes, wire, buf, bodyLen, upgraded, flags, closed,
                   aborted, owed, eager, events>>
-----------------------------------------------------------------------------
Init ==
    /\ isReq \in BOOLEAN /\ deletes \in BOOLEAN
    /\ wire = <<>> /\ buf = <<>> /\ bodyLen = 0 /\ upgraded = FALSE /\ pending = FALSE
    /\ flags = {} /\ closed = FALSE /\ aborted = FALSE
    /\ owed = <<>> /\ eager = FALSE /\ events = <<>>

Next ==
    \/ \E m \in Messages : Send(m)
    \/ \E n \in Chunks : Receive(n)
    \/ Close
    \/ Drain

Spec == Init /\ [][Next]_vars
-----------------------------------------------------------------------------
(* Properties *)

TypeOK ==
    /\ {isReq, deletes, upgraded, pending, closed, aborted, eager} \subseteq BOOLEAN
    /\ bodyLen \in Nat
    /\ flags \subseteq {"SEND_AND_CLOSE", "CLOSE_IMMEDIATELY"}

Reported == SelectSeq(events, LAMBDA e : e.ev \in {"REQUEST", "REPLY"})

\* The body the application has of the i-th message: what came with it, and
\* before it in chunks that were deleted.
BodyOf(i) ==
    (IF deletes THEN FlattenSeq([k \in DOMAIN events |->
         IF events[k].ev = "CHUNK" /\ events[k].of = owed[i] THEN events[k].body ELSE <<>>])
     ELSE <<>>) \o Reported[i].body

\* Exchanges the code is meant for: one message at a time, chunks only where a
\* body may be, and no two chunked messages that differ too little to tell their
\* chunks apart.  Without DELETE_CHUNK only the last message may be chunked.
Ordinary ==
    /\ ~eager
    /\ isReq => \A i \in DOMAIN owed : owed[i].framing # "bodyless"
    /\ deletes => IsInjective(owed)
    /\ ~deletes => \A i \in DOMAIN owed : owed[i].framing = "chunked" => i = Len(owed)

\* However the stream is cut into reads, the application is called once for
\* every message, in order, with its whole body, by its end or, if it has no
\* length, at the latest before CLOSE; a message cut off by CLOSE is reported too.
MessagesWhole ==
    Ordinary =>
        /\ ~aborted
        /\ \A i \in DOMAIN Reported :
              /\ Reported[i].of = owed[i]
              /\ ~closed => BodyOf(i) = Body(owed[i])
        /\ wire = <<>> =>
              \A i \in DOMAIN owed :
                  owed[i].framing \in {"length", "chunked"} \/ (owed[i].framing = "toClose" /\ closed)
                      => i \in DOMAIN Reported /\ BodyOf(i) = Body(owed[i])

\* A server that switches to WebSocket has answered the request with 101 before
\* it says so, has chosen the handler by the uri of that request, and leaves
\* what the client sends from then on in the buffer for the frames' parser.
UpgradeAnswered ==
    Ordinary /\ upgraded =>
        /\ buf \o wire = Body(Last(owed))
        /\ isReq => \A i \in DOMAIN events : events[i].ev = "HANDSHAKE_DONE" =>
                       /\ events[i - 1].ev = "SWITCHING_PROTOCOLS"
                       /\ events[i].to = EndpointFor(Last(owed).uri)

\* What mongoose.h says of MG_EV_HTTP_CHUNK: with the last chunk of a reply the
\* client gets MG_EV_HTTP_REPLY with the whole body.
FullBody ==
    ~isReq /\ ~eager /\ ~deletes /\ wire = <<>> =>
        \A i \in DOMAIN owed : owed[i].framing = "chunked" =>
            i \in DOMAIN Reported /\ Reported[i].body = Body(owed[i])
=============================================================================
