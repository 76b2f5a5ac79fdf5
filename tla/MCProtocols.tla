----------------------------- MODULE MCProtocols ----------------------------
(***************************************************************************)
(* The protocol components, each on an instance small enough to explore    *)
(* and with inputs at the boundaries of its encodings.  They share no      *)
(* state in the program other than a connection's buffers, so each runs    *)
(* by itself: system says which.  Variables of the same name serve all     *)
(* the components that have one.                                           *)
(***************************************************************************)
EXTENDS Protocols, Integers, Sequences

VARIABLES masked, partial, outOfBand, mem, len, again, closing, isReq, deletes, bodyLen,
          upgraded, pending, flags, aborted, request, state, running, prevIoLen, processingPart,
          name, app, opts, response, job, chunk, out, fed, ended, cm, net, sent, rest, msg,
          given, heard

Count(n, low) == [i \in 1..n |-> low + i]

\* WebSocket: an empty payload and one whose first byte may be taken for CLOSE.
WsPayloads == {<<>>, <<104, 98>>}

\* MQTT: a payload whose packet needs two bytes for its length.
MqTopics == {<<97>>, <<98, 99>>}
MqPayloads == {<<>>, [i \in 1..128 |-> 48]}
MqClients == {[flags |-> 2, strings |-> <<<<97>>>>],
              [flags |-> 196, strings |-> <<<<97>>, <<>>, <<98>>, <<99>>, <<100, 101>>>>]}

\* HTTP: every framing, bodies in one and two chunks, a header that is too long.
HttpMessages ==
    LET M(f, n, u, b) == [framing |-> f, fields |-> n, uri |-> u, body |-> b]
        D(x) == <<[s |-> "data", d |-> x]>>
    IN  {M("length", 1, <<1>>, <<D(1)>>), M("length", 0, <<1, 2>>, <<>>), M("length", 5, <<2>>, <<>>),
         M("chunked", 0, <<2>>, <<D(1), D(2)>>), M("bodyless", 0, <<2>>, <<D(1)>>),
         M("toClose", 0, <<1>>, <<D(1)>>), M("upgrade", 1, <<1, 2>>, <<D(3)>>), M("upgrade", 1, <<1, 2>>, <<>>)}

\* Multipart: data that look like the end of a part, and more than one read.
MpRequests ==
    LET P(n, o, d) == [name |-> n, others |-> o, data |-> d]
    IN  {<<P(1, 0, <<>>)>>, <<P(1, 1, <<13>>), P(2, 0, <<13, 10, 45, 45, 66, 45>>)>>, <<P(1, 0, Count(10, 100))>>}

\* Stored uploads: two clients that name the same file, one with a part that is refused.
Posts ==
    LET P(f, d) == [file |-> f, data |-> d]
    IN  {<<P("f", <<1, 2, 3>>)>>, <<P("no", <<3>>), P("f", <<3>>)>>}

MCFileRanges == {<<>>, <<1>>, <<1, 1>>, <<2, 1>>, <<-1>>}

CgiOutputs == {<<"status", "empty", "body", "body">>, <<"location", "empty">>, <<"field", "bad">>,
               <<"field", "field", "field", "empty", "body">>}

\* mg_serve_http: a tree with an index, a program, a password file and a hidden
\* file; each kind of rewrite; URIs with every kind of dots.
Dirs == {<<"w">>, <<"w", "d">>, <<"w", "p">>, <<"alt">>}
Files == {<<"w", "a">>, <<"w", "d", "a">>, <<"w", "d", "c">>, <<"w", "p", "a">>, <<"w", "p", "i">>,
          <<"w", "p", ".htpasswd">>, <<"alt", "i">>, <<"w", "h">>, <<"passwords">>}
Rewrites ==
    LET R(kind, from, to) == [kind |-> kind, from |-> from, to |-> to]
    IN  {<<>>, <<R("uri", <<"d">>, <<"alt">>), R("host", "v", <<"w", "p">>)>>,
         <<R("proxy", <<"d", "a">>, <<"up">>)>>, <<R("port", <<>>, <<"up">>)>>}
ServeOptions == {[document_root |-> <<"w">>, rewrites |-> rw, auth_domain |-> a, hidden |-> {"h"},
                  index_files |-> <<"i", "c", "h">>, enable_directory_listing |-> a] : rw \in Rewrites, a \in BOOLEAN}
Spelling ==
    [c \in {"", "a", "c", "d", "h", "i", "p", ".", "..", "%", "%.", "%..", "%/", ".htpasswd"} |->
        CASE c = "" -> <<>> [] c = ".." -> <<".", ".">> [] c = "%." -> <<"%", "2", "e">>
          [] c = "%.." -> <<"%", "2", "e", ".">> [] c = "%/" -> <<"%", "2", "f">>
          [] c = ".htpasswd" -> <<".", "h", "t", "p">> [] OTHER -> <<c>>]
Uris == {<<>>} \cup [1..1 -> {"", "a", "h", "%", "%/", ".htpasswd"}]
          \cup [1..2 -> {"", ".", "..", "%..", "%.", "c", "d", "p", "a", ".htpasswd"}]
          \cup {<<"d">> \o u : u \in [1..3 -> {"", "..", "a", "%..", "c", "p"}]}
ServeRequests ==
    LET Q(m, u, h, f, l, a) == [method |-> m, uri |-> u, host |-> h, fresh |-> f, login |-> l, allowed |-> a]
        logins == {{}, {<<"passwords">>}, {<<"passwords">>, <<"w", "p", ".htpasswd">>}}
    IN  {Q("GET", u, h, FALSE, l, TRUE) : u \in Uris, h \in {"v", "x"}, l \in logins}
          \cup {Q(m, <<"a">>, "x", f, {}, a) : m \in {"PUT", "OPTIONS"}, f \in BOOLEAN, a \in BOOLEAN}

\* Text: pieces that leave every rest of three bytes; URIs with and without each
\* component; patterns of every sign.
Pieces == {<<0>>, <<255>>, <<77, 97>>, <<254, 3, 129, 64>>}
UriParts ==
    LET parts == [scheme : {<<>>, <<"s">>}, user : {<<>>, <<"u", ":", "p">>}, host : {<<"h">>},
                  port : {<<>>, <<"8">>}, path : {<<>>, <<"/">>, <<"/", "a", ":", "@", "/">>},
                  query : {<<>>, <<"q", "?", "/">>}, fragment : {<<>>, <<"f">>}]
    IN  {u \in parts : /\ u.scheme = <<>> => u.user = <<>>
                       /\ u.path = <<>> => u.query = <<>>
                       /\ u.query = <<>> => u.fragment = <<>>}
Patterns == UNION {[1..n -> {"a", "/", "?", "*", "$", "|"}] : n \in 0..3}
              \cup {<<"*", "*", "/", "a">>, <<"*", "a", "*", "?">>, <<"?", "*", "/", "$">>, <<"*", "*", "a", "$", "|", "b">>}
Strings == {<<s, b>> : s \in UNION {[1..n -> {"a", "b", "/"}] : n \in 0..3}, b \in {<<>>, <<"a", "/", "a">>}}

\* Topics with a payload behind them.
Letters(n) == UNION {[1..k -> {"a", "b", "/"}] : k \in 1..n}
TopicExpressions == Letters(3) \cup {e \o <<"/", "#">> : e \in Letters(2)} \cup {<<"#">>, <<"a", "#">>, <<"+", "/", "#">>}
TopicsAndPayloads == {<<t, b>> : t \in Letters(3), b \in {<<>>, <<"b", "/">>}}

\* CoAP: numbers and lengths on both sides of the one and two byte extensions.
CoapOptions == {[number |-> 1, value |-> <<>>], [number |-> 268, value |-> [i \in 1..269 |-> i % 256]]}
CoapTokens == {Count(8, 0)}
CoapPayloads == {<<7, 8>>}

\* DNS: a name of two labels, and one whose last label is empty.
DnsNames == {<<<<97>>, <<98, 98>>>>, <<<<97>>, <<>>>>}
DnsTargets == {<<<<100, 100>>>>}
-----------------------------------------------------------------------------
WS == INSTANCE WebSocket WITH Payloads <- WsPayloads, MaxFrames <- 2, MemSize <- 28,
              Chunks <- {1, 3}, Garbage <- {0, 8}
HT == INSTANCE HttpConn WITH Messages <- HttpMessages, MaxMessages <- 2,
              Endpoints <- {<<1>>, <<1, 2>>}, MaxRequestSize <- 5, Chunks <- {1, 2, 11}
MP == INSTANCE HttpMultipart WITH Requests <- MpRequests, Boundary <- <<66, 49>>,
              Chunks <- {1, 4, 9}
SV == INSTANCE HttpServe WITH Files <- Files, Dirs <- Dirs, CgiNames <- {"c"},
              Spelling <- Spelling, Options <- ServeOptions, Requests <- ServeRequests
TX == INSTANCE Text WITH Pieces <- Pieces, MaxBytes <- 5, Uris <- UriParts,
              Patterns <- Patterns, Strings <- Strings, Expressions <- TopicExpressions,
              Topics <- TopicsAndPayloads
CO == INSTANCE Coap WITH Options <- CoapOptions, Tokens <- CoapTokens, Payloads <- CoapPayloads,
              MaxOptions <- 2, MaxMessages <- 2, RecvBuffer <- 304
DU == INSTANCE Dns WITH Names <- DnsNames, Targets <- DnsTargets, Tcp <- FALSE, MaxQueries <- 1,
              MaxLabels <- 4, MaxAnswers <- 1
DT == INSTANCE Dns WITH Names <- DnsNames, Targets <- DnsTargets, Tcp <- TRUE, MaxQueries <- 1,
              MaxLabels <- 4, MaxAnswers <- 2
-----------------------------------------------------------------------------
\* What the variables of a component are that does not run.
Off == "off"

MCInit ==
    /\ Init
    /\ \/ /\ system = "proxy"
          /\ masked = Off /\ wire = Off /\ partial = Off /\ owed = Off /\ outOfBand = Off
          /\ mem = Off /\ len = Off /\ again = Off /\ events = Off /\ closing = Off
          /\ wild = Off /\ isReq = Off /\ deletes = Off /\ buf = Off /\ bodyLen = Off
          /\ upgraded = Off /\ pending = Off /\ flags = Off /\ closed = Off /\ aborted = Off
          /\ eager = Off /\ request = Off /\ state = Off /\ running = Off /\ prevIoLen = Off
          /\ processingPart = Off /\ name = Off /\ app = Off /\ opts = Off /\ response = Off
          /\ job = Off /\ chunk = Off /\ out = Off /\ fed = Off /\ ended = Off /\ cm = Off
          /\ net = Off /\ sent = Off /\ acks = Off /\ asked = Off /\ rest = Off /\ msg = Off
          /\ served = Off /\ given = Off /\ heard = Off /\ posts = Off /\ disk = Off
          /\ stored = Off /\ nc = Off /\ cgi = Off /\ size = Off /\ conn = Off /\ gone = Off
          /\ changed = Off /\ leaked = Off /\ looping = Off
       \/ /\ system = "websocket" /\ WS!Init
          /\ isReq = Off /\ deletes = Off /\ buf = Off /\ bodyLen = Off /\ upgraded = Off
          /\ pending = Off /\ flags = Off /\ closed = Off /\ aborted = Off /\ eager = Off
          /\ request = Off /\ state = Off /\ running = Off /\ prevIoLen = Off
          /\ processingPart = Off /\ name = Off /\ app = Off /\ opts = Off /\ response = Off
          /\ job = Off /\ chunk = Off /\ out = Off /\ fed = Off /\ ended = Off /\ cm = Off
          /\ net = Off /\ sent = Off /\ acks = Off /\ asked = Off /\ rest = Off /\ msg = Off
          /\ served = Off /\ given = Off /\ heard = Off /\ posts = Off /\ disk = Off
          /\ stored = Off /\ nc = Off /\ cgi = Off /\ size = Off /\ conn = Off /\ gone = Off
          /\ changed = Off /\ leaked = Off /\ looping = Off
       \/ /\ system = "http" /\ HT!Init
          /\ masked = Off /\ partial = Off /\ outOfBand = Off /\ mem = Off /\ len = Off
          /\ again = Off /\ closing = Off /\ wild = Off /\ request = Off /\ state = Off
          /\ running = Off /\ prevIoLen = Off /\ processingPart = Off /\ name = Off
          /\ app = Off /\ opts = Off /\ response = Off /\ job = Off /\ chunk = Off /\ out = Off
          /\ fed = Off /\ ended = Off /\ cm = Off /\ net = Off /\ sent = Off /\ acks = Off
          /\ asked = Off /\ rest = Off /\ msg = Off /\ served = Off /\ given = Off
          /\ heard = Off /\ posts = Off /\ disk = Off /\ stored = Off /\ nc = Off /\ cgi = Off
          /\ size = Off /\ conn = Off /\ gone = Off /\ changed = Off /\ leaked = Off
          /\ looping = Off
       \/ /\ system = "multipart" /\ MP!Init
          /\ masked = Off /\ partial = Off /\ owed = Off /\ outOfBand = Off /\ mem = Off
          /\ len = Off /\ again = Off /\ events = Off /\ closing = Off /\ isReq = Off
          /\ deletes = Off /\ bodyLen = Off /\ upgraded = Off /\ pending = Off /\ flags = Off
          /\ aborted = Off /\ eager = Off /\ opts = Off /\ response = Off /\ job = Off
          /\ chunk = Off /\ out = Off /\ fed = Off /\ ended = Off /\ cm = Off /\ net = Off
          /\ sent = Off /\ acks = Off /\ asked = Off /\ rest = Off /\ msg = Off /\ served = Off
          /\ given = Off /\ heard = Off /\ posts = Off /\ disk = Off /\ stored = Off
          /\ nc = Off /\ cgi = Off /\ size = Off /\ conn = Off /\ gone = Off /\ changed = Off
          /\ leaked = Off /\ looping = Off
       \/ /\ system = "serve" /\ SV!Init
          /\ masked = Off /\ wire = Off /\ partial = Off /\ owed = Off /\ outOfBand = Off
          /\ mem = Off /\ len = Off /\ again = Off /\ events = Off /\ closing = Off
          /\ wild = Off /\ isReq = Off /\ deletes = Off /\ buf = Off /\ bodyLen = Off
          /\ upgraded = Off /\ pending = Off /\ flags = Off /\ closed = Off /\ aborted = Off
          /\ eager = Off /\ state = Off /\ running = Off /\ prevIoLen = Off
          /\ processingPart = Off /\ name = Off /\ app = Off /\ job = Off /\ chunk = Off
          /\ out = Off /\ fed = Off /\ ended = Off /\ cm = Off /\ net = Off /\ sent = Off
          /\ acks = Off /\ asked = Off /\ rest = Off /\ msg = Off /\ served = Off
          /\ given = Off /\ heard = Off /\ posts = Off /\ disk = Off /\ stored = Off
          /\ nc = Off /\ cgi = Off /\ size = Off /\ conn = Off /\ gone = Off /\ changed = Off
          /\ leaked = Off /\ looping = Off
       \/ /\ system = "text" /\ TX!Init
          /\ masked = Off /\ wire = Off /\ partial = Off /\ owed = Off /\ outOfBand = Off
          /\ mem = Off /\ len = Off /\ again = Off /\ events = Off /\ closing = Off
          /\ wild = Off /\ isReq = Off /\ deletes = Off /\ buf = Off /\ bodyLen = Off
          /\ upgraded = Off /\ pending = Off /\ flags = Off /\ closed = Off /\ aborted = Off
          /\ eager = Off /\ request = Off /\ state = Off /\ running = Off /\ prevIoLen = Off
          /\ processingPart = Off /\ name = Off /\ app = Off /\ opts = Off /\ response = Off
          /\ cm = Off /\ net = Off /\ sent = Off /\ acks = Off /\ asked = Off /\ rest = Off
          /\ msg = Off /\ served = Off /\ given = Off /\ heard = Off /\ posts = Off
          /\ disk = Off /\ stored = Off /\ nc = Off /\ cgi = Off /\ size = Off /\ conn = Off
          /\ gone = Off /\ changed = Off /\ leaked = Off /\ looping = Off
       \/ /\ system = "coap" /\ CO!Init
          /\ masked = Off /\ wire = Off /\ partial = Off /\ owed = Off /\ outOfBand = Off
          /\ mem = Off /\ len = Off /\ again = Off /\ closing = Off /\ wild = Off
          /\ isReq = Off /\ deletes = Off /\ buf = Off /\ bodyLen = Off /\ upgraded = Off
          /\ pending = Off /\ flags = Off /\ closed = Off /\ aborted = Off /\ eager = Off
          /\ request = Off /\ state = Off /\ running = Off /\ prevIoLen = Off
          /\ processingPart = Off /\ name = Off /\ app = Off /\ opts = Off /\ response = Off
          /\ job = Off /\ chunk = Off /\ out = Off /\ fed = Off /\ ended = Off /\ asked = Off
          /\ rest = Off /\ msg = Off /\ served = Off /\ given = Off /\ heard = Off
          /\ posts = Off /\ disk = Off /\ stored = Off /\ nc = Off /\ cgi = Off /\ size = Off
          /\ conn = Off /\ gone = Off /\ changed = Off /\ leaked = Off /\ looping = Off
       \/ /\ system = "dns_udp" /\ DU!Init
          /\ masked = Off /\ wire = Off /\ partial = Off /\ owed = Off /\ outOfBand = Off
          /\ mem = Off /\ len = Off /\ again = Off /\ events = Off /\ closing = Off
          /\ wild = Off /\ isReq = Off /\ deletes = Off /\ buf = Off /\ bodyLen = Off
          /\ upgraded = Off /\ pending = Off /\ flags = Off /\ closed = Off /\ aborted = Off
          /\ eager = Off /\ request = Off /\ state = Off /\ running = Off /\ prevIoLen = Off
          /\ processingPart = Off /\ name = Off /\ app = Off /\ opts = Off /\ response = Off
          /\ job = Off /\ chunk = Off /\ out = Off /\ fed = Off /\ ended = Off /\ cm = Off
          /\ sent = Off /\ acks = Off /\ posts = Off /\ disk = Off /\ stored = Off /\ nc = Off
          /\ cgi = Off /\ size = Off /\ conn = Off /\ gone = Off /\ changed = Off
          /\ leaked = Off /\ looping = Off
       \/ /\ system = "dns_tcp" /\ DT!Init
          /\ masked = Off /\ wire = Off /\ partial = Off /\ owed = Off /\ outOfBand = Off
          /\ mem = Off /\ len = Off /\ again = Off /\ events = Off /\ closing = Off
          /\ wild = Off /\ isReq = Off /\ deletes = Off /\ buf = Off /\ bodyLen = Off
          /\ upgraded = Off /\ pending = Off /\ flags = Off /\ closed = Off /\ aborted = Off
          /\ eager = Off /\ request = Off /\ state = Off /\ running = Off /\ prevIoLen = Off
          /\ processingPart = Off /\ name = Off /\ app = Off /\ opts = Off /\ response = Off
          /\ job = Off /\ chunk = Off /\ out = Off /\ fed = Off /\ ended = Off /\ cm = Off
          /\ sent = Off /\ acks = Off /\ posts = Off /\ disk = Off /\ stored = Off /\ nc = Off
          /\ cgi = Off /\ size = Off /\ conn = Off /\ gone = Off /\ changed = Off
          /\ leaked = Off /\ looping = Off
       \/ /\ system = "upload" /\ UP!Init
          /\ masked = Off /\ wire = Off /\ partial = Off /\ owed = Off /\ outOfBand = Off
          /\ mem = Off /\ len = Off /\ again = Off /\ events = Off /\ closing = Off
          /\ wild = Off /\ isReq = Off /\ deletes = Off /\ buf = Off /\ bodyLen = Off
          /\ upgraded = Off /\ pending = Off /\ flags = Off /\ closed = Off /\ aborted = Off
          /\ eager = Off /\ request = Off /\ state = Off /\ running = Off /\ prevIoLen = Off
          /\ processingPart = Off /\ name = Off /\ app = Off /\ opts = Off /\ response = Off
          /\ job = Off /\ chunk = Off /\ out = Off /\ fed = Off /\ ended = Off /\ cm = Off
          /\ net = Off /\ sent = Off /\ acks = Off /\ asked = Off /\ rest = Off /\ msg = Off
          /\ served = Off /\ given = Off /\ heard = Off /\ nc = Off /\ cgi = Off /\ size = Off
          /\ conn = Off /\ gone = Off /\ changed = Off /\ leaked = Off /\ looping = Off
       \/ /\ system = "cgi" /\ CG!Init
          /\ masked = Off /\ partial = Off /\ owed = Off /\ outOfBand = Off /\ mem = Off
          /\ len = Off /\ again = Off /\ events = Off /\ closing = Off /\ isReq = Off
          /\ deletes = Off /\ buf = Off /\ bodyLen = Off /\ upgraded = Off /\ pending = Off
          /\ flags = Off /\ closed = Off /\ aborted = Off /\ request = Off /\ state = Off
          /\ running = Off /\ prevIoLen = Off /\ processingPart = Off /\ name = Off
          /\ app = Off /\ opts = Off /\ response = Off /\ job = Off /\ chunk = Off /\ out = Off
          /\ fed = Off /\ ended = Off /\ cm = Off /\ net = Off /\ sent = Off /\ acks = Off
          /\ rest = Off /\ msg = Off /\ given = Off /\ heard = Off /\ posts = Off /\ disk = Off
          /\ stored = Off /\ size = Off /\ conn = Off /\ gone = Off /\ changed = Off
          /\ leaked = Off /\ looping = Off
       \/ /\ system = "file" /\ FI!Init
          /\ masked = Off /\ wire = Off /\ partial = Off /\ owed = Off /\ outOfBand = Off
          /\ mem = Off /\ len = Off /\ again = Off /\ events = Off /\ closing = Off
          /\ wild = Off /\ isReq = Off /\ deletes = Off /\ buf = Off /\ bodyLen = Off
          /\ upgraded = Off /\ pending = Off /\ flags = Off /\ aborted = Off /\ request = Off
          /\ state = Off /\ running = Off /\ prevIoLen = Off /\ processingPart = Off
          /\ name = Off /\ app = Off /\ opts = Off /\ response = Off /\ job = Off
          /\ chunk = Off /\ out = Off /\ fed = Off /\ ended = Off /\ cm = Off /\ net = Off
          /\ sent = Off /\ acks = Off /\ rest = Off /\ msg = Off /\ served = Off /\ given = Off
          /\ heard = Off /\ posts = Off /\ disk = Off /\ nc = Off /\ cgi = Off /\ looping = Off
       \/ /\ system = "mqtt" /\ MQ!Init
          /\ masked = Off /\ partial = Off /\ outOfBand = Off /\ mem = Off /\ len = Off
          /\ again = Off /\ closing = Off /\ wild = Off /\ isReq = Off /\ deletes = Off
          /\ bodyLen = Off /\ upgraded = Off /\ pending = Off /\ flags = Off /\ closed = Off
          /\ aborted = Off /\ eager = Off /\ request = Off /\ state = Off /\ running = Off
          /\ prevIoLen = Off /\ processingPart = Off /\ name = Off /\ app = Off /\ opts = Off
          /\ response = Off /\ job = Off /\ chunk = Off /\ out = Off /\ fed = Off
          /\ ended = Off /\ cm = Off /\ net = Off /\ sent = Off /\ asked = Off /\ rest = Off
          /\ msg = Off /\ served = Off /\ given = Off /\ heard = Off /\ posts = Off
          /\ disk = Off /\ stored = Off /\ nc = Off /\ cgi = Off /\ size = Off /\ conn = Off
          /\ gone = Off /\ changed = Off /\ leaked = Off

ProxyStep == /\ system = "proxy" /\ Next
    /\ UNCHANGED <<system, masked, wire, partial, owed, outOfBand, mem, len, again, events,
                   closing, wild, isReq, deletes, buf, bodyLen, upgraded, pending, flags,
                   closed, aborted, eager, request, state, running, prevIoLen, processingPart,
                   name, app, opts, response, job, chunk, out, fed, ended, cm, net, sent, acks,
                   asked, rest, msg, served, given, heard, posts, disk, stored, nc, cgi, size,
                   conn, gone, changed, leaked, looping>>

WebSocketStep ==
    /\ system = "websocket" /\ WS!Next
    /\ UNCHANGED <<system, conns, waiting, late, usedFreed, isReq, deletes, buf, bodyLen,
                   upgraded, pending, flags, closed, aborted, eager, request, state, running,
                   prevIoLen, processingPart, name, app, opts, response, job, chunk, out, fed,
                   ended, cm, net, sent, acks, asked, rest, msg, served, given, heard, posts,
                   disk, stored, nc, cgi, size, conn, gone, changed, leaked, looping>>

HttpStep ==
    /\ system = "http" /\ HT!Next
    /\ UNCHANGED <<system, conns, waiting, late, usedFreed, masked, partial, outOfBand, mem,
                   len, again, closing, wild, request, state, running, prevIoLen,
                   processingPart, name, app, opts, response, job, chunk, out, fed, ended, cm,
                   net, sent, acks, asked, rest, msg, served, given, heard, posts, disk, stored,
                   nc, cgi, size, conn, gone, changed, leaked, looping>>

MultipartStep ==
    /\ system = "multipart" /\ MP!Next
    /\ UNCHANGED <<system, conns, waiting, late, usedFreed, masked, partial, owed, outOfBand,
                   mem, len, again, events, closing, isReq, deletes, bodyLen, upgraded, pending,
                   flags, aborted, eager, opts, response, job, chunk, out, fed, ended, cm, net,
                   sent, acks, asked, rest, msg, served, given, heard, posts, disk, stored, nc,
                   cgi, size, conn, gone, changed, leaked, looping>>

ServeStep ==
    /\ system = "serve" /\ SV!Next
    /\ UNCHANGED <<system, conns, waiting, late, usedFreed, masked, wire, partial, owed,
                   outOfBand, mem, len, again, events, closing, wild, isReq, deletes, buf,
                   bodyLen, upgraded, pending, flags, closed, aborted, eager, state, running,
                   prevIoLen, processingPart, name, app, job, chunk, out, fed, ended, cm, net,
                   sent, acks, asked, rest, msg, served, given, heard, posts, disk, stored, nc,
                   cgi, size, conn, gone, changed, leaked, looping>>

TextStep ==
    /\ system = "text" /\ TX!Next
    /\ UNCHANGED <<system, conns, waiting, late, usedFreed, masked, wire, partial, owed,
                   outOfBand, mem, len, again, events, closing, wild, isReq, deletes, buf,
                   bodyLen, upgraded, pending, flags, closed, aborted, eager, request, state,
                   running, prevIoLen, processingPart, name, app, opts, response, cm, net, sent,
                   acks, asked, rest, msg, served, given, heard, posts, disk, stored, nc, cgi,
                   size, conn, gone, changed, leaked, looping>>

CoapStep ==
    /\ system = "coap" /\ CO!Next
    /\ UNCHANGED <<system, conns, waiting, late, usedFreed, masked, wire, partial, owed,
                   outOfBand, mem, len, again, closing, wild, isReq, deletes, buf, bodyLen,
                   upgraded, pending, flags, closed, aborted, eager, request, state, running,
                   prevIoLen, processingPart, name, app, opts, response, job, chunk, out, fed,
                   ended, asked, rest, msg, served, given, heard, posts, disk, stored, nc, cgi,
                   size, conn, gone, changed, leaked, looping>>

DnsUdpStep ==
    /\ system = "dns_udp" /\ DU!Next
    /\ UNCHANGED <<system, conns, waiting, late, usedFreed, masked, wire, partial, owed,
                   outOfBand, mem, len, again, events, closing, wild, isReq, deletes, buf,
                   bodyLen, upgraded, pending, flags, closed, aborted, eager, request, state,
                   running, prevIoLen, processingPart, name, app, opts, response, job, chunk,
                   out, fed, ended, cm, sent, acks, posts, disk, stored, nc, cgi, size, conn,
                   gone, changed, leaked, looping>>

DnsTcpStep ==
    /\ system = "dns_tcp" /\ DT!Next
    /\ UNCHANGED <<system, conns, waiting, late, usedFreed, masked, wire, partial, owed,
                   outOfBand, mem, len, again, events, closing, wild, isReq, deletes, buf,
                   bodyLen, upgraded, pending, flags, closed, aborted, eager, request, state,
                   running, prevIoLen, processingPart, name, app, opts, response, job, chunk,
                   out, fed, ended, cm, sent, acks, posts, disk, stored, nc, cgi, size, conn,
                   gone, changed, leaked, looping>>

UploadStep ==
    /\ system = "upload" /\ UP!Next
    /\ UNCHANGED <<system, conns, waiting, late, usedFreed, masked, wire, partial, owed,
                   outOfBand, mem, len, again, events, closing, wild, isReq, deletes, buf,
                   bodyLen, upgraded, pending, flags, closed, aborted, eager, request, state,
                   running, prevIoLen, processingPart, name, app, opts, response, job, chunk,
                   out, fed, ended, cm, net, sent, acks, asked, rest, msg, served, given, heard,
                   nc, cgi, size, conn, gone, changed, leaked, looping>>

CgiStep ==
    /\ system = "cgi" /\ CG!Next
    /\ UNCHANGED <<system, conns, waiting, late, usedFreed, masked, partial, owed, outOfBand,
                   mem, len, again, events, closing, isReq, deletes, buf, bodyLen, upgraded,
                   pending, flags, closed, aborted, request, state, running, prevIoLen,
                   processingPart, name, app, opts, response, job, chunk, out, fed, ended, cm,
                   net, sent, acks, rest, msg, given, heard, posts, disk, stored, size, conn,
                   gone, changed, leaked, looping>>

FileStep ==
    /\ system = "file" /\ FI!Next
    /\ UNCHANGED <<system, conns, waiting, late, usedFreed, masked, wire, partial, owed,
                   outOfBand, mem, len, again, events, closing, wild, isReq, deletes, buf,
                   bodyLen, upgraded, pending, flags, aborted, request, state, running,
                   prevIoLen, processingPart, name, app, opts, response, job, chunk, out, fed,
                   ended, cm, net, sent, acks, rest, msg, served, given, heard, posts, disk, nc,
                   cgi, looping>>

MqttStep ==
    /\ system = "mqtt" /\ MQ!Next
    /\ UNCHANGED <<system, conns, waiting, late, usedFreed, masked, partial, outOfBand, mem,
                   len, again, closing, wild, isReq, deletes, bodyLen, upgraded, pending, flags,
                   closed, aborted, eager, request, state, running, prevIoLen, processingPart,
                   name, app, opts, response, job, chunk, out, fed, ended, cm, net, sent, asked,
                   rest, msg, served, given, heard, posts, disk, stored, nc, cgi, size, conn,
                   gone, changed, leaked>>

MCNext == \/ ProxyStep \/ WebSocketStep \/ HttpStep \/ MultipartStep \/ ServeStep \/ TextStep \/
             CoapStep \/ DnsUdpStep \/ DnsTcpStep \/ UploadStep \/ CgiStep \/ FileStep \/
             MqttStep

MCSpec == MCInit /\ [][MCNext]_<<system, conns, waiting, late, usedFreed, masked, wire, partial,
          owed, outOfBand, mem, len, again, events, closing, wild, isReq, deletes, buf, bodyLen,
          upgraded, pending, flags, closed, aborted, eager, request, state, running, prevIoLen,
          processingPart, name, app, opts, response, job, chunk, out, fed, ended, cm, net, sent,
          acks, asked, rest, msg, served, given, heard, posts, disk, stored, nc, cgi, size,
          conn, gone, changed, leaked, looping>>
-----------------------------------------------------------------------------
(* Properties: those of each component while it runs; its module says what     *)
(* they state.                                                                 *)

\* websocket: frames arrive as the messages they carry, and CLOSE is answered.
WsMessages ==
    system = "websocket" => WS!TypeOK /\ WS!MessagesWhole /\ WS!CloseIsAnswered /\ WS!LengthsRead

\* http: messages arrive whole, and an upgrade is answered first; multipart: parts
\* arrive whole, and the request ends once; serve: a request gets the file its URI
\* names, if it may; text: URIs, patterns and base64 are read as they are meant, and
\* a message reaches the subscriptions to its topic.
HttpWhole ==
    /\ system = "http" => HT!TypeOK /\ HT!MessagesWhole /\ HT!UpgradeAnswered
    /\ system = "multipart" => MP!TypeOK /\ MP!PartsWhole /\ MP!RequestEndsOnce
    /\ system = "serve" => SV!ServedAsNamed /\ SV!Guarded
    /\ system = "text" => TX!Base64Sound /\ TX!UriParsed /\ TX!MatchSound /\ TX!TopicsReach

\* coap: options in order, and messages delivered as they were composed; dns:
\* questions and answers are read as they were written.
UdpMessages ==
    /\ system = "coap" => CO!TypeOK /\ CO!OptionsOrdered /\ CO!DeliveredAsSent
    /\ system = "dns_udp" => DU!TypeOK /\ DU!ServedAsAsked /\ DU!HeardAsGiven /\ DU!WithinBounds
    /\ system = "dns_tcp" => DT!TypeOK /\ DT!ServedAsAsked /\ DT!HeardAsGiven /\ DT!WithinBounds /\ DT!LengthsInFront
=============================================================================
