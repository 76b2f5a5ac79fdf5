------------------------------- MODULE LwipIf -------------------------------
(***************************************************************************)
(* The lwIP interface (common/platforms/lwip): the callbacks of the TCP/IP *)
(* stack, which run in a task of its own (RTOS_SDK) and only post signals  *)
(* into a queue of fixed length, and mg_lwip_if_poll, which handles the    *)
(* signals and then visits every connection.  TCP connections, with or     *)
(* without SSL.  mgos_lock makes a post, or taking a signal, one step; what *)
(* the signal asks for is done after mgos_unlock, and lwIP's task may run  *)
(* in between, while data are read and while an acknowledgement is told.   *)
(* One step are what a handler does in one turn, a call into lwIP, and the *)
(* linking of a connection into mgr's list, which no lock protects.        *)
(*                                                                         *)
(* wild is TRUE when a freed connection, a NULL pcb or an SSL session that *)
(* is not there has been used, for anything but the two reads with which a *)
(* tombstone is taken (nc->sock, nc->iface): their values decide nothing.  *)
(* The timer that the libev port adds is not part of this interface.       *)
(***************************************************************************)
EXTENDS Integers, Sequences, SequencesExt, FiniteSetsExt

CONSTANTS Conn,   \* connections
          Builds  \* what the program may be built with and do, one record each:
                  \*   conns: the connections it opens or accepts
                  \*   ssl: which of them use SSL
                  \*   queueLen: MG_SIG_QUEUE_LEN
                  \*   sendBuf: TCP_SND_BUF, what lwIP takes before it is acknowledged
                  \*   maxBytes: bounds what is received and what is sent

VARIABLES
    conn,     \* conn[c]: life; kind; pcb ("none" is NULL, or "syn", "established");
              \* flags; rx, the length of rx_chain; recvPending, err, numSent; slen,
              \* send_mbuf.len; ssl, the session: "none" yet, "new", "started" or "failed";
              \* unacked, bytes lwIP has; fin, the peer has closed; history: came and asked,
              \* bytes received and bytes the application sent; told, those it was told to be
              \* acknowledged (without SSL); missed, an acknowledgement came while one was being told;
              \* seen, its events but POLL, and SEND with SSL (also of the handshake's bytes)
    queue,    \* sig_queue from start_index on: sequence of [sig, nc]
    hand,     \* the signal that has been taken and not been handled yet: <<>> or <<s>>
    turn,     \* what Mongoose's task is in the middle of: at, "none", "reading" data,
              \* "telling" of n bytes acknowledged, or "drained": the queue was empty
    todo,     \* connections mg_lwip_if_poll has still to visit
    dying,    \* the connection between mg_remove_conn and destroy_conn, or NULL
    lost,     \* history: a signal found the queue full, or was taken for one of a
              \* connection that was just being closed
    raced,    \* history: a connection failed whose opening had not been handled yet,
              \* a callback came while its connection was being closed, or one with SSL was
              \* accepted when the signals had been handled and the visits not begun
    wild,
    build     \* one of Builds, always the same

vars == <<conn, queue, hand, turn, todo, dying, lost, raced, wild, build>>

Ssl == build.ssl
QueueLen == build.queueLen

NULL == "NULL"
Unused == [life |-> "none", kind |-> "client", pcb |-> "none", flags |-> {}, rx |-> 0,
           recvPending |-> FALSE, err |-> FALSE, numSent |-> 0, slen |-> 0,
           ssl |-> "new", unacked |-> 0, fin |-> FALSE, came |-> 0, asked |-> 0,
           told |-> 0, missed |-> FALSE, seen |-> <<>>]
Live(c) == conn[c].life = "live"
Idle == dying = NULL /\ ~wild

Nothing == [at |-> "none", nc |-> NULL, n |-> 0]
Between == Idle /\ hand = <<>> /\ turn = Nothing
-----------------------------------------------------------------------------
(* Signals *)

\* mg_lwip_post_signal: a full queue drops it.
Posted(q, sig, c) == IF Len(q) >= QueueLen THEN q ELSE Append(q, [sig |-> sig, nc |-> c])
Dropped(q) == Len(q) >= QueueLen

\* mg_lwip_if_remove_conn writes its tombstones without the lock: into the place
\* where a signal is being put, when that was one of the connection that goes.
Post(sig, c) ==
    \/ queue' = Posted(queue, sig, c) /\ lost' = (lost \/ Dropped(queue))
    \/ dying # NULL /\ queue' = Posted(queue, "TOMBSTONE", c) /\ lost' = TRUE
PostIf(p, sig, c) == IF p THEN Post(sig, c) ELSE UNCHANGED <<queue, lost>>

\* mg_lwip_if_remove_conn
Tombstoned(q, c) == [i \in DOMAIN q |-> IF q[i].nc = c THEN [q[i] EXCEPT !.sig = "TOMBSTONE"] ELSE q[i]]

\* mg_call: the handler may ask for a close.  Sending is UserSend.
Events == {"ACCEPT", "CONNECT", "FAILED", "RECV", "SEND", "CLOSE"}
Flagged(d) == {[d EXCEPT !.flags = @ \cup f] : f \in {{}, {"CLOSE_IMMEDIATELY"}, {"SEND_AND_CLOSE"}}}
Called(d, ev) == Flagged([d EXCEPT !.seen = Append(@, ev)])
-----------------------------------------------------------------------------
(* Callbacks of lwIP.  For a connection that is gone (tcp_arg is NULL) they  *)
(* do nothing; between mg_remove_conn and destroy_conn they still post.     *)

Callback(c) == ~wild /\ Live(c) /\ raced' = (raced \/ dying = c) /\ UNCHANGED <<hand, turn, todo, dying, wild>>

ConnCb(c) ==
    /\ Callback(c) /\ conn[c].pcb = "syn"
    /\ conn' = [conn EXCEPT ![c].pcb = "established", ![c].err = FALSE]
    /\ Post("CONNECT_RESULT", c)

\* Also a failure whose signal is handled after that of the connection's opening.
ErrorCb(c) ==
    /\ ~wild /\ Live(c) /\ conn[c].pcb \in {"syn", "established"}
    /\ UNCHANGED <<hand, turn, todo, dying, wild>>
    /\ raced' = (raced \/ dying = c
                   \/ (conn[c].pcb = "established" /\ "CONNECT" \notin Range(conn[c].seen)
                                                   /\ "ACCEPT" \notin Range(conn[c].seen)))
    /\ LET connecting == "CONNECTING" \in conn[c].flags
       IN  /\ conn' = [conn EXCEPT ![c].pcb = "none", ![c].err = @ \/ connecting]
           /\ Post(IF connecting THEN "CONNECT_RESULT" ELSE "CLOSE_CONN", c)

\* mg_lwip_tcp_recv_cb, mg_lwip_recv_common.  An SSL server does not speak first.
RecvCb(c) ==
    /\ Callback(c) /\ conn[c].pcb = "established" /\ ~conn[c].fin /\ conn[c].came < build.maxBytes
    /\ c \in Ssl => conn[c].ssl # "new" \/ conn[c].kind = "accepted"
    /\ conn' = [conn EXCEPT ![c].rx = @ + 1, ![c].came = @ + 1, ![c].recvPending = TRUE]
    /\ PostIf(~conn[c].recvPending, "RECV", c)

\* mg_lwip_tcp_recv_cb without a pbuf: the peer has closed.
FinCb(c) ==
    /\ Callback(c) /\ conn[c].pcb = "established" /\ ~conn[c].fin
    /\ conn' = [conn EXCEPT ![c].fin = TRUE]
    /\ Post("CLOSE_CONN", c)

SentCb(c) ==
    /\ Callback(c) /\ conn[c].pcb = "established" /\ conn[c].unacked > 0
    /\ conn' = [conn EXCEPT ![c].numSent = @ + conn[c].unacked, ![c].unacked = 0,
                            ![c].missed = @ \/ (turn.at = "telling" /\ turn.nc = c)]
    /\ Post("SENT_CB", c)

\* mg_lwip_accept_cb: the connection is in the list from here on.
AcceptCb(c) ==
    /\ ~wild /\ conn[c].life = "none" /\ c \in build.conns
    /\ conn' = [conn EXCEPT ![c] = [Unused EXCEPT !.life = "live", !.kind = "accepted",
                                                  !.pcb = "established", !.ssl = "none"]]
    /\ Post("ACCEPT", c)
    /\ raced' = (raced \/ (turn.at = "drained" /\ c \in Ssl))
    /\ UNCHANGED <<hand, turn, todo, dying, wild>>
-----------------------------------------------------------------------------
(* The application *)

\* mg_connect, mg_lwip_if_connect_tcp: tcp_bind or tcp_connect may refuse at once.
Connect(c) ==
    /\ Idle /\ conn[c].life = "none" /\ c \in build.conns
    /\ \E ok \in BOOLEAN :
          /\ conn' = [conn EXCEPT ![c] = [Unused EXCEPT !.life = "live", !.flags = {"CONNECTING"},
                                          !.pcb = IF ok THEN "syn" ELSE "unused", !.err = ~ok]]
          /\ PostIf(~ok, "CONNECT_RESULT", c)
    /\ UNCHANGED <<hand, turn, todo, dying, raced, wild>>

\* mg_send, from any handler or between polls.
UserSend(c) ==
    /\ Idle /\ Live(c) /\ conn[c].asked < build.maxBytes
    /\ conn' = [conn EXCEPT ![c].slen = @ + 1, ![c].asked = @ + 1]
    /\ UNCHANGED <<queue, hand, turn, todo, dying, lost, raced, wild>>
-----------------------------------------------------------------------------
(* SSL (mg_lwip_ssl_if.c).  One unit of rx is the peer's part of the        *)
(* handshake or a record; what the library makes of it is its choice.       *)

\* mg_lwip_ssl_do_hs: [d, sig], the connection and the signal it posts, if any.
\* It takes more than one call, and one that has failed fails again.  What it
\* writes lwIP acknowledges like any other bytes.
Quietly(d) == [d |-> d, sig |-> NULL]
Shaken(d) ==
    LET done == [d EXCEPT !.err = FALSE, !.rx = @ - 1,
                          !.flags = (@ \ {"WANT_WRITE"}) \cup {"HANDSHAKE_DONE", "WANT_READ"}]
        wantWrite == [d EXCEPT !.flags = @ \cup {"WANT_WRITE"}, !.err = FALSE, !.ssl = "started"]
        wantRead == [d EXCEPT !.flags = @ \ {"WANT_READ"}, !.err = FALSE, !.rx = 0, !.ssl = "started"]
        failed == [d |-> [d EXCEPT !.err = TRUE, !.ssl = "failed", !.rx = 0],
                   sig |-> IF d.kind = "accepted" THEN "CLOSE_CONN" ELSE "CONNECT_RESULT"]
    IN  IF d.ssl = "failed" THEN {failed}
        ELSE {Quietly(wantWrite), Quietly(wantRead), failed}
             \cup (IF d.rx = 0 \/ d.ssl = "new" THEN {}
                   ELSE IF d.kind = "accepted" THEN {Quietly(e) : e \in Called(done, "ACCEPT")}
                   ELSE {[d |-> done, sig |-> "CONNECT_RESULT"]})
SslDoHs(d) ==
    IF "CLOSE_IMMEDIATELY" \in d.flags THEN {Quietly(d)}
    ELSE UNION {Shaken([d EXCEPT !.unacked = n]) :
                   n \in {d.unacked, IF d.pcb = "established" /\ d.unacked < build.sendBuf
                                     THEN d.unacked + 1 ELSE d.unacked}}

\* mg_lwip_ssl_send: less than was asked for closes the connection.
SslSend(d) ==
    {[d |-> [d EXCEPT !.slen = @ - n, !.unacked = @ + n,
                      !.flags = IF n = d.slen THEN @ \ {"WANT_WRITE"} ELSE @],
      sig |-> IF n = d.slen THEN NULL ELSE "CLOSE_CONN"] : n \in (IF d.slen = 0 THEN {0} ELSE 1..d.slen)}
    \cup {[d |-> [d EXCEPT !.flags = @ \cup {"WANT_WRITE"}], sig |-> NULL], [d |-> d, sig |-> "CLOSE_CONN"]}

\* mg_recv_common: n units of data, unless the connection is about to go.
Received(d, n) == LET e == [d EXCEPT !.rx = @ - n]
                  IN  IF "CLOSE_IMMEDIATELY" \in d.flags THEN {e} ELSE Called(e, "RECV")

\* mg_lwip_ssl_recv: all there is, unless recv_mbuf is full or SSL has to write
\* first or fails.
SslRecv(d) ==
    LET eager == [d EXCEPT !.flags = @ \ {"WANT_READ"}]
    IN  IF "CONNECTING" \in d.flags THEN {Quietly(d)}
        ELSE {Quietly(e) : e \in IF d.rx = 0 THEN {eager} ELSE Received(eager, d.rx)}
             \cup {Quietly(d), Quietly([d EXCEPT !.flags = @ \cup {"WANT_WRITE"}]),
                   [d |-> [d EXCEPT !.rx = 0], sig |-> "CLOSE_CONN"]}
-----------------------------------------------------------------------------
(* mg_lwip_if_poll: the signals *)

Outcome(c, rs) == \E r \in rs : /\ conn' = [conn EXCEPT ![c] = r.d]
                                 /\ PostIf(r.sig # NULL, r.sig, c)
                                 /\ UNCHANGED <<dying, wild>>

\* The first half of mg_close_conn.
StartClose(c, d) ==
    /\ dying' = c /\ queue' = Tombstoned(queue, c)
    /\ conn' = [conn EXCEPT ![c] = d]
    /\ UNCHANGED <<lost, wild>>

\* A NULL pointer is followed.
GoWild == wild' = TRUE /\ UNCHANGED <<conn, queue, dying, lost>>

\* mg_ev_mgr_lwip_process_signals takes the next signal, under the lock.
TakeSignal ==
    /\ Between /\ todo = {} /\ queue # <<>>
    /\ hand' = <<queue[1]>> /\ queue' = Tail(queue)
    /\ UNCHANGED <<conn, turn, todo, dying, lost, raced, wild>>

\* A slip in it: the signal stays pending.
Taken_Slip(d) == d

\* The signal of data is handled; new data need a new one.
Taken(d) == [d EXCEPT !.recvPending = FALSE]

\* mg_if_sent_cb.
SentToApp(c, d) == IF d.numSent = 0 THEN {d} ELSE IF c \in Ssl THEN Flagged(d) ELSE Called(d, "SEND")

Handle(sig, c) ==
    LET d == conn[c]
        shaking == c \in Ssl /\ "HANDSHAKE_DONE" \notin d.flags
        result == [d EXCEPT !.flags = (@ \ {"CONNECTING"}) \cup (IF d.err THEN {"CLOSE_IMMEDIATELY"} ELSE {})]
    IN  \/ /\ sig = "CONNECT_RESULT" /\ turn' = turn
           /\ Outcome(c, IF ~d.err /\ shaking THEN SslDoHs(d)
                         ELSE {Quietly(e) : e \in Called(result, IF d.err THEN "FAILED" ELSE "CONNECT")})
        \/ /\ sig = "CLOSE_CONN" /\ turn' = turn
           /\ StartClose(c, [d EXCEPT !.flags = @ \cup {"CLOSE_IMMEDIATELY"}])
        \/ /\ sig = "RECV" /\ turn' = [at |-> "reading", nc |-> c, n |-> 0]
           /\ Outcome(c, {Quietly(Taken(d))})
        \/ /\ sig = "SENT_CB" /\ turn' = [at |-> "telling", nc |-> c, n |-> d.numSent]
           /\ Outcome(c, {Quietly(e) : e \in SentToApp(c, d)})
        \/ /\ sig = "ACCEPT" /\ turn' = turn
           /\ IF c \in Ssl THEN Outcome(c, {Quietly([d EXCEPT !.ssl = "new"])})
              ELSE IF d.pcb = "none" THEN GoWild   \* &NULL->remote_ip
              ELSE Outcome(c, {Quietly(e) : e \in Called(d, "ACCEPT")})

\* What a signal asks for begins, after mgos_unlock.
ProcessSignal ==
    /\ Idle /\ hand # <<>> /\ hand' = <<>>
    /\ LET s == hand[1]
       IN  IF s.sig = "TOMBSTONE" THEN UNCHANGED <<conn, queue, turn, dying, lost, wild>>
           ELSE IF ~Live(s.nc) THEN GoWild /\ turn' = turn
           ELSE Handle(s.sig, s.nc)
    /\ UNCHANGED <<todo, raced>>

\* mg_lwip_handle_recv_tcp, which gives the lock away while the handler has a segment.
ReadOn ==
    /\ Idle /\ turn.at = "reading"
    /\ LET c == turn.nc
           d == conn[c]
       IN  \/ /\ c \notin Ssl /\ d.rx > 0 /\ turn' = turn
              /\ Outcome(c, {Quietly(e) : e \in Received(d, 1)})
           \/ /\ c \notin Ssl /\ d.rx = 0 /\ turn' = Nothing
              /\ UNCHANGED <<conn, queue, dying, lost, wild>>
           \/ /\ c \in Ssl /\ turn' = Nothing
              /\ IF d.ssl = "none" THEN GoWild
                 ELSE Outcome(c, IF "HANDSHAKE_DONE" \in d.flags THEN SslRecv(d) ELSE SslDoHs(d))
    /\ UNCHANGED <<hand, todo, raced>>

\* num_sent = 0 and what follows.  An acknowledgement that has come meanwhile is
\* gone, or, when its += was under way, there again with what has been told.
ToldSent ==
    /\ Idle /\ turn.at = "telling" /\ turn' = Nothing
    /\ LET c == turn.nc
           d == conn[c]
       IN  \E left \in {0} \cup (IF d.numSent = turn.n THEN {} ELSE {d.numSent}) :
              LET e == [d EXCEPT !.told = IF c \in Ssl THEN @ ELSE @ + turn.n, !.numSent = left]
              IN  IF e.slen = 0 /\ "SEND_AND_CLOSE" \in e.flags /\ "WANT_WRITE" \notin e.flags
                  THEN StartClose(c, e)
                  ELSE Outcome(c, {Quietly(e)})
    /\ UNCHANGED <<hand, todo, raced>>
-----------------------------------------------------------------------------
(* mg_lwip_if_poll: the visits *)

\* There are no more signals; the first connection of the list is looked at next.
Drained ==
    /\ Between /\ todo = {} /\ queue = <<>>
    /\ turn' = [Nothing EXCEPT !.at = "drained"]
    /\ UNCHANGED <<conn, queue, hand, todo, dying, lost, raced, wild>>

StartVisits ==
    /\ Idle /\ turn.at = "drained" /\ turn' = Nothing
    /\ todo' = {c \in Conn : Live(c)}
    /\ UNCHANGED <<conn, queue, hand, dying, lost, raced, wild>>

\* mg_lwip_send_more, mg_lwip_tcp_write: some, none, or an error.
SendMore(d) ==
    LET room == Min({d.slen, build.sendBuf - d.unacked})
    IN  {Quietly([d EXCEPT !.slen = @ - n, !.unacked = @ + n]) : n \in 0..room} \cup {[d |-> d, sig |-> "CLOSE_CONN"]}

Visited(d, c) ==
    LET open == d.pcb = "established"
        done == "HANDSHAKE_DONE" \in d.flags
        connecting == "CONNECTING" \in d.flags
    IN  IF c \in Ssl /\ open
        THEN LET writes == d.unacked < build.sendBuf /\ ("WANT_WRITE" \in d.flags \/ (d.slen > 0 /\ done))
                 reads == d.rx > 0 \/ "WANT_READ" \in d.flags
             IN  IF (writes \/ reads) /\ ~done THEN SslDoHs(d)
                 ELSE IF connecting THEN {Quietly(d)}
                 ELSE IF writes THEN SslSend(d) ELSE IF reads THEN SslRecv(d) ELSE {Quietly(d)}
        ELSE IF ~connecting /\ d.slen > 0 /\ d.pcb # "none" THEN SendMore(d) ELSE {Quietly(d)}

\* One connection of the loop in mg_lwip_if_poll: the handlers of POLL and of the
\* timer may ask for a close.  Bound: an SSL connection that could write and read
\* does one of the two in a visit.
Visit(c) ==
    /\ Between /\ c \in todo
    /\ todo' = todo \ {c}
    /\ IF "CLOSE_IMMEDIATELY" \in conn[c].flags THEN StartClose(c, conn[c])
       ELSE \E d \in Flagged(conn[c]) :
               IF c \in Ssl /\ d.ssl = "none" /\ d.pcb = "established" /\ d.rx > 0
                  /\ "CLOSE_IMMEDIATELY" \notin d.flags
               THEN GoWild
               ELSE Outcome(c, Visited(d, c))
    /\ UNCHANGED <<hand, turn, raced>>

\* mg_lwip_if_destroy_conn and the rest of mg_close_conn.
FinishClose ==
    /\ dying # NULL /\ ~wild
    /\ LET d == conn[dying]
       IN  conn' = [conn EXCEPT ![dying] = [d EXCEPT !.life = "freed", !.pcb = "none",
                                                     !.seen = Append(@, "CLOSE")]]
    /\ dying' = NULL
    /\ UNCHANGED <<queue, hand, turn, todo, lost, raced, wild>>
-----------------------------------------------------------------------------
Init ==
    /\ conn = [c \in Conn |-> Unused] /\ queue = <<>> /\ hand = <<>> /\ turn = Nothing
    /\ todo = {} /\ dying = NULL
    /\ lost = FALSE /\ raced = FALSE /\ wild = FALSE /\ build \in Builds

LwipTask(c) == ConnCb(c) \/ ErrorCb(c) \/ RecvCb(c) \/ FinCb(c) \/ SentCb(c) \/ AcceptCb(c)

Next ==
    /\ \/ \E c \in Conn : LwipTask(c) \/ Connect(c) \/ UserSend(c) \/ Visit(c)
       \/ TakeSignal \/ ProcessSignal \/ ReadOn \/ ToldSent \/ Drained \/ StartVisits \/ FinishClose
    /\ build' = build

Spec == Init /\ [][Next]_vars
-----------------------------------------------------------------------------
(* Properties *)

Pending == hand \o queue
At(i, sig, c) == Pending[i] = [sig |-> sig, nc |-> c]
Queued(sig, c) == \E i \in DOMAIN Pending : At(i, sig, c)
In(at, c) == turn.at = at /\ turn.nc = c

TypeOK ==
    /\ Len(queue) <= QueueLen /\ Len(hand) <= 1 /\ todo \subseteq Conn /\ dying \in Conn \cup {NULL}
    /\ turn.at \in {"none", "drained", "reading", "telling"}
    /\ turn.at \in {"reading", "telling"} => hand = <<>> /\ turn.nc \in Conn /\ Live(turn.nc)
    /\ \A c \in Conn : conn[c].life \in {"none", "live", "freed"} /\ Range(conn[c].seen) \subseteq Events

\* As long as the queue has not been full, and no signal was overwritten by a
\* tombstone, nothing is forgotten: data that was received, an acknowledgement,
\* the end of a connection, and the result of a connect() each have their signal
\* in the queue until they are handled, that of data before that of the end; and
\* every byte a plain connection was given to send waits, is with lwIP, or has been
\* told to be acknowledged once, unless an acknowledgement came in the time from
\* the test of num_sent to its being set to 0.
NothingForgotten ==
    ~lost /\ ~wild => \A c \in Conn : Live(c) /\ dying # c =>
        /\ conn[c].recvPending => Queued("RECV", c)
        /\ conn[c].rx > 0 /\ c \notin Ssl => Queued("RECV", c) \/ In("reading", c)
        /\ conn[c].numSent > 0 => Queued("SENT_CB", c) \/ In("telling", c)
        /\ conn[c].fin => Queued("CLOSE_CONN", c)
        /\ conn[c].fin /\ conn[c].recvPending =>
              \E i, j \in DOMAIN Pending : i < j /\ At(i, "RECV", c) /\ At(j, "CLOSE_CONN", c)
        /\ conn[c].pcb = "none" /\ ~(c \in Ssl /\ raced) => Queued("CLOSE_CONN", c) \/ Queued("CONNECT_RESULT", c)
                                     \/ "CLOSE_IMMEDIATELY" \in conn[c].flags
        /\ c \notin Ssl /\ ~conn[c].missed =>
              conn[c].slen + conn[c].unacked + conn[c].numSent + conn[c].told = conn[c].asked

\* Unless a connection fails in the moment it opens or closes, or a signal was
\* dropped (lost and raced say when): nothing that is gone or not yet there is used,
\* but for the two reads with which a tombstone is taken; the application hears of
\* the opening before anything else and once (POLL, and with SSL SEND, aside; a
\* failing handshake may be reported again as long as the first report waits), and
\* of the end once and last.
LifeInOrder ==
    ~raced /\ ~lost =>
        /\ ~wild
        /\ \A c \in Conn :
              LET seen == conn[c].seen
              IN  \A i \in DOMAIN seen :
                    CASE seen[i] = "CLOSE" -> i = Len(seen) /\ ~Live(c)
                      [] seen[i] # "CLOSE" /\ i = 1 -> seen[i] \in {"ACCEPT", "CONNECT", "FAILED"}
                      [] OTHER -> \/ seen[i] \in {"RECV", "SEND"}
                                  \/ c \in Ssl /\ seen[i] = "FAILED" /\ seen[i - 1] = "FAILED"
=============================================================================
