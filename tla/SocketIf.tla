------------------------------- MODULE SocketIf ------------------------------
(***************************************************************************)
(* TCP connections of one manager on the BSD-socket interface, driven by   *)
(* libev (net_if_socket.c section of mongoose.c together with mg_connect,  *)
(* mg_bind and mg_mgr_free of net.c).                                      *)
(*                                                                         *)
(* libev runs one callback at a time, so a callback is one action: ReadCb  *)
(* (ev_read_cb), WriteCb (ev_write_cb) and TimerCb (the 1 s timer).  The   *)
(* application acts inside them, through the event handler of NetCore, and *)
(* between them (UserSend, UserClose, Connect, Bind, MgrFree).             *)
(***************************************************************************)
EXTENDS NetCore

CONSTANTS
  Conn,        \* names for the connection objects; a name is never reused
  Ssl,         \* the values of "uses SSL" to consider, a subset of BOOLEAN
  Reconnects   \* the application calls mg_connect in its CLOSE handler

ASSUME SocketIfAssumption == Ssl \subseteq BOOLEAN /\ Reconnects \in BOOLEAN

VARIABLES
  conn,        \* the connection objects
  mgr          \* "running" until mg_mgr_free returns, then "freed"

vars == <<conn, mgr>>

-----------------------------------------------------------------------------
(* Opening                                                                 *)

\* mg_socket_if_connect_tcp: socket() fails, connect() fails at once, or the
\* connect is in progress (or done).  Either failure is only put in nc->err.
ConnectTcp(c) ==
  {[c EXCEPT !.err = TRUE],
   [c EXCEPT !.err = TRUE, !.sock = TRUE, !.net = "dead"]}
  \cup {[c EXCEPT !.sock = TRUE, !.net = k] : k \in {"pending", "up"}}

\* mg_connect_opt for a numeric address, down to mg_do_connect.
MgDoConnect(ssl) ==
  LET new == [Zeroed EXCEPT !.kind = "client", !.ssl = ssl,
                            !.flags = {"CONNECTING"}]
  IN  {MgAddConn(c) : c \in ConnectTcp(new)}

MgBind(ssl) ==
  MgAddConn([Zeroed EXCEPT !.kind = "listener", !.ssl = ssl, !.sock = TRUE,
                           !.net = "up", !.flags = {"LISTENING"}])

\* mg_accept_conn and mg_if_accept_new_conn: the object joins the list before
\* it has a socket, ACCEPT is delivered (after the handshake, with SSL), and
\* only then are the watchers set up; only the read watcher is started.
MgAcceptConn(ssl) ==
  LET listed == MgAddConn([Zeroed EXCEPT !.kind = "accepted", !.ssl = ssl])
      socket == [listed EXCEPT !.sock = TRUE, !.net = "up"]
  IN  {[c EXCEPT !.wr = "active", !.ww = "idle"] :
         c \in IF ssl THEN {socket} ELSE MgCall(socket, "ACCEPT")}

-----------------------------------------------------------------------------
(* One readiness event                                                     *)

Close(c)     == [c EXCEPT !.flags = @ \cup {"CLOSE_IMMEDIATELY"}]
ServerSide(c) == c.kind = "accepted"

\* mg_ssl_begin: the handshake completes, wants more I/O, or fails.
HandshakeDone(c) ==
  LET done == [c EXCEPT !.flags = @ \cup {"SSL_HANDSHAKE_DONE"}]
  IN  IF ServerSide(c) THEN MgCall(done, "ACCEPT") ELSE MgIfConnectCb(done, TRUE)
HandshakeFailed(c) ==
  LET failed == [c EXCEPT !.err = TRUE]
  IN  IF ServerSide(c) THEN {failed} ELSE MgIfConnectCb(failed, FALSE)

MgSslBegin(c) == {d \in HandshakeDone(c) \cup {c} : c.net = "up"}
                 \cup {Close(d) : d \in HandshakeFailed(c)}

\* getsockopt(SO_ERROR) returns the error of a connect() that failed later and
\* clears it; a connect() that failed at once left no error there.
SoError(c)       == c.net = "refused"
SoErrorRead(c)   == [c EXCEPT !.net = IF SoError(c) THEN "dead" ELSE @]

\* The MG_F_CONNECTING part of mg_mgr_handle_conn.  With no readiness flag
\* (only mg_mgr_poll calls it so) it reports nc->err.
ConnectStep_Slip(c, fd) ==              \* SSL does not wait for a handshake
  IF "CONNECTING" \notin c.flags THEN {c}
  ELSE IF fd = {} THEN IF c.err THEN MgIfConnectCb(c, FALSE) ELSE {c}
  ELSE MgIfConnectCb(SoErrorRead(c), ~SoError(c))

ConnectStep(c, fd) ==
  IF "CONNECTING" \notin c.flags THEN {c}
  ELSE IF fd = {} THEN IF c.err THEN MgIfConnectCb(c, FALSE) ELSE {c}
  ELSE IF c.ssl /\ ~SoError(c) THEN MgSslBegin(c)
  ELSE MgIfConnectCb(SoErrorRead(c), ~SoError(c))

\* recv() of at most recv_avail_size bytes: data, end of stream (which is also
\* what a read of 0 bytes looks like), EAGAIN, or an error.
PlainRead_Slip(c) ==             \* asks for a full buffer, whatever it holds
     (UNION {MgRecvCommon(c, n) : n \in {k \in 1..MaxRecv : c.net = "up"}})
  \cup {[c EXCEPT !.flags = @ \cup {"SEND_AND_CLOSE"}], Close(c)}
  \cup {d \in {c} : c.net = "up"}

PlainRead(c) ==
  LET avail == MaxRecv - c.rlen IN
     (UNION {MgRecvCommon(c, n) : n \in {k \in 1..avail : c.net = "up"}})
  \cup {[c EXCEPT !.flags = @ \cup {"SEND_AND_CLOSE"}], Close(c)}
  \cup {d \in {c} : c.net = "up"}

\* The SSL_read loop: up to two records, then nothing more or an error.  It
\* does not look at recv_mbuf_limit.  A record after which CLOSE_IMMEDIATELY is
\* set ends the loop.
SslRecord(c) == IF "CLOSE_IMMEDIATELY" \in c.flags THEN {c} ELSE MgRecvCommon(c, 1)
SslRead(c) ==
  LET one == SslRecord(c)
      two == UNION {SslRecord(d) : d \in one}
  IN  UNION {{d, Close(d)} : d \in {c} \cup one \cup two}

MgHandleTcpRead(c) ==
  IF ~c.ssl THEN PlainRead(c)
  ELSE IF "SSL_HANDSHAKE_DONE" \in c.flags THEN SslRead(c)
  ELSE MgSslBegin(c)

\* mg_write_to_socket: some or all bytes, EAGAIN / SSL_WANT_x, or an error.
MgWriteToSocket(c) ==
  IF c.ssl /\ "SSL_HANDSHAKE_DONE" \notin c.flags THEN MgSslBegin(c)
  ELSE (UNION {MgCall([c EXCEPT !.slen = left], "SEND") :
                 left \in {k \in 0..(c.slen - 1) : c.net = "up"}})
       \cup {Close(c)} \cup {d \in {c} : c.net = "up"}

ReadStep(c, fd)  == IF "R" \in fd THEN MgHandleTcpRead(c) ELSE {c}
WriteStep(c, fd) ==
  IF "W" \in fd /\ c.slen > 0 /\ "CLOSE_IMMEDIATELY" \notin c.flags
  THEN MgWriteToSocket(c) ELSE {c}

MgMgrHandleConn_Slip(c, fd) ==                  \* writes before it connects
  LET written == WriteStep(c, fd)
      read    == UNION {ReadStep(d, fd) : d \in written}
  IN  UNION {ConnectStep(d, fd) : d \in read}

\* mg_mgr_handle_conn for a connection that is not a listener.
MgMgrHandleConn(c, fd) ==
  LET connected == ConnectStep(c, fd)
      read      == UNION {ReadStep(d, fd) : d \in connected}
  IN  UNION {WriteStep(d, fd) : d \in read}

-----------------------------------------------------------------------------
(* libev callbacks                                                         *)

EvReadCb(c) == UNION {CloseIfDue(d) : d \in MgMgrHandleConn(c, {"R"})}

StopIfDrained_Slip(c) ==              \* stops it after every write callback
  IF c.life = "live" /\ c.ww = "active" THEN [c EXCEPT !.ww = "idle"] ELSE c

\* ev_write_cb stops its watcher once nothing is left to send.
StopIfDrained(c) ==
  IF c.life = "live" /\ c.slen = 0 /\ c.ww = "active"
  THEN [c EXCEPT !.ww = "idle"] ELSE c
EvWriteCb(c) ==
  {StopIfDrained(d) :
     d \in UNION {CloseIfDue(e) : e \in MgMgrHandleConn(c, {"W"})}}

Live(n)    == mgr = "running" /\ conn[n].life = "live"
Traffic(n) == Live(n) /\ conn[n].kind # "listener"
Unused(n)  == mgr = "running" /\ conn[n].life = "none"
\* epoll reports the descriptor; a pending connect() reports nothing.
Ready(n)   == conn[n].sock /\ conn[n].net # "pending"

Become(n, outcomes) == /\ \E c \in outcomes : conn' = [conn EXCEPT ![n] = c]
                       /\ UNCHANGED mgr

ReadCb(n) == /\ Traffic(n) /\ Ready(n) /\ conn[n].wr = "active"
             /\ Become(n, EvReadCb(conn[n]))

WriteCb(n) == /\ Traffic(n) /\ Ready(n)
              /\ conn[n].ww = "active" \/ conn[n].stray
              /\ Become(n, EvWriteCb(conn[n]))

TimerCb(n) == /\ Traffic(n) /\ conn[n].timer
              /\ Become(n, MgConnectionTimerCb(conn[n]))

\* ev_read_cb of a listener l: accept one connection n, or find none; then the
\* listener's own close flags are looked at.
AcceptCb(l) ==
  /\ Live(l) /\ conn[l].kind = "listener" /\ conn[l].wr = "active"
  /\ \E k \in CloseIfDue(conn[l]) :
       \/ conn' = [conn EXCEPT ![l] = k]
       \/ \E n \in Conn : /\ Unused(n)
                          /\ \E c \in MgAcceptConn(conn[l].ssl) :
                               conn' = [conn EXCEPT ![l] = k, ![n] = c]
  /\ UNCHANGED mgr

-----------------------------------------------------------------------------
(* The application and the network                                         *)

Connect(n) == Unused(n) /\ \E ssl \in Ssl : Become(n, MgDoConnect(ssl))

Bind(n) == Unused(n) /\ \E ssl \in Ssl : Become(n, {MgBind(ssl)})

UserSend(n) == /\ Traffic(n) /\ "OUTSIDE" \in SendIn
               /\ Become(n, {MgSend(conn[n])})

UserClose(n) == /\ Live(n) /\ "OUTSIDE" \in CloseIn
                /\ Become(n, {[conn[n] EXCEPT !.flags = @ \cup {f}] :
                                f \in CloseFlags})

NetworkAnswers(n) == /\ Live(n) /\ conn[n].net = "pending"
                     /\ Become(n, {[conn[n] EXCEPT !.net = k] :
                                     k \in {"up", "refused"}})

\* What select() reports in the one mg_mgr_poll that mg_mgr_free makes.
SelectFds(c) ==
  {fd \in SUBSET {"R", "W"} :
     /\ fd # {} => c.sock /\ c.net # "pending"
     /\ "R" \in fd => c.rlen < MaxRecv
     /\ "W" \in fd => c.slen > 0 \/ "CONNECTING" \in c.flags}

LastPoll(c) ==
  IF c.kind = "listener" THEN {c}
  ELSE UNION {MgMgrHandleConn(c, fd) : fd \in SelectFds(c)}

FinalStates_Slip(n) ==   \* closes only what was in the list before the poll
  LET c == conn[n] IN
  CASE c.life = "live" -> UNION {MgCloseConn(d) : d \in LastPoll(c)}
    [] c.life = "none" ->
         {c} \cup (UNION {MgAcceptConn(conn[l].ssl) :
               l \in {k \in Conn : Live(k) /\ conn[k].kind = "listener"}})
    [] OTHER -> {c}

\* mg_mgr_free: one poll, then mg_close_conn on every connection of the list,
\* each taken with the "next" it had before its close.  A connection that the
\* poll accepts is in the list by then; one that a CLOSE handler opens goes to
\* the head, behind the loop (unless it was the poll that closed).
FinalStates(n) ==
  LET c == conn[n] IN
  CASE c.life = "live" -> UNION {MgCloseConn(d) : d \in LastPoll(c)}
    [] c.life = "none" ->
         LET accepted == UNION {MgAcceptConn(conn[l].ssl) :
               l \in {k \in Conn : Live(k) /\ conn[k].kind = "listener"}}
             opened == UNION {MgDoConnect(ssl) :
               ssl \in {b \in Ssl : Reconnects /\ \E k \in Conn : Live(k)}}
         IN {c} \cup opened
            \cup (UNION {MgCloseConn(d) : d \in accepted \cup opened})
    [] OTHER -> {c}

MgrFree ==
  /\ mgr = "running" /\ mgr' = "freed"
  /\ \E final \in {[n \in Conn |-> FinalStates(n)]} :
       conn' \in {f \in [Conn -> UNION {final[n] : n \in Conn}] :
                    \A n \in Conn : f[n] \in final[n]}

\* After mg_mgr_free nothing of the manager may be used any more.
Stopped == mgr = "freed" /\ UNCHANGED vars

-----------------------------------------------------------------------------
Init == conn = [n \in Conn |-> Zeroed] /\ mgr = "running"

Step(n) == \/ ReadCb(n)  \/ WriteCb(n)   \/ TimerCb(n) \/ AcceptCb(n)
           \/ Connect(n) \/ Bind(n)      \/ UserSend(n) \/ UserClose(n)
           \/ NetworkAnswers(n)

Next == (\E n \in Conn : Step(n)) \/ MgrFree \/ Stopped

Spec == Init /\ [][Next]_vars

\* libev runs an active repeating timer again and again while the loop runs.
TimerFairness == \A n \in Conn : WF_vars(TimerCb(n))

FairSpec == Spec /\ TimerFairness

-----------------------------------------------------------------------------
(* Properties                                                              *)

\* The variables hold connections of the shape NetCore describes, and what a
\* plain connection has received never exceeds recv_mbuf_limit, in however many
\* pieces it comes and however little the handler eats.
TypeOK == /\ conn \in [Conn -> Connection] /\ mgr \in {"running", "freed"}
          /\ \A n \in Conn : conn[n].ssl \/ conn[n].rlen <= MaxRecv

\* Once mg_close_conn has freed a connection, its descriptor is closed and no
\* started watcher and no running timer points to it: no callback runs on freed
\* memory.  The exception are the stray watchers of OnlyAcceptSendStalls, which
\* libev keeps under descriptor 0 and ev_io_stop does not find: an accepted
\* connection without SSL may have one, when its ACCEPT handler sent, and no other.
NothingFiresAfterFree ==
  \A n \in Conn : conn[n].life = "freed" =>
    /\ conn[n].wr # "active" /\ conn[n].ww # "active"
    /\ ~conn[n].timer /\ ~conn[n].sock
    /\ conn[n].stray => conn[n].kind = "accepted" /\ ~conn[n].ssl

\* The events of a connection come in a lawful order: no RECV or SEND before
\* the connection was announced, CLOSE exactly when the object is freed and
\* nothing after it, and (without SSL) one report of connect()'s result.
EventOrder ==
  \A n \in Conn : LET c == conn[n] IN
    /\ {"EARLY_DATA", "AFTER_CLOSE"} \cap c.seen = {}
    /\ c.life = "freed" <=> "CLOSE" \in c.seen
    /\ "CONNECT_AGAIN" \in c.seen => c.ssl

\* A connection whose application was told that connect() failed does not
\* outlive the callback that said so, whichever callback that was.
FailedIsGone ==
  \A n \in Conn : "CONNECT_FAILED" \in conn[n].seen => conn[n].life = "freed"

\* With SSL, a connection is announced and carries data only once the
\* handshake is done: nothing of the application's protocol runs before it.
SslBeforeData ==
  \A n \in Conn : LET c == conn[n] IN
    c.life = "live" /\ c.ssl
      /\ (c.rlen > 0 \/ c.seen \cap {"ACCEPT", "CONNECT"} # {})
    => "SSL_HANDSHAKE_DONE" \in c.flags

\* mg_send "just appends data to the output buffer. MG_EV_SEND will be
\* delivered when the data has actually been pushed out": queued data on an
\* open socket always has a started write watcher to push it out.
QueuedDataIsWatched ==
  \A n \in Conn : LET c == conn[n] IN
    c.life = "live" /\ c.sock /\ c.slen > 0 => c.ww = "active"

\* The same, but for accepted connections whose ACCEPT handler sent: their
\* write watcher was started before ev_io_init.  No client is ever stray.
OnlyAcceptSendStalls ==
  \A n \in Conn : LET c == conn[n] IN
    /\ c.life = "live" /\ c.sock /\ c.slen > 0 => c.ww = "active" \/ c.stray
    /\ c.stray => c.kind = "accepted" /\ ~c.ssl

\* mg_mgr_free "closes and deallocates all active connections".
AllClosedByMgrFree ==
  mgr = "freed" => \A n \in Conn : conn[n].life # "live"

\* "If ... the connect() syscall fails for whatever reason ... then
\* MG_EV_CONNECT event will report failure": success is never reported for a
\* connect() that failed at once (plain connections; nc->err is reused by SSL).
FailedConnectIsReported ==
  \A n \in Conn : conn[n].err /\ ~conn[n].ssl => "CONNECT" \notin conn[n].seen

\* "The new connection will receive MG_EV_CONNECT as its first event."
ConnectIsFirst ==
  \A n \in Conn : conn[n].kind = "client" => "EARLY_POLL" \notin conn[n].seen

\* A connection marked for immediate close is freed, even if its socket never
\* becomes ready again: the timer sees to it.
CloseHappens ==
  \A n \in Conn :
    Traffic(n) /\ "CLOSE_IMMEDIATELY" \in conn[n].flags
      ~> conn[n].life = "freed" \/ mgr = "freed"

\* The refinement of ConnLife.
LifeState(c) ==
  CASE c.life = "none" -> "absent"
    [] c.life = "freed" -> "gone"
    [] OTHER ->
         IF c.kind = "listener" THEN "listening"
         ELSE IF c.seen \cap {"ACCEPT", "CONNECT"} # {} THEN "open"
         ELSE "opening"

Announced(c) == {a \in {"OPENED"} : c.seen \cap {"ACCEPT", "CONNECT"} # {}}
           \cup {a \in {"FAILED"} : "CONNECT_FAILED" \in c.seen}
           \cup {a \in {"CLOSED"} : "CLOSE" \in c.seen}

Life == INSTANCE ConnLife WITH
          state <- [n \in Conn |-> LifeState(conn[n])],
          told  <- [n \in Conn |-> Announced(conn[n])]

\* Every step of the library is a step (or a stutter) of ConnLife.
ImplementsConnLife == Life!Spec

\* connect() is decided, one way or the other: the timer gives up on it.
ConnectEnds ==
  \A n \in Conn : Traffic(n) /\ "CONNECTING" \in conn[n].flags
                   ~> "CONNECTING" \notin conn[n].flags \/ mgr = "freed"
=============================================================================
