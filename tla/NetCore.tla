------------------------------- MODULE NetCore -------------------------------
(***************************************************************************)
(* The connection object of mongoose.c (net.c section) and the functions   *)
(* that every interface and protocol calls on it: mg_call, mg_send,        *)
(* mg_add_conn, the mg_if_xxx_cb callbacks, mg_close_conn and the periodic *)
(* timer that the libev port adds to each connection.                      *)
(*                                                                         *)
(* A connection is a record.  Everything the program does to one inside a  *)
(* single libev callback is sequential, and the application's event        *)
(* handler runs in the middle of it, so each function is an operator from  *)
(* a connection to the SET of connections it can leave behind: one member  *)
(* per choice the handler, the socket or the peer can make.                *)
(*                                                                         *)
(* A definition whose name ends in _Slip is not part of the model: it is   *)
(* its neighbour with one plausible mistake in it, kept to show that a     *)
(* property notices.                                                       *)
(***************************************************************************)
EXTENDS Integers, FiniteSets

CONSTANTS
  MaxSend,         \* send_mbuf.len saturates here: "this many bytes or more"
  MaxRecv,         \* recv_mbuf_limit
  ConnectTimeout,  \* seconds without I/O after which connect() is given up
  SendIn,          \* the events in whose handler the application may mg_send
  CloseIn          \* the events in whose handler it may ask for a close

Events == {"POLL", "ACCEPT", "CONNECT", "CONNECT_FAILED", "RECV", "SEND",
           "CLOSE", "TIMER"}

\* "OUTSIDE": the application calls mg_send or sets a flag between callbacks.
Contexts == Events \cup {"OUTSIDE"}

ASSUME NetCoreAssumption ==
  /\ MaxSend \in Nat \ {0}
  /\ MaxRecv \in Nat \ {0}
  /\ ConnectTimeout \in Nat
  /\ SendIn \subseteq Contexts
  /\ CloseIn \subseteq Contexts

CloseFlags == {"SEND_AND_CLOSE", "CLOSE_IMMEDIATELY"}
Flags == CloseFlags \cup {"LISTENING", "CONNECTING", "SSL_HANDSHAKE_DONE"}

\* What the application has been told, and the anomalies worth remembering:
\* data before the connection was announced, a second CONNECT, a POLL before
\* CONNECT, anything at all after CLOSE.
Marks == {"ACCEPT", "CONNECT", "CONNECT_FAILED", "CLOSE",
          "EARLY_DATA", "CONNECT_AGAIN", "EARLY_POLL", "AFTER_CLOSE"}

WatcherState == {"uninit", "idle", "active"}

Connection ==
  [ life  : {"none", "live", "freed"},          \* of the malloc'ed object
    kind  : {"client", "accepted", "listener"},
    ssl   : BOOLEAN,                            \* MG_F_SSL
    sock  : BOOLEAN,                            \* sock # INVALID_SOCKET
    net   : {"none", "pending", "up", "refused", "dead"},  \* kernel's socket
    err   : BOOLEAN,                            \* nc->err # 0
    flags : SUBSET Flags,
    wr    : WatcherState,                       \* nc->watcher_r
    ww    : WatcherState,                       \* nc->watcher_w
    stray : BOOLEAN,     \* watcher_w was started before ev_io_init set it up
    timer : BOOLEAN,                            \* nc->timer is active
    slen  : 0..MaxSend,                         \* send_mbuf.len
    rlen  : 0..(MaxRecv + 1),      \* recv_mbuf.len; MaxRecv + 1: over the limit
    age   : 0..(ConnectTimeout + 1),   \* now - last_io_time, kept (as nothing
                                       \* else reads it) while CONNECTING
    seen  : SUBSET Marks ]

\* The zeroed object of mg_create_connection_base.
Zeroed ==
  [ life |-> "none", kind |-> "client", ssl |-> FALSE, sock |-> FALSE,
    net |-> "none", err |-> FALSE, flags |-> {}, wr |-> "uninit",
    ww |-> "uninit", stray |-> FALSE, timer |-> FALSE, slen |-> 0,
    rlen |-> 0, age |-> 0, seen |-> {} ]

Least(a, b) == IF a <= b THEN a ELSE b

Closing(c) == \/ "CLOSE_IMMEDIATELY" \in c.flags
              \/ c.slen = 0 /\ "SEND_AND_CLOSE" \in c.flags

-----------------------------------------------------------------------------
(* ev_io_start / ev_io_init.  Starting a watcher that ev_io_init has not    *)
(* set up files it under descriptor 0 instead of the connection's socket,  *)
(* and the later ev_io_init then resets its "active" mark.                 *)

StartWriteWatcher(c) ==
  IF c.ww = "uninit" THEN [c EXCEPT !.stray = TRUE]
                     ELSE [c EXCEPT !.ww = "active"]

\* mg_send: append, refresh last_io_time, start watcher_w if there is a socket.
MgSend(c) ==
  LET d == [c EXCEPT !.slen = Least(@ + 1, MaxSend), !.age = 0]
  IN  IF c.sock THEN StartWriteWatcher(d) ELSE d

-----------------------------------------------------------------------------
(* mg_call: remember what the event means for the application, then run its *)
(* handler.  The handler may send, ask for a close and eat received data;   *)
(* mg_call undoes any other change of the flags.  (A handler that CLEARS a  *)
(* close flag the library has set is not modelled.)                        *)

MarksOf(c, ev) ==
     {m \in {ev} : m \in Marks}
  \cup {m \in {"EARLY_DATA"} :
         ev \in {"RECV", "SEND"} /\ c.seen \cap {"ACCEPT", "CONNECT"} = {}}
  \cup {m \in {"CONNECT_AGAIN"} :
         ev \in {"CONNECT", "CONNECT_FAILED"}
         /\ c.seen \cap {"CONNECT", "CONNECT_FAILED"} # {}}
  \cup {m \in {"EARLY_POLL"} :
         ev = "POLL" /\ c.seen \cap {"ACCEPT", "CONNECT"} = {}}
  \cup {m \in {"AFTER_CLOSE"} : "CLOSE" \in c.seen}

Told(c, ev) == [c EXCEPT !.seen = @ \cup MarksOf(c, ev)]

HandlerSends(c, ev) == {c} \cup {d \in {MgSend(c)} : ev \in SendIn}
HandlerReads(c, ev) == {c} \cup {d \in {[c EXCEPT !.rlen = 0]} : ev = "RECV"}
HandlerFlags(ev)    == {f \in SUBSET CloseFlags : f = {} \/ ev \in CloseIn}
HandlerCloses(c, ev) == {[c EXCEPT !.flags = @ \cup f] : f \in HandlerFlags(ev)}

MgCall(c, ev) ==
  LET sent == HandlerSends(Told(c, ev), ev)
      read == UNION {HandlerReads(d, ev) : d \in sent}
  IN  UNION {HandlerCloses(d, ev) : d \in read}

-----------------------------------------------------------------------------
(* Callbacks of the interface layer                                        *)

MgIfConnectCb_Slip(c, ok) ==     \* a failure does not mark it for closing
  MgCall([c EXCEPT !.flags = @ \ {"CONNECTING"}, !.age = 0],
         IF ok THEN "CONNECT" ELSE "CONNECT_FAILED")

\* mg_if_connect_cb
MgIfConnectCb(c, ok) ==
  LET done == c.flags \ {"CONNECTING"} IN
  IF ok THEN MgCall([c EXCEPT !.flags = done, !.age = 0], "CONNECT")
        ELSE MgCall([c EXCEPT !.flags = done \cup {"CLOSE_IMMEDIATELY"}, !.age = 0],
                    "CONNECT_FAILED")

\* mg_recv_common: data for a connection about to be closed is discarded.
MgRecvCommon(c, n) ==
  IF "CLOSE_IMMEDIATELY" \in c.flags THEN {c}
  ELSE MgCall([c EXCEPT !.rlen = Least(@ + n, MaxRecv + 1), !.age = 0], "RECV")

\* mg_if_poll: no POLL while an SSL handshake is under way.
MgIfPoll(c) ==
  IF c.ssl /\ "SSL_HANDSHAKE_DONE" \notin c.flags THEN {c}
  ELSE MgCall(c, "POLL")

-----------------------------------------------------------------------------
(* Life cycle                                                              *)

MgAddConn_Slip(c) ==                            \* the timer is not started
  [c EXCEPT !.life  = "live",
            !.wr    = IF c.sock THEN "active" ELSE @,
            !.ww    = IF c.sock THEN "active" ELSE @]

\* mg_add_conn: the interface arms both watchers of a connection that has a
\* socket by now; every connection but a listener gets the 1 s timer.
MgAddConn(c) ==
  [c EXCEPT !.life  = "live",
            !.wr    = IF c.sock THEN "active" ELSE @,
            !.ww    = IF c.sock THEN "active" ELSE @,
            !.timer = "LISTENING" \notin c.flags]

DestroySock_Slip(c) ==               \* what is left of a descriptor not closed
  [c EXCEPT !.sock = FALSE, !.net = "none"]

\* mg_socket_if_destroy_conn: close (or not, if the descriptor is a UDP
\* listener's), stop both watchers.
DestroySock(c) ==
  IF ~c.sock THEN c
  ELSE [c EXCEPT !.sock = FALSE, !.net = "none",
                 !.wr = IF @ = "active" THEN "idle" ELSE @,
                 !.ww = IF @ = "active" THEN "idle" ELSE @]

MgCloseConn_Slip(c) ==                          \* the timer is not stopped
  {[d EXCEPT !.life = "freed", !.flags = {}, !.slen = 0, !.rlen = 0,
             !.age = 0, !.err = FALSE] : d \in MgCall(DestroySock(c), "CLOSE")}

\* mg_close_conn; mg_destroy_conn zeroes the object and frees it.  What
\* survives is what libev still holds (wr, ww, stray, timer) and the history.
MgCloseConn(c) ==
  {[d EXCEPT !.life  = "freed",
             !.timer = IF "LISTENING" \in d.flags THEN @ ELSE FALSE,
             !.flags = {}, !.slen = 0, !.rlen = 0, !.age = 0, !.err = FALSE] :
     d \in MgCall(DestroySock(c), "CLOSE")}

\* The test that ends every libev callback of a connection.
CloseIfDue(c) == IF Closing(c) THEN MgCloseConn(c) ELSE {c}

\* mg_connection_timer_cb: a second or more has passed; POLL, give up a
\* connect() that made no progress, close if asked to.
GiveUpConnect_Slip(c) ==            \* only a connection that has a socket
  IF c.sock /\ "CONNECTING" \in c.flags /\ c.age > ConnectTimeout
  THEN MgIfConnectCb(c, FALSE) ELSE {c}

GiveUpConnect(c) ==
  IF "CONNECTING" \in c.flags /\ c.age > ConnectTimeout
  THEN MgIfConnectCb(c, FALSE) ELSE {c}

Aged(c) == IF "CONNECTING" \in c.flags
           THEN [c EXCEPT !.age = Least(@ + 1, ConnectTimeout + 1)] ELSE c

MgConnectionTimerCb_Slip(c) ==                  \* leaves closing to others
  UNION {GiveUpConnect(d) : d \in MgIfPoll(Aged(c))}

MgConnectionTimerCb(c) ==
  LET polled == UNION {GiveUpConnect(d) : d \in MgIfPoll(Aged(c))}
  IN  UNION {CloseIfDue(d) : d \in polled}
=============================================================================
