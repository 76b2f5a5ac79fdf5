--------------------------- MODULE SocketIf_proofs ---------------------------
(***************************************************************************)
(* Theorems about SocketIf, for every set of connections, every buffer     *)
(* size and every application (SendIn, CloseIn, Reconnects).               *)
(*                                                                         *)
(* The argument works on single connections.  Mid(c) holds of a connection *)
(* at every point inside a callback that runs on it; each function of      *)
(* net.c and net_if_socket.c keeps it, which takes one lemma per function. *)
(* Safe(c) holds between callbacks, and follows from Mid because every     *)
(* callback ends in the test of the close flags (CloseIfDue).              *)
(***************************************************************************)
EXTENDS SocketIf, TLAPS

-----------------------------------------------------------------------------
(* What an event handler can do to its connection (NetCore)                 *)

\* Queued data has a write watcher, or the connection is one of the strays.
Flushable(c) == c.sock /\ c.slen > 0 => c.ww = "active" \/ c.stray

\* All that an event handler can change of its connection: it can add close
\* flags, queue data (which starts the write watcher if there is a socket) and
\* empty recv_mbuf.
HandlerTook(c, d) ==
  /\ d.life = c.life /\ d.kind = c.kind /\ d.ssl = c.ssl /\ d.sock = c.sock
  /\ d.wr = c.wr /\ d.timer = c.timer /\ d.net = c.net /\ d.err = c.err
  /\ d.ww = c.ww \/ (c.sock /\ c.ww # "uninit" /\ d.ww = "active")
  /\ d.stray => c.stray \/ (c.sock /\ c.ww = "uninit")
  /\ Flushable(c) => Flushable(d)
  /\ d.seen = c.seen /\ d.rlen \in {0, c.rlen}
  /\ c.flags \subseteq d.flags /\ d.flags \subseteq c.flags \cup CloseFlags

LEMMA Zeros ==
  /\ 0 \in 0..MaxSend /\ 0 \in 0..(MaxRecv + 1) /\ 0 <= MaxRecv
  /\ 0 \in 0..(ConnectTimeout + 1)
  /\ CloseFlags \subseteq Flags
BY NetCoreAssumption DEF Flags

LEMMA MarksOfType ==
  ASSUME NEW c \in Connection, NEW ev \in Events
  PROVE  MarksOf(c, ev) \subseteq Marks
BY DEF MarksOf, Marks, Events

LEMMA MgSendType ==
  ASSUME NEW c \in Connection
  PROVE  /\ MgSend(c) \in Connection
         /\ \/ /\ ~c.sock
               /\ MgSend(c) = [c EXCEPT !.slen = MgSend(c).slen, !.age = 0]
            \/ /\ c.sock /\ c.ww = "uninit"
               /\ MgSend(c) = [c EXCEPT !.slen = MgSend(c).slen, !.age = 0,
                                        !.stray = TRUE]
            \/ /\ c.sock /\ c.ww # "uninit"
               /\ MgSend(c) = [c EXCEPT !.slen = MgSend(c).slen, !.age = 0,
                                        !.ww = "active"]
<1> DEFINE s == Least(c.slen + 1, MaxSend)
<1>1. s \in 0..MaxSend
  BY NetCoreAssumption DEF Least, Connection
<1> DEFINE d == [c EXCEPT !.slen = s, !.age = 0]
<1>2. d \in Connection /\ d.sock = c.sock /\ d.ww = c.ww
  BY <1>1, Zeros DEF Connection
<1>3. StartWriteWatcher(d) \in Connection
  BY ZenonT(40), <1>2 DEF StartWriteWatcher, Connection, WatcherState
<1>4. MgSend(c) = IF c.sock THEN StartWriteWatcher(d) ELSE d
  BY DEF MgSend
<1>5. MgSend(c) \in Connection
  BY <1>2, <1>3, <1>4
<1>6. MgSend(c).slen = s
  BY <1>1, <1>2, <1>4 DEF StartWriteWatcher, Connection
<1>7. CASE ~c.sock
  BY <1>4, <1>5, <1>6, <1>7
<1>8. CASE c.sock /\ d.ww = "uninit"
  BY <1>4, <1>5, <1>6, <1>8 DEF StartWriteWatcher
<1>9. CASE c.sock /\ d.ww # "uninit"
  BY <1>4, <1>5, <1>6, <1>9 DEF StartWriteWatcher
<1> QED BY <1>7, <1>8, <1>9

LEMMA HandlerSendsFrame ==
  ASSUME NEW c \in Connection, NEW ev \in Events, NEW d \in HandlerSends(c, ev)
  PROVE  d \in Connection /\ HandlerTook(c, d)
<1>1. d = c \/ d = MgSend(c)
  BY DEF HandlerSends
<1>2. CASE d = c
  BY <1>2 DEF HandlerTook, Connection
<1>3. CASE d = MgSend(c)
  <2>1. d \in Connection
    BY <1>3, MgSendType
  <2>2. CASE ~c.sock /\ d = [c EXCEPT !.slen = d.slen, !.age = 0]
    BY <2>1, <2>2 DEF Connection, HandlerTook, Flushable
  <2>3. CASE /\ c.sock /\ c.ww = "uninit"
             /\ d = [c EXCEPT !.slen = d.slen, !.age = 0, !.stray = TRUE]
    BY ZenonT(40), <2>1, <2>3 DEF Connection, HandlerTook, Flushable
  <2>4. CASE /\ c.sock /\ c.ww # "uninit"
             /\ d = [c EXCEPT !.slen = d.slen, !.age = 0, !.ww = "active"]
    BY ZenonT(40), <2>1, <2>4 DEF Connection, HandlerTook, Flushable
  <2> QED BY <1>3, <2>2, <2>3, <2>4, MgSendType
<1> QED BY <1>1, <1>2, <1>3

LEMMA HandlerReadsFrame ==
  ASSUME NEW c \in Connection, NEW ev \in Events, NEW d \in HandlerReads(c, ev)
  PROVE  d \in Connection /\ HandlerTook(c, d)
<1>1. d = c \/ d = [c EXCEPT !.rlen = 0]
  BY DEF HandlerReads
<1> QED BY <1>1, Zeros DEF Connection, HandlerTook, Flushable

LEMMA HandlerClosesFrame ==
  ASSUME NEW c \in Connection, NEW ev \in Events, NEW d \in HandlerCloses(c, ev)
  PROVE  d \in Connection /\ HandlerTook(c, d)
<1>1. PICK f \in HandlerFlags(ev) : d = [c EXCEPT !.flags = @ \cup f]
  BY DEF HandlerCloses
<1>2. f \subseteq CloseFlags
  BY DEF HandlerFlags
<1> QED BY <1>1, <1>2, Zeros DEF Connection, HandlerTook, Flushable

\* mg_call adds what the event means to the history; the rest is the handler's.
LEMMA MgCallFrame ==
  ASSUME NEW c \in Connection, NEW ev \in Events, NEW d \in MgCall(c, ev)
  PROVE  /\ d \in Connection
         /\ HandlerTook(Told(c, ev), d)
<1>1. Told(c, ev) \in Connection
  BY MarksOfType DEF Told, Connection
<1> DEFINE sent == HandlerSends(Told(c, ev), ev)
           read == UNION {HandlerReads(e, ev) : e \in sent}
<1>2. PICK r \in read : d \in HandlerCloses(r, ev)
  BY DEF MgCall
<1>3. PICK s \in sent : r \in HandlerReads(s, ev)
  OBVIOUS
<1>4. s \in Connection /\ HandlerTook(Told(c, ev), s)
  BY <1>1, HandlerSendsFrame
<1>5. r \in Connection /\ HandlerTook(s, r)
  BY <1>3, <1>4, HandlerReadsFrame
<1>6. d \in Connection /\ HandlerTook(r, d)
  BY <1>2, <1>5, HandlerClosesFrame
<1> QED BY <1>4, <1>5, <1>6 DEF HandlerTook

LEMMA ToldFields ==
  ASSUME NEW c \in Connection, NEW ev \in Events
  PROVE  LET t == Told(c, ev) IN
         /\ t.life = c.life /\ t.kind = c.kind /\ t.ssl = c.ssl
         /\ t.sock = c.sock /\ t.wr = c.wr /\ t.ww = c.ww
         /\ t.stray = c.stray /\ t.timer = c.timer /\ t.slen = c.slen
         /\ t.rlen = c.rlen /\ t.net = c.net /\ t.err = c.err
         /\ t.flags = c.flags /\ t.seen = c.seen \cup MarksOf(c, ev)
BY DEF Told, Connection


-----------------------------------------------------------------------------
(* Invariants of one connection                                            *)

\* What a plain connection holds is within recv_mbuf_limit.
Bounded(c) == c.ssl \/ c.rlen <= MaxRecv

Up(c)      == c.seen \cap {"ACCEPT", "CONNECT"} # {}
Decided(c) == c.seen \cap {"CONNECT", "CONNECT_FAILED"} # {}

\* A live connection that carries traffic, leaving aside how far it got.
Traffics(c) ==
  /\ c \in Connection /\ c.life = "live" /\ c.kind \in {"client", "accepted"}
  /\ c.sock => c.ww # "uninit"
  /\ ~c.sock => c.wr # "active" /\ c.ww # "active"
  /\ c.stray => c.kind = "accepted" /\ ~c.ssl
  /\ Flushable(c) /\ Bounded(c)
  /\ "LISTENING" \notin c.flags
  /\ {"CLOSE", "EARLY_DATA", "AFTER_CLOSE"} \cap c.seen = {}
  /\ "CONNECT_AGAIN" \in c.seen => c.ssl
  /\ "ACCEPT" \in c.seen => c.kind = "accepted"
  /\ "CONNECT_FAILED" \in c.seen => "CLOSE_IMMEDIATELY" \in c.flags

\* How far it got: connecting until the outcome is announced, and with SSL
\* announced, or given data, only after the handshake.
Mid(c) ==
  /\ Traffics(c)
  /\ "CONNECTING" \in c.flags => c.kind = "client" /\ ~Decided(c)
  /\ c.kind = "client" => "CONNECTING" \in c.flags \/ Decided(c)
  /\ c.kind = "accepted" /\ ~c.ssl => "ACCEPT" \in c.seen
  /\ c.ssl /\ (Up(c) \/ c.rlen > 0) => "SSL_HANDSHAKE_DONE" \in c.flags
  /\ "SSL_HANDSHAKE_DONE" \in c.flags => Up(c)

\* A live listener has no timer and is told nothing.
Listens(c) ==
  /\ c \in Connection /\ c.life = "live" /\ c.kind = "listener"
  /\ c.sock /\ ~c.stray /\ c.slen = 0 /\ c.rlen = 0
  /\ "LISTENING" \in c.flags /\ ~c.timer /\ c.seen = {}

\* A freed connection is inert, and its history complete.
Gone(c) ==
  /\ c \in Connection /\ c.life = "freed" /\ c.rlen = 0
  /\ ~c.sock /\ ~c.timer /\ c.wr # "active" /\ c.ww # "active"
  /\ c.stray => c.kind = "accepted" /\ ~c.ssl
  /\ "CLOSE" \in c.seen /\ {"EARLY_DATA", "AFTER_CLOSE"} \cap c.seen = {}
  /\ "CONNECT_AGAIN" \in c.seen => c.ssl

\* What holds of a connection between two callbacks.
Safe(c) == \/ c = Zeroed
           \/ Mid(c) /\ "CONNECT_FAILED" \notin c.seen
           \/ Listens(c)
           \/ Gone(c)

LEMMA MarksFacts ==
  ASSUME NEW c \in Connection, "CLOSE" \notin c.seen
  PROVE  /\ MarksOf(c, "POLL") \subseteq {"EARLY_POLL"}
         /\ Up(c) => MarksOf(c, "RECV") = {} /\ MarksOf(c, "SEND") = {}
         /\ MarksOf(c, "ACCEPT") = {"ACCEPT"}
         /\ MarksOf(c, "CLOSE") = {"CLOSE"}
         /\ {"CONNECT"} \subseteq MarksOf(c, "CONNECT")
         /\ MarksOf(c, "CONNECT") \subseteq {"CONNECT", "CONNECT_AGAIN"}
         /\ {"CONNECT_FAILED"} \subseteq MarksOf(c, "CONNECT_FAILED")
         /\ MarksOf(c, "CONNECT_FAILED") \subseteq {"CONNECT_FAILED", "CONNECT_AGAIN"}
         /\ ~Decided(c) => /\ "CONNECT_AGAIN" \notin MarksOf(c, "CONNECT")
                          /\ "CONNECT_AGAIN" \notin MarksOf(c, "CONNECT_FAILED")
<1>1. MarksOf(c, "POLL") \subseteq {"EARLY_POLL"}
  BY DEF MarksOf, Marks
<1>2. Up(c) => MarksOf(c, "RECV") = {} /\ MarksOf(c, "SEND") = {}
  BY DEF MarksOf, Marks, Up
<1>3. MarksOf(c, "ACCEPT") = {"ACCEPT"}
  BY DEF MarksOf, Marks
<1>4. MarksOf(c, "CLOSE") = {"CLOSE"}
  BY DEF MarksOf, Marks
<1>5. /\ {"CONNECT"} \subseteq MarksOf(c, "CONNECT")
      /\ MarksOf(c, "CONNECT") \subseteq {"CONNECT", "CONNECT_AGAIN"}
      /\ ~Decided(c) => "CONNECT_AGAIN" \notin MarksOf(c, "CONNECT")
  BY DEF MarksOf, Marks, Decided
<1>6. /\ {"CONNECT_FAILED"} \subseteq MarksOf(c, "CONNECT_FAILED")
      /\ MarksOf(c, "CONNECT_FAILED") \subseteq {"CONNECT_FAILED", "CONNECT_AGAIN"}
      /\ ~Decided(c) => "CONNECT_AGAIN" \notin MarksOf(c, "CONNECT_FAILED")
  BY DEF MarksOf, Marks, Decided
<1> QED BY <1>1, <1>2, <1>3, <1>4, <1>5, <1>6

\* Telling an event keeps Traffics, if it comes at its time: data once the
\* connection is announced, a plain connect() outcome once, a failure only
\* when the connection is marked for closing.
LEMMA MgCallKeepsTraffics ==
  ASSUME NEW c, Traffics(c), NEW ev \in Events \ {"CLOSE", "TIMER"},
         ev \in {"RECV", "SEND"} => Up(c),
         ev \in {"CONNECT", "CONNECT_FAILED"} => c.ssl \/ ~Decided(c),
         ev = "CONNECT_FAILED" => "CLOSE_IMMEDIATELY" \in c.flags,
         ev = "ACCEPT" => c.kind = "accepted",
         NEW d \in MgCall(c, ev)
  PROVE  /\ Traffics(d) /\ d.kind = c.kind /\ d.ssl = c.ssl
         /\ d.seen = c.seen \cup MarksOf(c, ev)
         /\ c.flags \subseteq d.flags /\ d.flags \subseteq c.flags \cup CloseFlags
         /\ d.rlen \in {0, c.rlen}
<1>1. c \in Connection /\ "CLOSE" \notin c.seen /\ ev \in Events
  BY DEF Traffics
<1>2. d \in Connection /\ HandlerTook(Told(c, ev), d)
  BY <1>1, MgCallFrame
<1>3. Flushable(Told(c, ev))
  BY <1>1, ToldFields DEF Traffics, Flushable, Bounded
<1>4. /\ d.seen = c.seen \cup MarksOf(c, ev) /\ d.kind = c.kind /\ d.ssl = c.ssl
      /\ c.flags \subseteq d.flags /\ d.flags \subseteq c.flags \cup CloseFlags
      /\ d.rlen \in {0, c.rlen}
  BY <1>1, <1>2, ToldFields DEF HandlerTook
<1>5. /\ {"CLOSE", "EARLY_DATA", "AFTER_CLOSE"} \cap MarksOf(c, ev) = {}
      /\ "CONNECT_AGAIN" \in MarksOf(c, ev) => c.ssl
      /\ "CONNECT_FAILED" \in MarksOf(c, ev) => ev = "CONNECT_FAILED"
      /\ "ACCEPT" \in MarksOf(c, ev) => ev = "ACCEPT"
  BY <1>1, MarksFacts DEF Events
<1>6. Traffics(d)
  <2>1. /\ {"CLOSE", "EARLY_DATA", "AFTER_CLOSE"} \cap d.seen = {}
        /\ "CONNECT_AGAIN" \in d.seen => d.ssl
        /\ "ACCEPT" \in d.seen => d.kind = "accepted"
        /\ "CONNECT_FAILED" \in d.seen => "CLOSE_IMMEDIATELY" \in d.flags
        /\ "LISTENING" \notin d.flags
    BY <1>4, <1>5 DEF Traffics, CloseFlags
  <2>2. Bounded(d)
    <3>1. Bounded(c)
      BY DEF Traffics
    <3> QED BY <1>4, <3>1, Zeros DEF Bounded
  <2> QED BY <1>1, <1>2, <1>3, <1>4, <2>1, <2>2, ToldFields DEF Traffics, HandlerTook
<1> QED BY <1>4, <1>6

\* Telling an event that says nothing about the opening keeps Mid.
LEMMA MgCallKeepsMid ==
  ASSUME NEW c, Mid(c), NEW ev \in {"POLL", "RECV", "SEND"},
         ev \in {"RECV", "SEND"} => Up(c), NEW d \in MgCall(c, ev)
  PROVE  Mid(d)
<1>1. c \in Connection /\ "CLOSE" \notin c.seen /\ Traffics(c)
  BY DEF Mid, Traffics
<1>2. MarksOf(c, ev) \subseteq {"EARLY_POLL"}
  BY <1>1, MarksFacts
<1>3. /\ Traffics(d) /\ d.kind = c.kind /\ d.ssl = c.ssl
      /\ d.seen = c.seen \cup MarksOf(c, ev)
      /\ c.flags \subseteq d.flags /\ d.flags \subseteq c.flags \cup CloseFlags
      /\ d.rlen \in {0, c.rlen}
  BY <1>1, MgCallKeepsTraffics DEF Events
<1>4. Up(d) = Up(c) /\ Decided(d) = Decided(c)
  BY <1>2, <1>3 DEF Up, Decided
<1>5. c.rlen \in Nat /\ d.rlen \in Nat
  BY <1>1, <1>3 DEF Traffics, Connection
<1> QED BY <1>2, <1>3, <1>4, <1>5 DEF Mid, CloseFlags

\* What connect_cb may be called on: Mid, but for the handshake flag that
\* mg_ssl_begin sets first, and for a flag CONNECTING that is about to go.
Deciding(c) ==
  /\ Traffics(c) /\ c.kind = "client" /\ (c.ssl \/ ~Decided(c))
  /\ c.ssl /\ (Up(c) \/ c.rlen > 0) => "SSL_HANDSHAKE_DONE" \in c.flags
  /\ ~c.ssl => "SSL_HANDSHAKE_DONE" \notin c.flags

LEMMA MgIfConnectCbMid ==
  ASSUME NEW c, Deciding(c), NEW ok \in BOOLEAN,
         ok /\ c.ssl => "SSL_HANDSHAKE_DONE" \in c.flags,
         ~ok /\ "SSL_HANDSHAKE_DONE" \in c.flags => Up(c),
         NEW d \in MgIfConnectCb(c, ok)
  PROVE  /\ Mid(d) /\ d.kind = c.kind /\ d.ssl = c.ssl
         /\ "CONNECTING" \notin d.flags
<1> DEFINE done == c.flags \ {"CONNECTING"}
           e == [c EXCEPT !.flags = done, !.age = 0]
           f == [c EXCEPT !.flags = done \cup {"CLOSE_IMMEDIATELY"}, !.age = 0]
<1>1. c \in Connection /\ "CLOSE" \notin c.seen
  BY DEF Deciding, Traffics
<1>2. /\ e \in Connection /\ f \in Connection
      /\ Traffics(e) /\ Traffics(f)
      /\ e.kind = "client" /\ f.kind = "client" /\ e.ssl = c.ssl /\ f.ssl = c.ssl
      /\ e.seen = c.seen /\ f.seen = c.seen /\ e.rlen = c.rlen /\ f.rlen = c.rlen
      /\ e.flags = done /\ f.flags = done \cup {"CLOSE_IMMEDIATELY"}
  <2>1. e \in Connection /\ f \in Connection
    BY <1>1, Zeros DEF Connection, CloseFlags
  <2>2. Traffics(e)
    BY <1>1, <2>1 DEF Deciding, Traffics, Flushable, Bounded, Connection
  <2>3. Traffics(f)
    BY <1>1, <2>1 DEF Deciding, Traffics, Flushable, Bounded, Connection
  <2> QED BY <1>1, <2>1, <2>2, <2>3 DEF Deciding, Connection
<1>3. CASE ok
  <2>1. d \in MgCall(e, "CONNECT")
    BY <1>3 DEF MgIfConnectCb
  <2>2. /\ {"CONNECT"} \subseteq MarksOf(e, "CONNECT")
        /\ MarksOf(e, "CONNECT") \subseteq {"CONNECT", "CONNECT_AGAIN"}
    BY <1>1, <1>2, MarksFacts
  <2> HIDE DEF e
  <2>3. e.ssl \/ ~Decided(e)
    BY <1>2 DEF Deciding, Decided
  <2>4. /\ Traffics(d) /\ d.kind = "client" /\ d.ssl = c.ssl
        /\ d.seen = e.seen \cup MarksOf(e, "CONNECT")
        /\ e.flags \subseteq d.flags /\ d.flags \subseteq e.flags \cup CloseFlags
        /\ d.rlen \in {0, e.rlen}
    BY <1>2, <2>1, <2>3, MgCallKeepsTraffics DEF Events
  <2>5. "CONNECT" \in d.seen /\ Up(d) /\ Decided(d)
    BY <2>2, <2>4 DEF Up, Decided
  <2> QED BY <1>2, <1>3, <2>4, <2>5 DEF Mid, Deciding, CloseFlags
<1>4. CASE ~ok
  <2>1. d \in MgCall(f, "CONNECT_FAILED")
    BY <1>4 DEF MgIfConnectCb
  <2>2. /\ {"CONNECT_FAILED"} \subseteq MarksOf(f, "CONNECT_FAILED")
        /\ MarksOf(f, "CONNECT_FAILED") \subseteq {"CONNECT_FAILED", "CONNECT_AGAIN"}
    BY <1>1, <1>2, MarksFacts
  <2> HIDE DEF f
  <2>3. f.ssl \/ ~Decided(f)
    BY <1>2 DEF Deciding, Decided
  <2>4. /\ Traffics(d) /\ d.kind = "client" /\ d.ssl = c.ssl
        /\ d.seen = f.seen \cup MarksOf(f, "CONNECT_FAILED")
        /\ f.flags \subseteq d.flags /\ d.flags \subseteq f.flags \cup CloseFlags
        /\ d.rlen \in {0, f.rlen}
    BY <1>2, <2>1, <2>3, MgCallKeepsTraffics DEF Events
  <2>5. Decided(d) /\ Up(d) = Up(c)
    BY <1>2, <2>2, <2>4 DEF Up, Decided
  <2>6. c.rlen \in Nat /\ d.rlen \in Nat
    BY <1>1, <2>4 DEF Traffics, Connection
  <2> QED BY <1>2, <1>4, <2>4, <2>5, <2>6 DEF Mid, Deciding, CloseFlags
<1> QED BY <1>3, <1>4

-----------------------------------------------------------------------------
(* The functions of net_if_socket.c keep Mid                               *)

\* Mid looks at these fields only, and a close flag never hurts it.
SameForMid(c, d) ==
  /\ d.life = c.life /\ d.kind = c.kind /\ d.ssl = c.ssl /\ d.sock = c.sock
  /\ d.wr = c.wr /\ d.ww = c.ww /\ d.stray = c.stray /\ d.slen = c.slen
  /\ d.rlen = c.rlen /\ d.seen = c.seen
  /\ c.flags \subseteq d.flags /\ d.flags \subseteq c.flags \cup CloseFlags

LEMMA SameKeepsMid ==
  ASSUME NEW c, Mid(c), NEW d \in Connection, SameForMid(c, d)
  PROVE  Mid(d)
<1>1. Flushable(d) /\ Bounded(d)
  BY DEF Mid, Traffics, Flushable, Bounded, SameForMid
<1>2. Traffics(d)
  BY <1>1 DEF Mid, Traffics, SameForMid, CloseFlags
<1>3. Up(d) = Up(c) /\ Decided(d) = Decided(c)
  BY DEF SameForMid, Up, Decided
<1> QED BY <1>2, <1>3 DEF Mid, SameForMid, CloseFlags

LEMMA MidChanges ==
  ASSUME NEW c, Mid(c)
  PROVE  /\ Mid(Close(c)) /\ Close(c).ssl = c.ssl
         /\ "CLOSE_IMMEDIATELY" \in Close(c).flags
         /\ LET d == [c EXCEPT !.flags = @ \cup {"SEND_AND_CLOSE"}] IN
            Mid(d) /\ SameForMid(c, d)
         /\ Mid([c EXCEPT !.err = TRUE])
         /\ \A k \in {"dead", "up", "refused"} : Mid([c EXCEPT !.net = k])
         /\ \A a \in 0..(ConnectTimeout + 1) : Mid([c EXCEPT !.age = a])
<1>1. c \in Connection
  BY DEF Mid, Traffics
<1>2. Mid(Close(c)) /\ Close(c).ssl = c.ssl /\ "CLOSE_IMMEDIATELY" \in Close(c).flags
  <2>1. /\ Close(c) \in Connection /\ SameForMid(c, Close(c))
        /\ "CLOSE_IMMEDIATELY" \in Close(c).flags
    BY <1>1, Zeros DEF Close, Connection, CloseFlags, SameForMid
  <2> QED BY <2>1, SameKeepsMid DEF SameForMid
<1>3. LET d == [c EXCEPT !.flags = @ \cup {"SEND_AND_CLOSE"}] IN
      Mid(d) /\ SameForMid(c, d)
  <2> DEFINE d == [c EXCEPT !.flags = @ \cup {"SEND_AND_CLOSE"}]
  <2>1. d \in Connection /\ SameForMid(c, d)
    BY <1>1, Zeros DEF Connection, CloseFlags, SameForMid
  <2> QED BY <2>1, SameKeepsMid
<1>4. Mid([c EXCEPT !.err = TRUE])
  <2> DEFINE d == [c EXCEPT !.err = TRUE]
  <2>1. d \in Connection /\ SameForMid(c, d)
    BY <1>1 DEF Connection, SameForMid
  <2> QED BY <2>1, SameKeepsMid
<1>5. ASSUME NEW k \in {"dead", "up", "refused"} PROVE Mid([c EXCEPT !.net = k])
  <2> DEFINE d == [c EXCEPT !.net = k]
  <2>1. d \in Connection /\ SameForMid(c, d)
    BY <1>1 DEF Connection, SameForMid
  <2> QED BY <2>1, SameKeepsMid
<1>6. ASSUME NEW a \in 0..(ConnectTimeout + 1) PROVE Mid([c EXCEPT !.age = a])
  <2> DEFINE d == [c EXCEPT !.age = a]
  <2>1. d \in Connection /\ SameForMid(c, d)
    BY <1>1 DEF Connection, SameForMid
  <2> QED BY <2>1, SameKeepsMid
<1> QED BY <1>2, <1>3, <1>4, <1>5, <1>6

LEMMA MgSslBeginMid ==
  ASSUME NEW c, Mid(c), c.ssl, NEW d \in MgSslBegin(c)
  PROVE  Mid(d) /\ d.ssl
<1> DEFINE done == [c EXCEPT !.flags = @ \cup {"SSL_HANDSHAKE_DONE"}]
           failed == [c EXCEPT !.err = TRUE]
<1>1. c \in Connection /\ "CLOSE" \notin c.seen /\ c.kind \in {"client", "accepted"}
  BY DEF Mid, Traffics
<1>2. /\ Traffics(done) /\ done \in Connection /\ done.kind = c.kind
      /\ done.ssl = c.ssl /\ done.seen = c.seen /\ done.rlen = c.rlen
      /\ done.flags = c.flags \cup {"SSL_HANDSHAKE_DONE"}
  <2>1. /\ done \in Connection /\ done.kind = c.kind
        /\ done.ssl = c.ssl /\ done.seen = c.seen /\ done.rlen = c.rlen
        /\ done.flags = c.flags \cup {"SSL_HANDSHAKE_DONE"}
        /\ done.life = c.life /\ done.sock = c.sock /\ done.wr = c.wr
        /\ done.ww = c.ww /\ done.stray = c.stray /\ done.slen = c.slen
    BY <1>1 DEF Connection, Flags
  <2> HIDE DEF done
  <2> QED BY <2>1 DEF Mid, Traffics, Flushable, Bounded
<1>3. Mid(failed) /\ failed.ssl = c.ssl /\ failed.kind = c.kind
  BY <1>1, MidChanges DEF Connection
<1>4. CASE d = c
  BY <1>4
<1>5. CASE ServerSide(c) /\ d \in MgCall(done, "ACCEPT")
  <2>1. MarksOf(done, "ACCEPT") = {"ACCEPT"}
    BY <1>1, <1>2, MarksFacts
  <2> HIDE DEF done
  <2>2. done.kind = "accepted"
    BY <1>2, <1>5 DEF ServerSide
  <2>3. /\ Traffics(d) /\ d.kind = done.kind /\ d.ssl = done.ssl
        /\ d.seen = done.seen \cup MarksOf(done, "ACCEPT")
        /\ done.flags \subseteq d.flags /\ d.flags \subseteq done.flags \cup CloseFlags
    BY <1>2, <1>5, <2>2, MgCallKeepsTraffics DEF Events
  <2> QED BY <1>2, <1>5, <2>1, <2>2, <2>3 DEF Mid, Up, Decided, CloseFlags, ServerSide
<1>6. CASE ~ServerSide(c) /\ d \in MgIfConnectCb(done, TRUE)
  <2> HIDE DEF done
  <2>1. Deciding(done)
    BY <1>1, <1>2, <1>6 DEF Deciding, ServerSide
  <2> QED BY <1>2, <1>6, <2>1, MgIfConnectCbMid
<1>7. CASE ServerSide(c) /\ d = Close(failed)
  <2> HIDE DEF failed
  <2> QED BY <1>3, <1>7, MidChanges
<1>8. CASE ~ServerSide(c) /\ \E e \in MgIfConnectCb(failed, FALSE) : d = Close(e)
  <2> PICK e \in MgIfConnectCb(failed, FALSE) : d = Close(e)
    BY <1>8
  <2>1. Deciding(failed) /\ ("SSL_HANDSHAKE_DONE" \in failed.flags => Up(failed))
    BY <1>1, <1>3, <1>8 DEF Deciding, ServerSide, Mid, Up
  <2> HIDE DEF failed
  <2>2. Mid(e) /\ e.ssl
    BY <1>3, <2>1, MgIfConnectCbMid
  <2> QED BY <2>2, MidChanges
<1>9. \/ d = c
      \/ ServerSide(c) /\ d \in MgCall(done, "ACCEPT")
      \/ ~ServerSide(c) /\ d \in MgIfConnectCb(done, TRUE)
      \/ ServerSide(c) /\ d = Close(failed)
      \/ ~ServerSide(c) /\ \E e \in MgIfConnectCb(failed, FALSE) : d = Close(e)
  <2>1. d = c \/ d \in HandshakeDone(c) \/ \E e \in HandshakeFailed(c) : d = Close(e)
    BY DEF MgSslBegin
  <2> QED BY <2>1 DEF HandshakeDone, HandshakeFailed
<1> QED BY <1>4, <1>5, <1>6, <1>7, <1>8, <1>9

\* After ConnectStep a plain connection is announced, or about to be closed.
LEMMA ConnectStepMid ==
  ASSUME NEW c, Mid(c), NEW fd, NEW d \in ConnectStep(c, fd)
  PROVE  /\ Mid(d) /\ d.ssl = c.ssl
         /\ fd # {} /\ ~d.ssl => Up(d) \/ "CLOSE_IMMEDIATELY" \in d.flags
<1>1. c \in Connection /\ c.kind \in {"client", "accepted"}
  BY DEF Mid, Traffics
<1>2. CASE "CONNECTING" \notin c.flags
  BY <1>2 DEF ConnectStep, Mid, Traffics, Up, Decided
<1>3. CASE "CONNECTING" \in c.flags
  <2>1. Deciding(c) /\ ("SSL_HANDSHAKE_DONE" \in c.flags => Up(c))
    BY <1>3 DEF Deciding, Mid, Traffics, Up, Decided
  <2>2. CASE fd = {}
    <3>1. d = c \/ d \in MgIfConnectCb(c, FALSE)
      BY <1>3, <2>2 DEF ConnectStep
    <3> QED BY <2>1, <2>2, <3>1, MgIfConnectCbMid
  <2>3. CASE fd # {} /\ c.ssl /\ ~SoError(c)
    <3>1. d \in MgSslBegin(c)
      BY <1>3, <2>3 DEF ConnectStep
    <3>2. Mid(d) /\ d.ssl = c.ssl
      BY <2>3, <3>1, MgSslBeginMid
    <3> QED BY <2>3, <3>2
  <2>4. CASE fd # {} /\ ~(c.ssl /\ ~SoError(c))
    <3> DEFINE e == SoErrorRead(c)
    <3>1. e = c \/ e = [c EXCEPT !.net = "dead"]
      BY <1>1 DEF SoErrorRead, Connection
    <3>2. Mid(e) /\ e.ssl = c.ssl /\ e.kind = c.kind /\ e.flags = c.flags /\ e.seen = c.seen
      <4>1. CASE e = c
        BY <4>1
      <4>2. CASE e = [c EXCEPT !.net = "dead"]
        <5>1. Mid([c EXCEPT !.net = "dead"])
          BY MidChanges
        <5> QED BY <1>1, <4>2, <5>1 DEF Connection
      <4> QED BY <3>1, <4>1, <4>2
    <3>3. d \in MgIfConnectCb(e, ~SoError(c))
      BY <1>3, <2>4 DEF ConnectStep
    <3> HIDE DEF e
    <3>4. Deciding(e) /\ ("SSL_HANDSHAKE_DONE" \in e.flags => Up(e))
      BY <1>3, <3>2 DEF Deciding, Mid, Traffics, Up, Decided
    <3>5. Mid(d) /\ d.ssl = e.ssl /\ "CONNECTING" \notin d.flags /\ d.kind = e.kind
      <4>1. CASE SoError(c)
        <5>1. d \in MgIfConnectCb(e, FALSE)
          BY <3>3, <4>1
        <5> QED BY <3>4, <5>1, MgIfConnectCbMid
      <4>2. CASE ~SoError(c)
        <5>1. d \in MgIfConnectCb(e, TRUE) /\ ~e.ssl
          BY <2>4, <3>2, <3>3, <4>2
        <5> QED BY <3>4, <5>1, MgIfConnectCbMid
      <4> QED BY <4>1, <4>2
    <3> QED BY <3>2, <3>5, <1>3 DEF Mid, Traffics, Up, Decided
  <2> QED BY <2>2, <2>3, <2>4
<1> QED BY <1>2, <1>3

\* Received data keeps Mid once the connection is announced; if it is about to
\* be closed instead, the data is dropped.
LEMMA MgRecvCommonMid ==
  ASSUME NEW c, Mid(c), Up(c) \/ "CLOSE_IMMEDIATELY" \in c.flags,
         c.ssl => "SSL_HANDSHAKE_DONE" \in c.flags,
         NEW n \in Nat, c.ssl \/ c.rlen + n <= MaxRecv,
         NEW d \in MgRecvCommon(c, n)
  PROVE  Mid(d) /\ d.ssl = c.ssl /\ c.flags \subseteq d.flags /\ d.seen = c.seen
<1>1. c \in Connection /\ "CLOSE" \notin c.seen
  BY DEF Mid, Traffics
<1>2. CASE "CLOSE_IMMEDIATELY" \in c.flags
  BY <1>2 DEF MgRecvCommon
<1>3. CASE "CLOSE_IMMEDIATELY" \notin c.flags
  <2> DEFINE r == Least(c.rlen + n, MaxRecv + 1)
             e == [c EXCEPT !.rlen = r, !.age = 0]
  <2>1. r \in 0..(MaxRecv + 1) /\ (c.ssl \/ r <= MaxRecv)
    BY <1>1, NetCoreAssumption DEF Connection, Least
  <2> HIDE DEF r
  <2>2. /\ e \in Connection /\ e.rlen = r /\ e.life = c.life /\ e.kind = c.kind
        /\ e.ssl = c.ssl /\ e.sock = c.sock /\ e.wr = c.wr /\ e.ww = c.ww
        /\ e.stray = c.stray /\ e.slen = c.slen /\ e.seen = c.seen
        /\ e.flags = c.flags
    BY <1>1, <2>1, Zeros DEF Connection
  <2>3. d \in MgCall(e, "RECV")
    BY <1>3 DEF MgRecvCommon, r
  <2> HIDE DEF e
  <2>4. Traffics(e)
    BY <2>1, <2>2 DEF Mid, Traffics, Flushable, Bounded
  <2>5. Mid(e) /\ Up(e)
    BY <1>3, <2>2, <2>4 DEF Mid, Up, Decided
  <2>6. Mid(d)
    BY <2>3, <2>5, MgCallKeepsMid
  <2>7. d.ssl = e.ssl /\ d.seen = e.seen \cup MarksOf(e, "RECV") /\ e.flags \subseteq d.flags
    BY <2>3, <2>4, <2>5, MgCallKeepsTraffics DEF Events
  <2>8. MarksOf(e, "RECV") = {}
    BY <1>1, <2>2, <2>5, MarksFacts
  <2> QED BY <2>2, <2>6, <2>7, <2>8
<1> QED BY <1>2, <1>3

LEMMA PlainReadMid ==
  ASSUME NEW c, Mid(c), ~c.ssl, Up(c) \/ "CLOSE_IMMEDIATELY" \in c.flags,
         NEW d \in PlainRead(c)
  PROVE  Mid(d) /\ (Up(d) \/ "CLOSE_IMMEDIATELY" \in d.flags)
<1>1. c \in Connection
  BY DEF Mid, Traffics
<1>2. CASE \E n \in 1..(MaxRecv - c.rlen) : d \in MgRecvCommon(c, n)
  <2> PICK n \in 1..(MaxRecv - c.rlen) : d \in MgRecvCommon(c, n)
    BY <1>2
  <2>1. n \in Nat /\ c.rlen + n <= MaxRecv
    BY <1>1, NetCoreAssumption DEF Connection
  <2>2. Mid(d) /\ c.flags \subseteq d.flags /\ d.seen = c.seen
    BY <2>1, MgRecvCommonMid
  <2>3. Up(d) = Up(c)
    BY <2>2 DEF Up
  <2> QED BY <2>2, <2>3
<1>3. CASE d = [c EXCEPT !.flags = @ \cup {"SEND_AND_CLOSE"}]
  <2>1. Mid(d) /\ SameForMid(c, d)
    BY <1>3, MidChanges
  <2> QED BY <2>1 DEF SameForMid, Up
<1>4. CASE d = Close(c)
  BY <1>4, MidChanges
<1>5. CASE d = c
  BY <1>5
<1> QED BY <1>2, <1>3, <1>4, <1>5 DEF PlainRead

LEMMA SslRecordMid ==
  ASSUME NEW c, Mid(c), c.ssl, "SSL_HANDSHAKE_DONE" \in c.flags,
         NEW d \in SslRecord(c)
  PROVE  Mid(d) /\ d.ssl = c.ssl /\ "SSL_HANDSHAKE_DONE" \in d.flags
<1>1. c \in Connection /\ Up(c)
  BY DEF Mid, Traffics
<1>2. CASE d = c
  BY <1>2
<1>3. CASE d \in MgRecvCommon(c, 1)
  BY <1>1, <1>3, MgRecvCommonMid
<1> QED BY <1>2, <1>3 DEF SslRecord

LEMMA SslReadMid ==
  ASSUME NEW c, Mid(c), c.ssl, "SSL_HANDSHAKE_DONE" \in c.flags,
         NEW d \in SslRead(c)
  PROVE  Mid(d) /\ d.ssl = c.ssl
<1> DEFINE one == SslRecord(c)
           two == UNION {SslRecord(e) : e \in one}
<1>1. \A e \in one : Mid(e) /\ e.ssl = c.ssl /\ "SSL_HANDSHAKE_DONE" \in e.flags
  BY SslRecordMid
<1>2. ASSUME NEW f \in two PROVE Mid(f) /\ f.ssl = c.ssl
  <2> PICK e \in one : f \in SslRecord(e)
    OBVIOUS
  <2> QED BY <1>1, SslRecordMid
<1>3. PICK e \in {c} \cup one \cup two : d = e \/ d = Close(e)
  BY DEF SslRead
<1> HIDE DEF one, two
<1>4. Mid(e) /\ e.ssl = c.ssl
  BY <1>1, <1>2
<1> QED BY <1>3, <1>4, MidChanges

LEMMA MgHandleTcpReadMid ==
  ASSUME NEW c, Mid(c), ~c.ssl => Up(c) \/ "CLOSE_IMMEDIATELY" \in c.flags,
         NEW d \in MgHandleTcpRead(c)
  PROVE  Mid(d) /\ (~d.ssl => Up(d) \/ "CLOSE_IMMEDIATELY" \in d.flags)
<1>1. c.ssl \in BOOLEAN
  BY DEF Mid, Traffics, Connection
<1> QED BY <1>1, PlainReadMid, SslReadMid, MgSslBeginMid DEF MgHandleTcpRead

LEMMA MgWriteToSocketMid ==
  ASSUME NEW c, Mid(c), ~c.ssl => Up(c), NEW d \in MgWriteToSocket(c)
  PROVE  Mid(d)
<1>1. c \in Connection /\ c.ssl \in BOOLEAN
  BY DEF Mid, Traffics, Connection
<1>2. CASE c.ssl /\ "SSL_HANDSHAKE_DONE" \notin c.flags
  BY <1>2, MgSslBeginMid DEF MgWriteToSocket
<1>3. CASE ~(c.ssl /\ "SSL_HANDSHAKE_DONE" \notin c.flags)
  <2>1. Up(c)
    BY <1>1, <1>3 DEF Mid
  <2>2. CASE \E left \in 0..(c.slen - 1) : d \in MgCall([c EXCEPT !.slen = left], "SEND")
    <3> PICK left \in 0..(c.slen - 1) : d \in MgCall([c EXCEPT !.slen = left], "SEND")
      BY <2>2
    <3> DEFINE e == [c EXCEPT !.slen = left]
    <3>1. left \in 0..MaxSend /\ (left > 0 => c.slen > 0)
      BY <1>1, NetCoreAssumption DEF Connection
    <3>2. /\ e \in Connection /\ e.life = c.life /\ e.kind = c.kind
          /\ e.ssl = c.ssl /\ e.sock = c.sock /\ e.wr = c.wr /\ e.ww = c.ww
          /\ e.stray = c.stray /\ e.slen = left /\ e.seen = c.seen
          /\ e.flags = c.flags /\ e.rlen = c.rlen
      BY <1>1, <3>1 DEF Connection
    <3>3. d \in MgCall(e, "SEND")
      OBVIOUS
    <3> HIDE DEF e
    <3>4. Traffics(e)
      BY <3>1, <3>2 DEF Mid, Traffics, Flushable, Bounded
    <3>5. Mid(e) /\ Up(e)
      BY <2>1, <3>2, <3>4 DEF Mid, Up, Decided
    <3> QED BY <3>5, <3>3, MgCallKeepsMid
  <2>3. CASE d = Close(c)
    BY <2>3, MidChanges
  <2>4. CASE d = c
    BY <2>4
  <2>5. d \in (UNION {MgCall([c EXCEPT !.slen = left], "SEND") :
                      left \in {k \in 0..(c.slen - 1) : c.net = "up"}})
               \cup {Close(c)} \cup {e \in {c} : c.net = "up"}
    BY <1>3 DEF MgWriteToSocket
  <2> QED BY <2>2, <2>3, <2>4, <2>5
<1> QED BY <1>2, <1>3

LEMMA MgMgrHandleConnMid ==
  ASSUME NEW c, Mid(c), NEW fd, NEW d \in MgMgrHandleConn(c, fd)
  PROVE  Mid(d)
<1>1. PICK e \in ConnectStep(c, fd) : \E f \in ReadStep(e, fd) : d \in WriteStep(f, fd)
  BY DEF MgMgrHandleConn
<1>2. PICK f \in ReadStep(e, fd) : d \in WriteStep(f, fd)
  BY <1>1
<1>3. Mid(e) /\ (fd # {} /\ ~e.ssl => Up(e) \/ "CLOSE_IMMEDIATELY" \in e.flags)
  BY ConnectStepMid
<1>4. CASE "R" \notin fd
  <2>1. f = e
    BY <1>2, <1>4 DEF ReadStep
  <2> QED BY <1>2, <1>3, <2>1, MgWriteToSocketMid DEF WriteStep
<1>5. CASE "R" \in fd
  <2>1. Mid(f) /\ (~f.ssl => Up(f) \/ "CLOSE_IMMEDIATELY" \in f.flags)
    BY <1>2, <1>3, <1>5, MgHandleTcpReadMid DEF ReadStep
  <2> QED BY <1>2, <2>1, MgWriteToSocketMid DEF WriteStep
<1> QED BY <1>4, <1>5

-----------------------------------------------------------------------------
(* Closing, and the callbacks                                              *)

\* What mg_close_conn needs of a connection to leave it inert.
Closable(c) ==
  /\ c \in Connection
  /\ ~c.sock => c.wr # "active" /\ c.ww # "active"
  /\ "LISTENING" \in c.flags => ~c.timer
  /\ c.stray => c.kind = "accepted" /\ ~c.ssl
  /\ {"CLOSE", "EARLY_DATA", "AFTER_CLOSE"} \cap c.seen = {}
  /\ "CONNECT_AGAIN" \in c.seen => c.ssl

LEMMA MgCloseConnGone ==
  ASSUME NEW c, Closable(c), NEW d \in MgCloseConn(c)
  PROVE  Gone(d) /\ d.seen = c.seen \cup {"CLOSE"} /\ d.kind = c.kind
<1> DEFINE s == DestroySock(c)
<1>1. c \in Connection /\ "CLOSE" \notin c.seen
  BY DEF Closable
<1>2. /\ s \in Connection /\ ~s.sock /\ s.wr # "active" /\ s.ww # "active"
      /\ s.kind = c.kind /\ s.ssl = c.ssl /\ s.flags = c.flags /\ s.seen = c.seen
      /\ s.timer = c.timer /\ s.stray = c.stray
  <2>1. CASE ~c.sock
    BY <1>1, <2>1 DEF DestroySock, Closable
  <2>2. CASE c.sock
    <3> DEFINE r == IF c.wr = "active" THEN "idle" ELSE c.wr
               w == IF c.ww = "active" THEN "idle" ELSE c.ww
    <3>1. s = [c EXCEPT !.sock = FALSE, !.net = "none", !.wr = r, !.ww = w]
      BY <1>1, <2>2 DEF DestroySock, Connection
    <3>2. r \in WatcherState \ {"active"} /\ w \in WatcherState \ {"active"}
      BY <1>1 DEF Connection, WatcherState
    <3> HIDE DEF r, w, s
    <3> QED BY <1>1, <3>1, <3>2 DEF Connection
  <2> QED BY <2>1, <2>2, <1>1 DEF Connection
<1>3. PICK e \in MgCall(s, "CLOSE") :
        d = [e EXCEPT !.life  = "freed",
                      !.timer = IF "LISTENING" \in e.flags THEN @ ELSE FALSE,
                      !.flags = {}, !.slen = 0, !.rlen = 0, !.age = 0, !.err = FALSE]
  BY DEF MgCloseConn
<1>4. MarksOf(s, "CLOSE") = {"CLOSE"}
  BY <1>1, <1>2, MarksFacts
<1> HIDE DEF s
<1>5. e \in Connection /\ HandlerTook(Told(s, "CLOSE"), e)
  BY <1>2, MgCallFrame DEF Events
<1>6. /\ ~e.sock /\ e.wr # "active" /\ e.ww # "active"
      /\ e.kind = c.kind /\ e.ssl = c.ssl /\ e.seen = c.seen \cup {"CLOSE"}
      /\ c.flags \subseteq e.flags /\ e.timer = c.timer
      /\ e.stray => c.stray
      /\ "LISTENING" \in e.flags => "LISTENING" \in c.flags
  BY <1>2, <1>4, <1>5, ToldFields DEF HandlerTook, Events, CloseFlags
<1>7. /\ d \in Connection /\ d.life = "freed" /\ d.rlen = 0 /\ d.sock = e.sock /\ d.wr = e.wr
      /\ d.ww = e.ww /\ d.kind = e.kind /\ d.ssl = e.ssl /\ d.seen = e.seen
      /\ d.stray = e.stray /\ (d.timer => "LISTENING" \in e.flags /\ e.timer)
  BY ZenonT(40), <1>3, <1>5, Zeros DEF Connection
<1> QED BY <1>6, <1>7 DEF Gone, Closable

LEMMA LiveIsClosable ==
  ASSUME NEW c, Mid(c) \/ Listens(c)
  PROVE  Closable(c)
BY DEF Mid, Traffics, Listens, Closable

\* The last thing a callback does turns Mid into Safe.
LEMMA CloseIfDueSafe ==
  ASSUME NEW c, Mid(c), NEW d \in CloseIfDue(c)
  PROVE  \/ Gone(d) /\ d.seen = c.seen \cup {"CLOSE"} /\ d.kind = c.kind
         \/ d = c /\ "CONNECT_FAILED" \notin c.seen
<1>1. CASE Closing(c)
  BY <1>1, LiveIsClosable, MgCloseConnGone DEF CloseIfDue
<1>2. CASE ~Closing(c)
  BY <1>2 DEF CloseIfDue, Closing, Mid, Traffics
<1> QED BY <1>1, <1>2

LEMMA EvReadCbSafe ==
  ASSUME NEW c, Mid(c), NEW d \in EvReadCb(c)
  PROVE  Safe(d)
<1>1. PICK e \in MgMgrHandleConn(c, {"R"}) : d \in CloseIfDue(e)
  BY DEF EvReadCb
<1> QED BY <1>1, MgMgrHandleConnMid, CloseIfDueSafe DEF Safe

LEMMA StopIfDrainedSafe ==
  ASSUME NEW c, (Mid(c) /\ "CONNECT_FAILED" \notin c.seen) \/ Gone(c)
  PROVE  Safe(StopIfDrained(c))
<1> DEFINE d == [c EXCEPT !.ww = "idle"]
<1>1. CASE StopIfDrained(c) = c
  BY <1>1 DEF Safe
<1>2. CASE /\ c.life = "live" /\ c.slen = 0 /\ c.ww = "active"
           /\ StopIfDrained(c) = d
  <2>1. Mid(c) /\ "CONNECT_FAILED" \notin c.seen /\ c \in Connection
    BY <1>2 DEF Gone, Mid, Traffics
  <2>2. /\ d \in Connection /\ d.life = c.life /\ d.kind = c.kind
        /\ d.ssl = c.ssl /\ d.sock = c.sock /\ d.wr = c.wr /\ d.ww = "idle"
        /\ d.stray = c.stray /\ d.slen = c.slen /\ d.seen = c.seen
        /\ d.flags = c.flags /\ d.rlen = c.rlen
    BY <2>1 DEF Connection, WatcherState
  <2> HIDE DEF d
  <2>3. Traffics(d)
    BY <1>2, <2>1, <2>2 DEF Mid, Traffics, Flushable, Bounded
  <2>4. Mid(d)
    BY <2>1, <2>2, <2>3 DEF Mid, Up, Decided
  <2> QED BY <1>2, <2>1, <2>2, <2>4 DEF Safe
<1> QED BY <1>1, <1>2 DEF StopIfDrained

LEMMA EvWriteCbSafe ==
  ASSUME NEW c, Mid(c), NEW d \in EvWriteCb(c)
  PROVE  Safe(d)
<1>1. PICK f \in UNION {CloseIfDue(e) : e \in MgMgrHandleConn(c, {"W"})} :
        d = StopIfDrained(f)
  BY DEF EvWriteCb
<1>2. PICK e \in MgMgrHandleConn(c, {"W"}) : f \in CloseIfDue(e)
  OBVIOUS
<1>3. (Mid(f) /\ "CONNECT_FAILED" \notin f.seen) \/ Gone(f)
  BY <1>2, MgMgrHandleConnMid, CloseIfDueSafe
<1> QED BY <1>1, <1>3, StopIfDrainedSafe

LEMMA AgedMid ==
  ASSUME NEW c, Mid(c)
  PROVE  Mid(Aged(c))
<1>1. c \in Connection
  BY DEF Mid, Traffics
<1>2. Least(c.age + 1, ConnectTimeout + 1) \in 0..(ConnectTimeout + 1)
  BY <1>1, NetCoreAssumption DEF Connection, Least
<1>3. Aged(c) = c \/ Aged(c) = [c EXCEPT !.age = Least(c.age + 1, ConnectTimeout + 1)]
  BY DEF Aged
<1> QED BY ZenonT(40), <1>2, <1>3, MidChanges

LEMMA GiveUpConnectMid ==
  ASSUME NEW c, Mid(c), NEW d \in GiveUpConnect(c)
  PROVE  Mid(d)
<1>1. CASE "CONNECTING" \in c.flags /\ c.age > ConnectTimeout
  <2>1. Deciding(c) /\ ("SSL_HANDSHAKE_DONE" \in c.flags => Up(c))
    BY <1>1 DEF Deciding, Mid, Traffics, Up, Decided
  <2>2. d \in MgIfConnectCb(c, FALSE)
    BY <1>1 DEF GiveUpConnect
  <2> QED BY <2>1, <2>2, MgIfConnectCbMid
<1>2. CASE ~("CONNECTING" \in c.flags /\ c.age > ConnectTimeout)
  BY <1>2 DEF GiveUpConnect
<1> QED BY <1>1, <1>2

LEMMA MgConnectionTimerCbSafe ==
  ASSUME NEW c, Mid(c), NEW d \in MgConnectionTimerCb(c)
  PROVE  Safe(d)
<1> DEFINE polled == UNION {GiveUpConnect(e) : e \in MgIfPoll(Aged(c))}
<1>1. PICK f \in polled : d \in CloseIfDue(f)
  BY DEF MgConnectionTimerCb
<1>2. PICK e \in MgIfPoll(Aged(c)) : f \in GiveUpConnect(e)
  OBVIOUS
<1>3. Mid(e)
  <2>1. e = Aged(c) \/ e \in MgCall(Aged(c), "POLL")
    BY DEF MgIfPoll
  <2> QED BY <2>1, AgedMid, MgCallKeepsMid
<1>4. Mid(f)
  BY <1>2, <1>3, GiveUpConnectMid
<1> QED BY <1>1, <1>4, CloseIfDueSafe DEF Safe

-----------------------------------------------------------------------------
(* Opening                                                                 *)

LEMMA ZeroedFields ==
  /\ Zeroed \in Connection /\ Zeroed.life = "none"
BY Zeros DEF Zeroed, Connection, WatcherState

LEMMA MgDoConnectSafe ==
  ASSUME NEW ssl \in BOOLEAN, NEW d \in MgDoConnect(ssl)
  PROVE  Mid(d) /\ "CONNECT_FAILED" \notin d.seen /\ d.seen = {}
<1> DEFINE new == [Zeroed EXCEPT !.kind = "client", !.ssl = ssl,
                                 !.flags = {"CONNECTING"}]
<1>1. /\ new \in Connection /\ new.kind = "client" /\ new.flags = {"CONNECTING"}
      /\ ~new.sock /\ ~new.stray /\ new.slen = 0 /\ new.rlen = 0 /\ new.seen = {}
      /\ new.wr = "uninit" /\ new.ww = "uninit"
  BY Zeros DEF Zeroed, Connection, WatcherState, Flags
<1>2. PICK t \in ConnectTcp(new) : d = MgAddConn(t)
  BY DEF MgDoConnect
<1> HIDE DEF new
<1>3. /\ t \in Connection /\ t.kind = "client" /\ t.flags = {"CONNECTING"}
      /\ ~t.stray /\ t.slen = 0 /\ t.rlen = 0 /\ t.seen = {}
      /\ t.wr = "uninit" /\ t.ww = "uninit"
  <2>1. CASE t = [new EXCEPT !.err = TRUE]
    BY <1>1, <2>1 DEF Connection
  <2>2. CASE t = [new EXCEPT !.err = TRUE, !.sock = TRUE, !.net = "dead"]
    BY <1>1, <2>2 DEF Connection
  <2>3. CASE \E k \in {"pending", "up"} : t = [new EXCEPT !.sock = TRUE, !.net = k]
    BY ZenonT(40), <1>1, <2>3 DEF Connection
  <2> QED BY <2>1, <2>2, <2>3 DEF ConnectTcp
<1>4. /\ d \in Connection /\ d.life = "live" /\ d.kind = "client"
      /\ d.flags = {"CONNECTING"} /\ ~d.stray /\ d.slen = 0 /\ d.rlen = 0
      /\ d.seen = {}
      /\ IF d.sock THEN d.ww = "active" ELSE d.wr = "uninit" /\ d.ww = "uninit"
  BY <1>2, <1>3 DEF MgAddConn, Connection, WatcherState
<1> QED BY <1>4, Zeros DEF Mid, Traffics, Flushable, Bounded, Up, Decided

LEMMA MgBindSafe ==
  ASSUME NEW ssl \in BOOLEAN
  PROVE  Listens(MgBind(ssl))
<1> DEFINE new == [Zeroed EXCEPT !.kind = "listener", !.ssl = ssl, !.sock = TRUE,
                                 !.net = "up", !.flags = {"LISTENING"}]
<1>1. /\ new \in Connection /\ new.kind = "listener" /\ new.flags = {"LISTENING"}
      /\ new.sock /\ ~new.stray /\ new.slen = 0 /\ new.rlen = 0 /\ new.seen = {}
  BY Zeros DEF Zeroed, Connection, WatcherState, Flags
<1> HIDE DEF new
<1>2. MgBind(ssl) = MgAddConn(new)
  BY DEF MgBind, new
<1> QED BY ZenonT(40), <1>1, <1>2 DEF MgAddConn, Listens, Connection, WatcherState

\* ACCEPT is told while the write watcher is still unset; a connection whose
\* handler then sends becomes a stray.
LEMMA MgAcceptConnSafe ==
  ASSUME NEW ssl \in BOOLEAN, NEW d \in MgAcceptConn(ssl)
  PROVE  Mid(d) /\ "CONNECT_FAILED" \notin d.seen /\ (ssl => d.seen = {})
                /\ (~ssl => d.seen = {"ACCEPT"})
<1> DEFINE listed == MgAddConn([Zeroed EXCEPT !.kind = "accepted", !.ssl = ssl])
           socket == [listed EXCEPT !.sock = TRUE, !.net = "up"]
<1>1. /\ socket \in Connection /\ socket.life = "live" /\ socket.kind = "accepted"
      /\ socket.ssl = ssl /\ socket.sock /\ ~socket.stray /\ socket.flags = {}
      /\ socket.slen = 0 /\ socket.rlen = 0 /\ socket.seen = {}
  <2> DEFINE new == [Zeroed EXCEPT !.kind = "accepted", !.ssl = ssl]
  <2>1. /\ new \in Connection /\ new.kind = "accepted" /\ new.ssl = ssl
        /\ ~new.sock /\ ~new.stray /\ new.flags = {}
        /\ new.slen = 0 /\ new.rlen = 0 /\ new.seen = {}
    BY Zeros DEF Zeroed, Connection, WatcherState
  <2>2. listed = MgAddConn(new)
    OBVIOUS
  <2> HIDE DEF new, listed
  <2>3. /\ listed \in Connection /\ listed.life = "live" /\ listed.kind = "accepted"
        /\ listed.ssl = ssl /\ ~listed.stray /\ listed.flags = {}
        /\ listed.slen = 0 /\ listed.rlen = 0 /\ listed.seen = {}
    BY <2>1, <2>2 DEF MgAddConn, Connection
  <2> QED BY <2>3 DEF Connection
<1>2. PICK c \in IF ssl THEN {socket} ELSE MgCall(socket, "ACCEPT") :
        d = [c EXCEPT !.wr = "active", !.ww = "idle"]
  BY DEF MgAcceptConn
<1> HIDE DEF socket
<1>3. /\ c \in Connection /\ c.life = "live" /\ c.kind = "accepted" /\ c.ssl = ssl
      /\ c.sock /\ c.flags \subseteq CloseFlags /\ c.rlen = 0
      /\ c.slen > 0 => c.stray
      /\ c.stray => ~ssl
      /\ c.seen = IF ssl THEN {} ELSE {"ACCEPT"}
  <2>1. CASE ssl
    <3>1. c = socket
      BY <2>1
    <3>2. ~(c.slen > 0) /\ ~c.stray /\ c.flags \subseteq CloseFlags
      BY <1>1, <3>1
    <3> QED BY <1>1, <2>1, <3>1, <3>2
  <2>2. CASE ~ssl
    <3>1. MarksOf(socket, "ACCEPT") = {"ACCEPT"}
      BY <1>1, MarksFacts
    <3>2. c \in Connection /\ HandlerTook(Told(socket, "ACCEPT"), c)
      BY <1>1, <1>2, <2>2, MgCallFrame DEF Events
    <3>3. Flushable(Told(socket, "ACCEPT"))
      BY <1>1, ToldFields DEF Flushable, Events
    <3>4. c.slen > 0 => c.ww = "active" \/ c.stray
      BY <1>1, <3>2, <3>3, ToldFields DEF HandlerTook, Flushable, Events
    <3>5. socket.ww = "uninit"
      BY Zeros DEF socket, listed, MgAddConn, Zeroed
    <3>6. /\ c.life = "live" /\ c.kind = "accepted" /\ c.ssl = ssl /\ c.sock
          /\ c.flags \subseteq CloseFlags /\ c.rlen = 0 /\ c.ww = "uninit"
          /\ c.seen = {"ACCEPT"}
      BY <1>1, <3>1, <3>2, <3>5, ToldFields DEF HandlerTook, Events
    <3> QED BY <2>2, <3>2, <3>4, <3>6
  <2> QED BY <2>1, <2>2
<1>4. /\ d \in Connection /\ d.life = c.life /\ d.kind = c.kind /\ d.ssl = c.ssl
      /\ d.sock = c.sock /\ d.ww = "idle" /\ d.stray = c.stray /\ d.slen = c.slen
      /\ d.rlen = c.rlen /\ d.flags = c.flags /\ d.seen = c.seen
  BY ZenonT(40), <1>2, <1>3 DEF Connection, WatcherState
<1>5. Flushable(d) /\ Bounded(d)
  BY <1>3, <1>4, Zeros DEF Flushable, Bounded
<1> QED BY <1>3, <1>4, <1>5 DEF Mid, Traffics, Up, Decided, CloseFlags

-----------------------------------------------------------------------------
(* The whole manager                                                       *)

\* Every connection is safe; after mg_mgr_free none is live, unless the
\* application opens connections in its CLOSE handlers.
IInv ==
  /\ conn \in [Conn -> Connection] /\ mgr \in {"running", "freed"}
  /\ \A n \in Conn : Safe(conn[n])
  /\ mgr = "freed" /\ ~Reconnects => \A n \in Conn : conn[n].life # "live"

LEMMA SafeType ==
  ASSUME NEW c, Safe(c)
  PROVE  c \in Connection
BY ZeroedFields DEF Safe, Mid, Traffics, Listens, Gone

\* A live connection that carries traffic is Mid, a live listener Listens.
LEMMA LiveIsMid ==
  ASSUME NEW c, Safe(c), c.life = "live"
  PROVE  /\ c.kind # "listener" => Mid(c) /\ "CONNECT_FAILED" \notin c.seen
         /\ c.kind = "listener" => Listens(c)
BY ZeroedFields DEF Safe, Mid, Traffics, Listens, Gone

LEMMA BecomeKeeps ==
  ASSUME IInv, mgr = "running", NEW n \in Conn, NEW outcomes, Become(n, outcomes),
         \A d \in outcomes : Safe(d)
  PROVE  IInv'
<1>1. PICK d \in outcomes : conn' = [conn EXCEPT ![n] = d]
  BY DEF Become
<1>2. Safe(d) /\ d \in Connection
  BY SafeType
<1>3. mgr' = "running"
  BY DEF Become
<1> QED BY <1>1, <1>2, <1>3 DEF IInv

LEMMA UserSendSafe ==
  ASSUME NEW c, Mid(c), "CONNECT_FAILED" \notin c.seen
  PROVE  Safe(MgSend(c))
<1> DEFINE d == MgSend(c)
<1>1. c \in Connection /\ (c.sock => c.ww # "uninit")
  BY DEF Mid, Traffics
<1>2. \/ ~c.sock /\ d = [c EXCEPT !.slen = d.slen, !.age = 0]
      \/ c.sock /\ d = [c EXCEPT !.slen = d.slen, !.age = 0, !.ww = "active"]
  BY <1>1, MgSendType
<1>3. d \in Connection
  BY <1>1, MgSendType
<1>4. /\ d.life = c.life /\ d.kind = c.kind /\ d.ssl = c.ssl /\ d.sock = c.sock
      /\ d.wr = c.wr /\ d.stray = c.stray /\ d.flags = c.flags
      /\ d.rlen = c.rlen /\ d.seen = c.seen
      /\ d.ww = IF c.sock THEN "active" ELSE c.ww
  <2>1. CASE ~c.sock /\ d = [c EXCEPT !.slen = d.slen, !.age = 0]
    BY <1>1, <2>1 DEF Connection
  <2>2. CASE c.sock /\ d = [c EXCEPT !.slen = d.slen, !.age = 0, !.ww = "active"]
    BY <1>1, <2>2 DEF Connection
  <2> QED BY <1>2, <2>1, <2>2
<1> HIDE DEF d
<1>5. Traffics(d)
  BY <1>3, <1>4 DEF Mid, Traffics, Flushable, Bounded
<1>6. Mid(d)
  BY <1>4, <1>5 DEF Mid, Up, Decided
<1> QED BY <1>4, <1>6 DEF Safe, d

LEMMA UserCloseSafe ==
  ASSUME NEW c, Safe(c), c.life = "live", NEW f \in CloseFlags
  PROVE  Safe([c EXCEPT !.flags = @ \cup {f}])
<1> DEFINE d == [c EXCEPT !.flags = @ \cup {f}]
<1>1. c \in Connection
  BY SafeType
<1>2. CASE c.kind # "listener"
  <2>1. d \in Connection /\ SameForMid(c, d)
    BY <1>1, Zeros DEF Connection, SameForMid, CloseFlags
  <2> QED BY <1>2, <2>1, LiveIsMid, SameKeepsMid DEF Safe, SameForMid
<1>3. CASE c.kind = "listener"
  <2>1. Listens(c) /\ d \in Connection
    BY <1>1, <1>3, LiveIsMid, Zeros DEF Connection, CloseFlags
  <2> QED BY <1>1, <2>1 DEF Safe, Listens, Connection
<1> QED BY <1>2, <1>3

LEMMA NetworkSafe ==
  ASSUME NEW c, Safe(c), c.life = "live", NEW k \in {"up", "refused"}
  PROVE  Safe([c EXCEPT !.net = k])
<1> DEFINE d == [c EXCEPT !.net = k]
<1>1. c \in Connection
  BY SafeType
<1>2. CASE c.kind # "listener"
  <2>1. d \in Connection /\ SameForMid(c, d)
    BY <1>1 DEF Connection, SameForMid
  <2> QED BY <1>2, <2>1, LiveIsMid, SameKeepsMid DEF Safe, SameForMid
<1>3. CASE c.kind = "listener"
  <2>1. Listens(c)
    BY <1>3, LiveIsMid
  <2>2. /\ d \in Connection /\ d.life = c.life /\ d.kind = c.kind /\ d.sock = c.sock
        /\ d.stray = c.stray /\ d.slen = c.slen /\ d.rlen = c.rlen
        /\ d.flags = c.flags /\ d.timer = c.timer /\ d.seen = c.seen
    BY <1>1 DEF Connection
  <2> QED BY <2>1, <2>2 DEF Safe, Listens
<1> QED BY <1>2, <1>3

\* Whatever mg_mgr_free leaves of a connection is safe, and not live unless
\* CLOSE handlers open connections.
LEMMA FinalStatesSafe ==
  ASSUME IInv, mgr = "running", NEW n \in Conn, NEW d \in FinalStates(n)
  PROVE  Safe(d) /\ (~Reconnects => d.life # "live")
<1> DEFINE c == conn[n]
           accepted == UNION {MgAcceptConn(conn[l].ssl) :
               l \in {k \in Conn : Live(k) /\ conn[k].kind = "listener"}}
           opened == UNION {MgDoConnect(ssl) :
               ssl \in {b \in Ssl : Reconnects /\ \E k \in Conn : Live(k)}}
<1>1. Safe(c) /\ c \in Connection
  BY SafeType DEF IInv
<1>2. CASE c.life = "live"
  <2>1. PICK e \in LastPoll(c) : d \in MgCloseConn(e)
    BY <1>2 DEF FinalStates
  <2>2. Mid(e) \/ Listens(e)
    <3>1. CASE c.kind = "listener"
      BY <1>1, <1>2, <2>1, <3>1, LiveIsMid DEF LastPoll
    <3>2. CASE c.kind # "listener"
      <4>1. PICK fd : e \in MgMgrHandleConn(c, fd)
        BY <2>1, <3>2 DEF LastPoll
      <4> QED BY <1>1, <1>2, <3>2, <4>1, LiveIsMid, MgMgrHandleConnMid
    <3> QED BY <3>1, <3>2
  <2>3. Gone(d)
    BY <2>1, <2>2, LiveIsClosable, MgCloseConnGone
  <2> QED BY <2>3 DEF Safe, Gone
<1>3. CASE c.life = "none"
  <2>1. \/ d = c
        \/ d \in opened
        \/ \E e \in accepted \cup opened : d \in MgCloseConn(e)
    BY <1>3 DEF FinalStates
  <2>2. \A e \in opened : Mid(e) /\ "CONNECT_FAILED" \notin e.seen /\ Reconnects
    BY MgDoConnectSafe, SocketIfAssumption
  <2>3. \A e \in accepted : Mid(e)
    <3> SUFFICES ASSUME NEW e \in accepted PROVE Mid(e)
      OBVIOUS
    <3>1. PICK l \in Conn : e \in MgAcceptConn(conn[l].ssl)
      OBVIOUS
    <3>2. conn[l].ssl \in BOOLEAN
      BY DEF IInv, Connection
    <3> QED BY <3>1, <3>2, MgAcceptConnSafe
  <2> HIDE DEF c, opened, accepted
  <2>4. CASE d = c
    BY <1>1, <1>3, <2>4
  <2>5. CASE d \in opened
    BY <2>2, <2>5 DEF Safe
  <2>6. CASE \E e \in accepted \cup opened : d \in MgCloseConn(e)
    <3>1. PICK e \in accepted \cup opened : d \in MgCloseConn(e)
      BY <2>6
    <3>2. Gone(d)
      BY <2>2, <2>3, <3>1, LiveIsClosable, MgCloseConnGone
    <3> QED BY <3>2 DEF Safe, Gone
  <2> QED BY <2>1, <2>4, <2>5, <2>6
<1>4. CASE c.life \notin {"live", "none"}
  <2>1. d = c
    BY <1>4 DEF FinalStates
  <2> QED BY <1>1, <1>4, <2>1
<1> QED BY <1>2, <1>3, <1>4

LEMMA IInvInit ==
  ASSUME Init
  PROVE  IInv
BY ZeroedFields DEF Init, IInv, Safe

LEMMA IInvStep ==
  ASSUME IInv, [Next]_vars
  PROVE  IInv'
<1>1. CASE UNCHANGED vars
  BY <1>1 DEF IInv, vars
<1>2. CASE Stopped
  BY <1>2 DEF IInv, Stopped, vars
<1>3. CASE MgrFree
  <2> DEFINE final == [n \in Conn |-> FinalStates(n)]
  <2>1. mgr = "running" /\ mgr' = "freed"
    BY <1>3 DEF MgrFree
  <2>2. conn' \in {f \in [Conn -> UNION {final[n] : n \in Conn}] :
                     \A n \in Conn : f[n] \in final[n]}
    BY <1>3 DEF MgrFree
  <2>3. conn' = [n \in Conn |-> conn'[n]] /\ \A n \in Conn : conn'[n] \in FinalStates(n)
    BY <2>2
  <2>4. \A n \in Conn : Safe(conn'[n]) /\ (~Reconnects => conn'[n].life # "live")
    BY <2>1, <2>3, FinalStatesSafe
  <2>5. conn' \in [Conn -> Connection]
    BY <2>3, <2>4, SafeType
  <2> QED BY <2>1, <2>4, <2>5 DEF IInv
<1>4. ASSUME NEW n \in Conn, Step(n) PROVE IInv'
  <2> DEFINE c == conn[n]
  <2>1. Safe(c) /\ (Traffic(n) => Mid(c) /\ "CONNECT_FAILED" \notin c.seen)
    BY LiveIsMid DEF IInv, Traffic, Live
  <2>2. CASE ReadCb(n)
    <3>1. Mid(c) /\ mgr = "running" /\ Become(n, EvReadCb(c))
      BY <2>1, <2>2 DEF ReadCb, Traffic, Live
    <3> QED BY <3>1, EvReadCbSafe, BecomeKeeps
  <2>3. CASE WriteCb(n)
    <3>1. Mid(c) /\ mgr = "running" /\ Become(n, EvWriteCb(c))
      BY <2>1, <2>3 DEF WriteCb, Traffic, Live
    <3> QED BY <3>1, EvWriteCbSafe, BecomeKeeps
  <2>4. CASE TimerCb(n)
    <3>1. Mid(c) /\ mgr = "running" /\ Become(n, MgConnectionTimerCb(c))
      BY <2>1, <2>4 DEF TimerCb, Traffic, Live
    <3> QED BY <3>1, MgConnectionTimerCbSafe, BecomeKeeps
  <2>5. CASE AcceptCb(n)
    <3>1. mgr = "running" /\ Listens(c) /\ mgr' = "running"
      BY <2>1, <2>5, LiveIsMid DEF AcceptCb, Live
    <3>2. PICK k \in CloseIfDue(c) :
            \/ conn' = [conn EXCEPT ![n] = k]
            \/ \E m \in Conn : /\ Unused(m)
                               /\ \E d \in MgAcceptConn(c.ssl) :
                                    conn' = [conn EXCEPT ![n] = k, ![m] = d]
      BY <2>5 DEF AcceptCb
    <3>3. Safe(k) /\ k \in Connection
      <4>1. k = c \/ Gone(k)
        BY <3>1, <3>2, LiveIsClosable, MgCloseConnGone DEF CloseIfDue
      <4> QED BY <2>1, <4>1, SafeType DEF Safe
    <3>4. CASE conn' = [conn EXCEPT ![n] = k]
      BY <3>1, <3>3, <3>4 DEF IInv
    <3>5. CASE \E m \in Conn : \E d \in MgAcceptConn(c.ssl) :
                 conn' = [conn EXCEPT ![n] = k, ![m] = d]
      <4>1. PICK m \in Conn, d \in MgAcceptConn(c.ssl) :
              conn' = [conn EXCEPT ![n] = k, ![m] = d]
        BY <3>5
      <4>2. c.ssl \in BOOLEAN
        BY <3>1 DEF Listens, Connection
      <4>3. Safe(d) /\ d \in Connection
        BY <4>2, MgAcceptConnSafe, SafeType DEF Safe
      <4> HIDE DEF c
      <4> QED BY <3>1, <3>3, <4>1, <4>3 DEF IInv
    <3> QED BY <3>2, <3>4, <3>5
  <2>6. CASE Connect(n)
    <3>1. mgr = "running" /\ \E ssl \in Ssl : Become(n, MgDoConnect(ssl))
      BY <2>6 DEF Connect, Unused
    <3>2. \A ssl \in Ssl : \A d \in MgDoConnect(ssl) : Safe(d)
      BY MgDoConnectSafe, SocketIfAssumption DEF Safe
    <3> QED BY <3>1, <3>2, BecomeKeeps
  <2>7. CASE Bind(n)
    <3>1. mgr = "running" /\ \E ssl \in Ssl : Become(n, {MgBind(ssl)})
      BY <2>7 DEF Bind, Unused
    <3>2. \A ssl \in Ssl : Safe(MgBind(ssl))
      BY MgBindSafe, SocketIfAssumption DEF Safe
    <3> QED BY <3>1, <3>2, BecomeKeeps
  <2>8. CASE UserSend(n)
    <3>1. Mid(c) /\ "CONNECT_FAILED" \notin c.seen /\ mgr = "running"
          /\ Become(n, {MgSend(c)})
      BY <2>1, <2>8 DEF UserSend, Traffic, Live
    <3> QED BY <3>1, UserSendSafe, BecomeKeeps
  <2>9. CASE UserClose(n)
    <3> DEFINE outcomes == {[c EXCEPT !.flags = @ \cup {f}] : f \in CloseFlags}
    <3>1. c.life = "live" /\ mgr = "running" /\ Become(n, outcomes)
      BY <2>9 DEF UserClose, Live
    <3>2. \A d \in outcomes : Safe(d)
      BY <2>1, <3>1, UserCloseSafe
    <3> HIDE DEF outcomes
    <3> QED BY <3>1, <3>2, BecomeKeeps
  <2>10. CASE NetworkAnswers(n)
    <3> DEFINE outcomes == {[c EXCEPT !.net = k] : k \in {"up", "refused"}}
    <3>1. c.life = "live" /\ mgr = "running" /\ Become(n, outcomes)
      BY <2>10 DEF NetworkAnswers, Live
    <3>2. \A d \in outcomes : Safe(d)
      BY <2>1, <3>1, NetworkSafe
    <3> HIDE DEF outcomes
    <3> QED BY <3>1, <3>2, BecomeKeeps
  <2> QED BY <1>4, <2>2, <2>3, <2>4, <2>5, <2>6, <2>7, <2>8, <2>9, <2>10 DEF Step
<1> QED BY <1>1, <1>2, <1>3, <1>4 DEF Next

\* In every behaviour, every connection is in one of the four conditions of
\* Safe between libev callbacks.
THEOREM Inductive == Spec => []IInv
<1>1. Init => IInv
  BY IInvInit
<1>2. IInv /\ [Next]_vars => IInv'
  BY IInvStep
<1> QED BY <1>1, <1>2, PTL DEF Spec

\* Type correctness: on a plain connection recv_mbuf never outgrows
\* recv_mbuf_limit, whatever the peer sends and in however many pieces.
THEOREM TypeCorrect == Spec => []TypeOK
<1>1. ASSUME IInv PROVE TypeOK
  <2>1. ASSUME NEW n \in Conn PROVE Bounded(conn[n])
    <3>1. CASE conn[n] = Zeroed \/ Listens(conn[n]) \/ Gone(conn[n])
      <4>1. conn[n].rlen = 0
        BY <3>1 DEF Zeroed, Listens, Gone
      <4> QED BY <4>1, Zeros DEF Bounded
    <3>2. CASE Mid(conn[n])
      BY <3>2 DEF Mid, Traffics
    <3> QED BY <1>1, <3>1, <3>2 DEF IInv, Safe
  <2> QED BY <1>1, <2>1 DEF IInv, TypeOK, Bounded
<1> QED BY <1>1, Inductive, PTL

\* Of the watchers that were set up for its descriptor, and of the timers, none
\* outlives the connection it points to; a watcher that was started before it was
\* set up may, and only an accepted connection without SSL has one (mg_close_conn,
\* and mg_accept_conn for the exception).
THEOREM FreedIsInert == Spec => []NothingFiresAfterFree
<1>1. ASSUME IInv PROVE NothingFiresAfterFree
  <2> SUFFICES ASSUME NEW n \in Conn, conn[n].life = "freed"
               PROVE  Gone(conn[n])
    BY DEF NothingFiresAfterFree, Gone
  <2> QED BY <1>1, ZeroedFields DEF IInv, Safe, Mid, Traffics, Listens
<1> QED BY <1>1, Inductive, PTL

\* Events reach the application in a lawful order.
THEOREM EventsInOrder == Spec => []EventOrder
<1>1. ASSUME IInv PROVE EventOrder
  <2> SUFFICES ASSUME NEW n \in Conn
               PROVE  LET c == conn[n] IN
                      /\ {"EARLY_DATA", "AFTER_CLOSE"} \cap c.seen = {}
                      /\ c.life = "freed" <=> "CLOSE" \in c.seen
                      /\ "CONNECT_AGAIN" \in c.seen => c.ssl
    BY DEF EventOrder
  <2>1. Zeroed.seen = {} /\ Zeroed.life = "none"
    BY DEF Zeroed
  <2> QED BY <1>1, <2>1 DEF IInv, Safe, Mid, Traffics, Listens, Gone
<1> QED BY <1>1, Inductive, PTL

\* The callback that reports a failed connect() also frees the connection.
THEOREM FailureIsFinal == Spec => []FailedIsGone
<1>1. ASSUME IInv PROVE FailedIsGone
  <2> SUFFICES ASSUME NEW n \in Conn, "CONNECT_FAILED" \in conn[n].seen
               PROVE  conn[n].life = "freed"
    BY DEF FailedIsGone
  <2>1. Zeroed.seen = {}
    BY DEF Zeroed
  <2> QED BY <1>1, <2>1 DEF IInv, Safe, Listens, Gone
<1> QED BY <1>1, Inductive, PTL

\* Nothing of the application's protocol runs before the SSL handshake.
THEOREM HandshakeFirst == Spec => []SslBeforeData
<1>1. ASSUME IInv PROVE SslBeforeData
  <2> SUFFICES ASSUME NEW n \in Conn, conn[n].life = "live", conn[n].ssl,
                      conn[n].rlen > 0 \/ Up(conn[n])
               PROVE  "SSL_HANDSHAKE_DONE" \in conn[n].flags
    BY DEF SslBeforeData, Up
  <2>1. Safe(conn[n])
    BY <1>1 DEF IInv
  <2>2. ~Listens(conn[n])
    BY Zeros DEF Listens, Up
  <2>3. Mid(conn[n])
    BY <2>1, <2>2, ZeroedFields DEF Safe, Gone
  <2> QED BY <2>3 DEF Mid
<1> QED BY <1>1, Inductive, PTL

\* Queued data always has a started write watcher, except on accepted
\* connections whose ACCEPT handler sent.
THEOREM DataIsWatched == Spec => []OnlyAcceptSendStalls
<1>1. ASSUME IInv PROVE OnlyAcceptSendStalls
  <2> SUFFICES ASSUME NEW n \in Conn
               PROVE  LET c == conn[n] IN
                      /\ c.life = "live" => Flushable(c)
                      /\ c.stray => c.kind = "accepted" /\ ~c.ssl
    BY DEF OnlyAcceptSendStalls, Flushable
  <2>1. Zeroed.stray = FALSE /\ Zeroed.life = "none"
    BY DEF Zeroed
  <2>2. Listens(conn[n]) => Flushable(conn[n])
    BY Zeros DEF Listens, Flushable
  <2> QED BY <1>1, <2>1, <2>2 DEF IInv, Safe, Mid, Traffics, Listens, Gone
<1> QED BY <1>1, Inductive, PTL

\* mg_mgr_free leaves no connection behind, as long as no CLOSE handler opens
\* a new one.
THEOREM MgrFreeClosesAll ==
  ASSUME ~Reconnects PROVE Spec => []AllClosedByMgrFree
<1>1. IInv => AllClosedByMgrFree
  BY DEF IInv, AllClosedByMgrFree
<1> QED BY <1>1, Inductive, PTL

-----------------------------------------------------------------------------
(* SocketIf implements ConnLife                                            *)
(*                                                                         *)
(* Safe says in which states a connection can be; what is left is that no  *)
(* function takes anything back: a connection stays of its kind, never     *)
(* unlearns what its application was told, and only goes from live to      *)
(* freed.  Again one lemma per function, now for any connection at all.    *)

Kept(c, d) == /\ d \in Connection /\ d.kind = c.kind
              /\ c.seen \subseteq d.seen /\ d.life \in {c.life, "freed"}

LEMMA KeptTransitive ==
  ASSUME NEW c, NEW d, NEW e, Kept(c, d), Kept(d, e)
  PROVE  Kept(c, e)
BY DEF Kept

LEMMA MgCallKept ==
  ASSUME NEW c \in Connection, NEW ev \in Events, NEW d \in MgCall(c, ev)
  PROVE  Kept(c, d)
<1>1. d \in Connection /\ HandlerTook(Told(c, ev), d)
  BY MgCallFrame
<1> QED BY <1>1, ToldFields DEF HandlerTook, Kept

\* A change of these fields only is no change for ConnLife.
LEMMA ChangesKept ==
  ASSUME NEW c \in Connection
  PROVE  /\ Kept(c, c) /\ Kept(c, Close(c))
         /\ Kept(c, [c EXCEPT !.flags = @ \cup {"SEND_AND_CLOSE"}])
         /\ Kept(c, [c EXCEPT !.flags = @ \cup {"SSL_HANDSHAKE_DONE"}])
         /\ Kept(c, [c EXCEPT !.err = TRUE])
         /\ \A k \in {"dead", "up", "refused"} : Kept(c, [c EXCEPT !.net = k])
         /\ \A a \in 0..(ConnectTimeout + 1) : Kept(c, [c EXCEPT !.age = a])
         /\ \A k \in 0..MaxSend : Kept(c, [c EXCEPT !.slen = k])
<1>1. Kept(c, c)
  BY DEF Kept
<1>2. Kept(c, Close(c))
  BY Zeros DEF Close, Connection, CloseFlags, Kept
<1>3. Kept(c, [c EXCEPT !.flags = @ \cup {"SEND_AND_CLOSE"}])
  BY Zeros DEF Connection, CloseFlags, Kept
<1>4. Kept(c, [c EXCEPT !.flags = @ \cup {"SSL_HANDSHAKE_DONE"}])
  BY DEF Connection, Flags, Kept
<1>5. Kept(c, [c EXCEPT !.err = TRUE])
  BY DEF Connection, Kept
<1>6. \A k \in {"dead", "up", "refused"} : Kept(c, [c EXCEPT !.net = k])
  BY DEF Connection, Kept
<1>7. \A a \in 0..(ConnectTimeout + 1) : Kept(c, [c EXCEPT !.age = a])
  BY DEF Connection, Kept
<1>8. \A k \in 0..MaxSend : Kept(c, [c EXCEPT !.slen = k])
  BY DEF Connection, Kept
<1> QED BY <1>1, <1>2, <1>3, <1>4, <1>5, <1>6, <1>7, <1>8

LEMMA MgIfConnectCbKept ==
  ASSUME NEW c \in Connection, NEW ok, NEW d \in MgIfConnectCb(c, ok)
  PROVE  Kept(c, d)
<1> DEFINE done == c.flags \ {"CONNECTING"}
           e == [c EXCEPT !.flags = done, !.age = 0]
           f == [c EXCEPT !.flags = done \cup {"CLOSE_IMMEDIATELY"}, !.age = 0]
<1>1. Kept(c, e) /\ Kept(c, f)
  BY Zeros DEF Connection, CloseFlags, Kept
<1>2. d \in MgCall(e, "CONNECT") \/ d \in MgCall(f, "CONNECT_FAILED")
  BY DEF MgIfConnectCb
<1> HIDE DEF e, f
<1> QED BY <1>1, <1>2, MgCallKept, KeptTransitive DEF Kept, Events

LEMMA MgSslBeginKept ==
  ASSUME NEW c \in Connection, NEW d \in MgSslBegin(c)
  PROVE  Kept(c, d)
<1> DEFINE done == [c EXCEPT !.flags = @ \cup {"SSL_HANDSHAKE_DONE"}]
           failed == [c EXCEPT !.err = TRUE]
<1>1. Kept(c, c) /\ Kept(c, done) /\ Kept(c, failed)
  BY ChangesKept
<1>2. \/ d = c
      \/ d \in MgCall(done, "ACCEPT")
      \/ d \in MgIfConnectCb(done, TRUE)
      \/ \E e \in {failed} \cup MgIfConnectCb(failed, FALSE) : d = Close(e)
  <2>1. d = c \/ d \in HandshakeDone(c) \/ \E e \in HandshakeFailed(c) : d = Close(e)
    BY DEF MgSslBegin
  <2> QED BY <2>1 DEF HandshakeDone, HandshakeFailed
<1> HIDE DEF done, failed
<1>3. CASE d \in MgCall(done, "ACCEPT") \/ d \in MgIfConnectCb(done, TRUE)
  <2>1. Kept(done, d)
    BY <1>1, <1>3, MgCallKept, MgIfConnectCbKept DEF Kept, Events
  <2> QED BY <1>1, <2>1, KeptTransitive
<1>4. CASE \E e \in {failed} \cup MgIfConnectCb(failed, FALSE) : d = Close(e)
  <2> PICK e \in {failed} \cup MgIfConnectCb(failed, FALSE) : d = Close(e)
    BY <1>4
  <2>1. Kept(failed, e)
    BY <1>1, ChangesKept, MgIfConnectCbKept DEF Kept
  <2>2. Kept(e, d)
    BY <2>1, ChangesKept DEF Kept
  <2> QED BY <1>1, <2>1, <2>2, KeptTransitive
<1> QED BY <1>1, <1>2, <1>3, <1>4

LEMMA ConnectStepKept ==
  ASSUME NEW c \in Connection, NEW fd, NEW d \in ConnectStep(c, fd)
  PROVE  Kept(c, d)
<1> DEFINE e == SoErrorRead(c)
<1>1. Kept(c, c) /\ Kept(c, e)
  <2>1. e = c \/ e = [c EXCEPT !.net = "dead"]
    BY DEF SoErrorRead, Connection
  <2> QED BY <2>1, ChangesKept
<1>2. \/ d = c
      \/ d \in MgSslBegin(c)
      \/ \E ok \in BOOLEAN : d \in MgIfConnectCb(c, ok) \cup MgIfConnectCb(e, ok)
  BY DEF ConnectStep
<1> HIDE DEF e
<1>3. CASE d \in MgSslBegin(c)
  BY <1>3, MgSslBeginKept
<1>4. CASE \E ok \in BOOLEAN : d \in MgIfConnectCb(c, ok) \cup MgIfConnectCb(e, ok)
  <2>1. Kept(c, d) \/ Kept(e, d)
    BY <1>1, <1>4, MgIfConnectCbKept DEF Kept
  <2> QED BY <1>1, <2>1, KeptTransitive
<1> QED BY <1>1, <1>2, <1>3, <1>4

LEMMA MgRecvCommonKept ==
  ASSUME NEW c \in Connection, NEW n \in Nat, NEW d \in MgRecvCommon(c, n)
  PROVE  Kept(c, d)
<1> DEFINE r == Least(c.rlen + n, MaxRecv + 1)
           e == [c EXCEPT !.rlen = r, !.age = 0]
<1>1. r \in 0..(MaxRecv + 1)
  BY NetCoreAssumption DEF Connection, Least
<1>2. d = c \/ d \in MgCall(e, "RECV")
  BY DEF MgRecvCommon
<1> HIDE DEF r
<1>3. Kept(c, c) /\ Kept(c, e)
  BY <1>1, Zeros DEF Connection, Kept
<1> HIDE DEF e
<1> QED BY <1>2, <1>3, MgCallKept, KeptTransitive DEF Kept, Events

LEMMA MgHandleTcpReadKept ==
  ASSUME NEW c \in Connection, NEW d \in MgHandleTcpRead(c)
  PROVE  Kept(c, d)
<1>1. ASSUME NEW a \in Connection, NEW b \in SslRecord(a) PROVE Kept(a, b)
  <2>1. b = a \/ b \in MgRecvCommon(a, 1)
    BY <1>1 DEF SslRecord
  <2> QED BY <1>1, <2>1, ChangesKept, MgRecvCommonKept
<1>2. CASE d \in PlainRead(c)
  <2>1. \/ d = c \/ d = Close(c) \/ d = [c EXCEPT !.flags = @ \cup {"SEND_AND_CLOSE"}]
        \/ \E n \in 1..(MaxRecv - c.rlen) : d \in MgRecvCommon(c, n)
    BY <1>2 DEF PlainRead
  <2>2. 1..(MaxRecv - c.rlen) \subseteq Nat
    BY NetCoreAssumption DEF Connection
  <2> QED BY <2>1, <2>2, ChangesKept, MgRecvCommonKept
<1>3. CASE d \in SslRead(c)
  <2> DEFINE one == SslRecord(c)
             two == UNION {SslRecord(e) : e \in one}
  <2>1. PICK e \in {c} \cup one \cup two : d = e \/ d = Close(e)
    BY <1>3 DEF SslRead
  <2>2. Kept(c, e)
    <3>1. CASE e = c
      BY <3>1, ChangesKept
    <3>2. CASE e \in one
      BY <1>1, <3>2
    <3>3. CASE e \in two
      <4>1. PICK a \in one : e \in SslRecord(a)
        BY <3>3
      <4>2. Kept(c, a)
        BY <1>1
      <4>3. Kept(a, e)
        BY <1>1, <4>1, <4>2 DEF Kept
      <4> QED BY <4>2, <4>3, KeptTransitive
    <3> QED BY <3>1, <3>2, <3>3
  <2>3. Kept(e, d)
    BY <2>1, <2>2, ChangesKept DEF Kept
  <2> QED BY <2>2, <2>3, KeptTransitive
<1>4. CASE d \in MgSslBegin(c)
  BY <1>4, MgSslBeginKept
<1> QED BY <1>2, <1>3, <1>4 DEF MgHandleTcpRead

LEMMA MgWriteToSocketKept ==
  ASSUME NEW c \in Connection, NEW d \in MgWriteToSocket(c)
  PROVE  Kept(c, d)
<1>1. \/ d = c \/ d = Close(c) \/ d \in MgSslBegin(c)
      \/ \E left \in 0..(c.slen - 1) : d \in MgCall([c EXCEPT !.slen = left], "SEND")
  BY DEF MgWriteToSocket
<1>2. ASSUME NEW left \in 0..(c.slen - 1), d \in MgCall([c EXCEPT !.slen = left], "SEND")
      PROVE  Kept(c, d)
  <2> DEFINE e == [c EXCEPT !.slen = left]
  <2>1. left \in 0..MaxSend
    BY NetCoreAssumption DEF Connection
  <2>2. Kept(c, e)
    BY <2>1, ChangesKept
  <2>3. d \in MgCall(e, "SEND")
    BY <1>2
  <2> HIDE DEF e
  <2> QED BY <2>2, <2>3, MgCallKept, KeptTransitive DEF Kept, Events
<1> QED BY <1>1, <1>2, ChangesKept, MgSslBeginKept

LEMMA MgMgrHandleConnKept ==
  ASSUME NEW c \in Connection, NEW fd, NEW d \in MgMgrHandleConn(c, fd)
  PROVE  Kept(c, d)
<1>1. PICK e \in ConnectStep(c, fd) : \E f \in ReadStep(e, fd) : d \in WriteStep(f, fd)
  BY DEF MgMgrHandleConn
<1>2. PICK f \in ReadStep(e, fd) : d \in WriteStep(f, fd)
  BY <1>1
<1>3. Kept(c, e)
  BY ConnectStepKept
<1>4. Kept(e, f)
  BY <1>2, <1>3, ChangesKept, MgHandleTcpReadKept DEF ReadStep, Kept
<1>5. Kept(f, d)
  BY <1>2, <1>4, ChangesKept, MgWriteToSocketKept DEF WriteStep, Kept
<1> QED BY <1>3, <1>4, <1>5, KeptTransitive

LEMMA MgCloseConnKept ==
  ASSUME NEW c \in Connection, NEW d \in MgCloseConn(c)
  PROVE  Kept(c, d)
<1> DEFINE s == DestroySock(c)
<1>1. Kept(c, s)
  <2>1. CASE ~c.sock
    BY <2>1, ChangesKept DEF DestroySock
  <2>2. CASE c.sock
    <3> DEFINE r == IF c.wr = "active" THEN "idle" ELSE c.wr
               w == IF c.ww = "active" THEN "idle" ELSE c.ww
    <3>1. s = [c EXCEPT !.sock = FALSE, !.net = "none", !.wr = r, !.ww = w]
      BY <2>2 DEF DestroySock, Connection
    <3>2. r \in WatcherState /\ w \in WatcherState
      BY DEF Connection, WatcherState
    <3> HIDE DEF r, w, s
    <3> QED BY <3>1, <3>2 DEF Connection, Kept
  <2> QED BY <2>1, <2>2
<1>2. PICK e \in MgCall(s, "CLOSE") :
        d = [e EXCEPT !.life  = "freed",
                      !.timer = IF "LISTENING" \in e.flags THEN @ ELSE FALSE,
                      !.flags = {}, !.slen = 0, !.rlen = 0, !.age = 0, !.err = FALSE]
  BY ZenonT(40) DEF MgCloseConn
<1> HIDE DEF s
<1>3. Kept(s, e) /\ e \in Connection
  BY <1>1, MgCallKept DEF Kept, Events
<1>4. d \in Connection /\ d.kind = e.kind /\ d.seen = e.seen /\ d.life = "freed"
  BY ZenonT(40), <1>2, <1>3, Zeros DEF Connection
<1>5. Kept(e, d)
  BY <1>4 DEF Kept
<1> QED BY <1>1, <1>3, <1>5, KeptTransitive

LEMMA CloseIfDueKept ==
  ASSUME NEW c \in Connection, NEW d \in CloseIfDue(c)
  PROVE  Kept(c, d)
BY ChangesKept, MgCloseConnKept DEF CloseIfDue

LEMMA EvReadCbKept ==
  ASSUME NEW c \in Connection, NEW d \in EvReadCb(c)
  PROVE  Kept(c, d)
<1>1. PICK e \in MgMgrHandleConn(c, {"R"}) : d \in CloseIfDue(e)
  BY DEF EvReadCb
<1>2. Kept(c, e)
  BY MgMgrHandleConnKept
<1>3. Kept(e, d)
  BY <1>1, <1>2, CloseIfDueKept DEF Kept
<1> QED BY <1>2, <1>3, KeptTransitive

LEMMA EvWriteCbKept ==
  ASSUME NEW c \in Connection, NEW d \in EvWriteCb(c)
  PROVE  Kept(c, d)
<1>1. PICK f \in UNION {CloseIfDue(e) : e \in MgMgrHandleConn(c, {"W"})} :
        d = StopIfDrained(f)
  BY DEF EvWriteCb
<1>2. PICK e \in MgMgrHandleConn(c, {"W"}) : f \in CloseIfDue(e)
  OBVIOUS
<1>3. Kept(c, e)
  BY MgMgrHandleConnKept
<1>4. Kept(e, f)
  BY <1>2, <1>3, CloseIfDueKept DEF Kept
<1>5. Kept(f, d)
  <2>1. d = f \/ d = [f EXCEPT !.ww = "idle"]
    BY <1>1 DEF StopIfDrained
  <2> QED BY <1>4, <2>1 DEF Kept, Connection, WatcherState
<1> QED BY <1>3, <1>4, <1>5, KeptTransitive

LEMMA MgConnectionTimerCbKept ==
  ASSUME NEW c \in Connection, NEW d \in MgConnectionTimerCb(c)
  PROVE  Kept(c, d)
<1> DEFINE a == Aged(c)
<1>1. PICK f \in UNION {GiveUpConnect(e) : e \in MgIfPoll(a)} : d \in CloseIfDue(f)
  BY DEF MgConnectionTimerCb
<1>2. PICK e \in MgIfPoll(a) : f \in GiveUpConnect(e)
  OBVIOUS
<1>3. Kept(c, a)
  <2>1. Least(c.age + 1, ConnectTimeout + 1) \in 0..(ConnectTimeout + 1)
    BY NetCoreAssumption DEF Connection, Least
  <2>2. a = c \/ a = [c EXCEPT !.age = Least(c.age + 1, ConnectTimeout + 1)]
    BY DEF Aged
  <2> QED BY ZenonT(40), <2>1, <2>2, ChangesKept
<1> HIDE DEF a
<1>4. Kept(a, e)
  BY <1>3, ChangesKept, MgCallKept DEF MgIfPoll, Kept, Events
<1>5. Kept(e, f)
  BY <1>2, <1>4, ChangesKept, MgIfConnectCbKept DEF GiveUpConnect, Kept
<1>6. Kept(f, d)
  BY <1>1, <1>5, CloseIfDueKept DEF Kept
<1> QED BY <1>3, <1>4, <1>5, <1>6, KeptTransitive

LEMMA MgSendKept ==
  ASSUME NEW c \in Connection
  PROVE  Kept(c, MgSend(c))
<1> DEFINE d == MgSend(c)
<1>1. d \in Connection
  BY Zenon, MgSendType
<1>2. \/ d = [c EXCEPT !.slen = d.slen, !.age = 0]
      \/ d = [c EXCEPT !.slen = d.slen, !.age = 0, !.stray = TRUE]
      \/ d = [c EXCEPT !.slen = d.slen, !.age = 0, !.ww = "active"]
  BY ZenonT(30), MgSendType
<1> HIDE DEF d
<1>3. d.life = c.life /\ d.kind = c.kind /\ d.seen = c.seen
  <2>1. CASE d = [c EXCEPT !.slen = d.slen, !.age = 0]
    BY <2>1 DEF Connection
  <2>2. CASE d = [c EXCEPT !.slen = d.slen, !.age = 0, !.stray = TRUE]
    BY <2>2 DEF Connection
  <2>3. CASE d = [c EXCEPT !.slen = d.slen, !.age = 0, !.ww = "active"]
    BY <2>3 DEF Connection
  <2> QED BY <1>2, <2>1, <2>2, <2>3
<1> QED BY <1>1, <1>3 DEF Kept, d

\* What one step may do to a connection: anything before it exists, nothing
\* after it was freed, and in between only what Kept allows.
Evolves(c, d) == \/ d = c
                 \/ c.life = "none"
                 \/ c.life = "live" /\ Kept(c, d)

\* One callback on one connection.
LEMMA BecomeEvolves ==
  ASSUME IInv, NEW n \in Conn, NEW outcomes, Become(n, outcomes),
         \A d \in outcomes : Evolves(conn[n], d)
  PROVE  \A m \in Conn : Evolves(conn[m], conn'[m])
<1>1. PICK d \in outcomes : conn' = [conn EXCEPT ![n] = d]
  BY DEF Become
<1> QED BY <1>1 DEF IInv, Evolves

LEMMA FinalStatesEvolve ==
  ASSUME IInv, NEW n \in Conn, NEW d \in FinalStates(n)
  PROVE  Evolves(conn[n], d)
<1> DEFINE c == conn[n]
<1>1. c \in Connection
  BY DEF IInv
<1>2. CASE c.life = "live"
  <2>1. PICK e \in LastPoll(c) : d \in MgCloseConn(e)
    BY <1>2 DEF FinalStates
  <2>2. Kept(c, e)
    BY <1>1, <2>1, ChangesKept, MgMgrHandleConnKept DEF LastPoll
  <2>3. Kept(e, d)
    BY <2>1, <2>2, MgCloseConnKept DEF Kept
  <2> QED BY <1>2, <2>2, <2>3, KeptTransitive DEF Evolves
<1>3. CASE c.life \notin {"live", "none"}
  <2>1. d = c
    BY <1>3 DEF FinalStates
  <2> QED BY <2>1 DEF Evolves
<1> QED BY <1>2, <1>3 DEF Evolves

LEMMA StepEvolves ==
  ASSUME IInv, [Next]_vars
  PROVE  \A m \in Conn : Evolves(conn[m], conn'[m])
<1>1. CASE UNCHANGED vars \/ Stopped
  BY <1>1 DEF vars, Stopped, Evolves
<1>2. CASE MgrFree
  <2>1. \A n \in Conn : conn'[n] \in FinalStates(n)
    BY <1>2 DEF MgrFree
  <2> QED BY <2>1, FinalStatesEvolve
<1>3. ASSUME NEW n \in Conn, Step(n)
      PROVE  \A m \in Conn : Evolves(conn[m], conn'[m])
  <2> DEFINE c == conn[n]
  <2>1. c \in Connection
    BY DEF IInv
  <2>2. CASE ReadCb(n)
    <3>1. c.life = "live" /\ Become(n, EvReadCb(c))
      BY <2>2 DEF ReadCb, Traffic, Live
    <3>2. \A d \in EvReadCb(c) : Evolves(c, d)
      BY <2>1, <3>1, EvReadCbKept DEF Evolves
    <3> QED BY <3>1, <3>2, BecomeEvolves
  <2>3. CASE WriteCb(n)
    <3>1. c.life = "live" /\ Become(n, EvWriteCb(c))
      BY <2>3 DEF WriteCb, Traffic, Live
    <3>2. \A d \in EvWriteCb(c) : Evolves(c, d)
      BY <2>1, <3>1, EvWriteCbKept DEF Evolves
    <3> QED BY <3>1, <3>2, BecomeEvolves
  <2>4. CASE TimerCb(n)
    <3>1. c.life = "live" /\ Become(n, MgConnectionTimerCb(c))
      BY <2>4 DEF TimerCb, Traffic, Live
    <3>2. \A d \in MgConnectionTimerCb(c) : Evolves(c, d)
      BY <2>1, <3>1, MgConnectionTimerCbKept DEF Evolves
    <3> QED BY <3>1, <3>2, BecomeEvolves
  <2>5. CASE AcceptCb(n)
    <3>1. PICK k \in CloseIfDue(c) :
            \/ conn' = [conn EXCEPT ![n] = k]
            \/ \E m \in Conn : /\ conn[m].life = "none"
                               /\ \E d \in MgAcceptConn(c.ssl) :
                                    conn' = [conn EXCEPT ![n] = k, ![m] = d]
      BY <2>5 DEF AcceptCb, Unused
    <3>2. Evolves(c, k)
      <4>1. c.life = "live" /\ Kept(c, k)
        BY <2>1, <2>5, CloseIfDueKept DEF AcceptCb, Live
      <4> QED BY <4>1 DEF Evolves
    <3> HIDE DEF c
    <3>3. conn \in [Conn -> Connection] /\ c = conn[n]
      BY DEF IInv, c
    <3> QED BY <3>1, <3>2, <3>3 DEF Evolves
  <2>6. CASE Connect(n) \/ Bind(n)
    <3>1. c.life = "none" /\ \E outcomes : Become(n, outcomes)
      BY <2>6 DEF Connect, Bind, Unused
    <3> QED BY <3>1, BecomeEvolves DEF Evolves
  <2>7. CASE UserSend(n)
    <3>1. c.life = "live" /\ Become(n, {MgSend(c)})
      BY <2>7 DEF UserSend, Traffic, Live
    <3>2. Kept(c, MgSend(c))
      BY <2>1, MgSendKept
    <3> QED BY <3>1, <3>2, BecomeEvolves DEF Evolves
  <2>8. CASE UserClose(n)
    <3> DEFINE outcomes == {[c EXCEPT !.flags = @ \cup {f}] : f \in CloseFlags}
    <3>1. c.life = "live" /\ Become(n, outcomes)
      BY <2>8 DEF UserClose, Live
    <3>2. \A d \in outcomes : Kept(c, d)
      BY <2>1, ChangesKept DEF CloseFlags, Close
    <3> HIDE DEF outcomes
    <3> QED BY <3>1, <3>2, BecomeEvolves DEF Evolves
  <2>9. CASE NetworkAnswers(n)
    <3> DEFINE outcomes == {[c EXCEPT !.net = k] : k \in {"up", "refused"}}
    <3>1. c.life = "live" /\ Become(n, outcomes)
      BY <2>9 DEF NetworkAnswers, Live
    <3>2. \A d \in outcomes : Kept(c, d)
      BY <2>1, ChangesKept
    <3> HIDE DEF outcomes
    <3> QED BY <3>1, <3>2, BecomeEvolves DEF Evolves
  <2> QED BY <1>3, <2>2, <2>3, <2>4, <2>5, <2>6, <2>7, <2>8, <2>9 DEF Step
<1> QED BY <1>1, <1>2, <1>3 DEF Next

\* The map to ConnLife: a safe connection that evolves to a safe one makes a
\* move of its life there.
LEMMA LifeMove ==
  ASSUME NEW c, NEW d, Safe(c), Safe(d), Evolves(c, d)
  PROVE  /\ LifeState(d) \in Life!States /\ Announced(d) \subseteq Life!Announcements
         /\ LifeState(d) \in Life!Successors(LifeState(c))
         /\ Announced(c) \subseteq Announced(d)
         /\ Life!Knows(LifeState(d), Announced(d))
         /\ LifeState(d) = LifeState(c) => Announced(d) = Announced(c)
<1> DEFINE Held(e) ==
      \/ LifeState(e) = "absent" /\ e.life = "none" /\ Announced(e) = {}
      \/ /\ LifeState(e) = "listening" /\ e.life = "live" /\ e.kind = "listener"
         /\ Announced(e) = {}
      \/ /\ LifeState(e) = "opening" /\ e.life = "live" /\ e.kind # "listener"
         /\ Announced(e) = {} /\ ~Up(e)
      \/ /\ LifeState(e) = "open" /\ e.life = "live" /\ e.kind # "listener"
         /\ Announced(e) = {"OPENED"} /\ Up(e)
      \/ LifeState(e) = "gone" /\ e.life = "freed" /\ "CLOSED" \in Announced(e)
<1>1. ASSUME NEW e, Safe(e) PROVE Held(e)
  <2>1. CASE e = Zeroed
    <3>1. e.life = "none" /\ e.seen = {}
      BY <2>1 DEF Zeroed
    <3> QED BY <3>1 DEF LifeState, Announced
  <2>2. CASE Mid(e) /\ "CONNECT_FAILED" \notin e.seen
    BY <2>2 DEF Mid, Traffics, LifeState, Announced, Up
  <2>3. CASE Listens(e)
    BY <2>3 DEF Listens, LifeState, Announced
  <2>4. CASE Gone(e)
    BY <2>4 DEF Gone, LifeState, Announced
  <2> QED BY <1>1, <2>1, <2>2, <2>3, <2>4 DEF Safe
<1>2. Held(c) /\ Held(d)
  BY <1>1
<1>3. /\ LifeState(d) \in Life!States /\ Announced(d) \subseteq Life!Announcements
      /\ Life!Knows(LifeState(d), Announced(d))
  BY <1>2 DEF Life!States, Life!Announcements, Life!Knows, Announced
<1>4. CASE d = c
  BY <1>2, <1>3, <1>4 DEF Life!Successors
<1>5. CASE c.life = "none"
  <2>1. LifeState(c) = "absent" /\ Announced(c) = {}
    BY <1>2, <1>5
  <2>2. LifeState(d) = "absent" => Announced(d) = {}
    BY <1>2
  <2> QED BY <1>3, <2>1, <2>2 DEF Life!Successors
<1>6. CASE c.life = "live" /\ Kept(c, d)
  <2>1. d.kind = c.kind /\ d.life \in {"live", "freed"} /\ (Up(c) => Up(d))
    BY <1>6 DEF Kept, Up
  <2>2. Announced(c) \subseteq Announced(d)
    BY <1>6 DEF Kept, Announced
  <2>3. LifeState(d) \in Life!Successors(LifeState(c))
    BY <1>2, <1>6, <2>1 DEF Life!Successors
  <2>4. LifeState(d) = LifeState(c) => Announced(d) = Announced(c)
    BY <1>2, <1>6
  <2> QED BY <1>3, <2>2, <2>3, <2>4
<1> QED BY <1>4, <1>5, <1>6 DEF Evolves

\* Whatever happens to sockets, watchers, timers and buffers, an application
\* sees each connection live one of the lives of ConnLife.
THEOREM Implements == Spec => ImplementsConnLife
<1>1. Init => Life!Init
  <2> SUFFICES ASSUME Init PROVE Life!Init
    OBVIOUS
  <2>1. \A n \in Conn : LifeState(conn[n]) = "absent" /\ Announced(conn[n]) = {}
    BY DEF Init, Zeroed, LifeState, Announced
  <2> QED BY <2>1 DEF Life!Init
<1>2. IInv /\ IInv' /\ [Next]_vars => [Life!Next]_Life!vars
  <2> SUFFICES ASSUME IInv, IInv', [Next]_vars PROVE Life!Next
    OBVIOUS
  <2>1. ASSUME NEW n \in Conn
        PROVE  /\ LifeState(conn'[n]) \in Life!States
               /\ Announced(conn'[n]) \subseteq Life!Announcements
               /\ Life!Move(n)
    <3>1. Safe(conn[n]) /\ Safe(conn'[n]) /\ Evolves(conn[n], conn'[n])
      BY StepEvolves DEF IInv
    <3> QED BY <3>1, LifeMove DEF Life!Move
  <2> QED BY <2>1 DEF Life!Next
<1> QED BY <1>1, <1>2, Inductive, PTL DEF Spec, ImplementsConnLife, Life!Spec
=============================================================================
