---------------------------- MODULE SimpleLinkIf ----------------------------
(***************************************************************************)
(* The SimpleLink interface (common/platforms/simplelink/sl_net_if.c and   *)
(* what it uses of sl_ssl_if.c): mg_sl_if_poll selects over all sockets,   *)
(* visits every connection of the list with what was ready at that time,   *)
(* and closes in a second pass; sl_restart_cb is called by the application *)
(* when the network processor has restarted and every socket is gone.      *)
(*                                                                         *)
(* A socket is a number; the processor hands out the lowest that is free.  *)
(* A UDP listener whose socket was refused may keep the (negative) code of *)
(* the refusal for one, written -1: the processor refuses the code in turn *)
(* (sl_RecvFrom, sl_Close), but SL_FD_SET makes the bit of some socket of  *)
(* it.  A UDP child has the socket of its listener, and goes on with the   *)
(* number when the listener is closed, whoever has it then: see Orphan.    *)
(***************************************************************************)
EXTENDS Integers, Sequences, SequencesExt, FiniteSetsExt

CONSTANTS Conn,      \* connections
          Udp, Ssl,  \* the values of "uses UDP" and "uses SSL" to consider
          MaxSock,   \* sockets are 1..MaxSock
          MaxBytes,  \* bounds recv_mbuf (it is recv_mbuf_limit) and send_mbuf
          MaxRestarts \* bounds the restarts of the processor

VARIABLES
    conn,      \* conn[c]: life; kind; udp; ssl; flags; sock, 0 if INVALID_SOCKET; lc,
               \* the set of its listener if it is a UDP child; err, "none", "EALREADY"
               \* or "error"; slen and rlen; seen, history: its events (of RECV, SEND
               \* and POLL only those before it was announced, as "EARLY")
    list,      \* mgr->active_connections
    todo,      \* what is left of the list in the pass of mg_sl_if_poll, or <<>>
    pass,      \* "idle", "visit" or "close"
    ready,     \* what sl_Select reported: a set of <<"R" or "W", socket>>
    open,      \* the processor's sockets
    spilled,   \* history: sl_restart_cb lost a socket whose SSL options failed
    restarts,  \* those so far
    wild       \* a socket was used that is not open

vars == <<conn, list, todo, pass, ready, open, spilled, restarts, wild>>

Unused == [life |-> "none", kind |-> "client", udp |-> FALSE, ssl |-> FALSE, flags |-> {}, sock |-> 0,
           lc |-> {}, err |-> "none", slen |-> 0, rlen |-> 0, seen |-> <<>>]
Free == (1..MaxSock) \ open
Lowest == Min(Free)

\* A slip in Closes: the children close the socket too.
Closes_Slip(d) == TRUE

\* mg_sl_if_destroy_conn
IsChild(d) == d.lc # {}
Closes(d) == ~IsChild(d)

\* Its listener was closed, and the socket with it.
Orphan(d) == \E l \in d.lc : conn[l].life # "live"
Misused(d) == d.sock > 0 /\ d.sock \notin open /\ ~Orphan(d)
Announced(d) == Range(d.seen) \cap {"ACCEPT", "CONNECT", "FAILED"} # {}
-----------------------------------------------------------------------------
(* mg_call: the handler may send and ask for a close. *)

LifeEvents == {"ACCEPT", "CONNECT", "FAILED", "CLOSE"}
Noted(d, ev) == IF ev \in LifeEvents THEN Append(d.seen, ev)
                ELSE IF Announced(d) \/ ev = "POLL" THEN d.seen ELSE Append(d.seen, "EARLY")
Called(d, ev) ==
    {[d EXCEPT !.seen = Noted(d, ev), !.slen = n, !.flags = @ \cup f] :
        n \in {d.slen, IF d.slen < MaxBytes THEN d.slen + 1 ELSE d.slen},
        f \in {{}, {"CLOSE_IMMEDIATELY"}, {"SEND_AND_CLOSE"}}}

\* A slip in it: MG_F_CONNECTING stays.
ConnectCb_Slip(d, ok) ==
    Called([d EXCEPT !.flags = @ \cup (IF ok THEN {} ELSE {"CLOSE_IMMEDIATELY"})],
           IF ok THEN "CONNECT" ELSE "FAILED")

\* mg_if_connect_cb
ConnectCb(d, ok) ==
    Called([d EXCEPT !.flags = (@ \ {"CONNECTING"}) \cup (IF ok THEN {} ELSE {"CLOSE_IMMEDIATELY"})],
           IF ok THEN "CONNECT" ELSE "FAILED")

\* mg_if_poll: not before the handshake of a connection with SSL.
PollCb(d) == IF d.ssl /\ "HANDSHAKE_DONE" \notin d.flags THEN {d} ELSE Called(d, "POLL")
-----------------------------------------------------------------------------
(* Opening *)

Listed(c, d) == /\ conn' = [conn EXCEPT ![c] = d]
                /\ list' = IF d.life = "live" THEN <<c>> \o list ELSE list

\* mg_connect_opt, mg_ssl_if_conn_init, mg_sl_if_connect_tcp, mg_sl_if_connect_udp:
\* without both of certificate and key conn_init fails; a failure of sl_Socket,
\* sl_set_ssl_opts or sl_Connect is only put in nc->err.
Connect(c) ==
    /\ ~wild /\ conn[c].life = "none"
    /\ \E udp \in Udp, ssl \in Ssl :
        LET new == [Unused EXCEPT !.life = "live", !.udp = udp, !.ssl = ssl, !.flags = {"CONNECTING"}]
            errs == IF udp THEN {"none"} ELSE {"none", "EALREADY", "error"}
        IN  /\ ~(udp /\ ssl)
            /\ \/ Listed(c, [new EXCEPT !.err = "error"]) /\ UNCHANGED open
               \/ ssl /\ Listed(c, [new EXCEPT !.life = "closed", !.seen = <<>>]) /\ UNCHANGED open
               \/ /\ Free # {} /\ open' = open \cup {Lowest}
                  /\ \E e \in errs : Listed(c, [new EXCEPT !.sock = Lowest, !.err = e])
    /\ UNCHANGED <<todo, pass, ready, spilled, restarts, wild>>

\* mg_bind_opt, mg_sl_if_listen_tcp, mg_sl_if_listen_udp, mg_open_listening_socket.
\* destroy_conn closes the socket when the SSL options are refused; listen_udp takes
\* every code but INVALID_SOCKET for a socket.
Bind(c) ==
    /\ ~wild /\ conn[c].life = "none"
    /\ \E udp \in Udp, ssl \in Ssl :
        LET new == [Unused EXCEPT !.life = "live", !.kind = "listener", !.udp = udp, !.ssl = ssl,
                                  !.flags = {"LISTENING"}]
        IN  /\ ~(udp /\ ssl)
            /\ \/ Listed(c, [new EXCEPT !.life = "closed"]) /\ UNCHANGED open
               \/ udp /\ Listed(c, [new EXCEPT !.sock = -1]) /\ UNCHANGED open
               \/ Free # {} /\ Listed(c, [new EXCEPT !.sock = Lowest]) /\ open' = open \cup {Lowest}
    /\ UNCHANGED <<todo, pass, ready, spilled, restarts, wild>>
-----------------------------------------------------------------------------
(* mg_sl_if_poll *)

\* The sets given to sl_Select; a code among the sockets is the bit of any.
ReadSet == {c \in Range(list) : conn[c].sock # 0 /\ conn[c].rlen < MaxBytes /\ ~IsChild(conn[c])}
WriteSet == {c \in Range(list) : conn[c].sock # 0 /\ ("CONNECTING" \in conn[c].flags \/ conn[c].slen > 0)}
Bits(cs) == IF \E c \in cs : conn[c].sock < 0 THEN 1..MaxSock ELSE {conn[c].sock : c \in cs}

Select ==
    /\ pass = "idle" /\ ~wild /\ list # <<>>
    /\ \E r \in SUBSET Bits(ReadSet), w \in SUBSET Bits(WriteSet) :
        ready' = ({"R"} \X r) \cup ({"W"} \X w)
    /\ wild' = \E c \in ReadSet \cup WriteSet : Misused(conn[c])
    /\ pass' = "visit" /\ todo' = list
    /\ UNCHANGED <<conn, list, open, spilled, restarts>>

\* SimpleLink does not report UDP sockets as writable.  sl_RecvFrom fails on a code.
CanRead(d) == d.sock > 0 /\ <<"R", d.sock>> \in ready /\ ~IsChild(d)
CanWrite(d) == d.sock # 0 /\ (<<"W", d.sock>> \in ready \/ (d.udp /\ d.slen > 0))

\* The MG_F_CONNECTING part: sl_Connect is called again for the real result.
Connecting(d) ==
    IF d.udp \/ d.err # "EALREADY" THEN ConnectCb(d, d.err = "none")
    ELSE IF ~CanWrite(d) THEN {d}
    ELSE ConnectCb([d EXCEPT !.err = "none", !.flags = IF d.ssl THEN @ \cup {"HANDSHAKE_DONE"} ELSE @], TRUE)
         \cup UNION {ConnectCb([d EXCEPT !.err = e], FALSE) : e \in {"error", "EALREADY"}}

\* mg_recv_common: the handler may eat what has come.
Received(d) == IF "CLOSE_IMMEDIATELY" \in d.flags THEN {d}
               ELSE UNION {Called([d EXCEPT !.rlen = n], "RECV") : n \in 0..MaxBytes}

\* mg_handle_tcp_read, mg_handle_udp_read: data, the end of the stream, nothing, or
\* an error.
Read(d) ==
    Received(d) \cup {d} \cup (IF d.udp THEN {} ELSE {[d EXCEPT !.flags = @ \cup {"SEND_AND_CLOSE"}],
                                          [d EXCEPT !.flags = @ \cup {"CLOSE_IMMEDIATELY"}]})

\* mg_write_to_socket
Write(d) == (UNION {Called([d EXCEPT !.slen = n], "SEND") : n \in 0..(d.slen - 1)})
            \cup {d, [d EXCEPT !.flags = @ \cup {"CLOSE_IMMEDIATELY"}]}

\* mg_mgr_handle_conn for a connection that is not a listener.
HandleConn(d) ==
    IF "CONNECTING" \in d.flags
    THEN UNION {IF "CLOSE_IMMEDIATELY" \in e.flags THEN {e} ELSE PollCb(e) : e \in Connecting(d)}
    ELSE LET read == IF CanRead(d) THEN Read(d) ELSE {d}
             Rest(e) == IF "CLOSE_IMMEDIATELY" \in e.flags THEN {e}
                        ELSE IF CanWrite(d) THEN (IF e.slen > 0 THEN Write(e) ELSE {e})
                        ELSE IF CanRead(d) THEN {e} ELSE PollCb(e)
         IN  UNION {Rest(e) : e \in read}

Visit ==
    /\ pass = "visit" /\ ~wild /\ todo # <<>> /\ conn[todo[1]].kind # "listener"
    /\ \E d \in HandleConn(conn[todo[1]]) : conn' = [conn EXCEPT ![todo[1]] = d]
    /\ wild' = Misused(conn[todo[1]])
    /\ todo' = Tail(todo)
    /\ UNCHANGED <<list, pass, ready, open, spilled, restarts>>

\* mg_accept_conn, mg_if_accept_new_conn
Accept(l) ==
    /\ ~l.udp /\ Free # {} /\ open' = open \cup {Lowest}
    /\ \E c \in Conn : /\ conn[c].life = "none"
                       /\ \E d \in Called([Unused EXCEPT !.life = "live", !.kind = "accepted", !.ssl = l.ssl, !.sock = Lowest,
                                     !.flags = IF l.ssl THEN {"HANDSHAKE_DONE"} ELSE {}], "ACCEPT") : Listed(c, d)

\* mg_handle_udp_read, mg_if_recv_udp_cb: the datagram of a known peer, or of a new
\* one, whose child has SEND_AND_CLOSE unless the handler takes it away.
Datagram(l) ==
    /\ conn[l].udp /\ UNCHANGED open
    /\ \/ \E c \in Range(list) : /\ conn[c].lc = {l}
                                 /\ \E d \in Received(conn[c]) : conn' = [conn EXCEPT ![c] = d]
                                 /\ UNCHANGED list
       \/ \E c \in Conn, f \in {{}, {"SEND_AND_CLOSE"}} :
              /\ conn[c].life = "none"
              /\ \E d \in Called([Unused EXCEPT !.life = "live", !.kind = "accepted", !.udp = TRUE, !.flags = f,
                                                 !.sock = conn[l].sock, !.lc = {l}], "ACCEPT") :
                    \E e \in Received(d) : Listed(c, e)

VisitListener ==
    /\ pass = "visit" /\ ~wild /\ todo # <<>> /\ conn[todo[1]].kind = "listener"
    /\ \/ UNCHANGED <<conn, list, open>>
       \/ CanRead(conn[todo[1]]) /\ (Accept(conn[todo[1]]) \/ Datagram(todo[1]))
    /\ wild' = Misused(conn[todo[1]])
    /\ todo' = Tail(todo)
    /\ UNCHANGED <<pass, ready, spilled, restarts>>

EndOfPass ==
    /\ pass \in {"visit", "close"} /\ todo = <<>> /\ ~wild
    /\ IF pass = "visit" THEN pass' = "close" /\ todo' = list ELSE pass' = "idle" /\ todo' = <<>>
    /\ ready' = {}
    /\ UNCHANGED <<conn, list, open, spilled, restarts, wild>>

Due(d) == "CLOSE_IMMEDIATELY" \in d.flags \/ (d.slen = 0 /\ "SEND_AND_CLOSE" \in d.flags)

\* The second pass; mg_close_conn and mg_sl_if_destroy_conn.
CloseOrNot ==
    /\ pass = "close" /\ ~wild /\ todo # <<>>
    /\ LET c == todo[1]
       IN  IF Due(conn[c])
           THEN /\ conn' = [conn EXCEPT ![c].life = "closed", ![c].sock = 0, ![c].seen = Append(@, "CLOSE")]
                /\ \E i \in DOMAIN list : list[i] = c /\ list' = RemoveAt(list, i)
                /\ open' = IF Closes(conn[c]) THEN open \ {conn[c].sock} ELSE open
                /\ wild' = Misused(conn[c])
           ELSE UNCHANGED <<conn, list, open, wild>>
    /\ todo' = Tail(todo)
    /\ UNCHANGED <<pass, ready, spilled, restarts>>
-----------------------------------------------------------------------------
(* At any time: a call in a handler counts as the step after that turn *)

UserClose(c) ==
    /\ ~wild /\ conn[c].life = "live"
    /\ conn' = [conn EXCEPT ![c].flags = @ \cup {"CLOSE_IMMEDIATELY"}]
    /\ UNCHANGED <<list, todo, pass, ready, open, spilled, restarts, wild>>

\* The processor's restart and sl_restart_cb.  A listener gets a new socket, or none,
\* or a code (UDP); when only its SSL options are refused the socket stays open and is
\* forgotten.
Outcome == {"listens", "refused", "options", "code"}
SlRestart ==
    /\ ~wild /\ restarts < MaxRestarts
    /\ restarts' = restarts + 1
    /\ \E how \in [Conn -> Outcome] :
        LET had == {c \in Range(list) : conn[c].sock # 0}
            again == {c \in had : conn[c].kind = "listener" /\ how[c] \in {"listens", "options"}}
            lasting == {c \in again : how[c] = "listens"}
        IN  \E number \in [again -> 1..MaxSock] :
            /\ IsInjective(number)
            /\ \A c \in Conn : how[c] = "options" => c \in again /\ conn[c].ssl
            /\ \A c \in Conn : how[c] = "code" => c \in had /\ conn[c].kind = "listener" /\ conn[c].udp
            /\ conn' = [c \in Conn |->
                           IF c \notin had THEN conn[c]
                           ELSE IF c \in lasting THEN [conn[c] EXCEPT !.sock = number[c]]
                           ELSE IF how[c] = "code" THEN [conn[c] EXCEPT !.sock = -1]
                           ELSE [conn[c] EXCEPT !.sock = 0, !.flags = @ \cup {"CLOSE_IMMEDIATELY"}]]
            /\ open' = {number[c] : c \in again}
            /\ spilled' = (again # lasting)
    /\ UNCHANGED <<list, todo, pass, ready, wild>>
-----------------------------------------------------------------------------
Init ==
    /\ conn = [c \in Conn |-> Unused] /\ list = <<>> /\ todo = <<>> /\ pass = "idle" /\ ready = {}
    /\ open = {} /\ spilled = FALSE /\ restarts = 0 /\ wild = FALSE

Next == \/ \E c \in Conn : Connect(c) \/ Bind(c) \/ UserClose(c)
        \/ Select \/ Visit \/ VisitListener \/ EndOfPass \/ CloseOrNot \/ SlRestart

Spec == Init /\ [][Next]_vars
-----------------------------------------------------------------------------
(* Properties *)

TypeOK ==
    /\ open \subseteq 1..MaxSock /\ pass \in {"idle", "visit", "close"}
    /\ \A c \in Conn : conn[c].rlen \in 0..MaxBytes /\ conn[c].slen \in 0..MaxBytes
                       /\ (conn[c].life = "live" <=> c \in Range(list))

\* No socket is used that is not open, also after a restart at any point of a pass.
\* Every open socket has one owner: none is lost (but for a restart that fails half
\* way through a listener), and none is shared, but that a UDP child has the one its
\* listener has now.  Not said of a child whose listener is gone, and a UDP listener
\* may have a code for a socket (mg_sl_if_listen_udp).
SocketsOwned ==
    LET owners == {c \in Range(list) : ~IsChild(conn[c])}
    IN  /\ ~wild
        /\ \A c, d \in owners : conn[c].sock = conn[d].sock /\ conn[c].sock > 0 => c = d
        /\ \A c \in owners : conn[c].sock > 0 => conn[c].sock \in open
        /\ \A c \in owners : conn[c].sock < 0 => conn[c].kind = "listener" /\ conn[c].udp
        /\ \A c \in Range(list) : \A l \in conn[c].lc :
              conn[l].life = "live" /\ conn[c].sock # 0 => conn[c].sock = conn[l].sock
        /\ ~spilled => open \subseteq {conn[c].sock : c \in owners}

\* A client hears once of its connect(), with the result it had, before any
\* data and whatever the order of its passes; a server likewise of ACCEPT;
\* CLOSE comes last.
AnnouncedOnce ==
    \A c \in Conn :
        LET seen == conn[c].seen
        IN  /\ "EARLY" \notin Range(seen)
            /\ \A i \in DOMAIN seen : seen[i] = "CLOSE" => i = Len(seen) /\ conn[c].life = "closed"
            /\ \A i, j \in DOMAIN seen : "CLOSE" \notin {seen[i], seen[j]} => i = j
            /\ conn[c].err = "error" => "CONNECT" \notin Range(seen)
            /\ conn[c].life = "live" /\ conn[c].kind = "client" =>
                  ("CONNECTING" \in conn[c].flags <=> ~Announced(conn[c]))
=============================================================================
