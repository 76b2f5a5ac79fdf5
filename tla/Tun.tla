--------------------------------- MODULE Tun ---------------------------------
(***************************************************************************)
(* The tunnel (tun.c, net_if_tun.c): a listener whose connections are      *)
(* streams multiplexed over one WebSocket connection to a dispatcher, made *)
(* again when it is lost by a connection that only has a timer.  MG_EV_    *)
(* TIMER comes from polls that call mg_if_timer (SimpleLink, lwIP); under  *)
(* libev nothing calls it.  A session is the number of the dispatcher      *)
(* connection.  Memory that is not there, or a call through NULL, ends a   *)
(* behaviour (wild).  mg_mgr_free is left out.                             *)
(***************************************************************************)
EXTENDS Naturals, Sequences, SequencesExt, FiniteSets

CONSTANTS MaxSessions, \* bounds the dispatcher connections
          MaxStreams,  \* bounds the stream ids
          MaxFrames    \* bounds the frames of a session

Sessions == 1..MaxSessions
Streams == 1..MaxStreams

VARIABLES
    client,   \* struct mg_tun_client; live is FALSE once it is freed, and iface->data NULL
    suppress, \* MG_F_TUN_DO_NOT_RECONNECT on the listener
    disps,    \* the dispatcher connections: life, closing, user_data
    tunnels,  \* the connections of the tunnel interface
    pipe,     \* frames on their way from the dispatcher
    sent,     \* history: bodies the dispatcher sent in this session, by stream
    frames,   \* history: how many frames it sent in this session
    wild

vars == <<client, suppress, disps, tunnels, pipe, sent, frames, wild>>

NoDisp == [life |-> "none", closing |-> FALSE, user |-> FALSE]
Used == {s \in Sessions : disps[s].life # "none"}
Flagged(T) == {[t EXCEPT !.closing = TRUE] : t \in T}
-----------------------------------------------------------------------------
(* mg_tun_bind_opt, mg_tun_create_client: the timer is due at once. *)

Init ==
    /\ client = [live |-> TRUE, disp |-> 0, last |-> 0, timer |-> TRUE, reconnect |-> "open"]
    /\ suppress \in BOOLEAN
    /\ disps = [s \in Sessions |-> NoDisp]
    /\ tunnels = {} /\ pipe = <<>> /\ wild = FALSE
    /\ sent = [i \in Streams |-> 0] /\ frames = 0

Suppress(on) ==
    /\ ~wild /\ client.live /\ suppress' = on
    /\ UNCHANGED <<client, disps, tunnels, pipe, sent, frames, wild>>
-----------------------------------------------------------------------------
(* mg_tun_reconnect_ev_handler.  A connection that is to be closed gets no     *)
(* MG_EV_TIMER; the timer is kept only when the handler sets it again.         *)

Timer ==
    LET s == Cardinality(Used) + 1
    IN  /\ ~wild /\ client.timer /\ client.reconnect = "open" /\ (client.live => s \in Sessions)
        /\ IF ~client.live THEN wild' = TRUE /\ UNCHANGED <<client, disps, pipe, sent, frames>>
           ELSE IF suppress THEN UNCHANGED <<client, disps, pipe, sent, frames, wild>>
           ELSE \* mg_tun_do_reconnect: mg_connect_ws_opt may refuse
                /\ \/ /\ disps' = [disps EXCEPT ![s] = [life |-> "open", closing |-> FALSE, user |-> TRUE]]
                      /\ client' = [client EXCEPT !.timer = FALSE, !.disp = s]
                      /\ pipe' = <<>> /\ sent' = [i \in Streams |-> 0] /\ frames' = 0
                   \/ client' = [client EXCEPT !.timer = FALSE] /\ UNCHANGED <<disps, pipe, sent, frames>>
                /\ UNCHANGED wild
        /\ UNCHANGED <<suppress, tunnels>>

ReconnectClose ==
    /\ ~wild /\ client.reconnect = "closing"
    /\ client' = [client EXCEPT !.reconnect = "gone"]
    /\ UNCHANGED <<suppress, disps, tunnels, pipe, sent, frames, wild>>
-----------------------------------------------------------------------------
(* The dispatcher (external): it opens streams in ascending order, from one in  *)
(* every session, and sends in any of those that it opened.                    *)

Opened == {i \in Streams : sent[i] > 0}

DispatcherSends(i, end) ==
    LET s == Cardinality(Used)
    IN  /\ ~wild /\ frames < MaxFrames
        /\ s > 0 /\ disps[s].life = "open"
        /\ \A j \in 1..(i - 1) : j \in Opened
        /\ pipe' = Append(pipe, [stream |-> i, body |-> sent[i] + 1, end |-> end])
        /\ sent' = [sent EXCEPT ![i] = @ + 1]
        /\ frames' = frames + 1
        /\ UNCHANGED <<client, suppress, disps, tunnels, wild>>

\* A slip in it: any stream may be opened, also one that was before.
FindConn_Slip(i) ==
    LET found == {t \in tunnels : t.stream = i}
    IN  IF found # {} THEN found
        ELSE {[stream |-> i, session |-> client.disp, closing |-> FALSE, got |-> <<>>]}

\* mg_tun_if_find_conn: the stream's connection, or a new one for a stream later
\* than all before.
FindConn(i) ==
    LET found == {t \in tunnels : t.stream = i}
    IN  IF found # {} THEN found
        ELSE IF i > client.last THEN {[stream |-> i, session |-> client.disp, closing |-> FALSE, got |-> <<>>]}
        ELSE {}

\* MG_EV_WEBSOCKET_FRAME.  mg_recv_common drops what comes for a connection that
\* is closing; MG_TUN_F_END_STREAM closes it here.
Frame ==
    LET s == Cardinality(Used)
        f == Head(pipe)
        tc == FindConn(f.stream)
    IN  /\ ~wild /\ pipe # <<>> /\ s > 0
        /\ disps[s].life = "open" /\ ~disps[s].closing
        /\ pipe' = Tail(pipe)
        /\ client' = [client EXCEPT !.last = IF tc # {} /\ tc \cap tunnels = {} THEN f.stream ELSE @]
        /\ tunnels' = (tunnels \ tc) \cup
                      {[t EXCEPT !.got = IF t.closing THEN @ ELSE Append(@, f.body)] : t \in {x \in tc : ~f.end}}
        /\ UNCHANGED <<suppress, disps, sent, frames, wild>>

\* MG_EV_CLOSE: all tunnels are told to close; the next connection is planned.
DispClose(s) ==
    /\ ~wild /\ disps[s].life = "open"
    /\ disps' = [disps EXCEPT ![s].life = "closed"]
    /\ pipe' = <<>>
    /\ IF ~disps[s].user THEN UNCHANGED <<client, tunnels>>
       ELSE /\ tunnels' = Flagged(tunnels)
            /\ client' = [client EXCEPT !.disp = 0, !.timer = TRUE]
    /\ UNCHANGED <<suppress, sent, frames, wild>>
-----------------------------------------------------------------------------
(* The connections of the tunnel.  mg_tun_if_tcp_send and mg_tun_if_destroy_    *)
(* conn go through iface->data to the client, and on to its dispatcher.        *)

TunnelSend(t) ==
    /\ ~wild
    /\ wild' = (~client.live \/ client.disp = 0)
    /\ UNCHANGED <<client, suppress, disps, tunnels, pipe, sent, frames>>

UserClose(t) ==
    /\ ~wild
    /\ tunnels' = (tunnels \ {t}) \cup Flagged({t})
    /\ UNCHANGED <<client, suppress, disps, pipe, sent, frames, wild>>

TunnelClose(t) ==
    /\ ~wild /\ t.closing
    /\ wild' = ~client.live
    /\ tunnels' = tunnels \ {t}
    /\ UNCHANGED <<client, suppress, disps, pipe, sent, frames>>

\* The listener: mg_tun_destroy_client.
ListenerClose ==
    /\ ~wild /\ client.live
    /\ disps' = [s \in Sessions |-> IF s = client.disp THEN [disps[s] EXCEPT !.closing = TRUE, !.user = FALSE]
                                    ELSE disps[s]]
    /\ client' = [client EXCEPT !.live = FALSE, !.reconnect = "closing"]
    /\ UNCHANGED <<suppress, tunnels, pipe, sent, frames, wild>>
-----------------------------------------------------------------------------
Next ==
    \/ Timer \/ ReconnectClose \/ Frame \/ ListenerClose
    \/ \E on \in BOOLEAN : Suppress(on)
    \/ \E i \in Streams, end \in BOOLEAN : DispatcherSends(i, end)
    \/ \E s \in Sessions : DispClose(s)
    \/ \E t \in tunnels : TunnelSend(t) \/ UserClose(t) \/ TunnelClose(t)

Spec == Init /\ [][Next]_vars
-----------------------------------------------------------------------------
(* Properties *)

TypeOK ==
    /\ client.disp \in 0..MaxSessions /\ client.last \in 0..MaxStreams
    /\ client.reconnect \in {"open", "closing", "gone"}
    /\ \A s \in Sessions : disps[s].life \in {"none", "open", "closed"}
    /\ \A t \in tunnels : t.stream \in Streams /\ t.session \in Sessions
    /\ Len(pipe) <= MaxFrames

\* There is one dispatcher connection at a time, the one the client writes to,
\* and a reconnect is planned only while there is none.
OneDispatcher ==
    LET open == {s \in Sessions : disps[s].life = "open"}
    IN  /\ Cardinality(open) <= 1
        /\ client.live => open = {client.disp} \ {0} /\ (client.timer => open = {})

UnderWay(i) == {k \in DOMAIN pipe : pipe[k].stream = i}

\* A stream is one connection; a connection that is not closing belongs to the
\* session of the present dispatcher, and has got the bodies that were sent on
\* its stream, in order, up to those still under way: nothing of an earlier
\* session or of another stream.
StreamsApart ==
    /\ \A t, u \in tunnels : t.stream = u.stream => t = u
    /\ client.live => \A t \in tunnels : ~t.closing =>
          /\ t.session = client.disp
          /\ t.got = [i \in 1..Len(t.got) |-> i]
          /\ {pipe[k].body : k \in UnderWay(t.stream)} = (Len(t.got) + 1)..sent[t.stream]
=============================================================================
