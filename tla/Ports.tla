-------------------------------- MODULE Ports -------------------------------
(***************************************************************************)
(* The components beside the Lua binding that have no sockets of the host: *)
(* the lwIP and the SimpleLink interface, the files of the latter, the SSL *)
(* configurations, the tunnel and SNTP, each with variables of its own.    *)
(* Each runs by itself: system says which, and the properties state what   *)
(* is true of each while it runs.                                          *)
(***************************************************************************)
EXTENDS LuaBinding, Integers, Sequences, FiniteSets

CONSTANTS LwipConns, LwipBuilds,              \* LwipIf
          SlConns, MaxSock, MaxBytes, MaxRestarts,  \* SimpleLinkIf
          SlNames, SlPaths, HintSizes,        \* SlFs
          MaxOpen, MaxSize, MaxOpens, MaxHints,
          SslConns, Settings,                 \* SslContext
          MaxSessions, MaxStreams, MaxFrames, \* Tun
          Datagrams, MaxReplies               \* Sntp

ASSUME PortsAssumption ==
    /\ "NULL" \notin LwipConns
    /\ LwipBuilds \subseteq [conns : SUBSET LwipConns, ssl : SUBSET LwipConns, queueLen : Nat,
                             sendBuf : Nat, maxBytes : Nat]
    /\ IsFiniteSet(SlConns) /\ MaxSock \in Nat /\ MaxBytes \in Nat /\ MaxRestarts \in Nat
    /\ <<>> \notin SlNames /\ HintSizes \subseteq Nat
    /\ MaxOpen \in Nat /\ MaxSize \in Nat /\ MaxOpens \in Nat /\ MaxHints \in Nat
    /\ IsFiniteSet(SslConns) /\ "NULL" \notin SslConns
    /\ Settings \subseteq [identity : Seq(Nat), key : Seq(Nat)]
    /\ MaxSessions \in Nat /\ MaxStreams \in Nat /\ MaxFrames \in Nat

VARIABLES system, conn, queue, hand, turn, todo, dying, lost, raced, build, list, pass, ready,
          open, spilled, restarts, fds, hints, disk, handles, opened, given, reads, library,
          refs, asked, orphaned, client, suppress, disps, tunnels, pipe, sent, frames, timers,
          life, timer, count, failed, requests, replies, heard, outcomes, quit

LW == INSTANCE LwipIf WITH Conn <- LwipConns, Builds <- LwipBuilds
SL == INSTANCE SimpleLinkIf WITH Conn <- SlConns, Udp <- BOOLEAN, Ssl <- BOOLEAN,
              MaxSock <- MaxSock, MaxBytes <- MaxBytes, MaxRestarts <- MaxRestarts
SF == INSTANCE SlFs WITH Names <- SlNames, Paths <- SlPaths
SC == INSTANCE SslContext WITH Conn <- SslConns
TN == INSTANCE Tun
SN == INSTANCE Sntp
-----------------------------------------------------------------------------
(* Properties: what they state is said in the modules of the components.       *)

\* lwip: nothing that came is forgotten, and a connection's events are in order
\* (mg_lwip_post_signal, mg_lwip_if_poll).
LwipSignals == system = "lwip" => LW!TypeOK /\ LW!NothingForgotten /\ LW!LifeInOrder

\* simplelink: every open socket has one owner, also after a restart, and a
\* connection is announced once (mg_sl_if_poll, sl_restart_cb).
SimpleLinkPort == system = "simplelink" => SL!TypeOK /\ SL!SocketsOwned /\ SL!AnnouncedOnce

\* ssl: a session's configuration is there as long as the session is, and no
\* longer, and a client has the key it was given (mg_ssl_if_conn_init,
\* mg_ssl_if_conn_free, mg_ssl_if_ossl_set_psk).
SslConfigurations ==
    system = "ssl" => SC!TypeOK /\ SC!ConfigurationsLive /\ SC!KeyAsAsked

\* tunnel: one dispatcher at a time, and streams and sessions kept apart
\* (mg_tun_client_handler).
TunnelStreams == system = "tunnel" => TN!TypeOK /\ TN!OneDispatcher /\ TN!StreamsApart

\* sntp: one outcome of a query (mg_sntp_util_ev_handler).
TimeToldOnce == system = "sntp" => SN!TypeOK /\ SN!OneOutcome

\* slfs: every open file has one owner and is read whole, and every size hint is
\* used once (fs_slfs_open).
FilesKept ==
    system = "slfs" => SF!TypeOK /\ SF!HandlesOwned /\ SF!ReadsWhole /\ SF!HintsUsedOnce
=============================================================================
