------------------------------ MODULE UdpServer ------------------------------
(***************************************************************************)
(* A UDP listener on libev (mg_bind "udp://...", mg_if_recv_udp_cb).  Each *)
(* sender gets a "fake" connection that uses the listener's descriptor and *)
(* starts watchers of its own on it.  libev finds every watcher of a ready *)
(* descriptor pending at once and then runs their callbacks one by one, so *)
(* a callback may find that another one has emptied the socket: Poll fills *)
(* pend, ReadCb and WriteCb work it off, a stopped watcher leaves it.      *)
(*                                                                         *)
(* The connections and what is done to them are those of NetCore.          *)
(***************************************************************************)
EXTENDS NetCore, Sequences

CONSTANTS
  Peer,       \* the addresses datagrams come from
  Child,      \* names for the fake connections; a name is never reused
  Lc,         \* the name of the listener
  NoPeer,     \* the address of a connection that has none yet
  MaxQueue,   \* bound on the datagrams waiting in the socket
  KeepsOpen   \* whether the ACCEPT handler turns SEND_AND_CLOSE off: a
              \* subset of BOOLEAN

ASSUME UdpServerAssumption ==
  /\ Lc \notin Child /\ NoPeer \notin Peer
  /\ MaxQueue \in Nat /\ KeepsOpen \in (SUBSET BOOLEAN) \ {{}}

VARIABLES
  conn,    \* the connections
  peer,    \* peer[n]: the address n was made for, nc->sa
  got,     \* got[n]: the addresses n was given data from
  fd,      \* the listener's descriptor: "open" or "closed"
  queue,   \* the senders of the datagrams in the socket, oldest first
  pend,    \* the watchers whose callbacks are still to run
  wild,    \* a callback used a buffer that recvfrom never filled: what the
           \* program does from there on is not defined, and not modelled
  mgr

vars == <<conn, peer, got, fd, queue, pend, wild, mgr>>

Name     == Child \cup {Lc}
Watchers == Name \X {"R", "W"}

-----------------------------------------------------------------------------
(* Connections                                                             *)

MgBindUdp ==
  MgAddConn([Zeroed EXCEPT !.kind = "listener", !.sock = TRUE, !.net = "up",
                           !.flags = {"LISTENING"}])

\* The connection mg_if_recv_udp_cb makes for a new sender.  It begins with
\* SEND_AND_CLOSE set, which its ACCEPT handler may turn off.
Fake == [Zeroed EXCEPT !.kind = "accepted", !.sock = TRUE, !.net = "up",
                       !.flags = {"SEND_AND_CLOSE"}]

Accepted ==
  LET added == MgAddConn(Fake)
  IN  UNION {MgCall([added EXCEPT !.flags = IF k THEN {} ELSE @], "ACCEPT") :
               k \in KeepsOpen}

\* mg_write_to_socket: all of send_mbuf in one datagram, or nothing.
SendTo(c) ==
  IF c.slen = 0 \/ "CLOSE_IMMEDIATELY" \in c.flags \/ fd = "closed" THEN {c}
  ELSE {c} \cup MgCall([c EXCEPT !.slen = 0], "SEND")

StopIfDrained(c) ==
  IF c.life = "live" /\ c.slen = 0 THEN [c EXCEPT !.ww = "idle"] ELSE c

EvWriteCb(c) ==
  {StopIfDrained(d) : d \in UNION {CloseIfDue(e) : e \in SendTo(c)}}

EvReadCb(c) == UNION {CloseIfDue(d) : d \in MgRecvCommon(c, 1)}

\* Only the listener, which has no listener of its own, closes the descriptor.
ClosesFd_Slip(n) == n \in Name
ClosesFd(n)      == n = Lc

FdAfter(after) ==
  IF \E n \in Name : /\ ClosesFd(n) /\ conn[n].life = "live"
                     /\ after[n].life = "freed"
  THEN "closed" ELSE fd

\* ev_io_stop takes a watcher out of the pending ones too.
StoppedIn(after, w) ==
  LET was == conn[w[1]]  now == after[w[1]] IN
  \/ now.life = "freed"
  \/ w[2] = "W" /\ was.ww = "active" /\ now.ww # "active"

-----------------------------------------------------------------------------
Live(n)   == conn[n].life = "live"
Unused(n) == conn[n].life = "none"
Running   == mgr = "running" /\ ~wild

\* mg_if_recv_udp_cb's search through the list for the sender's connection.
Known_Slip(p) == {c \in Child : Live(c) /\ peer[c] = p /\ ~Closing(conn[c])}
Known(p)      == {c \in Child : Live(c) /\ peer[c] = p}

Datagram(p) == /\ Running /\ fd = "open" /\ Len(queue) < MaxQueue
               /\ queue' = Append(queue, p)
               /\ UNCHANGED <<conn, peer, got, fd, pend, wild, mgr>>

Active(w) == IF w[2] = "R" THEN conn[w[1]].wr = "active"
                           ELSE conn[w[1]].ww = "active"

Poll == /\ Running /\ fd = "open" /\ pend = {}
        /\ pend' = {w \in Watchers : Active(w) /\ (w[2] = "W" \/ queue # <<>>)}
        /\ pend' # {}
        /\ UNCHANGED <<conn, peer, got, fd, queue, wild, mgr>>

\* libev meets a descriptor that was closed under its watchers: it stops them
\* all and calls each of them once (fd_kill).
PollClosed ==
  /\ Running /\ fd = "closed" /\ pend = {}
  /\ pend' = {w \in Watchers : Active(w)} /\ pend' # {}
  /\ conn' = [n \in Name |->
                [conn[n] EXCEPT !.wr = IF @ = "active" THEN "idle" ELSE @,
                                !.ww = IF @ = "active" THEN "idle" ELSE @]]
  /\ UNCHANGED <<peer, got, fd, queue, wild, mgr>>

\* recvfrom() has nothing: its result -1 and the buffer it released go on to
\* mg_if_recv_udp_cb as if they were data.
ReadNothing(n) == /\ Running /\ <<n, "R">> \in pend
                  /\ queue = <<>> \/ fd = "closed"
                  /\ wild' = TRUE
                  /\ UNCHANGED <<conn, peer, got, fd, queue, pend, mgr>>

\* What a callback leaves behind.
Callback(after, ran) ==
  /\ conn' = after
  /\ fd' = FdAfter(after)
  /\ pend' = {w \in pend \ {ran} : ~StoppedIn(after, w)}
  /\ UNCHANGED <<wild, mgr>>

\* Connection c, in state d, is given the first datagram.
Delivered(c, d) ==
  /\ queue' = Tail(queue)
  /\ got' = [got EXCEPT ![c] =
               IF "CLOSE_IMMEDIATELY" \in d.flags THEN @ ELSE @ \cup {Head(queue)}]

HasData(n) == <<n, "R">> \in pend /\ queue # <<>> /\ fd = "open"

\* A fake connection's own read callback takes whatever datagram is first.
ReadCb(n) ==
  /\ Running /\ n # Lc /\ HasData(n)
  /\ \E c \in EvReadCb(conn[n]) : Callback([conn EXCEPT ![n] = c], <<n, "R">>)
  /\ Delivered(n, conn[n])
  /\ UNCHANGED peer

\* The listener's read callback: data for a known sender ...
ReadKnown ==
  /\ Running /\ HasData(Lc)
  /\ \E n \in Known(Head(queue)) :
       /\ \E c \in MgRecvCommon(conn[n], 1), k \in CloseIfDue(conn[Lc]) :
            Callback([conn EXCEPT ![n] = c, ![Lc] = k], <<Lc, "R">>)
       /\ Delivered(n, conn[n])
  /\ UNCHANGED peer

\* ... or a new one, for whom a fake connection is made.
ReadNew ==
  /\ Running /\ HasData(Lc) /\ Known(Head(queue)) = {}
  /\ \E n \in Child, d \in Accepted :
       /\ Unused(n)
       /\ \E c \in MgRecvCommon(d, 1), k \in CloseIfDue(conn[Lc]) :
            Callback([conn EXCEPT ![n] = c, ![Lc] = k], <<Lc, "R">>)
       /\ Delivered(n, d)
       /\ peer' = [peer EXCEPT ![n] = Head(queue)]

WriteCb(n) ==
  /\ Running /\ <<n, "W">> \in pend
  /\ \E c \in EvWriteCb(conn[n]) : Callback([conn EXCEPT ![n] = c], <<n, "W">>)
  /\ UNCHANGED <<peer, got, queue>>

TimerCb(n) ==
  /\ Running /\ n # Lc /\ Live(n) /\ conn[n].timer
  /\ \E c \in MgConnectionTimerCb(conn[n]) :
       Callback([conn EXCEPT ![n] = c], <<n, "T">>)
  /\ UNCHANGED <<peer, got, queue>>

UserClose(n) ==
  /\ Running /\ Live(n) /\ "OUTSIDE" \in CloseIn
  /\ \E f \in CloseFlags : conn' = [conn EXCEPT ![n].flags = @ \cup {f}]
  /\ UNCHANGED <<peer, got, fd, queue, pend, wild, mgr>>

\* mg_mgr_free: select() lets only the listener read, and everyone write that
\* has something to send; then everything is closed.
LastReceiver ==      \* who is given the first datagram, if anyone is
  IF queue = <<>> \/ ~Live(Lc) THEN {}
  ELSE LET known == Known(Head(queue))
       IN  IF known = {} THEN {n \in Child : Unused(n)} ELSE known

FinalStates(n, receives) ==
  LET polled == IF Live(n) THEN SendTo(conn[n])
                ELSE IF receives THEN Accepted ELSE {}
      read   == IF receives THEN UNION {MgRecvCommon(d, 1) : d \in polled} ELSE polled
  IN  IF polled = {} THEN {conn[n]} ELSE UNION {MgCloseConn(d) : d \in read}

MgrFree ==
  /\ Running /\ mgr' = "freed" /\ fd' = "closed" /\ pend' = {}
  /\ \E r \in {{}} \cup {{n} : n \in LastReceiver} :
       /\ \E final \in {[n \in Name |-> FinalStates(n, n \in r)]} :
            conn' \in {f \in [Name -> UNION {final[n] : n \in Name}] :
                         \A n \in Name : f[n] \in final[n]}
       /\ peer' = [n \in Name |-> IF n \in r THEN Head(queue) ELSE peer[n]]
  /\ UNCHANGED <<got, queue, wild>>

Stopped == ~Running /\ UNCHANGED vars

Init == /\ conn = [n \in Name |-> IF n = Lc THEN MgBindUdp ELSE Zeroed]
        /\ peer = [n \in Name |-> NoPeer] /\ got = [n \in Name |-> {}]
        /\ fd = "open" /\ queue = <<>> /\ pend = {}
        /\ wild = FALSE /\ mgr = "running"

Step(n) == \/ ReadNothing(n) \/ ReadCb(n) \/ WriteCb(n) \/ TimerCb(n)
           \/ UserClose(n)

Next == \/ \E n \in Name : Step(n)
        \/ \E p \in Peer : Datagram(p)
        \/ Poll \/ PollClosed \/ ReadKnown \/ ReadNew \/ MgrFree \/ Stopped

Spec == Init /\ [][Next]_vars

-----------------------------------------------------------------------------
(* Properties                                                              *)

\* Types; and every live fake connection has a socket and the timer that is to
\* end it if nothing else does.
TypeOK ==
  /\ conn \in [Name -> Connection]
  /\ peer \in [Name -> Peer \cup {NoPeer}] /\ got \in [Name -> SUBSET Peer]
  /\ fd \in {"open", "closed"} /\ queue \in Seq(Peer) /\ pend \subseteq Watchers
  /\ wild \in BOOLEAN /\ mgr \in {"running", "freed"}
  /\ \A n \in Child : Live(n) => conn[n].sock /\ conn[n].timer

\* The search of mg_if_recv_udp_cb keeps one connection to a sender: two live
\* ones for the same address would share out one conversation.
OneChildPerPeer ==
  \A m, n \in Child : Live(m) /\ Live(n) /\ peer[m] = peer[n] => m = n

\* The descriptor is shared but only the listener closes it: however the fake
\* connections come and go, a live listener can be written to and read from.
ListenerKeepsSocket == Live(Lc) /\ mgr = "running" => fd = "open"

\* A connection may be closed while its other watcher's callback is waiting to
\* run: that callback must not run on the freed object.
FreedIsSilent ==
  \A n \in Name : conn[n].life = "freed" =>
    /\ pend \cap {<<n, "R">>, <<n, "W">>} = {}
    /\ conn[n].wr # "active" /\ conn[n].ww # "active" /\ ~conn[n].timer

\* "Do we have an existing connection for this source?": a connection is given
\* the data of its own sender only.
RightPeer == \A n \in Child : got[n] \subseteq {peer[n]}
=============================================================================
