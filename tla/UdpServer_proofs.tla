--------------------------- MODULE UdpServer_proofs --------------------------
(***************************************************************************)
(* Proofs about UdpServer, for any number of senders, connections and      *)
(* waiting datagrams.  A connection serves inside its callbacks (Serves)   *)
(* and between them either serves or is silent (Left); each function of    *)
(* NetCore keeps that, and Callback keeps the pending set and the          *)
(* descriptor in step with it.                                             *)
(***************************************************************************)
EXTENDS UdpServer, SequenceTheorems, TLAPS

LEMMA Zeros ==
  /\ 0 \in 0..MaxSend /\ 0 \in 0..(MaxRecv + 1) /\ 0 <= MaxRecv
  /\ 0 \in 0..(ConnectTimeout + 1)
  /\ CloseFlags \subseteq Flags
BY NetCoreAssumption DEF Flags

\* What an event handler leaves as it was: it can add close flags, and it can
\* start the write watcher of a connection that has a socket.
HandlerTook(c, d) ==
  /\ d.life = c.life /\ d.sock = c.sock /\ d.wr = c.wr /\ d.timer = c.timer
  /\ ~c.sock => d.ww = c.ww
  /\ c.flags \subseteq d.flags /\ d.flags \subseteq c.flags \cup CloseFlags

LEMMA MgSendTook ==
  ASSUME NEW c \in Connection
  PROVE  MgSend(c) \in Connection /\ HandlerTook(c, MgSend(c))
<1> DEFINE s == Least(c.slen + 1, MaxSend)
           d == [c EXCEPT !.slen = s, !.age = 0]
<1>1. s \in 0..MaxSend
  BY NetCoreAssumption DEF Least, Connection
<1>2. d \in Connection /\ HandlerTook(c, d)
  BY <1>1, Zeros DEF Connection, HandlerTook
<1>3. MgSend(c) = IF c.sock THEN StartWriteWatcher(d) ELSE d
  BY DEF MgSend
<1>4. StartWriteWatcher(d) \in Connection
  BY ZenonT(40), <1>2 DEF StartWriteWatcher, Connection, WatcherState
<1>5. c.sock => HandlerTook(c, StartWriteWatcher(d))
  BY <1>2 DEF StartWriteWatcher, HandlerTook, Connection
<1> QED  BY <1>2, <1>3, <1>4, <1>5

\* mg_call: the handler may send, eat what was received and ask for a close.
LEMMA MgCallFrame ==
  ASSUME NEW c \in Connection, NEW ev \in Events, NEW d \in MgCall(c, ev)
  PROVE  d \in Connection /\ HandlerTook(c, d)
<1> DEFINE t    == Told(c, ev)
           sent == HandlerSends(t, ev)
           read == UNION {HandlerReads(e, ev) : e \in sent}
<1>1. t \in Connection /\ HandlerTook(c, t)
  BY DEF Told, MarksOf, Marks, Connection, HandlerTook
<1>2. PICK r \in read : d \in HandlerCloses(r, ev)
  BY DEF MgCall
<1>3. PICK s \in sent : r \in HandlerReads(s, ev)
  OBVIOUS
<1>4. s \in Connection /\ HandlerTook(t, s)
  BY <1>1, MgSendTook DEF HandlerSends, HandlerTook
<1>5. r \in Connection /\ HandlerTook(s, r)
  BY <1>3, <1>4, Zeros DEF HandlerReads, Connection, HandlerTook
<1>6. PICK f \in HandlerFlags(ev) : d = [r EXCEPT !.flags = @ \cup f]
  BY <1>2 DEF HandlerCloses
<1>7. f \subseteq CloseFlags
  BY DEF HandlerFlags
<1>8. d \in Connection /\ HandlerTook(r, d)
  BY <1>5, <1>6, <1>7, Zeros DEF Connection, HandlerTook
<1> HIDE DEF t
<1> QED  BY <1>1, <1>4, <1>5, <1>8 DEF HandlerTook

\* A live connection.  The listener is the one without a timer.
Serves(c, timed) ==
  /\ c \in Connection /\ c.life = "live" /\ c.sock /\ c.timer = timed
  /\ "LISTENING" \in c.flags <=> ~timed
  /\ "CONNECTING" \notin c.flags

\* A freed one, of which libev holds nothing any more.
Silent(c) ==
  /\ c \in Connection /\ c.life = "freed" /\ ~c.timer
  /\ c.wr # "active" /\ c.ww # "active"

Left(c, timed) == Serves(c, timed) \/ Silent(c)

Objects ==
  /\ conn \in [Name -> Connection]
  /\ \A n \in Name : (n \in Child /\ conn[n] = Zeroed) \/ Left(conn[n], n # Lc)

\* What is pending belongs to a live connection.
Control ==
  /\ fd \in {"open", "closed"} /\ wild \in BOOLEAN /\ mgr \in {"running", "freed"}
  /\ pend \subseteq Watchers /\ \A w \in pend : Live(w[1])
  /\ ListenerKeepsSocket

Data == /\ peer \in [Name -> Peer \cup {NoPeer}] /\ got \in [Name -> SUBSET Peer]
        /\ queue \in Seq(Peer)

IInv == Objects /\ Control /\ Data /\ OneChildPerPeer

-----------------------------------------------------------------------------
(* One connection                                                          *)

LEMMA ZeroedType == Zeroed \in Connection /\ Zeroed.life = "none"
BY Zeros DEF Zeroed, Connection, WatcherState

LEMMA MgCallServes ==
  ASSUME NEW c, NEW timed \in BOOLEAN, Serves(c, timed), NEW ev \in Events,
         NEW d \in MgCall(c, ev)
  PROVE  Serves(d, timed)
<1>1. c \in Connection  BY DEF Serves
<1>2. d \in Connection /\ HandlerTook(c, d)  BY <1>1, MgCallFrame
<1>3. /\ d.life = c.life /\ d.sock = c.sock /\ d.timer = c.timer
      /\ c.flags \subseteq d.flags /\ d.flags \subseteq c.flags \cup CloseFlags
  BY <1>1, <1>2 DEF HandlerTook
<1> QED  BY <1>2, <1>3 DEF Serves, CloseFlags

LEMMA MgCloseConnSilent ==
  ASSUME NEW c, NEW timed \in BOOLEAN, Serves(c, timed), NEW d \in MgCloseConn(c)
  PROVE  Silent(d)
<1> DEFINE s == DestroySock(c)
<1>1. c \in Connection /\ c.sock  BY DEF Serves
<1>2. s = [c EXCEPT !.sock = FALSE, !.net = "none",
                    !.wr = IF @ = "active" THEN "idle" ELSE @,
                    !.ww = IF @ = "active" THEN "idle" ELSE @]
  BY <1>1 DEF DestroySock
<1>3. /\ s \in Connection /\ ~s.sock /\ s.timer = c.timer /\ s.flags = c.flags
      /\ s.wr # "active" /\ s.ww # "active"
  <2> DEFINE wr == IF c.wr = "active" THEN "idle" ELSE c.wr
             ww == IF c.ww = "active" THEN "idle" ELSE c.ww
  <2>1. wr \in WatcherState \ {"active"} /\ ww \in WatcherState \ {"active"}
    BY <1>1 DEF Connection, WatcherState
  <2>2. s = [c EXCEPT !.sock = FALSE, !.net = "none", !.wr = wr, !.ww = ww]
    BY <1>1, <1>2 DEF Connection
  <2> HIDE DEF s, wr, ww
  <2>3. s \in Connection  BY <1>1, <2>1, <2>2 DEF Connection
  <2> QED  BY <1>1, <2>1, <2>2, <2>3 DEF Connection
<1>4. PICK e \in MgCall(s, "CLOSE") :
        d = [e EXCEPT !.life  = "freed",
                      !.timer = IF "LISTENING" \in e.flags THEN @ ELSE FALSE,
                      !.flags = {}, !.slen = 0, !.rlen = 0, !.age = 0, !.err = FALSE]
  BY DEF MgCloseConn
<1> HIDE DEF s
<1>5. "CLOSE" \in Events  BY DEF Events
<1>6. e \in Connection /\ HandlerTook(s, e)
  BY <1>3, <1>4, <1>5, MgCallFrame
<1>7. /\ e.wr = s.wr /\ e.timer = s.timer /\ e.ww = s.ww
      /\ s.flags \subseteq e.flags
  BY <1>3, <1>5, <1>6 DEF HandlerTook
<1>8. d \in Connection  BY <1>4, <1>6, Zeros DEF Connection
<1>9. /\ d.life = "freed" /\ d.wr = e.wr /\ d.ww = e.ww
      /\ d.timer = IF "LISTENING" \in e.flags THEN e.timer ELSE FALSE
  BY <1>4, <1>6 DEF Connection
<1>10. "LISTENING" \in e.flags => ~e.timer \/ "LISTENING" \notin c.flags
  BY <1>3, <1>7 DEF Serves
<1>11. ~d.timer
  <2>1. CASE timed
    <3>1. "LISTENING" \notin e.flags
      BY <1>3, <1>5, <1>6, <2>1 DEF HandlerTook, Serves, CloseFlags
    <3> QED  BY <1>9, <3>1
  <2>2. CASE ~timed
    <3>1. ~e.timer  BY <1>3, <1>7, <2>2 DEF Serves
    <3> QED  BY <1>9, <3>1
  <2> QED  BY <2>1, <2>2
<1> QED  BY <1>3, <1>7, <1>8, <1>9, <1>11 DEF Silent

LEMMA CloseIfDueLeft ==
  ASSUME NEW c, NEW timed \in BOOLEAN, Serves(c, timed), NEW d \in CloseIfDue(c)
  PROVE  Left(d, timed)
BY MgCloseConnSilent DEF CloseIfDue, Left

LEMMA MgRecvCommonServes ==
  ASSUME NEW c, NEW timed \in BOOLEAN, Serves(c, timed), NEW d \in MgRecvCommon(c, 1)
  PROVE  Serves(d, timed)
<1>1. CASE "CLOSE_IMMEDIATELY" \in c.flags  BY <1>1 DEF MgRecvCommon
<1>2. CASE "CLOSE_IMMEDIATELY" \notin c.flags
  <2> DEFINE r == Least(c.rlen + 1, MaxRecv + 1)
             s == [c EXCEPT !.rlen = r, !.age = 0]
  <2>1. c \in Connection /\ c.rlen \in 0..(MaxRecv + 1)  BY DEF Serves, Connection
  <2>2. r \in 0..(MaxRecv + 1)  BY <2>1, NetCoreAssumption DEF Least
  <2> HIDE DEF r
  <2>3. s \in Connection  BY <2>1, <2>2, Zeros DEF Connection
  <2>4. Serves(s, timed)  BY <2>1, <2>3 DEF Serves, Connection
  <2>5. d \in MgCall(s, "RECV")  BY <1>2 DEF MgRecvCommon, r
  <2>6. "RECV" \in Events  BY DEF Events
  <2> HIDE DEF s
  <2> QED  BY <2>4, <2>5, <2>6, MgCallServes
<1> QED  BY <1>1, <1>2

LEMMA SendToServes ==
  ASSUME NEW c, NEW timed \in BOOLEAN, Serves(c, timed), NEW d \in SendTo(c)
  PROVE  Serves(d, timed)
<1> DEFINE s == [c EXCEPT !.slen = 0]
<1>1. c \in Connection  BY DEF Serves
<1>2. Serves(s, timed)  BY <1>1, Zeros DEF Serves, Connection
<1>3. d = c \/ d \in MgCall(s, "SEND")  BY DEF SendTo
<1>4. "SEND" \in Events  BY DEF Events
<1> HIDE DEF s
<1> QED  BY <1>2, <1>3, <1>4, MgCallServes

LEMMA EvWriteCbLeft ==
  ASSUME NEW c, NEW timed \in BOOLEAN, Serves(c, timed), NEW d \in EvWriteCb(c)
  PROVE  Left(d, timed)
<1>1. PICK e \in UNION {CloseIfDue(x) : x \in SendTo(c)} : d = StopIfDrained(e)
  BY DEF EvWriteCb
<1>2. Left(e, timed)
  <2>1. PICK x \in SendTo(c) : e \in CloseIfDue(x)  BY <1>1
  <2> QED  BY <2>1, SendToServes, CloseIfDueLeft
<1>3. CASE Silent(e)  BY <1>1, <1>3 DEF StopIfDrained, Silent, Left
<1>4. CASE Serves(e, timed)
  <2>1. e \in Connection  BY <1>4 DEF Serves
  <2>2. [e EXCEPT !.ww = "idle"] \in Connection  BY <2>1 DEF Connection, WatcherState
  <2>3. Serves([e EXCEPT !.ww = "idle"], timed)  BY <1>4, <2>1, <2>2 DEF Serves, Connection
  <2> QED  BY <1>1, <1>4, <2>3 DEF StopIfDrained, Left
<1> QED  BY <1>2, <1>3, <1>4 DEF Left

LEMMA EvReadCbLeft ==
  ASSUME NEW c, NEW timed \in BOOLEAN, Serves(c, timed), NEW d \in EvReadCb(c)
  PROVE  Left(d, timed)
<1>1. PICK r \in MgRecvCommon(c, 1) : d \in CloseIfDue(r)  BY DEF EvReadCb
<1> QED  BY <1>1, MgRecvCommonServes, CloseIfDueLeft

LEMMA MgConnectionTimerCbLeft ==
  ASSUME NEW c, NEW timed \in BOOLEAN, Serves(c, timed),
         NEW d \in MgConnectionTimerCb(c)
  PROVE  Left(d, timed)
<1>1. PICK g \in UNION {GiveUpConnect(x) : x \in MgIfPoll(Aged(c))} :
        d \in CloseIfDue(g)
  BY DEF MgConnectionTimerCb
<1>2. Aged(c) = c  BY DEF Aged, Serves
<1>3. "POLL" \in Events  BY DEF Events
<1>4. PICK p \in MgIfPoll(c) : g \in GiveUpConnect(p)  BY <1>1, <1>2
<1>5. Serves(p, timed)  BY <1>3, <1>4, MgCallServes DEF MgIfPoll
<1>6. g = p  BY <1>4, <1>5 DEF GiveUpConnect, Serves
<1> QED  BY <1>1, <1>5, <1>6, CloseIfDueLeft

LEMMA AcceptedServes ==
  ASSUME NEW d \in Accepted
  PROVE  Serves(d, TRUE)
<1> DEFINE added == MgAddConn(Fake)
<1>1. PICK k \in KeepsOpen :
        d \in MgCall([added EXCEPT !.flags = IF k THEN {} ELSE @], "ACCEPT")
  BY DEF Accepted
<1>2. Fake \in Connection /\ Fake.sock /\ Fake.flags = {"SEND_AND_CLOSE"}
  BY ZeroedType DEF Fake, Connection, Flags, CloseFlags, Zeroed
<1>3. Serves(added, TRUE) /\ added.flags = {"SEND_AND_CLOSE"}
  BY <1>2 DEF MgAddConn, Serves, Connection, WatcherState
<1> DEFINE s == [added EXCEPT !.flags = IF k THEN {} ELSE @]
<1> HIDE DEF added
<1>4. Serves(s, TRUE)  BY <1>3 DEF Serves, Connection
<1>5. "ACCEPT" \in Events  BY DEF Events
<1> HIDE DEF s
<1> QED  BY <1>1, <1>4, <1>5, MgCallServes DEF s, added

LEMMA MgBindUdpServes == Serves(MgBindUdp, FALSE)
<1> DEFINE z == [Zeroed EXCEPT !.kind = "listener", !.sock = TRUE, !.net = "up",
                               !.flags = {"LISTENING"}]
<1>1. z \in Connection /\ z.sock /\ z.flags = {"LISTENING"}
  BY ZeroedType DEF Connection, Flags, Zeroed
<1>2. MgBindUdp = MgAddConn(z)  BY DEF MgBindUdp
<1> HIDE DEF z
<1> QED  BY <1>1, <1>2 DEF MgAddConn, Serves, Connection, WatcherState

-----------------------------------------------------------------------------
(* All connections                                                         *)

LEMMA LiveServes ==
  ASSUME Objects, NEW n \in Name, Live(n)
  PROVE  Serves(conn[n], n # Lc)
BY ZeroedType DEF Objects, Live, Left, Silent

\* A callback changes connections from serving to left, or makes a new one of a
\* name that was not in use.
Allowed(after) ==
  /\ after \in [Name -> Connection]
  /\ \A n \in Name :
       \/ after[n] = conn[n]
       \/ Left(after[n], n # Lc) /\ (Live(n) \/ (n \in Child /\ Unused(n)))

LEMMA CallbackKeeps ==
  ASSUME Objects, Control, Running, NEW after, NEW ran, Allowed(after),
         Callback(after, ran)
  PROVE  Objects' /\ Control'
<1>1. /\ conn' = after /\ fd' = FdAfter(after) /\ wild' = wild /\ mgr' = mgr
      /\ pend' = {w \in pend \ {ran} : ~StoppedIn(after, w)}
  BY DEF Callback
<1>2. Objects'  BY <1>1 DEF Objects, Allowed
<1>3. fd' \in {"open", "closed"}  BY <1>1 DEF FdAfter, Control
<1>4. ASSUME NEW w \in pend' PROVE Live(w[1])'
  <2>1. w \in Watchers /\ Live(w[1]) /\ after[w[1]].life # "freed"
    BY <1>1, <1>4 DEF Control, StoppedIn
  <2>2. w[1] \in Name  BY <2>1 DEF Watchers
  <2>3. after[w[1]].life = "live"
    BY <2>1, <2>2 DEF Allowed, Left, Serves, Silent, Live
  <2> QED  BY <1>1, <2>3 DEF Live
<1>5. ListenerKeepsSocket'
  <2>1. SUFFICES ASSUME after[Lc].life = "live" PROVE FdAfter(after) = "open"
    BY <1>1 DEF ListenerKeepsSocket, Live
  <2>2. Lc \in Name /\ Lc \notin Child  BY UdpServerAssumption DEF Name
  <2>3. Live(Lc)  BY <2>1, <2>2 DEF Allowed, Live
  <2>4. fd = "open"  BY <2>3 DEF Control, ListenerKeepsSocket, Running
  <2> QED  BY <2>1, <2>4 DEF FdAfter, ClosesFd
<1>6. pend' \subseteq Watchers  BY <1>1 DEF Control
<1> QED  BY <1>1, <1>2, <1>3, <1>4, <1>5, <1>6 DEF Control

LEMMA OneAllowed ==
  ASSUME Objects, NEW n \in Name, Live(n), NEW c, Left(c, n # Lc)
  PROVE  Allowed([conn EXCEPT ![n] = c])
<1>1. c \in Connection  BY DEF Left, Serves, Silent
<1> QED  BY <1>1 DEF Allowed, Objects

\* The listener's read callback works on one of its connections.
LEMMA TwoAllowed ==
  ASSUME Objects, NEW n \in Child, Live(n) \/ Unused(n), NEW c, Serves(c, TRUE),
         Live(Lc), NEW k \in CloseIfDue(conn[Lc])
  PROVE  Allowed([conn EXCEPT ![n] = c, ![Lc] = k])
<1>1. Lc \in Name /\ n \in Name /\ n # Lc  BY UdpServerAssumption DEF Name
<1>2. Left(k, FALSE)
  <2>1. Serves(conn[Lc], FALSE)  BY <1>1, LiveServes
  <2> QED  BY <2>1, CloseIfDueLeft
<1>3. c \in Connection /\ k \in Connection  BY <1>2 DEF Left, Serves, Silent
<1>4. Left(c, TRUE)  BY DEF Left
<1>5. [conn EXCEPT ![n] = c, ![Lc] = k] \in [Name -> Connection]
  BY <1>3 DEF Objects
<1> QED  BY <1>1, <1>2, <1>4, <1>5 DEF Allowed, Objects

\* Nobody comes to life, and addresses stay.
LEMMA NobodyNew ==
  ASSUME OneChildPerPeer, UNCHANGED peer,
         \A n \in Child : conn'[n].life = "live" => Live(n)
  PROVE  OneChildPerPeer'
BY DEF OneChildPerPeer, Live

LEMMA AllowedLives ==
  ASSUME NEW after, Allowed(after), NEW n \in Name, after[n].life = "live"
  PROVE  Live(n) \/ (n \in Child /\ Unused(n))
BY DEF Allowed, Live

LEMMA DeliveredData ==
  ASSUME Data, queue # <<>>, NEW n \in Name, NEW d, Delivered(n, d)
  PROVE  /\ Head(queue) \in Peer
         /\ got' \in [Name -> SUBSET Peer] /\ queue' \in Seq(Peer)
<1>1. Head(queue) \in Peer /\ Tail(queue) \in Seq(Peer)
  BY HeadTailProperties DEF Data
<1> QED  BY <1>1 DEF Delivered, Data

-----------------------------------------------------------------------------
(* The invariant, action by action                                         *)

LEMMA InitInv == Init => IInv
<1> SUFFICES ASSUME Init PROVE IInv  OBVIOUS
<1>1. Lc \in Name /\ Lc \notin Child  BY UdpServerAssumption DEF Name
<1>2. Objects
  <2>1. MgBindUdp \in Connection  BY MgBindUdpServes DEF Serves
  <2>2. conn \in [Name -> Connection]  BY <2>1, ZeroedType DEF Init
  <2>3. \A n \in Name : n = Lc \/ n \in Child  BY DEF Name
  <2> QED  BY <1>1, <2>2, <2>3, MgBindUdpServes DEF Init, Objects, Left
<1>3. Control  BY DEF Init, Control, ListenerKeepsSocket
<1>4. Data
  <2>1. <<>> \in Seq(Peer)  BY EmptySeq
  <2> QED  BY <2>1 DEF Init, Data
<1>5. OneChildPerPeer
  <2>1. \A n \in Child : ~Live(n)
    BY <1>1, ZeroedType DEF Init, Live, Name
  <2> QED  BY <2>1 DEF OneChildPerPeer
<1> QED  BY <1>2, <1>3, <1>4, <1>5 DEF IInv

\* A callback of one connection that is given nothing or a datagram.
LEMMA OneCallbackInv ==
  ASSUME IInv, Running, NEW n \in Name, Live(n), NEW c, Left(c, n # Lc), NEW ran,
         Callback([conn EXCEPT ![n] = c], ran), UNCHANGED peer,
         got' \in [Name -> SUBSET Peer], queue' \in Seq(Peer)
  PROVE  IInv'
<1> DEFINE after == [conn EXCEPT ![n] = c]
<1>1. Allowed(after)  BY OneAllowed DEF IInv
<1>2. Objects' /\ Control'  BY <1>1, CallbackKeeps DEF IInv
<1>3. OneChildPerPeer'
  <2>1. conn' = after  BY DEF Callback
  <2>2. \A m \in Name : m # n => after[m] = conn[m]  BY DEF IInv, Objects
  <2>3. \A m \in Child : conn'[m].life = "live" => Live(m)
    BY <2>1, <2>2 DEF Live, Name
  <2> QED  BY <2>3, NobodyNew DEF IInv
<1> QED  BY <1>2, <1>3 DEF IInv, Data

LEMMA ReadKnownInv ==
  ASSUME IInv, ReadKnown
  PROVE  IInv'
<1>1. PICK n \in Known(Head(queue)) :
        /\ \E c \in MgRecvCommon(conn[n], 1), k \in CloseIfDue(conn[Lc]) :
             Callback([conn EXCEPT ![n] = c, ![Lc] = k], <<Lc, "R">>)
        /\ Delivered(n, conn[n])
  BY DEF ReadKnown
<1>2. PICK c \in MgRecvCommon(conn[n], 1), k \in CloseIfDue(conn[Lc]) :
        Callback([conn EXCEPT ![n] = c, ![Lc] = k], <<Lc, "R">>)
  BY <1>1
<1> DEFINE after == [conn EXCEPT ![n] = c, ![Lc] = k]
<1>3. Running /\ queue # <<>> /\ UNCHANGED peer /\ Live(Lc)
  BY DEF ReadKnown, HasData, IInv, Control
<1>4. n \in Child /\ Live(n) /\ n \in Name /\ Lc \in Name /\ n # Lc
  BY UdpServerAssumption DEF Known, Name
<1>5. Serves(c, TRUE)
  <2>1. Serves(conn[n], TRUE)  BY <1>4, LiveServes DEF IInv
  <2> QED  BY <2>1, MgRecvCommonServes
<1>6. Allowed(after)  BY <1>3, <1>4, <1>5, TwoAllowed DEF IInv
<1>7. Objects' /\ Control'  BY <1>2, <1>3, <1>6, CallbackKeeps DEF IInv
<1>8. OneChildPerPeer'
  <2>1. conn' = after  BY <1>2 DEF Callback
  <2>2. \A m \in Child : m # n => after[m] = conn[m]
    BY <1>4, UdpServerAssumption DEF IInv, Objects, Name
  <2>3. \A m \in Child : conn'[m].life = "live" => Live(m)
    BY <1>4, <2>1, <2>2 DEF Live
  <2> QED  BY <1>3, <2>3, NobodyNew DEF IInv
<1>9. Data'  BY <1>1, <1>3, <1>4, DeliveredData DEF IInv, Data
<1> QED  BY <1>7, <1>8, <1>9 DEF IInv

LEMMA ReadNewInv ==
  ASSUME IInv, ReadNew
  PROVE  IInv'
<1>1. PICK n \in Child, d \in Accepted :
        /\ Unused(n)
        /\ \E c \in MgRecvCommon(d, 1), k \in CloseIfDue(conn[Lc]) :
             Callback([conn EXCEPT ![n] = c, ![Lc] = k], <<Lc, "R">>)
        /\ Delivered(n, d)
        /\ peer' = [peer EXCEPT ![n] = Head(queue)]
  BY DEF ReadNew
<1>2. PICK c \in MgRecvCommon(d, 1), k \in CloseIfDue(conn[Lc]) :
        Callback([conn EXCEPT ![n] = c, ![Lc] = k], <<Lc, "R">>)
  BY <1>1
<1> DEFINE after == [conn EXCEPT ![n] = c, ![Lc] = k]
<1>3. Running /\ queue # <<>> /\ Live(Lc) /\ Known(Head(queue)) = {}
  BY DEF ReadNew, HasData, IInv, Control
<1>4. n \in Name /\ Lc \in Name /\ n # Lc  BY UdpServerAssumption DEF Name
<1>5. Serves(c, TRUE)
  <2>1. Serves(d, TRUE)  BY AcceptedServes
  <2> QED  BY <2>1, MgRecvCommonServes
<1>6. Allowed(after)  BY <1>1, <1>3, <1>5, TwoAllowed DEF IInv
<1>7. Objects' /\ Control'  BY <1>2, <1>3, <1>6, CallbackKeeps DEF IInv
<1>8. Head(queue) \in Peer /\ got' \in [Name -> SUBSET Peer] /\ queue' \in Seq(Peer)
  BY <1>1, <1>3, <1>4, DeliveredData DEF IInv
<1>9. Data'  BY <1>1, <1>8 DEF IInv, Data
<1>10. OneChildPerPeer'
  <2>1. conn' = after  BY <1>2 DEF Callback
  <2>2. \A m \in Child : m # n => after[m] = conn[m] /\ peer'[m] = peer[m]
    BY <1>1, <1>4, UdpServerAssumption DEF IInv, Objects, Data, Name
  <2>3. peer'[n] = Head(queue)  BY <1>1, <1>4 DEF IInv, Data
  <2>4. \A m \in Child : Live(m) => peer[m] # Head(queue)  BY <1>3 DEF Known
  <2>5. \A m \in Child : m # n /\ conn'[m].life = "live" => Live(m)
    BY <2>1, <2>2 DEF Live
  <2> QED  BY <2>2, <2>3, <2>4, <2>5 DEF IInv, OneChildPerPeer, Live
<1> QED  BY <1>7, <1>9, <1>10 DEF IInv

LEMMA PollClosedInv ==
  ASSUME IInv, PollClosed
  PROVE  IInv'
<1> DEFINE Idle(c) == [c EXCEPT !.wr = IF @ = "active" THEN "idle" ELSE @,
                                !.ww = IF @ = "active" THEN "idle" ELSE @]
<1>1. /\ conn' = [n \in Name |-> Idle(conn[n])]
      /\ pend' = {w \in Watchers : Active(w)}
      /\ UNCHANGED <<peer, got, fd, queue, wild, mgr>>
  BY DEF PollClosed
<1>2. ASSUME NEW c \in Connection
      PROVE  /\ Idle(c) \in Connection
             /\ Idle(c).life = c.life /\ Idle(c).sock = c.sock
             /\ Idle(c).timer = c.timer /\ Idle(c).flags = c.flags
             /\ Idle(c).wr # "active" /\ Idle(c).ww # "active"
             /\ c.wr # "active" /\ c.ww # "active" => Idle(c) = c
  <2> DEFINE wr == IF c.wr = "active" THEN "idle" ELSE c.wr
             ww == IF c.ww = "active" THEN "idle" ELSE c.ww
             i  == [c EXCEPT !.wr = wr, !.ww = ww]
  <2>1. wr \in WatcherState \ {"active"} /\ ww \in WatcherState \ {"active"}
    BY DEF Connection, WatcherState
  <2>2. Idle(c) = i  BY DEF Connection
  <2>3. c.wr # "active" /\ c.ww # "active" => i = c  BY DEF Connection
  <2> HIDE DEF wr, ww
  <2>4. i \in Connection  BY <2>1 DEF Connection
  <2>5. /\ i.life = c.life /\ i.sock = c.sock /\ i.timer = c.timer
        /\ i.flags = c.flags /\ i.wr = wr /\ i.ww = ww
    BY DEF Connection
  <2> HIDE DEF i, Idle
  <2> QED  BY <2>1, <2>2, <2>3, <2>4, <2>5
<1> HIDE DEF Idle
<1>3. conn \in [Name -> Connection]  BY DEF IInv, Objects
<1>4. \A n \in Name : conn'[n] = Idle(conn[n])  BY <1>1
<1>5. Objects'
  <2>1. conn' \in [Name -> Connection]  BY <1>1, <1>2, <1>3
  <2>2. ASSUME NEW n \in Name
        PROVE  (n \in Child /\ conn'[n] = Zeroed) \/ Left(conn'[n], n # Lc)
    <3>1. CASE n \in Child /\ conn[n] = Zeroed
      <4>1. Idle(Zeroed) = Zeroed  BY <1>2, ZeroedType DEF Zeroed
      <4> QED  BY <1>4, <3>1, <4>1
    <3>2. CASE Serves(conn[n], n # Lc)
      BY <1>2, <1>3, <1>4, <3>2 DEF Serves, Left
    <3>3. CASE Silent(conn[n])
      BY <1>2, <1>3, <1>4, <3>3 DEF Silent, Left
    <3> QED  BY <3>1, <3>2, <3>3 DEF IInv, Objects, Left
  <2> QED  BY <2>1, <2>2 DEF Objects
<1>6. \A n \in Name : conn'[n].life = conn[n].life  BY <1>2, <1>3, <1>4
<1>7. Lc \in Name /\ Child \subseteq Name  BY DEF Name
<1>8. Control'
  <2>1. ASSUME NEW w \in pend' PROVE Live(w[1])
    <3>1. w[1] \in Name /\ Active(w)  BY <1>1, <2>1 DEF Watchers
    <3>2. conn[w[1]] # Zeroed /\ ~Silent(conn[w[1]])
      BY <3>1 DEF Active, Silent, Zeroed
    <3> QED  BY <3>1, <3>2 DEF IInv, Objects, Left, Serves, Live
  <2>2. \A w \in pend' : Live(w[1])'
    BY <1>1, <1>6, <2>1 DEF Live, Watchers
  <2>3. pend' \subseteq Watchers  BY <1>1
  <2> QED  BY <1>1, <1>6, <1>7, <2>2, <2>3 DEF IInv, Control, ListenerKeepsSocket, Live
<1>9. OneChildPerPeer'
  BY <1>1, <1>6, <1>7, NobodyNew DEF IInv, Live
<1> QED  BY <1>1, <1>5, <1>8, <1>9 DEF IInv, Data

LEMMA PollInv ==
  ASSUME IInv, Poll
  PROVE  IInv'
<1>1. /\ pend' \subseteq {w \in Watchers : Active(w)}
      /\ UNCHANGED <<conn, peer, got, fd, queue, wild, mgr>>
  BY DEF Poll
<1>2. ASSUME NEW w \in pend' PROVE Live(w[1])
  <2>1. w[1] \in Name /\ Active(w)  BY <1>1, <1>2 DEF Watchers
  <2>2. conn[w[1]] # Zeroed /\ ~Silent(conn[w[1]])  BY <2>1 DEF Active, Silent, Zeroed
  <2> QED  BY <2>1, <2>2 DEF IInv, Objects, Left, Serves, Live
<1>3. Control'  BY <1>1, <1>2 DEF IInv, Control, ListenerKeepsSocket, Live
<1> QED  BY <1>1, <1>3 DEF IInv, Objects, Data, OneChildPerPeer, Live

LEMMA UserCloseInv ==
  ASSUME IInv, NEW n \in Name, UserClose(n)
  PROVE  IInv'
<1>1. PICK f \in CloseFlags : conn' = [conn EXCEPT ![n].flags = @ \cup {f}]
  BY DEF UserClose
<1>2. Live(n) /\ Running /\ UNCHANGED <<peer, got, fd, queue, pend, wild, mgr>>
  BY DEF UserClose
<1> DEFINE c == [conn[n] EXCEPT !.flags = @ \cup {f}]
<1>3. Serves(conn[n], n # Lc)  BY <1>2, LiveServes DEF IInv
<1>4. f \in Flags /\ f # "LISTENING" /\ f # "CONNECTING"  BY DEF Flags, CloseFlags
<1>5. c \in Connection  BY <1>3, <1>4 DEF Serves, Connection
<1>6. Serves(c, n # Lc)  BY <1>3, <1>4, <1>5 DEF Serves, Connection
<1>7. conn' = [conn EXCEPT ![n] = c]  BY <1>1 DEF IInv, Objects
<1> HIDE DEF c
<1>8. Objects'  BY <1>5, <1>6, <1>7 DEF IInv, Objects, Left
<1>9. \A m \in Name : conn'[m].life = conn[m].life
  BY <1>2, <1>6, <1>7 DEF IInv, Objects, Serves, Live
<1>10. Lc \in Name /\ Child \subseteq Name  BY DEF Name
<1>11. Control'
  BY <1>2, <1>9, <1>10 DEF IInv, Control, ListenerKeepsSocket, Live, Watchers
<1>12. OneChildPerPeer'  BY <1>2, <1>9, <1>10, NobodyNew DEF IInv, Live
<1> QED  BY <1>2, <1>8, <1>11, <1>12 DEF IInv, Data

LEMMA FinalStatesSilent ==
  ASSUME Objects, NEW n \in Name, NEW receives \in BOOLEAN,
         receives => n \in Child, NEW d \in FinalStates(n, receives)
  PROVE  Silent(d) \/ (d = conn[n] /\ ~Live(n))
<1> DEFINE polled == IF Live(n) THEN SendTo(conn[n])
                     ELSE IF receives THEN Accepted ELSE {}
           read   == IF receives THEN UNION {MgRecvCommon(x, 1) : x \in polled}
                     ELSE polled
<1>1. d \in IF polled = {} THEN {conn[n]} ELSE UNION {MgCloseConn(x) : x \in read}
  BY DEF FinalStates
<1>2. Live(n) => conn[n] \in polled  BY DEF SendTo
<1>3. CASE polled = {}  BY <1>1, <1>2, <1>3
<1>4. CASE polled # {}
  <2>1. \A x \in polled : Serves(x, n # Lc)
    <3>1. CASE Live(n)
      <4>1. Serves(conn[n], n # Lc)  BY <3>1, LiveServes
      <4> QED  BY <3>1, <4>1, SendToServes
    <3>2. CASE ~Live(n) /\ receives
      <4>1. n # Lc  BY <3>2, UdpServerAssumption
      <4> QED  BY <3>2, <4>1, AcceptedServes
    <3>3. CASE ~Live(n) /\ ~receives  BY <3>3
    <3> QED  BY <3>1, <3>2, <3>3
  <2> HIDE DEF polled
  <2>2. \A x \in read : Serves(x, n # Lc)  BY <2>1, MgRecvCommonServes
  <2>3. PICK x \in read : d \in MgCloseConn(x)  BY <1>1, <1>4
  <2> HIDE DEF read
  <2> QED  BY <2>2, <2>3, MgCloseConnSilent
<1> QED  BY <1>3, <1>4

LEMMA MgrFreeInv ==
  ASSUME IInv, MgrFree
  PROVE  IInv'
<1>1. PICK r \in {{}} \cup {{n} : n \in LastReceiver} :
        /\ \E final \in {[n \in Name |-> FinalStates(n, n \in r)]} :
             conn' \in {f \in [Name -> UNION {final[n] : n \in Name}] :
                          \A n \in Name : f[n] \in final[n]}
        /\ peer' = [n \in Name |-> IF n \in r THEN Head(queue) ELSE peer[n]]
  BY DEF MgrFree
<1>2. /\ mgr' = "freed" /\ fd' = "closed" /\ pend' = {}
      /\ UNCHANGED <<got, queue, wild>>
  BY DEF MgrFree
<1>3. r \subseteq Child /\ (r # {} => queue # <<>>)
  BY <1>1 DEF LastReceiver, Known
<1>4. /\ conn' = [n \in Name |-> conn'[n]]
      /\ \A n \in Name : conn'[n] \in FinalStates(n, n \in r)
  BY <1>1
<1>5. ASSUME NEW n \in Name
      PROVE  Silent(conn'[n]) \/ (conn'[n] = conn[n] /\ ~Live(n))
  <2> DEFINE receives == n \in r
             d == conn'[n]
  <2>1. receives \in BOOLEAN /\ (receives => n \in Child)  BY <1>3
  <2>2. d \in FinalStates(n, receives)  BY <1>4
  <2>3. Objects  BY DEF IInv
  <2> HIDE DEF receives, d
  <2>4. Silent(d) \/ (d = conn[n] /\ ~Live(n))  BY <2>1, <2>2, <2>3, FinalStatesSilent
  <2> QED  BY <2>4 DEF d
<1>6. Objects'
  <2>1. \A n \in Name : conn'[n] \in Connection
    BY <1>5 DEF Silent, IInv, Objects
  <2>2. conn' \in [Name -> Connection]  BY <1>4, <2>1
  <2> QED  BY <1>5, <2>2 DEF IInv, Objects, Left
<1>7. \A n \in Name : conn'[n].life # "live"  BY <1>5 DEF Silent, Live
<1>8. Control'
  BY <1>2 DEF IInv, Control, ListenerKeepsSocket
<1>9. OneChildPerPeer'  BY <1>7 DEF OneChildPerPeer, Live, Name
<1>10. peer' \in [Name -> Peer \cup {NoPeer}]
  <2>1. queue # <<>> => Head(queue) \in Peer  BY HeadTailProperties DEF IInv, Data
  <2> QED  BY <1>1, <1>3, <2>1 DEF IInv, Data
<1> QED  BY <1>2, <1>6, <1>8, <1>9, <1>10 DEF IInv, Data

LEMMA NextInv ==
  ASSUME IInv, [Next]_vars
  PROVE  IInv'
<1>1. Objects /\ Control /\ Data  BY DEF IInv
<1>2. ASSUME NEW n \in Name, Step(n) PROVE IInv'
  <2>1. CASE ReadNothing(n)
    BY <2>1 DEF ReadNothing, IInv, Objects, Control, Data, OneChildPerPeer,
                ListenerKeepsSocket, Live
  <2>2. CASE ReadCb(n)
    <3>1. PICK c \in EvReadCb(conn[n]) : Callback([conn EXCEPT ![n] = c], <<n, "R">>)
      BY <2>2 DEF ReadCb
    <3>2. /\ Running /\ queue # <<>> /\ Delivered(n, conn[n]) /\ UNCHANGED peer
          /\ <<n, "R">> \in pend
      BY <2>2 DEF ReadCb, HasData
    <3>3. Live(n)  BY <1>1, <3>2 DEF Control
    <3>4. Left(c, n # Lc)
      <4>1. Serves(conn[n], n # Lc)  BY <1>1, <3>3, LiveServes
      <4> QED  BY <4>1, EvReadCbLeft
    <3>5. got' \in [Name -> SUBSET Peer] /\ queue' \in Seq(Peer)
      BY <1>1, <3>2, DeliveredData
    <3> QED  BY <3>1, <3>2, <3>3, <3>4, <3>5, OneCallbackInv
  <2>3. CASE WriteCb(n)
    <3>1. PICK c \in EvWriteCb(conn[n]) : Callback([conn EXCEPT ![n] = c], <<n, "W">>)
      BY <2>3 DEF WriteCb
    <3>2. Running /\ UNCHANGED <<peer, got, queue>> /\ <<n, "W">> \in pend
      BY <2>3 DEF WriteCb
    <3>3. Live(n)  BY <1>1, <3>2 DEF Control
    <3>4. Left(c, n # Lc)
      <4>1. Serves(conn[n], n # Lc)  BY <1>1, <3>3, LiveServes
      <4> QED  BY <4>1, EvWriteCbLeft
    <3> QED  BY <1>1, <3>1, <3>2, <3>3, <3>4, OneCallbackInv DEF Data
  <2>4. CASE TimerCb(n)
    <3>1. PICK c \in MgConnectionTimerCb(conn[n]) :
            Callback([conn EXCEPT ![n] = c], <<n, "T">>)
      BY <2>4 DEF TimerCb
    <3>2. Running /\ UNCHANGED <<peer, got, queue>> /\ Live(n)
      BY <2>4 DEF TimerCb
    <3>3. Left(c, n # Lc)
      <4>1. Serves(conn[n], n # Lc)  BY <1>1, <3>2, LiveServes
      <4> QED  BY <4>1, MgConnectionTimerCbLeft
    <3> QED  BY <1>1, <3>1, <3>2, <3>3, OneCallbackInv DEF Data
  <2>5. CASE UserClose(n)  BY <2>5, UserCloseInv
  <2> QED  BY <1>2, <2>1, <2>2, <2>3, <2>4, <2>5 DEF Step
<1>3. ASSUME NEW p \in Peer, Datagram(p) PROVE IInv'
  <2>1. queue' \in Seq(Peer)  BY <1>3, AppendProperties DEF Datagram, IInv, Data
  <2> QED  BY <1>3, <2>1 DEF Datagram, IInv, Objects, Control, Data, OneChildPerPeer,
                             ListenerKeepsSocket, Live
<1>4. CASE UNCHANGED vars
  BY <1>4 DEF vars, IInv, Objects, Control, Data, OneChildPerPeer,
              ListenerKeepsSocket, Live
<1> QED
  BY <1>2, <1>3, <1>4, PollInv, PollClosedInv, ReadKnownInv, ReadNewInv, MgrFreeInv
     DEF Next, Stopped

\* Every behaviour of the listener keeps connections, pending callbacks and the
\* shared descriptor in step.
THEOREM UdpInductive == Spec => []IInv
<1>1. IInv /\ [Next]_vars => IInv'  BY NextInv
<1> QED  BY <1>1, InitInv, PTL DEF Spec

\* The variables keep their types, and every live fake connection has a socket
\* and its timer.
THEOREM UdpTypes == Spec => []TypeOK
<1>1. ASSUME IInv PROVE TypeOK
  <2>1. ASSUME NEW n \in Child, Live(n) PROVE conn[n].sock /\ conn[n].timer
    <3>1. n \in Name /\ n # Lc  BY UdpServerAssumption DEF Name
    <3> QED  BY <1>1, <2>1, <3>1, LiveServes DEF IInv, Serves
  <2> QED  BY <1>1, <2>1 DEF IInv, Objects, Control, Data, TypeOK
<1> QED  BY <1>1, UdpInductive, PTL

\* mg_if_recv_udp_cb makes no second connection for a sender that has one.
THEOREM PeersApart == Spec => []OneChildPerPeer
<1>1. IInv => OneChildPerPeer  BY DEF IInv
<1> QED  BY <1>1, UdpInductive, PTL

\* No connection that comes and goes closes the listener's descriptor.
THEOREM DescriptorKept == Spec => []ListenerKeepsSocket
<1>1. IInv => ListenerKeepsSocket  BY DEF IInv, Control
<1> QED  BY <1>1, UdpInductive, PTL

\* No pending callback, watcher or timer is left of a freed connection.
THEOREM NoCallbackAfterFree == Spec => []FreedIsSilent
<1>1. ASSUME IInv PROVE FreedIsSilent
  <2>1. SUFFICES ASSUME NEW n \in Name, conn[n].life = "freed"
                 PROVE  /\ pend \cap {<<n, "R">>, <<n, "W">>} = {}
                        /\ conn[n].wr # "active" /\ conn[n].ww # "active"
                        /\ ~conn[n].timer
    BY DEF FreedIsSilent
  <2>2. Silent(conn[n])
    BY <1>1, <2>1, ZeroedType DEF IInv, Objects, Left, Serves
  <2>3. \A w \in pend : w[1] # n  BY <1>1, <2>1 DEF IInv, Control, Live
  <2> QED  BY <2>2, <2>3 DEF Silent
<1> QED  BY <1>1, UdpInductive, PTL
=============================================================================
