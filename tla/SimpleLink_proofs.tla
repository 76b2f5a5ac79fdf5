-------------------------- MODULE SimpleLink_proofs -------------------------
(***************************************************************************)
(* Theorems about SimpleLinkIf and SlFs, as instances in Ports: the        *)
(* sockets of the SimpleLink port have owners, whenever the network        *)
(* processor restarts, and its files have owners, are read whole and have  *)
(* the size that was asked for.                                            *)
(***************************************************************************)
EXTENDS Ports, TLAPS, FiniteSetTheorems, FunctionTheorems, SequenceTheorems,
        NaturalsInduction, WellFoundedInduction
-----------------------------------------------------------------------------
(* Induction, for the proofs here and in Ports_proofs.                     *)

\* A set of numbers that has 0, and n + 1 with every n, has them all: among the
\* numbers below one it had not, the successor would be one-to-one and leave out 0.
LEMMA NatSet ==
    ASSUME NEW S, 0 \in S, \A n \in Nat : n \in S => n + 1 \in S
    PROVE  \A n \in Nat : n \in S
<1> SUFFICES ASSUME NEW n \in Nat, n \notin S PROVE FALSE
  OBVIOUS
<1> DEFINE A == {k \in 0..n : k \in S}
           f == [k \in A |-> k + 1]
<1>1. IsFiniteSet(A)
  <2>1. IsFiniteSet(0..n)
    BY FS_Interval
  <2>2. A \in SUBSET (0..n)
    OBVIOUS
  <2> QED BY <2>1, <2>2, FS_Subset
<1>2. \A k \in A : k \in Nat /\ k + 1 \in A
  OBVIOUS
<1>3. f \in [A -> A]
  BY <1>2
<1>4. f \in Injection(A, A)
  BY <1>3, <1>2, Fun_IsInj
<1>5. f \in Surjection(A, A)
  <2> HIDE DEF f, A
  <2> QED BY <1>1, <1>4, FS_Injection
<1>6. 0 \in A
  OBVIOUS
<1>7. \E k \in A : f[k] = 0
  <2> HIDE DEF f, A
  <2> QED BY <1>5, <1>6, Fun_SurjectionProperties
<1> QED BY <1>7, <1>2
-----------------------------------------------------------------------------
(* SimpleLinkIf: the sockets that are open, and whose they are.            *)

\* What a connection has heard, and what it may be.
SlAnnouncements == {<<"ACCEPT">>, <<"CONNECT">>, <<"FAILED">>}
SlHistories == {<<>>, <<"CLOSE">>, <<"ACCEPT", "CLOSE">>, <<"CONNECT", "CLOSE">>, <<"FAILED", "CLOSE">>}
               \cup SlAnnouncements
SlFlags == {"CONNECTING", "LISTENING", "CLOSE_IMMEDIATELY", "SEND_AND_CLOSE", "HANDSHAKE_DONE"}
SlConn == [life : {"none", "live", "closed"}, kind : {"client", "listener", "accepted"}, udp : BOOLEAN,
           ssl : BOOLEAN, flags : SUBSET SlFlags, sock : -1..MaxSock, lc : SUBSET SlConns, err : {"none", "EALREADY", "error"},
           slen : 0..MaxBytes, rlen : 0..MaxBytes, seen : SlHistories]

\* What a connection heard fits what it is: a client that is connecting was told
\* nothing, one that is not was told the result it had, once; an accepted one was
\* told so; CLOSE ends the history of a connection that is closed.  And what it has:
\* only an accepted one has a listener, only a UDP listener a code for a socket.
SlTold(d) ==
    /\ d.life = "none" => d.seen = <<>>
    /\ d.life = "live" => /\ d.seen \in SlAnnouncements \cup {<<>>}
                          /\ d.kind = "client" => ("CONNECTING" \in d.flags <=> d.seen = <<>>)
                          /\ d.kind = "accepted" => d.seen = <<"ACCEPT">>
    /\ "CONNECTING" \in d.flags => d.kind = "client"
    /\ d.err = "error" => d.seen # <<"CONNECT">> /\ d.seen # <<"CONNECT", "CLOSE">>
    /\ d.lc # {} => d.kind = "accepted"
    /\ d.sock = -1 => d.kind = "listener" /\ d.udp

SlSound(d) == d \in SlConn /\ SlTold(d)

SlLists ==
    /\ list \in Seq(SlConns) /\ todo \in Seq(SlConns)
    /\ \A i, j \in 1..Len(list) : list[i] = list[j] => i = j
    /\ \A i, j \in 1..Len(todo) : todo[i] = todo[j] => i = j
    /\ \A c \in SlConns : conn[c].life = "live" <=> \E i \in 1..Len(list) : list[i] = c
    /\ \A i \in 1..Len(todo) : conn[todo[i]].life = "live"

\* Who has a socket of its own.
SlOwner(c) == conn[c].life = "live" /\ conn[c].lc = {} /\ conn[c].sock > 0

SlSockets ==
    /\ open \subseteq 1..MaxSock /\ wild = FALSE /\ spilled \in BOOLEAN
    /\ \A c \in SlConns : SlOwner(c) => conn[c].sock \in open
    /\ \A c, d \in SlConns : SlOwner(c) /\ SlOwner(d) /\ conn[c].sock = conn[d].sock => c = d
    /\ ~spilled => \A s \in open : \E c \in SlConns : SlOwner(c) /\ conn[c].sock = s
    /\ \A c \in SlConns : \A l \in conn[c].lc :
          /\ conn[l].kind = "listener" /\ conn[l].life # "none"
          /\ conn[c].life = "live" /\ conn[l].life = "live" /\ conn[c].sock # 0 => conn[c].sock = conn[l].sock

SlInductive ==
    /\ conn \in [SlConns -> SlConn] /\ pass \in {"idle", "visit", "close"}
    /\ \A c \in SlConns : SlTold(conn[c])
    /\ SlLists /\ SlSockets
-----------------------------------------------------------------------------
\* The lowest of the free sockets is one.
LEMMA SlLowest ==
  ASSUME open \subseteq 1..MaxSock, SL!Free # {}
  PROVE  SL!Lowest \in 1..MaxSock /\ SL!Lowest \notin open
<1>0. MaxSock \in Nat  BY PortsAssumption
<1>1. SL!Free \subseteq Nat  BY <1>0 DEF SL!Free
<1> DEFINE R == {p \in Nat \X Nat : p[1] < p[2]}
<1>a. R = OpToRel(<, Nat)  BY DEF OpToRel
<1>b. IsWellFoundedOn(R, Nat)  BY <1>a, NatLessThanWellFounded
<1> HIDE DEF R
<1>2. PICK x \in SL!Free : \A y \in SL!Free : ~ (<<y, x>> \in R)
  BY <1>1, <1>b, WFMin
<1>3. ASSUME NEW y \in SL!Free  PROVE x <= y
  <2>1. x \in Nat /\ y \in Nat  BY <1>1
  <2>2. y < x => <<y, x>> \in R  BY <2>1 DEF R
  <2>3. <<y, x>> \notin R  BY <1>2
  <2> QED  BY <2>1, <2>2, <2>3
<1>4. SL!Lowest \in SL!Free  BY <1>3 DEF SL!Lowest, SL!Min
<1> QED  BY <1>4 DEF SL!Free
-----------------------------------------------------------------------------
\* mg_call: the connection changes in its flags, in send_mbuf, and in what it heard.
LEMMA SlCalled ==
  ASSUME NEW d \in SlConn, NEW ev, SL!Noted(d, ev) \in SlHistories, NEW e \in SL!Called(d, ev)
  PROVE  /\ e \in SlConn /\ e.seen = SL!Noted(d, ev)
         /\ e.life = d.life /\ e.kind = d.kind /\ e.udp = d.udp /\ e.lc = d.lc /\ e.sock = d.sock /\ e.err = d.err
         /\ "CONNECTING" \in e.flags <=> "CONNECTING" \in d.flags
<1>0. MaxBytes \in Nat  BY PortsAssumption
<1>1. PICK n \in {d.slen, IF d.slen < MaxBytes THEN d.slen + 1 ELSE d.slen},
           f \in {{}, {"CLOSE_IMMEDIATELY"}, {"SEND_AND_CLOSE"}} :
              e = [d EXCEPT !.seen = SL!Noted(d, ev), !.slen = n, !.flags = @ \cup f]
  BY DEF SL!Called
<1>2. d.slen \in 0..MaxBytes /\ d.flags \in SUBSET SlFlags  BY DEF SlConn
<1>3. n \in 0..MaxBytes  BY <1>0, <1>1, <1>2
<1> DEFINE flags == d.flags \cup f
<1>4. flags \in SUBSET SlFlags /\ ("CONNECTING" \in flags <=> "CONNECTING" \in d.flags)
  BY <1>2 DEF SlFlags
<1>5. e = [d EXCEPT !.seen = SL!Noted(d, ev), !.slen = n, !.flags = flags]  BY <1>1
<1> HIDE DEF flags
<1> DEFINE noted == SL!Noted(d, ev)
<1>6. e = [d EXCEPT !.seen = noted, !.slen = n, !.flags = flags] /\ noted \in SlHistories  BY <1>5
<1> HIDE DEF noted
<1>7. e \in SlConn /\ e.seen = noted /\ e.life = d.life /\ e.kind = d.kind /\ e.udp = d.udp /\ e.lc = d.lc /\ e.sock = d.sock /\ e.err = d.err
      /\ e.flags = flags
  BY <1>3, <1>4, <1>6 DEF SlConn
<1> QED  BY <1>4, <1>7 DEF noted

\* Who was told of the connection.
LEMMA SlAnnounced ==
  ASSUME NEW d, d.seen \in SlAnnouncements
  PROVE  SL!Announced(d) /\ \A ev : ev \notin SL!LifeEvents => SL!Noted(d, ev) = d.seen
<1>1. SL!Announced(d)  BY DEF SL!Announced, SL!Range, SlAnnouncements
<1> QED  BY <1>1 DEF SL!Noted

\* Data and polls come to a connection that was announced, and leave its history.
LEMMA SlOther ==
  ASSUME NEW d, SlSound(d), d.life = "live", d.seen \in SlAnnouncements,
         NEW ev \in {"RECV", "SEND", "POLL"}, NEW e \in SL!Called(d, ev)
  PROVE  SlSound(e) /\ e.life = d.life /\ e.kind = d.kind /\ e.udp = d.udp /\ e.lc = d.lc /\ e.sock = d.sock /\ e.seen = d.seen
<1>1. SL!Noted(d, ev) = d.seen  BY SlAnnounced DEF SL!LifeEvents
<1>2. d \in SlConn /\ d.seen \in SlHistories  BY DEF SlSound, SlHistories
<1>3. /\ e \in SlConn /\ e.seen = d.seen
      /\ e.life = d.life /\ e.kind = d.kind /\ e.udp = d.udp /\ e.lc = d.lc /\ e.sock = d.sock /\ e.err = d.err
      /\ "CONNECTING" \in e.flags <=> "CONNECTING" \in d.flags
  BY <1>1, <1>2, SlCalled
<1>4. SlTold(e)  BY <1>3 DEF SlSound, SlTold
<1> QED  BY <1>3, <1>4 DEF SlSound

\* What comes of a connection in a visit: it stays, and keeps its socket.
SlSame(d, e) == SlSound(e) /\ e.life = d.life /\ e.kind = d.kind /\ e.udp = d.udp /\ e.lc = d.lc /\ e.sock = d.sock

\* A client that was told nothing yet.
SlWaits(d) == SlSound(d) /\ d.life = "live" /\ d.kind = "client" /\ "CONNECTING" \in d.flags

\* mg_if_connect_cb: a client that waits is told the result, once.
LEMMA SlConnectCb ==
  ASSUME NEW d, SlWaits(d), NEW err \in {"none", "EALREADY", "error"}, NEW ok \in BOOLEAN,
         ok => err = "none", NEW flags \in SUBSET SlFlags,
         NEW e \in SL!ConnectCb([d EXCEPT !.err = err, !.flags = flags], ok)
  PROVE  SlSame(d, e) /\ e.seen \in SlAnnouncements
<1>1. d \in SlConn /\ d.seen = <<>>  BY DEF SlWaits, SlSound, SlTold
<1> DEFINE left == (flags \ {"CONNECTING"}) \cup (IF ok THEN {} ELSE {"CLOSE_IMMEDIATELY"})
           x == [d EXCEPT !.err = err, !.flags = left]
           ev == IF ok THEN "CONNECT" ELSE "FAILED"
<1>2. left \in SUBSET SlFlags /\ "CONNECTING" \notin left  BY DEF SlFlags
<1>3. [[d EXCEPT !.err = err, !.flags = flags] EXCEPT
          !.flags = (@ \ {"CONNECTING"}) \cup (IF ok THEN {} ELSE {"CLOSE_IMMEDIATELY"})] = x
  BY <1>1 DEF SlConn
<1>4. e \in SL!Called(x, ev)  BY <1>3 DEF SL!ConnectCb
<1> HIDE DEF left
<1>5. /\ x \in SlConn /\ x.seen = <<>> /\ x.life = d.life /\ x.kind = d.kind /\ x.udp = d.udp /\ x.lc = d.lc /\ x.sock = d.sock
      /\ x.err = err /\ x.flags = left
  BY <1>1, <1>2 DEF SlConn
<1> HIDE DEF x
<1>6. SL!Noted(x, ev) = <<ev>> /\ <<ev>> \in SlAnnouncements
  BY <1>5 DEF SL!Noted, SL!LifeEvents, SlAnnouncements
<1>7. SL!Noted(x, ev) \in SlHistories  BY <1>6 DEF SlHistories
<1>8. /\ e \in SlConn /\ e.seen = SL!Noted(x, ev)
      /\ e.life = x.life /\ e.kind = x.kind /\ e.udp = x.udp /\ e.lc = x.lc /\ e.sock = x.sock /\ e.err = x.err
      /\ "CONNECTING" \in e.flags <=> "CONNECTING" \in x.flags
  BY <1>4, <1>5, <1>7, SlCalled
<1>9. SlTold(e)
  <2>1. e.life = "live" /\ e.kind = "client" /\ "CONNECTING" \notin e.flags  BY <1>2, <1>5, <1>8 DEF SlWaits
  <2>0. <<ev>> # <<>>  OBVIOUS
  <2>2. e.seen = <<ev>> /\ e.seen \in SlAnnouncements /\ e.seen # <<>>  BY Zenon, <1>6, <1>8, <2>0
  <2>3. e.err = "error" => e.seen = <<"FAILED">>  BY <1>5, <1>8, <2>2
  <2>4. e.lc = {} /\ e.sock # -1  BY <1>1, <1>5, <1>8 DEF SlWaits, SlSound, SlTold
  <2> QED  BY <2>1, <2>2, <2>3, <2>4 DEF SlTold
<1> QED  BY <1>5, <1>6, <1>8, <1>9 DEF SlSame, SlSound

\* The MG_F_CONNECTING part of mg_mgr_handle_conn.
LEMMA SlConnecting ==
  ASSUME NEW d, SlWaits(d), NEW e \in SL!Connecting(d)
  PROVE  e = d \/ (SlSame(d, e) /\ e.seen \in SlAnnouncements)
<1>1. d \in SlConn /\ d.flags \in SUBSET SlFlags /\ d.err \in {"none", "EALREADY", "error"}
  BY DEF SlWaits, SlSound, SlConn
<1>2. CASE d.udp \/ d.err # "EALREADY"
  <2>1. e \in SL!ConnectCb(d, d.err = "none")  BY <1>2 DEF SL!Connecting
  <2>2. d = [d EXCEPT !.err = d.err, !.flags = d.flags]  BY <1>1 DEF SlConn
  <2>3. PICK ok \in BOOLEAN : ok = (d.err = "none")  OBVIOUS
  <2>4. e \in SL!ConnectCb([d EXCEPT !.err = d.err, !.flags = d.flags], ok)  BY <2>1, <2>2, <2>3
  <2> QED  BY <1>1, <2>3, <2>4, SlConnectCb
<1>3. CASE ~(d.udp \/ d.err # "EALREADY")
  <2> DEFINE flags == IF d.ssl THEN d.flags \cup {"HANDSHAKE_DONE"} ELSE d.flags
  <2>1. flags \in SUBSET SlFlags  BY <1>1 DEF SlFlags
  <2>2. \/ e = d
        \/ e \in SL!ConnectCb([d EXCEPT !.err = "none", !.flags = flags], TRUE)
        \/ \E x \in {"error", "EALREADY"} : e \in SL!ConnectCb([d EXCEPT !.err = x], FALSE)
    BY <1>3 DEF SL!Connecting
  <2> HIDE DEF flags
  <2>3. CASE e \in SL!ConnectCb([d EXCEPT !.err = "none", !.flags = flags], TRUE)
    BY <2>1, <2>3, SlConnectCb
  <2>4. ASSUME NEW x \in {"error", "EALREADY"}, e \in SL!ConnectCb([d EXCEPT !.err = x], FALSE)
        PROVE  SlSame(d, e) /\ e.seen \in SlAnnouncements
    <3>1. [d EXCEPT !.err = x] = [d EXCEPT !.err = x, !.flags = d.flags]  BY <1>1 DEF SlConn
    <3>2. e \in SL!ConnectCb([d EXCEPT !.err = x, !.flags = d.flags], FALSE)  BY <2>4, <3>1
    <3> QED  BY <1>1, <3>2, SlConnectCb
  <2> QED  BY <2>2, <2>3, <2>4
<1> QED  BY <1>2, <1>3

\* A field that no part of SlTold looks at, or a flag other than MG_F_CONNECTING.
LEMMA SlFieldSet ==
  ASSUME NEW d, SlSound(d)
  PROVE  /\ \A n \in 0..MaxBytes : LET e == [d EXCEPT !.rlen = n] IN SlSame(d, e) /\ e.seen = d.seen
         /\ \A n \in 0..MaxBytes : LET e == [d EXCEPT !.slen = n] IN SlSame(d, e) /\ e.seen = d.seen
         /\ \A f \in {"CLOSE_IMMEDIATELY", "SEND_AND_CLOSE"} :
               LET e == [d EXCEPT !.flags = @ \cup {f}] IN SlSame(d, e) /\ e.seen = d.seen
<1>1. d \in SlConn /\ SlTold(d)  BY DEF SlSound
<1>2. ASSUME NEW n \in 0..MaxBytes
      PROVE  LET e == [d EXCEPT !.rlen = n] IN SlSame(d, e) /\ e.seen = d.seen
  <2> DEFINE e == [d EXCEPT !.rlen = n]
  <2>1. /\ e \in SlConn /\ e.life = d.life /\ e.kind = d.kind /\ e.udp = d.udp /\ e.lc = d.lc /\ e.flags = d.flags /\ e.sock = d.sock
        /\ e.err = d.err /\ e.seen = d.seen
    BY <1>1 DEF SlConn
  <2> HIDE DEF e
  <2>2. SlTold(e)  BY <1>1, <2>1 DEF SlTold
  <2>3. SlSame(d, e) /\ e.seen = d.seen  BY <2>1, <2>2 DEF SlSame, SlSound
  <2> QED  BY <2>3 DEF e
<1>3. ASSUME NEW n \in 0..MaxBytes
      PROVE  LET e == [d EXCEPT !.slen = n] IN SlSame(d, e) /\ e.seen = d.seen
  <2> DEFINE e == [d EXCEPT !.slen = n]
  <2>1. /\ e \in SlConn /\ e.life = d.life /\ e.kind = d.kind /\ e.udp = d.udp /\ e.lc = d.lc /\ e.flags = d.flags /\ e.sock = d.sock
        /\ e.err = d.err /\ e.seen = d.seen
    BY <1>1 DEF SlConn
  <2> HIDE DEF e
  <2>2. SlTold(e)  BY <1>1, <2>1 DEF SlTold
  <2>3. SlSame(d, e) /\ e.seen = d.seen  BY <2>1, <2>2 DEF SlSame, SlSound
  <2> QED  BY <2>3 DEF e
<1>4. ASSUME NEW f \in {"CLOSE_IMMEDIATELY", "SEND_AND_CLOSE"}
      PROVE  LET e == [d EXCEPT !.flags = @ \cup {f}] IN SlSame(d, e) /\ e.seen = d.seen
  <2> DEFINE flags == d.flags \cup {f}
             e == [d EXCEPT !.flags = @ \cup {f}]
  <2>0. flags \in SUBSET SlFlags /\ ("CONNECTING" \in flags <=> "CONNECTING" \in d.flags)
    BY <1>1 DEF SlConn, SlFlags
  <2>1. e = [d EXCEPT !.flags = flags]  OBVIOUS
  <2> HIDE DEF flags
  <2>2. /\ e \in SlConn /\ e.life = d.life /\ e.kind = d.kind /\ e.udp = d.udp /\ e.lc = d.lc /\ e.flags = flags /\ e.sock = d.sock
        /\ e.err = d.err /\ e.seen = d.seen
    BY <1>1, <2>0, <2>1 DEF SlConn
  <2> HIDE DEF e
  <2>3. SlTold(e)  BY <1>1, <2>0, <2>2 DEF SlTold
  <2>4. SlSame(d, e) /\ e.seen = d.seen  BY <2>2, <2>3 DEF SlSame, SlSound
  <2> QED  BY <2>4 DEF e
<1> QED  BY <1>2, <1>3, <1>4

\* The poll of a connection that goes on, and what comes before it.
LEMMA SlPolled ==
  ASSUME NEW d, SlSound(d), d.life = "live", d.seen \in SlAnnouncements, NEW e \in SL!PollCb(d)
  PROVE  SlSame(d, e)
<1>1. e = d \/ e \in SL!Called(d, "POLL")  BY DEF SL!PollCb
<1>2. CASE e = d  BY <1>2 DEF SlSame
<1>3. CASE e \in SL!Called(d, "POLL")  BY <1>3, SlOther DEF SlSame
<1> QED  BY <1>1, <1>2, <1>3

\* mg_recv_common
LEMMA SlReceived ==
  ASSUME NEW d, SlSound(d), d.life = "live", d.seen \in SlAnnouncements, NEW e \in SL!Received(d)
  PROVE  SlSame(d, e) /\ e.seen = d.seen
<1>1. e = d \/ \E n \in 0..MaxBytes : e \in SL!Called([d EXCEPT !.rlen = n], "RECV")
  BY Zenon DEF SL!Received
<1>2. ASSUME NEW n \in 0..MaxBytes, e \in SL!Called([d EXCEPT !.rlen = n], "RECV")
      PROVE  SlSame(d, e) /\ e.seen = d.seen
  <2> DEFINE x == [d EXCEPT !.rlen = n]
  <2>1. SlSame(d, x) /\ x.seen = d.seen  BY SlFieldSet
  <2>2. e \in SL!Called(x, "RECV")  BY <1>2
  <2> HIDE DEF x
  <2>3. SlSound(x) /\ x.life = "live" /\ x.seen \in SlAnnouncements  BY <2>1 DEF SlSame
  <2>4. SlSound(e) /\ e.life = x.life /\ e.kind = x.kind /\ e.udp = x.udp /\ e.lc = x.lc /\ e.sock = x.sock /\ e.seen = x.seen
    BY <2>2, <2>3, SlOther
  <2> QED  BY <2>1, <2>4 DEF SlSame
<1>3. CASE e = d  BY <1>3 DEF SlSame
<1> QED  BY <1>1, <1>2, <1>3

LEMMA SlRead ==
  ASSUME NEW d, SlSound(d), d.life = "live", d.seen \in SlAnnouncements, NEW e \in SL!Read(d)
  PROVE  SlSame(d, e) /\ e.seen = d.seen
<1>1. \/ e \in SL!Received(d) \/ e = d
      \/ e = [d EXCEPT !.flags = @ \cup {"SEND_AND_CLOSE"}]
      \/ e = [d EXCEPT !.flags = @ \cup {"CLOSE_IMMEDIATELY"}]
  <2> DEFINE x == [d EXCEPT !.flags = @ \cup {"SEND_AND_CLOSE"}]
             y == [d EXCEPT !.flags = @ \cup {"CLOSE_IMMEDIATELY"}]
  <2>1. e \in SL!Received(d) \cup {d} \cup (IF d.udp THEN {} ELSE {x, y})  BY DEF SL!Read
  <2> HIDE DEF x, y
  <2>2. e \in SL!Received(d) \/ e = d \/ e = x \/ e = y  BY <2>1
  <2> QED  BY Zenon, <2>2 DEF x, y
<1>2. CASE e \in SL!Received(d)  BY <1>2, SlReceived
<1>3. CASE e = d  BY <1>3 DEF SlSame
<1>4. ASSUME NEW f \in {"CLOSE_IMMEDIATELY", "SEND_AND_CLOSE"}, e = [d EXCEPT !.flags = @ \cup {f}]
      PROVE  SlSame(d, e) /\ e.seen = d.seen
  BY <1>4, SlFieldSet
<1> QED  BY <1>1, <1>2, <1>3, <1>4

LEMMA SlWrite ==
  ASSUME NEW d, SlSound(d), d.life = "live", d.seen \in SlAnnouncements, NEW e \in SL!Write(d)
  PROVE  SlSame(d, e)
<1>0. d.slen \in 0..MaxBytes /\ MaxBytes \in Nat  BY PortsAssumption DEF SlSound, SlConn
<1>1. \/ \E n \in 0..(d.slen - 1) : e \in SL!Called([d EXCEPT !.slen = n], "SEND")
      \/ e = d \/ e = [d EXCEPT !.flags = @ \cup {"CLOSE_IMMEDIATELY"}]
  <2> DEFINE U == UNION {SL!Called([d EXCEPT !.slen = n], "SEND") : n \in 0..(d.slen - 1)}
             y == [d EXCEPT !.flags = @ \cup {"CLOSE_IMMEDIATELY"}]
  <2>1. e \in U \cup {d, y}  BY DEF SL!Write
  <2>2. e \in U => \E n \in 0..(d.slen - 1) : e \in SL!Called([d EXCEPT !.slen = n], "SEND")  BY Zenon
  <2> HIDE DEF U, y
  <2>3. e \in U \/ e = d \/ e = y  BY <2>1
  <2> QED  BY Zenon, <2>2, <2>3 DEF y
<1>2. ASSUME NEW n \in 0..(d.slen - 1), e \in SL!Called([d EXCEPT !.slen = n], "SEND")
      PROVE  SlSame(d, e)
  <2> DEFINE x == [d EXCEPT !.slen = n]
  <2>0. n \in 0..MaxBytes  BY <1>0
  <2>1. SlSame(d, x) /\ x.seen = d.seen  BY <2>0, SlFieldSet
  <2>2. e \in SL!Called(x, "SEND")  BY <1>2
  <2> HIDE DEF x
  <2>3. SlSound(x) /\ x.life = "live" /\ x.seen \in SlAnnouncements  BY <2>1 DEF SlSame
  <2>4. SlSound(e) /\ e.life = x.life /\ e.kind = x.kind /\ e.udp = x.udp /\ e.lc = x.lc /\ e.sock = x.sock /\ e.seen = x.seen
    BY <2>2, <2>3, SlOther
  <2> QED  BY <2>1, <2>4 DEF SlSame
<1>3. CASE e = d  BY <1>3 DEF SlSame
<1>4. CASE e = [d EXCEPT !.flags = @ \cup {"CLOSE_IMMEDIATELY"}]  BY <1>4, SlFieldSet
<1> QED  BY <1>1, <1>2, <1>3, <1>4

\* mg_mgr_handle_conn: the handler is called of what happened, and of nothing
\* before the connection was announced to it.
LEMMA SlHandled ==
  ASSUME NEW d, SlSound(d), d.life = "live", d.kind # "listener", NEW e \in SL!HandleConn(d)
  PROVE  SlSame(d, e)
<1>0. d \in SlConn /\ SlTold(d) /\ d.kind \in {"client", "accepted"}  BY DEF SlSound, SlConn
<1>1. CASE "CONNECTING" \in d.flags
  <2>1. SlWaits(d)  BY <1>0, <1>1 DEF SlWaits, SlTold
  <2>2. PICK x \in SL!Connecting(d) : e \in IF "CLOSE_IMMEDIATELY" \in x.flags THEN {x} ELSE SL!PollCb(x)
    BY <1>1 DEF SL!HandleConn
  <2>3. x = d \/ (SlSame(d, x) /\ x.seen \in SlAnnouncements)  BY <2>1, <2>2, SlConnecting
  <2>4. CASE x = d
    <3>1. ~SL!Announced(d)
      <4>1. d.seen = <<>>  BY <2>1 DEF SlWaits, SlSound, SlTold
      <4> QED  BY <4>1 DEF SL!Announced, SL!Range
    <3>2. e = d \/ e \in SL!Called(d, "POLL")  BY <2>2, <2>4 DEF SL!PollCb
    <3>3. SL!Noted(d, "POLL") = d.seen  BY DEF SL!Noted, SL!LifeEvents
    <3>4. d.seen \in SlHistories  BY <1>0 DEF SlConn
    <3>5. CASE e \in SL!Called(d, "POLL")
      <4>1. /\ e \in SlConn /\ e.seen = d.seen
            /\ e.life = d.life /\ e.kind = d.kind /\ e.udp = d.udp /\ e.lc = d.lc /\ e.sock = d.sock /\ e.err = d.err
            /\ "CONNECTING" \in e.flags <=> "CONNECTING" \in d.flags
        BY <1>0, <3>3, <3>4, <3>5, SlCalled
      <4>2. SlTold(e)  BY <1>0, <4>1 DEF SlTold
      <4> QED  BY <4>1, <4>2 DEF SlSame, SlSound
    <3> QED  BY <3>2, <3>5 DEF SlSame
  <2>5. CASE SlSame(d, x) /\ x.seen \in SlAnnouncements
    <3>1. SlSound(x) /\ x.life = "live"  BY <2>5 DEF SlSame
    <3>2. SlSame(x, e)
      <4>1. CASE e = x  BY <3>1, <4>1 DEF SlSame
      <4>2. CASE e \in SL!PollCb(x)  BY <2>5, <3>1, <4>2, SlPolled
      <4> QED  BY <2>2, <4>1, <4>2
    <3> QED  BY <2>5, <3>2 DEF SlSame
  <2> QED  BY <2>3, <2>4, <2>5
<1>2. CASE "CONNECTING" \notin d.flags
  <2>1. d.seen \in SlAnnouncements  BY <1>0, <1>2 DEF SlTold, SlAnnouncements
  <2>2. PICK x \in (IF SL!CanRead(d) THEN SL!Read(d) ELSE {d}) :
           \/ e = x \/ e \in SL!Write(x) \/ e \in SL!PollCb(x)
    BY <1>2 DEF SL!HandleConn
  <2>3. SlSame(d, x) /\ x.seen = d.seen
    <3>1. CASE x \in SL!Read(d)  BY <2>1, <3>1, SlRead
    <3>2. CASE x = d  BY <3>2 DEF SlSame
    <3> QED  BY <2>2, <3>1, <3>2
  <2>4. SlSound(x) /\ x.life = "live" /\ x.seen \in SlAnnouncements  BY <2>1, <2>3 DEF SlSame
  <2>5. SlSame(x, e)
    <3>1. CASE e = x  BY <2>4, <3>1 DEF SlSame
    <3>2. CASE e \in SL!Write(x)  BY <2>4, <3>2, SlWrite
    <3>3. CASE e \in SL!PollCb(x)  BY <2>4, <3>3, SlPolled
    <3> QED  BY <2>2, <3>1, <3>2, <3>3
  <2> QED  BY <2>3, <2>5 DEF SlSame
<1> QED  BY <1>1, <1>2
-----------------------------------------------------------------------------
\* What is left of a pass: some of what was left, in the same order, or all of
\* the list, or nothing.
SlTodoStep ==
    /\ todo' \in Seq(SlConns)
    /\ \A i, j \in 1..Len(todo') : todo'[i] = todo'[j] => i = j
    /\ \A i \in 1..Len(todo') : conn[todo'[i]].life = "live"

LEMMA SlTodo ==
  ASSUME SlLists
  PROVE  /\ todo' = todo => SlTodoStep
         /\ todo' = list => SlTodoStep
         /\ todo' = <<>> => SlTodoStep
         /\ todo # <<>> /\ todo' = Tail(todo) =>
               SlTodoStep /\ todo[1] \in SlConns /\ conn[todo[1]].life = "live"
               /\ \A i \in 1..Len(todo') : todo'[i] # todo[1]
<1>1. todo' = todo => SlTodoStep  BY DEF SlLists, SlTodoStep
<1>2. ASSUME todo' = list  PROVE SlTodoStep
  <2>1. \A i \in 1..Len(list) : list[i] \in SlConns  BY DEF SlLists
  <2>2. \A i \in 1..Len(list) : conn[list[i]].life = "live"  BY <2>1 DEF SlLists
  <2> QED  BY <1>2, <2>2 DEF SlLists, SlTodoStep
<1>3. todo' = <<>> => SlTodoStep  BY DEF SlTodoStep
<1>4. ASSUME todo # <<>>, todo' = Tail(todo)
      PROVE  /\ SlTodoStep /\ todo[1] \in SlConns /\ conn[todo[1]].life = "live"
             /\ \A i \in 1..Len(todo') : todo'[i] # todo[1]
  <2>1. todo \in Seq(SlConns)  BY DEF SlLists
  <2>2. /\ Len(todo) \in Nat /\ Len(todo) >= 1 /\ todo' \in Seq(SlConns) /\ Len(todo') = Len(todo) - 1
        /\ \A i \in 1..Len(todo') : todo'[i] = todo[i + 1] /\ i + 1 \in 1..Len(todo) /\ i + 1 # 1
        /\ 1 \in 1..Len(todo)
    BY <1>4, <2>1
  <2>3. \A i, j \in 1..Len(todo) : todo[i] = todo[j] => i = j  BY DEF SlLists
  <2>4. \A i \in 1..Len(todo) : conn[todo[i]].life = "live" /\ todo[i] \in SlConns  BY <2>1 DEF SlLists
  <2>5. \A i \in 1..Len(todo') : todo'[i] # todo[1]  BY <2>2, <2>3
  <2>6. \A i, j \in 1..Len(todo') : todo'[i] = todo'[j] => i = j
    <3>1. SUFFICES ASSUME NEW i \in 1..Len(todo'), NEW j \in 1..Len(todo'), todo'[i] = todo'[j]  PROVE i = j
      OBVIOUS
    <3>2. i + 1 = j + 1  BY <2>2, <2>3, <3>1
    <3> QED  BY <2>2, <3>2
  <2> QED  BY <2>2, <2>4, <2>5, <2>6 DEF SlTodoStep
<1> QED  BY <1>1, <1>2, <1>3, <1>4

LEMMA SlSocketsKept ==
  ASSUME SlSockets, UNCHANGED <<conn, open, spilled, wild>>
  PROVE  SlSockets'
<1>1. \A x \in SlConns : SlOwner(x)' <=> SlOwner(x)  BY DEF SlOwner
<1> QED  BY <1>1 DEF SlSockets

\* A connection changes in what is not about its life or its socket.
LEMMA SlChanged ==
  ASSUME SlInductive, NEW c \in SlConns, NEW e, SlSame(conn[c], e), conn' = [conn EXCEPT ![c] = e],
         SlTodoStep, pass' \in {"idle", "visit", "close"}, UNCHANGED <<list, open, spilled, wild>>
  PROVE  SlInductive'
<1>1. /\ conn' \in [SlConns -> SlConn] /\ conn'[c] = e
      /\ \A x \in SlConns : x # c => conn'[x] = conn[x]
  BY DEF SlInductive, SlSame, SlSound
<1>2. \A x \in SlConns : /\ conn'[x].life = conn[x].life /\ conn'[x].sock = conn[x].sock /\ SlTold(conn'[x])
                         /\ conn'[x].kind = conn[x].kind /\ conn'[x].lc = conn[x].lc
  BY <1>1 DEF SlInductive, SlSame, SlSound
<1>3. SlLists'
  <2>1. \A i \in 1..Len(todo') : todo'[i] \in SlConns  BY DEF SlTodoStep
  <2>2. \A i \in 1..Len(todo') : conn'[todo'[i]].life = "live"  BY <1>2, <2>1 DEF SlTodoStep
  <2>3. \A x \in SlConns : conn'[x].life = "live" <=> \E i \in 1..Len(list') : list'[i] = x
    BY <1>2 DEF SlInductive, SlLists
  <2>4. list' \in Seq(SlConns) /\ \A i, j \in 1..Len(list') : list'[i] = list'[j] => i = j
    BY DEF SlInductive, SlLists
  <2> QED  BY <2>2, <2>3, <2>4 DEF SlLists, SlTodoStep
<1>4. SlSockets'
  <2>1. \A x \in SlConns : SlOwner(x)' <=> SlOwner(x)  BY <1>2 DEF SlOwner
  <2>2. \A x \in SlConns : \A l \in conn'[x].lc : l \in SlConns
    BY <1>1 DEF SlConn
  <2>3. \A x \in SlConns : \A l \in conn'[x].lc :
          /\ conn'[l].kind = "listener" /\ conn'[l].life # "none"
          /\ conn'[x].life = "live" /\ conn'[l].life = "live" /\ conn'[x].sock # 0 => conn'[x].sock = conn'[l].sock
    BY <1>2, <2>2 DEF SlInductive, SlSockets
  <2> QED  BY <1>2, <2>1, <2>3 DEF SlInductive, SlSockets
<1> QED  BY <1>1, <1>2, <1>3, <1>4 DEF SlInductive

\* A connection is opened: with a socket of its own, or without one (or with that of
\* its listener), or in vain.
LEMMA SlOpened ==
  ASSUME SlInductive, NEW c \in SlConns, conn[c].life = "none", NEW d, SlSound(d),
         d.life \in {"live", "closed"}, SL!Listed(c, d), SlTodoStep,
         \/ open' = open /\ (d.sock \in {-1, 0} \/ d.lc # {} \/ d.life = "closed")
         \/ SL!Free # {} /\ open' = open \cup {SL!Lowest} /\ d.life = "live" /\ d.lc = {} /\ d.sock = SL!Lowest,
         \A l \in d.lc : conn[l].kind = "listener" /\ conn[l].life = "live" /\ d.sock = conn[l].sock,
         UNCHANGED <<pass, spilled, wild>>
  PROVE  SlInductive'
<1>0. SlLists /\ SlSockets /\ conn \in [SlConns -> SlConn] /\ \A x \in SlConns : SlTold(conn[x])
  BY DEF SlInductive
<1>1. /\ conn' = [conn EXCEPT ![c] = d]
      /\ list' = IF d.life = "live" THEN <<c>> \o list ELSE list
  BY DEF SL!Listed
<1>2. /\ conn' \in [SlConns -> SlConn] /\ conn'[c] = d
      /\ \A x \in SlConns : x # c => conn'[x] = conn[x]
  BY <1>0, <1>1 DEF SlSound
<1>3. \A x \in SlConns : SlTold(conn'[x])  BY <1>0, <1>2 DEF SlSound
<1>4. SlLists'
  <2>0. list \in Seq(SlConns) /\ Len(list) \in Nat  BY <1>0 DEF SlLists
  <2>1. \A i \in 1..Len(todo') : conn'[todo'[i]].life = "live"
    <3>1. \A i \in 1..Len(todo') : todo'[i] \in SlConns /\ conn[todo'[i]].life = "live"  BY DEF SlTodoStep
    <3> QED  BY <1>2, <3>1
  <2>2. \A i \in 1..Len(list) : list[i] # c  BY <1>0 DEF SlLists
  <2>3. /\ list' \in Seq(SlConns) /\ \A i, j \in 1..Len(list') : list'[i] = list'[j] => i = j
        /\ \A x \in SlConns : conn'[x].life = "live" <=> \E i \in 1..Len(list') : list'[i] = x
    <3>1. CASE d.life = "live"
      <4>1. /\ list' \in Seq(SlConns) /\ Len(list') = Len(list) + 1 /\ list'[1] = c
            /\ \A i \in 1..Len(list) : list'[i + 1] = list[i]
        BY <1>1, <2>0, <3>1
      <4>2. \A i \in 1..Len(list') : i = 1 \/ (i - 1 \in 1..Len(list) /\ list'[i] = list[i - 1])
        <5>1. SUFFICES ASSUME NEW i \in 1..Len(list'), i # 1
                       PROVE  i - 1 \in 1..Len(list) /\ list'[i] = list[i - 1]
          OBVIOUS
        <5>2. i - 1 \in 1..Len(list)  BY <2>0, <4>1, <5>1
        <5>3. list'[(i - 1) + 1] = list[i - 1]  BY <4>1, <5>2
        <5>4. (i - 1) + 1 = i  BY <2>0, <4>1
        <5> QED  BY <5>2, <5>3, <5>4
      <4>3. \A i, j \in 1..Len(list') : list'[i] = list'[j] => i = j
        <5>1. SUFFICES ASSUME NEW i \in 1..Len(list'), NEW j \in 1..Len(list'), list'[i] = list'[j]  PROVE i = j
          OBVIOUS
        <5>2. i = 1 \/ (i - 1 \in 1..Len(list) /\ list'[i] = list[i - 1])  BY <4>2
        <5>3. j = 1 \/ (j - 1 \in 1..Len(list) /\ list'[j] = list[j - 1])  BY <4>2
        <5>4. i # 1 /\ j # 1 => i - 1 = j - 1  BY <1>0, <5>1, <5>2, <5>3 DEF SlLists
        <5> QED  BY <2>0, <2>2, <4>1, <5>1, <5>2, <5>3, <5>4
      <4>4. ASSUME NEW x \in SlConns  PROVE conn'[x].life = "live" <=> \E i \in 1..Len(list') : list'[i] = x
        <5>1. CASE x = c
          <6>1. 1 \in 1..Len(list')  BY <2>0, <4>1
          <6> QED  BY <1>2, <3>1, <4>1, <5>1, <6>1
        <5>2. CASE x # c
          <6>1. conn'[x].life = "live" <=> \E i \in 1..Len(list) : list[i] = x  BY <1>0, <1>2, <5>2 DEF SlLists
          <6>2. \A i \in 1..Len(list) : i + 1 \in 1..Len(list')  BY <2>0, <4>1
          <6>3. (\E i \in 1..Len(list) : list[i] = x) => \E i \in 1..Len(list') : list'[i] = x  BY <4>1, <6>2
          <6>4. (\E i \in 1..Len(list') : list'[i] = x) => \E i \in 1..Len(list) : list[i] = x
            BY <4>1, <4>2, <5>2
          <6> QED  BY <6>1, <6>3, <6>4
        <5> QED  BY <5>1, <5>2
      <4> QED  BY <4>1, <4>3, <4>4
    <3>2. CASE d.life # "live"
      <4>1. list' = list  BY <1>1, <3>2
      <4>2. \A x \in SlConns : conn'[x].life = "live" <=> conn[x].life = "live"  BY <1>2, <3>2
      <4> QED  BY <1>0, <4>1, <4>2 DEF SlLists
    <3> QED  BY <3>1, <3>2
  <2> QED  BY <2>1, <2>3 DEF SlLists, SlTodoStep
<1>5. SlSockets'
  <2>1. \A x \in SlConns : SlOwner(x) => x # c /\ SlOwner(x)' /\ conn'[x] = conn[x]  BY <1>2 DEF SlOwner
  <2>2. \A x \in SlConns : SlOwner(x)' => x = c \/ (SlOwner(x) /\ conn'[x] = conn[x])  BY <1>2 DEF SlOwner
  <2>3. ASSUME NEW x \in SlConns, NEW l \in conn'[x].lc
        PROVE  /\ conn'[l].kind = "listener" /\ conn'[l].life # "none"
               /\ conn'[x].life = "live" /\ conn'[l].life = "live" /\ conn'[x].sock # 0 => conn'[x].sock = conn'[l].sock
    <3>1. l \in SlConns  BY <1>2, <2>3 DEF SlConn
    <3>2. CASE x = c
      <4>1. l # c /\ conn'[l] = conn[l]  BY <1>2, <2>3, <3>1, <3>2
      <4> QED  BY <1>2, <2>3, <3>2, <4>1
    <3>3. CASE x # c
      <4>1. conn'[x] = conn[x] /\ l \in conn[x].lc  BY <1>2, <2>3, <3>3
      <4>2. l # c  BY <1>0, <4>1 DEF SlSockets
      <4> QED  BY <1>0, <1>2, <3>1, <4>1, <4>2 DEF SlSockets
    <3> QED  BY <3>2, <3>3
  <2>4. CASE open' = open /\ (d.sock \in {-1, 0} \/ d.lc # {} \/ d.life = "closed")
    <3>1. ~SlOwner(c)'  BY <1>2, <2>4 DEF SlOwner
    <3> QED  BY <1>0, <2>1, <2>2, <2>3, <2>4, <3>1 DEF SlSockets
  <2>5. CASE SL!Free # {} /\ open' = open \cup {SL!Lowest} /\ d.life = "live" /\ d.lc = {} /\ d.sock = SL!Lowest
    <3>1. SL!Lowest \in 1..MaxSock /\ SL!Lowest \notin open  BY <1>0, <2>5, SlLowest DEF SlSockets
    <3>2. open' \subseteq 1..MaxSock  BY <1>0, <2>5, <3>1 DEF SlSockets
    <3>3. conn'[c].sock = SL!Lowest /\ SlOwner(c)'
      <4>1. SL!Lowest > 0  BY <3>1
      <4> QED  BY <1>2, <2>5, <4>1 DEF SlOwner
    <3>4. \A x \in SlConns : SlOwner(x) => conn[x].sock \in open  BY <1>0 DEF SlSockets
    <3>5. \A x \in SlConns : SlOwner(x)' => conn'[x].sock \in open'
      BY <2>2, <2>5, <3>3, <3>4
    <3>6. \A x, y \in SlConns : SlOwner(x)' /\ SlOwner(y)' /\ conn'[x].sock = conn'[y].sock => x = y
      BY <1>0, <2>2, <3>1, <3>3, <3>4 DEF SlSockets
    <3>7. ~spilled => \A t \in open' : \E x \in SlConns : SlOwner(x)' /\ conn'[x].sock = t
      BY <1>0, <2>1, <2>5, <3>3 DEF SlSockets
    <3> QED  BY <1>0, <2>3, <3>2, <3>5, <3>6, <3>7 DEF SlSockets
  <2> QED  BY <2>4, <2>5
<1> QED  BY <1>2, <1>3, <1>4, <1>5 DEF SlInductive

\* The record that a client begins with.
SlClient(udp, ssl) == [SL!Unused EXCEPT !.life = "live", !.udp = udp, !.ssl = ssl, !.flags = {"CONNECTING"}]

SlBegins(d) ==
    /\ d \in SlConn /\ d.life = "live" /\ d.kind = "client" /\ d.flags = {"CONNECTING"} /\ d.seen = <<>> /\ d.sock = 0
    /\ d.lc = {}

LEMMA SlClientBegins ==
  ASSUME NEW udp, udp \in BOOLEAN, NEW ssl, ssl \in BOOLEAN
  PROVE  SlBegins(SlClient(udp, ssl))
<1>0. 0 \in -1..MaxSock /\ 0 \in 0..MaxBytes  BY PortsAssumption
<1>1. {"CONNECTING"} \in SUBSET SlFlags /\ <<>> \in SlHistories  BY DEF SlFlags, SlHistories
<1>2. SL!Unused = [life |-> "none", kind |-> "client", udp |-> FALSE, ssl |-> FALSE, flags |-> {}, sock |-> 0,
                   lc |-> {}, err |-> "none", slen |-> 0, rlen |-> 0, seen |-> <<>>]
  BY DEF SL!Unused
<1> QED  BY <1>0, <1>1, <1>2 DEF SlClient, SlConn, SlBegins

LEMMA SlNew ==
  ASSUME NEW new, SlBegins(new)
  PROVE  /\ \A e \in {"none", "EALREADY", "error"}, s \in 0..MaxSock :
               LET d == [new EXCEPT !.sock = s, !.err = e] IN SlSound(d) /\ d.life = "live" /\ d.sock = s /\ d.lc = {}
         /\ LET d == [new EXCEPT !.err = "error"] IN SlSound(d) /\ d.life = "live" /\ d.sock = 0 /\ d.lc = {}
         /\ LET d == [new EXCEPT !.life = "closed", !.seen = <<>>] IN SlSound(d) /\ d.life = "closed" /\ d.lc = {}
<1>1. <<>> \in SlHistories  BY DEF SlHistories
<1>2. /\ new \in SlConn /\ new.life = "live" /\ new.kind = "client" /\ new.flags = {"CONNECTING"} /\ new.seen = <<>>
      /\ new.sock = 0 /\ new.lc = {} /\ \A s \in 0..MaxSock : s \in -1..MaxSock /\ s # -1
  BY DEF SlBegins
<1>3. ASSUME NEW e \in {"none", "EALREADY", "error"}, NEW s \in 0..MaxSock
      PROVE  LET d == [new EXCEPT !.sock = s, !.err = e] IN SlSound(d) /\ d.life = "live" /\ d.sock = s /\ d.lc = {}
  <2> DEFINE d == [new EXCEPT !.sock = s, !.err = e]
  <2>1. d \in SlConn /\ d.life = "live" /\ d.kind = "client" /\ d.flags = {"CONNECTING"} /\ d.seen = <<>> /\ d.sock = s
        /\ d.lc = {} /\ s # -1
    BY <1>2 DEF SlConn
  <2> HIDE DEF d
  <2>2. SlSound(d) /\ d.life = "live" /\ d.sock = s /\ d.lc = {}  BY <2>1 DEF SlTold, SlSound
  <2> QED  BY <2>2 DEF d
<1>4. LET d == [new EXCEPT !.err = "error"] IN SlSound(d) /\ d.life = "live" /\ d.sock = 0 /\ d.lc = {}
  <2> DEFINE d == [new EXCEPT !.err = "error"]
  <2>1. d \in SlConn /\ d.life = "live" /\ d.kind = "client" /\ d.flags = {"CONNECTING"} /\ d.seen = <<>> /\ d.sock = 0
        /\ d.lc = {}
    BY <1>2 DEF SlConn
  <2> HIDE DEF d
  <2>2. SlSound(d) /\ d.life = "live" /\ d.sock = 0 /\ d.lc = {}  BY <2>1 DEF SlTold, SlSound
  <2> QED  BY <2>2 DEF d
<1>5. LET d == [new EXCEPT !.life = "closed", !.seen = <<>>] IN SlSound(d) /\ d.life = "closed" /\ d.lc = {}
  <2> DEFINE d == [new EXCEPT !.life = "closed", !.seen = <<>>]
  <2>1. d \in SlConn /\ d.life = "closed" /\ d.kind = "client" /\ d.seen = <<>> /\ d.lc = {} /\ d.sock = 0
    BY <1>1, <1>2 DEF SlConn
  <2> HIDE DEF d
  <2>2. SlSound(d) /\ d.life = "closed" /\ d.lc = {}  BY <2>1 DEF SlTold, SlSound
  <2> QED  BY <2>2 DEF d
<1> QED  BY <1>3, <1>4, <1>5

\* mg_connect_opt
LEMMA SlConnect ==
  ASSUME SlInductive, NEW c \in SlConns, SL!Connect(c)
  PROVE  SlInductive'
<1>1. conn[c].life = "none" /\ UNCHANGED <<todo, pass, ready, spilled, restarts, wild>>  BY DEF SL!Connect
<1>2. SlTodoStep  BY <1>1, SlTodo DEF SlInductive
<1>3. PICK udp \in BOOLEAN, ssl \in BOOLEAN :
        LET errs == IF udp THEN {"none"} ELSE {"none", "EALREADY", "error"}
        IN  \/ SL!Listed(c, [SlClient(udp, ssl) EXCEPT !.err = "error"]) /\ UNCHANGED open
            \/ SL!Listed(c, [SlClient(udp, ssl) EXCEPT !.life = "closed", !.seen = <<>>]) /\ UNCHANGED open
            \/ /\ SL!Free # {} /\ open' = open \cup {SL!Lowest}
               /\ \E e \in errs : SL!Listed(c, [SlClient(udp, ssl) EXCEPT !.sock = SL!Lowest, !.err = e])
  BY Zenon DEF SL!Connect, SlClient
<1>b. udp \in BOOLEAN /\ ssl \in BOOLEAN  BY <1>3
<1> DEFINE new == SlClient(udp, ssl)
<1>c. SlBegins(new)  BY <1>b, SlClientBegins
<1>4. CASE SL!Listed(c, [new EXCEPT !.err = "error"]) /\ UNCHANGED open
  <2> DEFINE d == [new EXCEPT !.err = "error"]
  <2>1. SlSound(d) /\ d.life = "live" /\ d.sock = 0 /\ d.lc = {}  BY Zenon, <1>c, SlNew
  <2>2. SL!Listed(c, d) /\ open' = open  BY <1>4
  <2> HIDE DEF d
  <2> QED  BY <1>1, <1>2, <2>1, <2>2, SlOpened
<1>5. CASE SL!Listed(c, [new EXCEPT !.life = "closed", !.seen = <<>>]) /\ UNCHANGED open
  <2> DEFINE d == [new EXCEPT !.life = "closed", !.seen = <<>>]
  <2>1. SlSound(d) /\ d.life = "closed" /\ d.lc = {}  BY Zenon, <1>c, SlNew
  <2>2. SL!Listed(c, d) /\ open' = open  BY <1>5
  <2> HIDE DEF d
  <2> QED  BY <1>1, <1>2, <2>1, <2>2, SlOpened
<1>6. ASSUME SL!Free # {}, open' = open \cup {SL!Lowest}, NEW e \in {"none", "EALREADY", "error"},
             SL!Listed(c, [new EXCEPT !.sock = SL!Lowest, !.err = e])
      PROVE  SlInductive'
  <2> DEFINE d == [new EXCEPT !.sock = SL!Lowest, !.err = e]
  <2>0. SL!Lowest \in 0..MaxSock
    <3>1. SL!Lowest \in 1..MaxSock  BY <1>6, SlLowest DEF SlInductive, SlSockets
    <3> QED  BY <3>1, PortsAssumption
  <2>a. \A x \in {"none", "EALREADY", "error"}, s \in 0..MaxSock :
           LET f == [new EXCEPT !.sock = s, !.err = x] IN SlSound(f) /\ f.life = "live" /\ f.sock = s /\ f.lc = {}
    BY Zenon, <1>c, SlNew
  <2>1. SlSound(d) /\ d.life = "live" /\ d.sock = SL!Lowest /\ d.lc = {}  BY Zenon, <1>6, <2>0, <2>a
  <2>2. SL!Listed(c, d)  BY <1>6
  <2> HIDE DEF d
  <2> QED  BY <1>1, <1>2, <1>6, <2>1, <2>2, SlOpened
<1> QED  BY <1>3, <1>4, <1>5, <1>6

\* mg_bind_opt
LEMMA SlBind ==
  ASSUME SlInductive, NEW c \in SlConns, SL!Bind(c)
  PROVE  SlInductive'
<1>1. /\ conn[c].life = "none" /\ UNCHANGED <<todo, pass, ready, spilled, restarts, wild>>
  BY DEF SL!Bind
<1>2. SlTodoStep  BY <1>1, SlTodo DEF SlInductive
<1> DEFINE New(udp, ssl) == [SL!Unused EXCEPT !.life = "live", !.kind = "listener", !.udp = udp, !.ssl = ssl,
                                             !.flags = {"LISTENING"}]
<1>3. PICK udp \in BOOLEAN, ssl \in BOOLEAN :
        \/ SL!Listed(c, [New(udp, ssl) EXCEPT !.life = "closed"]) /\ UNCHANGED open
        \/ udp /\ SL!Listed(c, [New(udp, ssl) EXCEPT !.sock = -1]) /\ UNCHANGED open
        \/ SL!Free # {} /\ SL!Listed(c, [New(udp, ssl) EXCEPT !.sock = SL!Lowest]) /\ open' = open \cup {SL!Lowest}
  BY Zenon DEF SL!Bind
<1> DEFINE new == New(udp, ssl)
<1>4. /\ new \in SlConn /\ new.life = "live" /\ new.kind = "listener" /\ new.udp = udp /\ new.sock = 0 /\ new.lc = {}
      /\ new.flags = {"LISTENING"} /\ new.seen = <<>> /\ new.err = "none"
  <2>1. 0 \in 0..MaxBytes /\ 0 \in -1..MaxSock /\ {"LISTENING"} \in SUBSET SlFlags /\ <<>> \in SlHistories
    BY PortsAssumption DEF SlFlags, SlHistories
  <2>2. SL!Unused = [life |-> "none", kind |-> "client", udp |-> FALSE, ssl |-> FALSE, flags |-> {}, sock |-> 0,
                     lc |-> {}, err |-> "none", slen |-> 0, rlen |-> 0, seen |-> <<>>]
    BY DEF SL!Unused
  <2>3. udp \in BOOLEAN /\ ssl \in BOOLEAN  BY <1>3
  <2> QED  BY <2>1, <2>2, <2>3 DEF SlConn
<1>5. ASSUME NEW lf \in {"live", "closed"}, NEW t \in -1..MaxSock, t = -1 => udp
      PROVE  LET d == [new EXCEPT !.life = lf, !.sock = t] IN SlSound(d) /\ d.life = lf /\ d.sock = t /\ d.lc = {}
  <2> HIDE DEF new
  <2> DEFINE d == [new EXCEPT !.life = lf, !.sock = t]
  <2>1. /\ d \in SlConn /\ d.life = lf /\ d.kind = "listener" /\ d.udp = udp /\ d.sock = t /\ d.lc = {}
        /\ d.flags = {"LISTENING"} /\ d.seen = <<>> /\ d.err = "none"
    BY <1>4, <1>5 DEF SlConn
  <2> HIDE DEF d
  <2>2. SlTold(d)  BY <1>5, <2>1 DEF SlTold
  <2> QED  BY <2>1, <2>2 DEF SlSound, d
<1>6. /\ [New(udp, ssl) EXCEPT !.life = "closed"] = [new EXCEPT !.life = "closed", !.sock = 0]
      /\ \A t : [New(udp, ssl) EXCEPT !.sock = t] = [new EXCEPT !.life = "live", !.sock = t]
  <2> HIDE DEF New
  <2> QED  BY <1>4 DEF SlConn
<1> HIDE DEF new, New
<1>7. CASE SL!Listed(c, [New(udp, ssl) EXCEPT !.life = "closed"]) /\ UNCHANGED open
  <2> DEFINE d == [new EXCEPT !.life = "closed", !.sock = 0]
  <2>0. 0 \in -1..MaxSock /\ 0 # -1  BY PortsAssumption
  <2>1. SlSound(d) /\ d.life = "closed" /\ d.lc = {}  BY Zenon, <1>5, <2>0
  <2>2. SL!Listed(c, d) /\ open' = open  BY <1>6, <1>7
  <2> HIDE DEF d
  <2> QED  BY <1>1, <1>2, <2>1, <2>2, SlOpened
<1>8. CASE udp /\ SL!Listed(c, [New(udp, ssl) EXCEPT !.sock = -1]) /\ UNCHANGED open
  <2> DEFINE d == [new EXCEPT !.life = "live", !.sock = -1]
  <2>0. -1 \in -1..MaxSock  BY PortsAssumption
  <2>1. SlSound(d) /\ d.life = "live" /\ d.sock = -1 /\ d.lc = {}  BY Zenon, <1>5, <1>8, <2>0
  <2>2. SL!Listed(c, d) /\ open' = open  BY <1>6, <1>8
  <2> HIDE DEF d
  <2> QED  BY <1>1, <1>2, <2>1, <2>2, SlOpened
<1>9. CASE SL!Free # {} /\ SL!Listed(c, [New(udp, ssl) EXCEPT !.sock = SL!Lowest]) /\ open' = open \cup {SL!Lowest}
  <2> DEFINE d == [new EXCEPT !.life = "live", !.sock = SL!Lowest]
  <2>0. SL!Lowest \in -1..MaxSock /\ SL!Lowest # -1
    <3>1. SL!Lowest \in 1..MaxSock  BY <1>9, SlLowest DEF SlInductive, SlSockets
    <3> QED  BY <3>1, PortsAssumption
  <2>1. SlSound(d) /\ d.life = "live" /\ d.sock = SL!Lowest /\ d.lc = {}  BY Zenon, <1>5, <2>0
  <2>2. SL!Listed(c, d)  BY <1>6, <1>9
  <2> HIDE DEF d
  <2> QED  BY <1>1, <1>2, <1>9, <2>1, <2>2, SlOpened
<1> QED  BY <1>3, <1>7, <1>8, <1>9

\* The record that an accepted connection begins with: of TCP with a socket of its
\* own, of UDP with its listener's.
SlComes(d) == /\ d \in SlConn /\ d.life = "live" /\ d.kind = "accepted" /\ d.sock # -1 /\ "CONNECTING" \notin d.flags
              /\ d.seen = <<>> /\ d.err = "none"

LEMMA SlAccepted ==
  ASSUME NEW new, SlComes(new), NEW d \in SL!Called(new, "ACCEPT")
  PROVE  SlSound(d) /\ d.life = "live" /\ d.sock = new.sock /\ d.lc = new.lc /\ d.seen \in SlAnnouncements
<1>1. SL!Noted(new, "ACCEPT") = <<"ACCEPT">>  BY DEF SL!Noted, SL!LifeEvents, SlComes
<1>2. SL!Noted(new, "ACCEPT") \in SlHistories  BY <1>1 DEF SlHistories, SlAnnouncements
<1>3. /\ d \in SlConn /\ d.seen = SL!Noted(new, "ACCEPT")
      /\ d.life = new.life /\ d.kind = new.kind /\ d.udp = new.udp /\ d.lc = new.lc /\ d.sock = new.sock /\ d.err = new.err
      /\ "CONNECTING" \in d.flags <=> "CONNECTING" \in new.flags
  BY <1>2, SlCalled DEF SlComes
<1>4. SlTold(d)  BY <1>1, <1>3 DEF SlTold, SlAnnouncements, SlComes
<1> QED  BY <1>1, <1>3, <1>4 DEF SlSound, SlAnnouncements, SlComes

\* What a connection of the list uses is open, or the loss is its listener's end.
LEMMA SlUsed ==
  ASSUME SlInductive, NEW c \in SlConns, conn[c].life = "live"
  PROVE  ~SL!Misused(conn[c])
<1>1. CASE conn[c].lc = {}  BY <1>1 DEF SL!Misused, SlInductive, SlSockets, SlOwner
<1>2. ASSUME NEW l \in conn[c].lc, ~SL!Orphan(conn[c]), conn[c].sock > 0  PROVE conn[c].sock \in open
  <2>1. l \in SlConns /\ conn[l].life = "live"  BY <1>2 DEF SL!Orphan, SlInductive, SlConn
  <2>2. conn[c].sock # 0  BY <1>2 DEF SlInductive, SlConn
  <2>3. conn[l].kind = "listener" /\ conn[c].sock = conn[l].sock  BY <1>2, <2>1, <2>2 DEF SlInductive, SlSockets
  <2>4. conn[l].lc = {}  BY <2>1, <2>3 DEF SlInductive, SlTold
  <2> QED  BY <1>2, <2>1, <2>3, <2>4 DEF SlInductive, SlSockets, SlOwner
<1> QED  BY <1>1, <1>2 DEF SL!Misused

\* mg_accept_conn
LEMMA SlAccept ==
  ASSUME SlInductive, NEW l \in SlConns, SL!Accept(conn[l]), SlTodoStep, UNCHANGED <<pass, spilled, wild>>
  PROVE  SlInductive'
<1> DEFINE flags == IF conn[l].ssl THEN {"HANDSHAKE_DONE"} ELSE {}
           new == [SL!Unused EXCEPT !.life = "live", !.kind = "accepted", !.ssl = conn[l].ssl, !.sock = SL!Lowest, !.flags = flags]
<1>1. PICK c \in SlConns : conn[c].life = "none" /\ \E d \in SL!Called(new, "ACCEPT") : SL!Listed(c, d)
  BY DEF SL!Accept
<1>2. PICK d \in SL!Called(new, "ACCEPT") : SL!Listed(c, d)  BY <1>1
<1>3. SL!Free # {} /\ open' = open \cup {SL!Lowest}  BY DEF SL!Accept
<1>4. SL!Lowest \in 1..MaxSock  BY <1>3, SlLowest DEF SlInductive, SlSockets
<1>6. conn[l].ssl \in BOOLEAN  BY DEF SlInductive, SlConn
<1>7. flags \in SUBSET SlFlags /\ "CONNECTING" \notin flags  BY DEF SlFlags
<1> HIDE DEF flags
<1>8. SlComes(new) /\ new.sock = SL!Lowest /\ new.lc = {}
  <2>1. 0 \in 0..MaxBytes /\ <<>> \in SlHistories /\ SL!Lowest \in -1..MaxSock /\ SL!Lowest # -1
    BY <1>4, PortsAssumption DEF SlHistories
  <2>2. SL!Unused = [life |-> "none", kind |-> "client", udp |-> FALSE, ssl |-> FALSE, flags |-> {}, sock |-> 0,
                     lc |-> {}, err |-> "none", slen |-> 0, rlen |-> 0, seen |-> <<>>]
    BY DEF SL!Unused
  <2> QED  BY <1>6, <1>7, <2>1, <2>2 DEF SlConn, SlComes
<1> HIDE DEF new
<1>9. SlSound(d) /\ d.life = "live" /\ d.sock = SL!Lowest /\ d.lc = {}  BY <1>2, <1>8, SlAccepted
<1> QED  BY <1>1, <1>2, <1>3, <1>9, SlOpened

\* mg_if_recv_udp_cb
LEMMA SlDatagram ==
  ASSUME SlInductive, NEW l \in SlConns, conn[l].life = "live", conn[l].kind = "listener", SL!CanRead(conn[l]),
         SL!Datagram(l), SlTodoStep, UNCHANGED <<pass, spilled, wild>>
  PROVE  SlInductive'
<1>0. open' = open /\ pass' \in {"idle", "visit", "close"}  BY DEF SL!Datagram, SlInductive
<1>1. ASSUME NEW c \in SL!Range(list), conn[c].lc = {l}, NEW d \in SL!Received(conn[c]),
             conn' = [conn EXCEPT ![c] = d], UNCHANGED list
      PROVE  SlInductive'
  <2>1. c \in SlConns /\ conn[c].life = "live"
    <3>1. PICK i \in 1..Len(list) : list[i] = c  BY DEF SL!Range, SlInductive, SlLists
    <3> QED  BY <3>1 DEF SlInductive, SlLists
  <2>2. SlSound(conn[c]) /\ conn[c].seen \in SlAnnouncements
    <3>1. SlTold(conn[c]) /\ conn[c].kind = "accepted"  BY <1>1, <2>1 DEF SlInductive, SlTold
    <3> QED  BY <2>1, <3>1 DEF SlInductive, SlSound, SlTold, SlAnnouncements
  <2>3. SlSame(conn[c], d)  BY <1>1, <2>1, <2>2, SlReceived
  <2> QED  BY <1>0, <1>1, <2>1, <2>3, SlChanged
<1>2. ASSUME NEW c \in SlConns, NEW f \in {{}, {"SEND_AND_CLOSE"}}, conn[c].life = "none",
             NEW d \in SL!Called([SL!Unused EXCEPT !.life = "live", !.kind = "accepted", !.udp = TRUE, !.flags = f,
                                                   !.sock = conn[l].sock, !.lc = {l}], "ACCEPT"),
             NEW e \in SL!Received(d), SL!Listed(c, e)
      PROVE  SlInductive'
  <2> DEFINE new == [SL!Unused EXCEPT !.life = "live", !.kind = "accepted", !.udp = TRUE, !.flags = f,
                                      !.sock = conn[l].sock, !.lc = {l}]
  <2>1. d \in SL!Called(new, "ACCEPT")  BY <1>2
  <2>2. conn[l].sock \in -1..MaxSock /\ conn[l].sock # -1  BY DEF SL!CanRead, SlInductive, SlConn
  <2>3. f \in SUBSET SlFlags /\ "CONNECTING" \notin f /\ {l} \in SUBSET SlConns  BY DEF SlFlags
  <2>4. SlComes(new) /\ new.sock = conn[l].sock /\ new.lc = {l}
    <3>1. 0 \in 0..MaxBytes /\ <<>> \in SlHistories  BY PortsAssumption DEF SlHistories
    <3>2. SL!Unused = [life |-> "none", kind |-> "client", udp |-> FALSE, ssl |-> FALSE, flags |-> {}, sock |-> 0,
                       lc |-> {}, err |-> "none", slen |-> 0, rlen |-> 0, seen |-> <<>>]
      BY DEF SL!Unused
    <3> QED  BY <2>2, <2>3, <3>1, <3>2 DEF SlConn, SlComes
  <2> HIDE DEF new
  <2>5. SlSound(d) /\ d.life = "live" /\ d.sock = conn[l].sock /\ d.lc = {l} /\ d.seen \in SlAnnouncements
    BY <2>1, <2>4, SlAccepted
  <2>6. SlSame(d, e)  BY <2>5, SlReceived
  <2>7. SlSound(e) /\ e.life = "live" /\ e.lc = {l} /\ e.sock = conn[l].sock  BY <2>5, <2>6 DEF SlSame
  <2>8. \A x \in e.lc : conn[x].kind = "listener" /\ conn[x].life = "live" /\ e.sock = conn[x].sock  BY <2>7
  <2> QED  BY <1>0, <1>2, <2>7, <2>8, SlOpened
<1> QED  BY <1>1, <1>2 DEF SL!Datagram

LEMMA SlVisitListener ==
  ASSUME SlInductive, SL!VisitListener
  PROVE  SlInductive'
<1> DEFINE l == todo[1]
<1>1. /\ todo # <<>> /\ todo' = Tail(todo) /\ conn[l].kind = "listener" /\ wild' = SL!Misused(conn[l])
      /\ UNCHANGED <<pass, ready, spilled, restarts>>
  BY DEF SL!VisitListener
<1>2. SlTodoStep /\ l \in SlConns /\ conn[l].life = "live"  BY <1>1, SlTodo DEF SlInductive
<1>3. wild' = wild
  <2>1. ~SL!Misused(conn[l])  BY <1>2, SlUsed
  <2>2. wild = FALSE  BY DEF SlInductive, SlSockets
  <2>3. wild' = FALSE  BY <1>1, <2>1
  <2> QED  BY <2>2, <2>3
<1>4. CASE UNCHANGED <<conn, list, open>>
  <2>1. SlLists'  BY <1>2, <1>4 DEF SlInductive, SlLists, SlTodoStep
  <2>2. SlSockets'  BY <1>1, <1>3, <1>4, SlSocketsKept DEF SlInductive
  <2> QED  BY <1>1, <1>4, <2>1, <2>2 DEF SlInductive
<1>5. CASE SL!Accept(conn[l])  BY <1>1, <1>2, <1>3, <1>5, SlAccept
<1>6. CASE SL!CanRead(conn[l]) /\ SL!Datagram(l)  BY <1>1, <1>2, <1>3, <1>6, SlDatagram
<1> QED  BY <1>4, <1>5, <1>6 DEF SL!VisitListener

LEMMA SlVisit ==
  ASSUME SlInductive, SL!Visit
  PROVE  SlInductive'
<1>1. /\ todo # <<>> /\ conn[todo[1]].kind # "listener" /\ todo' = Tail(todo)
      /\ wild' = SL!Misused(conn[todo[1]])
      /\ UNCHANGED <<list, pass, ready, open, spilled, restarts>>
  BY DEF SL!Visit
<1>2. PICK d \in SL!HandleConn(conn[todo[1]]) : conn' = [conn EXCEPT ![todo[1]] = d]  BY DEF SL!Visit
<1>3. SlTodoStep /\ todo[1] \in SlConns /\ conn[todo[1]].life = "live"  BY <1>1, SlTodo DEF SlInductive
<1>4. SlSound(conn[todo[1]])  BY <1>3 DEF SlInductive, SlSound
<1>5. SlSame(conn[todo[1]], d)  BY <1>1, <1>2, <1>3, <1>4, SlHandled
<1>6. wild' = wild
  <2>1. ~SL!Misused(conn[todo[1]])  BY <1>3, SlUsed
  <2>2. wild = FALSE  BY DEF SlInductive, SlSockets
  <2>3. wild' = FALSE  BY <1>1, <2>1
  <2> QED  BY <2>2, <2>3
<1>7. pass' \in {"idle", "visit", "close"}  BY <1>1 DEF SlInductive
<1> QED  BY <1>1, <1>2, <1>3, <1>5, <1>6, <1>7, SlChanged

LEMMA SlUserClose ==
  ASSUME SlInductive, NEW c \in SlConns, SL!UserClose(c)
  PROVE  SlInductive'
<1>1. /\ conn' = [conn EXCEPT ![c].flags = @ \cup {"CLOSE_IMMEDIATELY"}]
      /\ UNCHANGED <<list, todo, pass, ready, open, spilled, restarts, wild>>
  BY DEF SL!UserClose
<1> DEFINE e == [conn[c] EXCEPT !.flags = @ \cup {"CLOSE_IMMEDIATELY"}]
<1>2. SlSound(conn[c])  BY DEF SlInductive, SlSound
<1>3. SlSame(conn[c], e)  BY <1>2, SlFieldSet
<1>4. conn' = [conn EXCEPT ![c] = e]  BY <1>1 DEF SlInductive
<1> HIDE DEF e
<1>5. SlTodoStep /\ pass' \in {"idle", "visit", "close"}  BY <1>1, SlTodo DEF SlInductive
<1> QED  BY <1>1, <1>3, <1>4, <1>5, SlChanged

LEMMA SlSelect ==
  ASSUME SlInductive, SL!Select
  PROVE  SlInductive'
<1>1. /\ wild' = \E c \in SL!ReadSet \cup SL!WriteSet : SL!Misused(conn[c])
      /\ pass' = "visit" /\ todo' = list /\ UNCHANGED <<conn, list, open, spilled, restarts>>
  BY DEF SL!Select
<1>2. SlTodoStep  BY <1>1, SlTodo DEF SlInductive
<1>3. ASSUME NEW c \in SL!ReadSet \cup SL!WriteSet  PROVE ~SL!Misused(conn[c])
  <2>1. c \in SL!Range(list)  BY DEF SL!ReadSet, SL!WriteSet
  <2>2. PICK i \in 1..Len(list) : list[i] = c  BY <2>1 DEF SL!Range, SlInductive, SlLists
  <2>3. c \in SlConns /\ conn[c].life = "live"  BY <2>2 DEF SlInductive, SlLists
  <2> QED  BY <2>3, SlUsed
<1>4. wild' = FALSE  BY <1>1, <1>3
<1>5. SlLists'  BY <1>1, <1>2 DEF SlInductive, SlLists, SlTodoStep
<1>6. SlSockets'
  <2>1. wild = FALSE  BY DEF SlInductive, SlSockets
  <2> QED  BY <1>1, <1>4, <2>1, SlSocketsKept DEF SlInductive
<1> QED  BY <1>1, <1>5, <1>6 DEF SlInductive

LEMMA SlEndOfPass ==
  ASSUME SlInductive, SL!EndOfPass
  PROVE  SlInductive'
<1>1. /\ (pass' = "close" /\ todo' = list) \/ (pass' = "idle" /\ todo' = <<>>)
      /\ UNCHANGED <<conn, list, open, spilled, restarts, wild>>
  BY DEF SL!EndOfPass
<1>2. SlTodoStep  BY <1>1, SlTodo DEF SlInductive
<1>3. SlLists'  BY <1>1, <1>2 DEF SlInductive, SlLists, SlTodoStep
<1>4. SlSockets'  BY <1>1, SlSocketsKept DEF SlInductive
<1> QED  BY <1>1, <1>3, <1>4 DEF SlInductive

\* A place of the list is removed.
LEMMA SlRemoved ==
  ASSUME list \in Seq(SlConns), NEW k \in 1..Len(list), \A i, j \in 1..Len(list) : list[i] = list[j] => i = j,
         list' = SL!RemoveAt(list, k)
  PROVE  /\ list' \in Seq(SlConns) /\ \A i, j \in 1..Len(list') : list'[i] = list'[j] => i = j
         /\ \A x : (\E i \in 1..Len(list') : list'[i] = x) <=> (x # list[k] /\ \E i \in 1..Len(list) : list[i] = x)
<1>0. Len(list) \in Nat /\ k \in Nat /\ k >= 1 /\ k <= Len(list)  OBVIOUS
<1>1. list' = SubSeq(list, 1, k - 1) \o SubSeq(list, k + 1, Len(list))  BY DEF SL!RemoveAt
<1> DEFINE a == SubSeq(list, 1, k - 1)
           b == SubSeq(list, k + 1, Len(list))
<1>2. a \in Seq(SlConns) /\ Len(a) = k - 1 /\ \A i \in 1..(k - 1) : a[i] = list[i]
  BY <1>0
<1>3. b \in Seq(SlConns) /\ Len(b) = Len(list) - k /\ \A i \in 1..(Len(list) - k) : b[i] = list[k + i]
  BY <1>0
<1>4. list' = a \o b  BY <1>1
<1> HIDE DEF a, b
<1>5. /\ list' \in Seq(SlConns) /\ Len(list') = Len(list) - 1
      /\ \A i \in 1..(Len(list) - 1) : list'[i] = IF i < k THEN a[i] ELSE b[i - (k - 1)]
  <2>1. a \o b \in Seq(SlConns) /\ Len(a \o b) = Len(a) + Len(b)  BY <1>2, <1>3, ConcatProperties
  <2>2. \A i \in 1..(Len(a) + Len(b)) : (a \o b)[i] = IF i <= Len(a) THEN a[i] ELSE b[i - Len(a)]
    BY <1>2, <1>3, ConcatProperties
  <2>3. Len(a) + Len(b) = Len(list) - 1  BY <1>0, <1>2, <1>3
  <2>4. \A i \in 1..(Len(list) - 1) : i <= k - 1 <=> i < k  BY <1>0
  <2> QED  BY <1>2, <1>4, <2>1, <2>2, <2>3, <2>4
<1>6. \A i \in 1..(Len(list) - 1) : list'[i] = IF i < k THEN list[i] ELSE list[i + 1]
  <2>1. SUFFICES ASSUME NEW i \in 1..(Len(list) - 1)  PROVE list'[i] = IF i < k THEN list[i] ELSE list[i + 1]
    OBVIOUS
  <2>2. CASE i < k  BY <1>0, <1>2, <1>5, <2>2
  <2>3. CASE ~(i < k)
    <3>1. i - (k - 1) \in 1..(Len(list) - k) /\ k + (i - (k - 1)) = i + 1  BY <1>0, <2>3
    <3>2. b[i - (k - 1)] = list[k + (i - (k - 1))]  BY <1>3, <3>1
    <3> QED  BY <1>5, <2>3, <3>1, <3>2
  <2> QED  BY <2>2, <2>3
<1>7. \A i, j \in 1..(Len(list) - 1) : list'[i] = list'[j] => i = j
  <2>1. SUFFICES ASSUME NEW i \in 1..(Len(list) - 1), NEW j \in 1..(Len(list) - 1), list'[i] = list'[j]  PROVE i = j
    OBVIOUS
  <2> DEFINE at(n) == IF n < k THEN n ELSE n + 1
  <2>2. \A n \in 1..(Len(list) - 1) : at(n) \in 1..Len(list) /\ list'[n] = list[at(n)]  BY <1>0, <1>6
  <2>3. at(i) = at(j)  BY <2>1, <2>2
  <2> QED  BY <1>0, <2>3
<1>8. ASSUME NEW x
      PROVE  (\E i \in 1..Len(list') : list'[i] = x) <=> (x # list[k] /\ \E i \in 1..Len(list) : list[i] = x)
  <2>1. ASSUME NEW i \in 1..Len(list'), list'[i] = x  PROVE x # list[k] /\ \E j \in 1..Len(list) : list[j] = x
    <3>1. CASE i < k
      <4>1. i \in 1..Len(list) /\ x = list[i] /\ i # k  BY <1>0, <1>5, <1>6, <2>1, <3>1
      <4> QED  BY <4>1
    <3>2. CASE ~(i < k)
      <4>1. i + 1 \in 1..Len(list) /\ x = list[i + 1] /\ i + 1 # k  BY <1>0, <1>5, <1>6, <2>1, <3>2
      <4> QED  BY <4>1
    <3> QED  BY <3>1, <3>2
  <2>2. ASSUME NEW i \in 1..Len(list), list[i] = x, x # list[k]  PROVE \E j \in 1..Len(list') : list'[j] = x
    <3>1. CASE i < k
      <4>1. i \in 1..Len(list') /\ list'[i] = x  BY <1>0, <1>5, <1>6, <2>2, <3>1
      <4> QED  BY <4>1
    <3>2. CASE i > k
      <4>1. i - 1 \in 1..(Len(list) - 1) /\ ~(i - 1 < k) /\ (i - 1) + 1 = i  BY <1>0, <3>2
      <4>2. list'[i - 1] = list[(i - 1) + 1]  BY <1>6, <4>1
      <4> QED  BY <1>5, <2>2, <4>1, <4>2
    <3>3. i # k  BY <2>2
    <3> QED  BY <1>0, <3>1, <3>2, <3>3
  <2> QED  BY <2>1, <2>2
<1> QED  BY <1>5, <1>7, <1>8

LEMMA SlAppend ==
  ASSUME NEW T, NEW s \in Seq(T), NEW b \in T
  PROVE  /\ Append(s, b) \in Seq(T) /\ Len(Append(s, b)) = Len(s) + 1 /\ Append(s, b)[Len(s) + 1] = b
         /\ \A i \in 1..Len(s) : Append(s, b)[i] = s[i]
OBVIOUS

LEMMA SlPair == ASSUME NEW a, NEW b PROVE Append(<<a>>, b) = <<a, b>>
<1> DEFINE t == Append(<<a>>, b)
<1>1. <<a>> \in Seq({a, b}) /\ b \in {a, b}  OBVIOUS
<1>2. /\ t \in Seq({a, b}) /\ Len(t) = Len(<<a>>) + 1 /\ t[Len(<<a>>) + 1] = b
      /\ \A i \in 1..Len(<<a>>) : t[i] = <<a>>[i]
  BY Zenon, <1>1, SlAppend
<1> HIDE DEF t
<1>3. t \in Seq({a, b}) /\ Len(t) = 2 /\ t[1] = a /\ t[2] = b  BY <1>2
<1>4. t = <<a, b>>  BY <1>3
<1> QED  BY <1>4 DEF t

\* CLOSE is the last that a connection hears.
LEMMA SlEnds ==
  ASSUME NEW d, SlSound(d), d.life = "live"
  PROVE  LET e == [d EXCEPT !.life = "closed", !.sock = 0, !.seen = Append(@, "CLOSE")]
         IN  SlSound(e) /\ e.life = "closed" /\ e.kind = d.kind /\ e.lc = d.lc
<1>0. 0 \in -1..MaxSock /\ d \in SlConn /\ SlTold(d)  BY PortsAssumption DEF SlSound
<1> DEFINE seen == Append(d.seen, "CLOSE")
           e == [d EXCEPT !.life = "closed", !.sock = 0, !.seen = seen]
<1>1. seen \in SlHistories /\ (seen = <<"CONNECT", "CLOSE">> => d.seen = <<"CONNECT">>)
      /\ seen # <<"CONNECT">>
  <2>1. d.seen \in {<<>>, <<"ACCEPT">>, <<"CONNECT">>, <<"FAILED">>}
    BY <1>0 DEF SlTold, SlAnnouncements
  <2>2. CASE d.seen = <<>>  BY <2>2 DEF SlHistories
  <2>3. CASE d.seen = <<"ACCEPT">>
    <3>1. Append(<<"ACCEPT">>, "CLOSE") = <<"ACCEPT", "CLOSE">>  BY SlPair
    <3>2. seen = <<"ACCEPT", "CLOSE">>  BY Zenon, <2>3, <3>1
    <3> QED  BY <2>3, <3>2 DEF SlHistories
  <2>4. CASE d.seen = <<"CONNECT">>
    <3>1. Append(<<"CONNECT">>, "CLOSE") = <<"CONNECT", "CLOSE">>  BY SlPair
    <3>2. seen = <<"CONNECT", "CLOSE">>  BY Zenon, <2>4, <3>1
    <3> QED  BY <2>4, <3>2 DEF SlHistories
  <2>5. CASE d.seen = <<"FAILED">>
    <3>1. Append(<<"FAILED">>, "CLOSE") = <<"FAILED", "CLOSE">>  BY SlPair
    <3>2. seen = <<"FAILED", "CLOSE">>  BY Zenon, <2>5, <3>1
    <3> QED  BY <2>5, <3>2 DEF SlHistories
  <2> QED  BY <2>1, <2>2, <2>3, <2>4, <2>5
<1>2. e = [d EXCEPT !.life = "closed", !.sock = 0, !.seen = Append(@, "CLOSE")]  OBVIOUS
<1> HIDE DEF seen
<1>3. /\ e \in SlConn /\ e.life = "closed" /\ e.seen = seen /\ e.kind = d.kind /\ e.flags = d.flags /\ e.err = d.err
      /\ e.lc = d.lc /\ e.udp = d.udp /\ e.sock = 0
  BY <1>0, <1>1 DEF SlConn
<1> HIDE DEF e
<1>4. SlTold(e)  BY <1>0, <1>1, <1>3 DEF SlTold
<1>5. SlSound(e) /\ e.life = "closed" /\ e.kind = d.kind /\ e.lc = d.lc  BY <1>3, <1>4 DEF SlSound
<1> QED  BY Zenon, <1>2, <1>5

LEMMA SlClose ==
  ASSUME SlInductive, SL!CloseOrNot
  PROVE  SlInductive'
<1>0. SlLists /\ SlSockets /\ conn \in [SlConns -> SlConn] /\ \A x \in SlConns : SlTold(conn[x])
  BY DEF SlInductive
<1> DEFINE c == todo[1]
<1>1. todo # <<>> /\ todo' = Tail(todo) /\ UNCHANGED <<pass, ready, spilled, restarts>>  BY DEF SL!CloseOrNot
<1>2. SlTodoStep /\ c \in SlConns /\ conn[c].life = "live" /\ \A i \in 1..Len(todo') : todo'[i] # c
  BY <1>0, <1>1, SlTodo
<1>3. CASE UNCHANGED <<conn, list, open, wild>>
  <2>1. SlLists'  BY <1>0, <1>2, <1>3 DEF SlLists, SlTodoStep
  <2>2. SlSockets'  BY <1>0, <1>1, <1>3, SlSocketsKept
  <2> QED  BY <1>0, <1>1, <1>3, <2>1, <2>2 DEF SlInductive
<1>4. ASSUME conn' = [conn EXCEPT ![c].life = "closed", ![c].sock = 0, ![c].seen = Append(@, "CLOSE")],
             NEW k \in DOMAIN list, list[k] = c, list' = SL!RemoveAt(list, k),
             open' = IF SL!Closes(conn[c]) THEN open \ {conn[c].sock} ELSE open,
             wild' = SL!Misused(conn[c])
      PROVE  SlInductive'
  <2> DEFINE e == [conn[c] EXCEPT !.life = "closed", !.sock = 0, !.seen = Append(@, "CLOSE")]
  <2>1. SlSound(e) /\ e.life = "closed" /\ e.kind = conn[c].kind /\ e.lc = conn[c].lc
    <3>1. SlSound(conn[c])  BY <1>0, <1>2 DEF SlSound
    <3> QED  BY <1>2, <3>1, SlEnds
  <2>2. conn' = [conn EXCEPT ![c] = e]  BY <1>0, <1>2, <1>4
  <2> HIDE DEF e
  <2> DEFINE x1 == c
  <2>3. /\ conn' \in [SlConns -> SlConn] /\ conn'[c] = e
        /\ \A x \in SlConns : x # c => conn'[x] = conn[x]
    BY <1>0, <1>2, <2>1, <2>2 DEF SlSound
  <2>4. \A x \in SlConns : SlTold(conn'[x])  BY <1>0, <2>1, <2>3 DEF SlSound
  <2>5. k \in 1..Len(list) /\ list \in Seq(SlConns) /\ \A i, j \in 1..Len(list) : list[i] = list[j] => i = j
    BY <1>0, <1>4 DEF SlLists
  <2>6. /\ list' \in Seq(SlConns) /\ \A i, j \in 1..Len(list') : list'[i] = list'[j] => i = j
        /\ \A x : (\E i \in 1..Len(list') : list'[i] = x) <=> (x # c /\ \E i \in 1..Len(list) : list[i] = x)
    BY <1>4, <2>5, SlRemoved
  <2> HIDE DEF c
  <2>7. SlLists'
    <3>1. \A x \in SlConns : conn'[x].life = "live" <=> x # c /\ conn[x].life = "live"  BY <2>1, <2>3
    <3>2. \A x \in SlConns : conn'[x].life = "live" <=> \E i \in 1..Len(list') : list'[i] = x
      BY <1>0, <2>6, <3>1 DEF SlLists
    <3>3. \A i \in 1..Len(todo') : todo'[i] \in SlConns /\ conn[todo'[i]].life = "live" /\ todo'[i] # c
      BY <1>2 DEF SlTodoStep
    <3>4. \A i \in 1..Len(todo') : conn'[todo'[i]].life = "live"  BY <3>1, <3>3
    <3> QED  BY <1>2, <2>6, <3>2, <3>4 DEF SlLists, SlTodoStep
  <2>8. SlSockets'
    <3>1. \A x \in SlConns : SlOwner(x)' <=> x # c /\ SlOwner(x)  BY <2>1, <2>3 DEF SlOwner
    <3>2. wild' = FALSE  BY <1>2, <1>4, SlUsed
    <3>3. open' \subseteq 1..MaxSock  BY <1>0, <1>4 DEF SlSockets
    <3>4. ASSUME NEW x \in SlConns, SlOwner(x)'  PROVE conn'[x].sock \in open'
      <4>1. x # c /\ SlOwner(x) /\ conn'[x].sock = conn[x].sock /\ conn[x].sock \in open
        BY <1>0, <2>3, <3>1, <3>4 DEF SlSockets
      <4>2. CASE SL!Closes(conn[c])
        <5>1. SlOwner(c) \/ conn[c].sock <= 0  BY <1>2, <4>2 DEF SL!Closes, SL!IsChild, SlOwner, SlInductive, SlConn
        <5>2. conn[x].sock # conn[c].sock
          <6>1. CASE SlOwner(c)  BY <1>0, <1>2, <4>1, <6>1 DEF SlSockets
          <6>2. CASE conn[c].sock <= 0
            <7>1. conn[c].sock \in Int /\ conn[x].sock \in Int  BY <1>2, PortsAssumption DEF SlInductive, SlConn
            <7> QED  BY <4>1, <6>2, <7>1 DEF SlOwner
          <6> QED  BY <5>1, <6>1, <6>2
        <5> QED  BY <1>4, <4>1, <5>2
      <4>3. CASE ~SL!Closes(conn[c])  BY <1>4, <4>1, <4>3
      <4> QED  BY <4>2, <4>3
    <3>5. ASSUME ~spilled, NEW t \in open'  PROVE \E x \in SlConns : SlOwner(x)' /\ conn'[x].sock = t
      <4>1. t \in open /\ (SL!Closes(conn[c]) => t # conn[c].sock)  BY <1>4, <3>5
      <4>2. PICK x \in SlConns : SlOwner(x) /\ conn[x].sock = t  BY <1>0, <3>5, <4>1 DEF SlSockets
      <4>3. x # c  BY <4>1, <4>2 DEF SL!Closes, SL!IsChild, SlOwner
      <4> QED  BY <2>3, <3>1, <4>2, <4>3
    <3>6. ASSUME NEW x \in SlConns, NEW l \in conn'[x].lc
          PROVE  /\ conn'[l].kind = "listener" /\ conn'[l].life # "none"
                 /\ conn'[x].life = "live" /\ conn'[l].life = "live" /\ conn'[x].sock # 0 => conn'[x].sock = conn'[l].sock
      <4>1. l \in conn[x].lc /\ l \in SlConns  BY <1>0, <2>1, <2>3, <3>6 DEF SlConn
      <4>2. conn'[l].kind = conn[l].kind /\ (conn[l].life # "none" => conn'[l].life # "none")  BY <2>1, <2>3, <4>1
      <4>3. conn'[x].life = "live" => x # c  BY <2>1, <2>3
      <4>4. conn'[l].life = "live" => l # c  BY <2>1, <2>3
      <4> QED  BY <1>0, <2>3, <4>1, <4>2, <4>3, <4>4 DEF SlSockets
    <3>7. \A x, y \in SlConns : SlOwner(x)' /\ SlOwner(y)' /\ conn'[x].sock = conn'[y].sock => x = y
      BY <1>0, <2>3, <3>1 DEF SlSockets
    <3> QED  BY <1>0, <1>1, <3>2, <3>3, <3>4, <3>5, <3>6, <3>7 DEF SlSockets
  <2> QED  BY <1>0, <1>1, <2>3, <2>4, <2>7, <2>8 DEF SlInductive
<1> QED  BY <1>3, <1>4 DEF SL!CloseOrNot

\* sl_restart_cb: the lists stay as they are; who had a socket has another one of
\* its own, or none and is told to close.
LEMMA SlSetAgain ==
  ASSUME NEW d, SlSound(d)
  PROVE  /\ \A t \in 0..MaxSock : LET e == [d EXCEPT !.sock = t]
                                  IN  SlSound(e) /\ e.life = d.life /\ e.sock = t /\ e.kind = d.kind /\ e.lc = d.lc
         /\ LET e == [d EXCEPT !.sock = -1]
            IN  d.kind = "listener" /\ d.udp =>
                  SlSound(e) /\ e.life = d.life /\ e.sock = -1 /\ e.kind = d.kind /\ e.lc = d.lc
         /\ LET e == [d EXCEPT !.sock = 0, !.flags = @ \cup {"CLOSE_IMMEDIATELY"}]
            IN  SlSound(e) /\ e.life = d.life /\ e.sock = 0 /\ e.kind = d.kind /\ e.lc = d.lc
<1>0. d \in SlConn /\ SlTold(d)  BY DEF SlSound
<1>1. ASSUME NEW t \in -1..MaxSock, t = -1 => d.kind = "listener" /\ d.udp
      PROVE  LET e == [d EXCEPT !.sock = t]
             IN  SlSound(e) /\ e.life = d.life /\ e.sock = t /\ e.kind = d.kind /\ e.lc = d.lc
  <2> DEFINE e == [d EXCEPT !.sock = t]
  <2>1. /\ e \in SlConn /\ e.life = d.life /\ e.kind = d.kind /\ e.udp = d.udp /\ e.lc = d.lc /\ e.flags = d.flags
        /\ e.sock = t /\ e.err = d.err /\ e.seen = d.seen
    BY <1>0 DEF SlConn
  <2> HIDE DEF e
  <2>2. SlSound(e)  BY <1>0, <1>1, <2>1 DEF SlTold, SlSound
  <2> QED  BY <2>1, <2>2 DEF e
<1>2. ASSUME NEW t \in 0..MaxSock
      PROVE  LET e == [d EXCEPT !.sock = t]
             IN  SlSound(e) /\ e.life = d.life /\ e.sock = t /\ e.kind = d.kind /\ e.lc = d.lc
  <2>1. t \in -1..MaxSock /\ t # -1  BY PortsAssumption
  <2> QED  BY Zenon, <1>1, <2>1
<1>3. ASSUME d.kind = "listener" /\ d.udp
      PROVE  LET e == [d EXCEPT !.sock = -1]
             IN  SlSound(e) /\ e.life = d.life /\ e.sock = -1 /\ e.kind = d.kind /\ e.lc = d.lc
  <2> DEFINE t == -1
  <2>1. t \in -1..MaxSock  BY PortsAssumption
  <2> HIDE DEF t
  <2>2. LET e == [d EXCEPT !.sock = t]
        IN  SlSound(e) /\ e.life = d.life /\ e.sock = t /\ e.kind = d.kind /\ e.lc = d.lc
    BY Zenon, <1>1, <1>3, <2>1
  <2> QED  BY Zenon, <2>2 DEF t
<1>4. LET e == [d EXCEPT !.sock = 0, !.flags = @ \cup {"CLOSE_IMMEDIATELY"}]
      IN  SlSound(e) /\ e.life = d.life /\ e.sock = 0 /\ e.kind = d.kind /\ e.lc = d.lc
  <2> DEFINE x == [d EXCEPT !.sock = 0]
             e == [d EXCEPT !.sock = 0, !.flags = @ \cup {"CLOSE_IMMEDIATELY"}]
  <2>0. 0 \in 0..MaxSock  BY PortsAssumption
  <2>1. SlSound(x) /\ x.life = d.life /\ x.sock = 0 /\ x.kind = d.kind /\ x.lc = d.lc  BY <1>2, <2>0
  <2>2. e = [x EXCEPT !.flags = @ \cup {"CLOSE_IMMEDIATELY"}]  BY <1>0 DEF SlConn
  <2> HIDE DEF e, x
  <2>3. SlSame(x, e)  BY <2>1, <2>2, SlFieldSet
  <2>4. SlSound(e) /\ e.life = d.life /\ e.sock = 0 /\ e.kind = d.kind /\ e.lc = d.lc  BY <2>1, <2>3 DEF SlSame
  <2> QED  BY <2>4 DEF e
<1> QED  BY <1>2, <1>3, <1>4

LEMMA SlRestarted ==
  ASSUME SlInductive, SL!SlRestart
  PROVE  SlInductive'
<1>0. SlLists /\ SlSockets /\ conn \in [SlConns -> SlConn] /\ \A x \in SlConns : SlTold(conn[x])
  BY DEF SlInductive
<1>1. UNCHANGED <<list, todo, pass, ready, wild>>  BY DEF SL!SlRestart
<1>2. PICK how \in [SlConns -> SL!Outcome] :
        LET had == {c \in SL!Range(list) : conn[c].sock # 0}
            again == {c \in had : conn[c].kind = "listener" /\ how[c] \in {"listens", "options"}}
            lasting == {c \in again : how[c] = "listens"}
        IN  \E number \in [again -> 1..MaxSock] :
            /\ SL!IsInjective(number)
            /\ \A c \in SlConns : how[c] = "code" => c \in had /\ conn[c].kind = "listener" /\ conn[c].udp
            /\ conn' = [c \in SlConns |->
                           IF c \notin had THEN conn[c]
                           ELSE IF c \in lasting THEN [conn[c] EXCEPT !.sock = number[c]]
                           ELSE IF how[c] = "code" THEN [conn[c] EXCEPT !.sock = -1]
                           ELSE [conn[c] EXCEPT !.sock = 0, !.flags = @ \cup {"CLOSE_IMMEDIATELY"}]]
            /\ open' = {number[c] : c \in again}
            /\ spilled' = (again # lasting)
  BY Zenon DEF SL!SlRestart
<1> DEFINE had == {c \in SL!Range(list) : conn[c].sock # 0}
           again == {c \in had : conn[c].kind = "listener" /\ how[c] \in {"listens", "options"}}
           lasting == {c \in again : how[c] = "listens"}
           Forlorn(c) == [conn[c] EXCEPT !.sock = 0, !.flags = @ \cup {"CLOSE_IMMEDIATELY"}]
           Coded(c) == [conn[c] EXCEPT !.sock = -1]
<1>3. PICK number \in [again -> 1..MaxSock] :
         /\ SL!IsInjective(number) /\ open' = {number[c] : c \in again} /\ spilled' = (again # lasting)
         /\ conn' = [c \in SlConns |-> IF c \notin had THEN conn[c]
                                       ELSE IF c \in lasting THEN [conn[c] EXCEPT !.sock = number[c]]
                                       ELSE IF how[c] = "code" THEN Coded(c) ELSE Forlorn(c)]
         /\ \A c \in SlConns : how[c] = "code" => c \in had /\ conn[c].kind = "listener" /\ conn[c].udp
  BY Zenon, <1>2
<1> DEFINE Renewed(c) == [conn[c] EXCEPT !.sock = number[c]]
<1>4. had \subseteq SlConns /\ \A c \in SlConns : c \in had <=> conn[c].life = "live" /\ conn[c].sock # 0
  BY <1>0 DEF SL!Range, SlLists
<1>5. /\ again \subseteq SlConns /\ again \subseteq had /\ lasting \subseteq again
      /\ \A c \in again : conn[c].kind = "listener" /\ how[c] # "code"
  BY <1>4
<1> HIDE DEF again, had
<1>8. number \in [again -> 1..MaxSock] /\ \A a, b \in again : number[a] = number[b] => a = b
  BY <1>3 DEF SL!IsInjective
<1>9. ASSUME NEW c \in SlConns
      PROVE  /\ SlSound(conn'[c]) /\ conn'[c].life = conn[c].life /\ conn'[c].kind = conn[c].kind /\ conn'[c].lc = conn[c].lc
             /\ conn'[c].sock = IF c \in lasting THEN number[c] ELSE IF c \notin had THEN conn[c].sock
                                ELSE IF how[c] = "code" THEN -1 ELSE 0
  <2>1. SlSound(conn[c])  BY <1>0 DEF SlSound
  <2>2. conn'[c] = IF c \notin had THEN conn[c] ELSE IF c \in lasting THEN Renewed(c)
                   ELSE IF how[c] = "code" THEN Coded(c) ELSE Forlorn(c)
    BY <1>3
  <2>3. /\ SlSound(Forlorn(c)) /\ Forlorn(c).life = conn[c].life /\ Forlorn(c).sock = 0
        /\ Forlorn(c).kind = conn[c].kind /\ Forlorn(c).lc = conn[c].lc
    BY Zenon, <2>1, SlSetAgain
  <2>4. ASSUME c \in lasting
        PROVE  /\ SlSound(Renewed(c)) /\ Renewed(c).life = conn[c].life /\ Renewed(c).sock = number[c]
               /\ Renewed(c).kind = conn[c].kind /\ Renewed(c).lc = conn[c].lc
    <3>1. number[c] \in 0..MaxSock  BY <1>5, <1>8, <2>4, PortsAssumption
    <3> QED  BY Zenon, <2>1, <3>1, SlSetAgain
  <2>5. ASSUME how[c] = "code"
        PROVE  /\ SlSound(Coded(c)) /\ Coded(c).life = conn[c].life /\ Coded(c).sock = -1
               /\ Coded(c).kind = conn[c].kind /\ Coded(c).lc = conn[c].lc
    <3>1. conn[c].kind = "listener" /\ conn[c].udp  BY <1>3, <2>5
    <3> QED  BY Zenon, <2>1, <3>1, SlSetAgain
  <2> HIDE DEF Forlorn, Renewed, Coded, lasting
  <2> QED  BY <1>5, <2>1, <2>2, <2>3, <2>4, <2>5
<1>10. conn' \in [SlConns -> SlConn] /\ \A c \in SlConns : SlTold(conn'[c])
  BY <1>3, <1>9 DEF SlSound
<1>11. SlLists'
  <2>1. \A i \in 1..Len(todo) : todo[i] \in SlConns  BY <1>0 DEF SlLists
  <2> QED  BY <1>0, <1>1, <1>9, <2>1 DEF SlLists
<1>12. \A c \in SlConns : SlOwner(c)' => c \in lasting /\ conn'[c].sock = number[c]
  <2>1. SUFFICES ASSUME NEW c \in SlConns, SlOwner(c)', c \notin lasting  PROVE FALSE
    BY <1>9
  <2>2. conn[c].life = "live" /\ conn'[c].sock > 0  BY <1>9, <2>1 DEF SlOwner
  <2>3. c \notin had => conn[c].sock = 0  BY <1>4, <2>2
  <2>4. conn'[c].sock \in {-1, 0}  BY <1>9, <2>1, <2>3
  <2> QED  BY <2>2, <2>4
<1>13. SlSockets'
  <2>1. open' \subseteq 1..MaxSock  BY <1>3, <1>8
  <2>2. wild' = FALSE /\ spilled' \in BOOLEAN  BY <1>0, <1>1, <1>3 DEF SlSockets
  <2>3. \A c \in SlConns : SlOwner(c)' => conn'[c].sock \in open'
    <3>1. SUFFICES ASSUME NEW c \in SlConns, SlOwner(c)'  PROVE conn'[c].sock \in open'
      OBVIOUS
    <3>2. c \in again /\ conn'[c].sock = number[c]  BY <1>5, <1>12, <3>1
    <3>3. number[c] \in {number[x] : x \in again}  BY Zenon, <3>2
    <3> QED  BY Zenon, <1>3, <3>2, <3>3
  <2>4. \A c, d \in SlConns : SlOwner(c)' /\ SlOwner(d)' /\ conn'[c].sock = conn'[d].sock => c = d
    BY <1>5, <1>8, <1>12
  <2>5. ASSUME ~spilled', NEW t \in open'  PROVE \E c \in SlConns : SlOwner(c)' /\ conn'[c].sock = t
    <3>1. PICK c \in again : t = number[c]  BY <1>3
    <3>2. c \in lasting /\ c \in SlConns /\ c \in had  BY <1>3, <1>5, <2>5
    <3>3. conn'[c].life = "live" /\ conn'[c].sock = t  BY <1>4, <1>9, <3>1, <3>2
    <3>4. conn'[c].lc = {}  BY <1>0, <1>5, <1>9, <3>2 DEF SlTold
    <3>5. conn'[c].sock > 0
      <4>1. t \in 1..MaxSock  BY <1>8, <3>1
      <4> QED  BY <3>3, <4>1
    <3> QED  BY <3>2, <3>3, <3>4, <3>5 DEF SlOwner
  <2>6. ASSUME NEW c \in SlConns, NEW l \in conn'[c].lc
        PROVE  /\ conn'[l].kind = "listener" /\ conn'[l].life # "none"
               /\ conn'[c].life = "live" /\ conn'[l].life = "live" /\ conn'[c].sock # 0 => conn'[c].sock = conn'[l].sock
    <3>1. l \in conn[c].lc /\ l \in SlConns  BY <1>0, <1>9, <2>6 DEF SlConn
    <3>2. conn'[l].kind = "listener" /\ conn'[l].life # "none"  BY <1>0, <1>9, <3>1 DEF SlSockets
    <3>3. conn[c].kind = "accepted"  BY <1>0, <3>1 DEF SlTold
    <3>4. c \notin again /\ how[c] # "code"  BY <1>3, <1>5, <3>3
    <3>5. conn'[c].life = "live" => conn'[c].sock = 0  BY <1>4, <1>5, <1>9, <3>4
    <3> QED  BY <3>2, <3>5
  <2> QED  BY <2>1, <2>2, <2>3, <2>4, <2>5, <2>6 DEF SlSockets
<1> QED  BY <1>0, <1>1, <1>10, <1>11, <1>13 DEF SlInductive
-----------------------------------------------------------------------------
LEMMA SlInit == SL!Init => SlInductive
<1> SUFFICES ASSUME SL!Init PROVE SlInductive
  OBVIOUS
<1>0. 0 \in -1..MaxSock /\ 0 # -1 /\ 0 \in 0..MaxBytes /\ <<>> \in SlHistories  BY PortsAssumption DEF SlHistories
<1>1. SL!Unused \in SlConn /\ SL!Unused.life = "none" /\ SlTold(SL!Unused) /\ SL!Unused.lc = {}
  <2>1. SL!Unused = [life |-> "none", kind |-> "client", udp |-> FALSE, ssl |-> FALSE, flags |-> {}, sock |-> 0,
                     lc |-> {}, err |-> "none", slen |-> 0, rlen |-> 0, seen |-> <<>>]
    BY DEF SL!Unused
  <2> QED  BY <1>0, <2>1 DEF SlConn, SlTold
<1>2. /\ conn = [c \in SlConns |-> SL!Unused] /\ list = <<>> /\ todo = <<>> /\ pass = "idle"
      /\ open = {} /\ spilled = FALSE /\ wild = FALSE
  BY DEF SL!Init
<1>3. conn \in [SlConns -> SlConn] /\ \A c \in SlConns : SlTold(conn[c]) /\ conn[c].life = "none" /\ conn[c].lc = {}
  BY <1>1, <1>2
<1>4. SlLists  BY <1>2, <1>3 DEF SlLists
<1>5. SlSockets  BY <1>2, <1>3 DEF SlSockets, SlOwner
<1> QED  BY <1>2, <1>3, <1>4, <1>5 DEF SlInductive

LEMMA SlStep ==
  ASSUME SlInductive, [SL!Next]_(SL!vars)
  PROVE  SlInductive'
<1>1. CASE UNCHANGED SL!vars
  BY <1>1, SlSocketsKept DEF SL!vars, SlInductive, SlLists
<1>2. ASSUME NEW c \in SlConns, SL!Connect(c) \/ SL!Bind(c) \/ SL!UserClose(c)  PROVE SlInductive'
  BY <1>2, SlConnect, SlBind, SlUserClose
<1>3. CASE SL!Select  BY <1>3, SlSelect
<1>4. CASE SL!Visit  BY <1>4, SlVisit
<1>5. CASE SL!VisitListener  BY <1>5, SlVisitListener
<1>6. CASE SL!EndOfPass  BY <1>6, SlEndOfPass
<1>7. CASE SL!CloseOrNot  BY <1>7, SlClose
<1>8. CASE SL!SlRestart  BY <1>8, SlRestarted
<1> QED  BY <1>1, <1>2, <1>3, <1>4, <1>5, <1>6, <1>7, <1>8 DEF SL!Next

LEMMA SlListed ==
  ASSUME SlInductive
  PROVE  \A c : c \in SL!Range(list) <=> c \in SlConns /\ conn[c].life = "live"
<1>1. list \in Seq(SlConns) /\ DOMAIN list = 1..Len(list)  BY DEF SlInductive, SlLists
<1> QED  BY <1>1 DEF SL!Range, SlInductive, SlLists

LEMMA SlAnnouncedOnce ==
  ASSUME SlInductive
  PROVE  SL!AnnouncedOnce
<1> SUFFICES ASSUME NEW c \in SlConns
             PROVE  LET seen == conn[c].seen
                    IN  /\ "EARLY" \notin SL!Range(seen)
                        /\ \A i \in DOMAIN seen : seen[i] = "CLOSE" => i = Len(seen) /\ conn[c].life = "closed"
                        /\ \A i, j \in DOMAIN seen : "CLOSE" \notin {seen[i], seen[j]} => i = j
                        /\ conn[c].err = "error" => "CONNECT" \notin SL!Range(seen)
                        /\ conn[c].life = "live" /\ conn[c].kind = "client" =>
                              ("CONNECTING" \in conn[c].flags <=> ~SL!Announced(conn[c]))
  BY DEF SL!AnnouncedOnce
<1> DEFINE d == conn[c]
           s == d.seen
<1>1. d \in SlConn /\ SlTold(d) /\ s \in SlHistories /\ d.life \in {"none", "live", "closed"}
  BY DEF SlInductive, SlConn
<1> HIDE DEF d
<1>2. \/ s = <<>> \/ s = <<"CLOSE">> \/ s \in SlAnnouncements
      \/ \E ev \in {"ACCEPT", "CONNECT", "FAILED"} : s = <<ev, "CLOSE">>
  BY <1>1 DEF SlHistories
<1>3. s = <<"CLOSE">> \/ (\E ev \in {"ACCEPT", "CONNECT", "FAILED"} : s = <<ev, "CLOSE">>) => d.life = "closed"
  <2>1. s = <<"CLOSE">> => s # <<>> /\ s # <<"ACCEPT">> /\ s # <<"CONNECT">> /\ s # <<"FAILED">>  OBVIOUS
  <2>2. ASSUME NEW ev \in {"ACCEPT", "CONNECT", "FAILED"}, s = <<ev, "CLOSE">>
        PROVE  s # <<>> /\ s # <<"ACCEPT">> /\ s # <<"CONNECT">> /\ s # <<"FAILED">>
    <3>1. Len(s) = 2  BY <2>2
    <3>2. Len(<<>>) = 0 /\ Len(<<"ACCEPT">>) = 1 /\ Len(<<"CONNECT">>) = 1 /\ Len(<<"FAILED">>) = 1  OBVIOUS
    <3>3. ~(2 = 0) /\ ~(2 = 1)  OBVIOUS
    <3> HIDE DEF s
    <3> QED  BY Zenon, <3>1, <3>2, <3>3
  <2>3. s \in SlAnnouncements \cup {<<>>} => s = <<>> \/ s = <<"ACCEPT">> \/ s = <<"CONNECT">> \/ s = <<"FAILED">>
    BY DEF SlAnnouncements
  <2>4. d.life # "closed" => s \in SlAnnouncements \cup {<<>>}  BY <1>1 DEF SlTold
  <2> HIDE DEF s
  <2> QED  BY <2>1, <2>2, <2>3, <2>4
<1>4. d.life = "live" /\ d.kind = "client" => ("CONNECTING" \in d.flags <=> ~SL!Announced(d))
  <2>1. s = <<>> => ~SL!Announced(d)  BY DEF SL!Announced, SL!Range
  <2>2. s \in SlAnnouncements => SL!Announced(d)  BY SlAnnounced
  <2>3. <<>> \notin SlAnnouncements  BY DEF SlAnnouncements
  <2> QED  BY <1>1, <2>1, <2>2, <2>3 DEF SlTold
<1>5. CASE s = <<>>  BY <1>4, <1>5 DEF SL!Range, d
<1>6. CASE s = <<"CLOSE">>  BY <1>3, <1>4, <1>6 DEF SL!Range, d
<1>7. CASE s \in SlAnnouncements
  <2>1. PICK ev \in {"ACCEPT", "CONNECT", "FAILED"} : s = <<ev>>  BY <1>7 DEF SlAnnouncements
  <2>2. d.err = "error" => ev # "CONNECT"  BY <1>1, <2>1 DEF SlTold
  <2> QED  BY <1>4, <2>1, <2>2 DEF SL!Range, d
<1>8. ASSUME NEW ev \in {"ACCEPT", "CONNECT", "FAILED"}, s = <<ev, "CLOSE">>
      PROVE  LET seen == conn[c].seen
             IN  /\ "EARLY" \notin SL!Range(seen)
                 /\ \A i \in DOMAIN seen : seen[i] = "CLOSE" => i = Len(seen) /\ conn[c].life = "closed"
                 /\ \A i, j \in DOMAIN seen : "CLOSE" \notin {seen[i], seen[j]} => i = j
                 /\ conn[c].err = "error" => "CONNECT" \notin SL!Range(seen)
                 /\ conn[c].life = "live" /\ conn[c].kind = "client" =>
                       ("CONNECTING" \in conn[c].flags <=> ~SL!Announced(conn[c]))
  <2>1. d.err = "error" => ev # "CONNECT"  BY <1>1, <1>8 DEF SlTold
  <2>2. d.life = "closed"  BY <1>3, <1>8
  <2> QED  BY <1>4, <1>8, <2>1, <2>2 DEF SL!Range, d
<1> QED  BY <1>2, <1>5, <1>6, <1>7, <1>8

LEMMA SlSafe ==
  ASSUME SlInductive
  PROVE  SL!TypeOK /\ SL!SocketsOwned /\ SL!AnnouncedOnce
<1>1. \A c : c \in SL!Range(list) <=> c \in SlConns /\ conn[c].life = "live"  BY SlListed
<1>2. SL!TypeOK
  <2>1. \A c \in SlConns : conn[c].rlen \in 0..MaxBytes /\ conn[c].slen \in 0..MaxBytes
    BY DEF SlInductive, SlConn
  <2> QED  BY <1>1, <2>1 DEF SL!TypeOK, SlInductive, SlSockets
<1>3. SL!SocketsOwned
  <2> DEFINE owners == {c \in SL!Range(list) : ~SL!IsChild(conn[c])}
  <2>1. \A c : c \in owners <=> c \in SlConns /\ conn[c].life = "live" /\ conn[c].lc = {}
    BY <1>1 DEF SL!IsChild
  <2>2. \A c \in owners : c \in SlConns /\ (conn[c].sock > 0 => SlOwner(c))  BY <2>1 DEF SlOwner
  <2>3. ~wild  BY DEF SlInductive, SlSockets
  <2>4. \A c, d \in owners : conn[c].sock = conn[d].sock /\ conn[c].sock > 0 => c = d
    BY <2>2 DEF SlInductive, SlSockets
  <2>5. \A c \in owners : conn[c].sock > 0 => conn[c].sock \in open  BY <2>2 DEF SlInductive, SlSockets
  <2>6. \A c \in owners : conn[c].sock < 0 => conn[c].kind = "listener" /\ conn[c].udp
    <3>1. SUFFICES ASSUME NEW c \in owners, conn[c].sock < 0  PROVE conn[c].kind = "listener" /\ conn[c].udp
      OBVIOUS
    <3>2. c \in SlConns /\ SlTold(conn[c]) /\ conn[c].sock \in -1..MaxSock  BY <2>2 DEF SlInductive, SlConn
    <3>3. conn[c].sock = -1  BY <3>1, <3>2, PortsAssumption
    <3> QED  BY <3>2, <3>3 DEF SlTold
  <2>7. \A c \in SL!Range(list) : \A l \in conn[c].lc :
          conn[l].life = "live" /\ conn[c].sock # 0 => conn[c].sock = conn[l].sock
    BY <1>1 DEF SlInductive, SlSockets
  <2>8. ~spilled => open \subseteq {conn[c].sock : c \in owners}
    <3>1. SUFFICES ASSUME ~spilled, NEW t \in open  PROVE t \in {conn[c].sock : c \in owners}
      OBVIOUS
    <3>2. PICK c \in SlConns : SlOwner(c) /\ conn[c].sock = t  BY <3>1 DEF SlInductive, SlSockets
    <3>3. c \in owners  BY <2>1, <3>2 DEF SlOwner
    <3> QED  BY <3>2, <3>3
  <2> QED  BY <2>3, <2>4, <2>5, <2>6, <2>7, <2>8 DEF SL!SocketsOwned
<1> QED  BY <1>2, <1>3, SlAnnouncedOnce
-----------------------------------------------------------------------------
\* For any number of connections and sockets, on the SimpleLink interface every
\* open socket has one owner, none is used that is not open, also after the
\* network processor restarted, and a connection is announced once, with the
\* result it had, before any data, and CLOSE comes last (mg_sl_if_poll,
\* mg_mgr_handle_conn, sl_restart_cb).
THEOREM SocketsHaveOwners == SL!Spec => []SimpleLinkPort
<1>1. SlInductive /\ [SL!Next]_(SL!vars) => SlInductive'  BY SlStep
<1>2. SlInductive => SimpleLinkPort  BY SlSafe DEF SimpleLinkPort
<1> QED  BY <1>1, <1>2, SlInit, PTL DEF SL!Spec
-----------------------------------------------------------------------------
(* SlFs: the descriptors, each with its record and apart from the others, the  *)
(* handles that are theirs, the files, and the hints that are counted.         *)

SfFd == [fh : 0..(MaxOpen + 1), pos : Nat, size : Int, name : SlNames \cup {<<>>}, reading : BOOLEAN]
SfRead == [got : Seq(Nat), failed : BOOLEAN, sought : BOOLEAN]
SfFile == [max : Int, data : Seq(Nat)]
SfHint == [name : SlNames, size : HintSizes]
SfNoHint == [name : {<<>>}, size : Nat]

SfTyped ==
    /\ fds \in [SF!Slots -> SfFd] /\ reads \in [SF!Slots -> SfRead]
    /\ disk \in [SlNames -> SfFile]
    /\ hints \in [SF!Slots -> SfHint \cup SfNoHint]
    /\ given \in [taken : Seq(SfHint), used : Seq(SfHint)]
    /\ opened \in 0..MaxOpens

\* What was read is what the file has, and the size is still the file's.
SfGood(f, r, dk) ==
    f.fh > 0 =>
        /\ f.name \in SlNames
        /\ f.reading /\ ~r.sought =>
              /\ r.got = SubSeq(dk[f.name].data, 1, f.pos) /\ ~r.failed
              /\ f.pos <= Len(dk[f.name].data) /\ f.size = Len(dk[f.name].data)

\* Two descriptors that are open have two handles, and share a file only to read it.
SfApart(f, g) ==
    f.fh > 0 /\ g.fh > 0 => f.fh # g.fh /\ (f.name = g.name => f.reading /\ g.reading)
SfAlone(i, f) == \A j \in SF!Slots \ {i} : SfApart(f, fds[j])

SfSound == \A i \in SF!Slots : SfGood(fds[i], reads[i], disk) /\ SfAlone(i, fds[i])

SfHandle(f) == [fh |-> f.fh, name |-> f.name, reading |-> f.reading]
SfOwned == \A x : x \in handles <=> \E i \in SF!Slots : fds[i].fh > 0 /\ x = SfHandle(fds[i])

SfFileKept(n, d, used) ==
    d # SF!NoFile => Len(d.data) <= d.max /\ (d.max = MaxSize \/ [name |-> n, size |-> d.max] \in SF!Range(used))
SfKept(dk, used) == \A n \in SlNames : SfFileKept(n, dk[n], used)

SfTimes(h, s) == Cardinality({k \in DOMAIN s : s[k] = h})
SfCounted == \A h \in SfHint : SfTimes(h, hints) + SfTimes(h, given.used) = SfTimes(h, given.taken)

SfInv == SfTyped /\ SfSound /\ SfOwned /\ SfKept(disk, given.used) /\ SfCounted
-----------------------------------------------------------------------------
\* A set of naturals has a least one.
LEMMA SfLeast ==
    ASSUME NEW S \in SUBSET Nat, S # {}
    PROVE  SF!Min(S) \in S /\ \A y \in S : SF!Min(S) <= y
<1> DEFINE U == {n \in Nat : \A m \in S : n <= m}
<1>1. 0 \in U  OBVIOUS
<1>2. \E x \in S : \A y \in S : x =< y
  <2> SUFFICES ASSUME ~ \E x \in S : \A y \in S : x =< y PROVE FALSE  OBVIOUS
  <2>1. ASSUME NEW n \in Nat, n \in U PROVE n + 1 \in U
    <3>1. n \notin S  BY <2>1
    <3>2. \A m \in S : m \in Nat /\ n <= m /\ n # m  BY <2>1, <3>1
    <3> QED  BY <3>2
  <2> HIDE DEF U
  <2>2. \A n \in Nat : n \in U  BY <1>1, <2>1, NatSet
  <2>0. \A x \in S : x \in Nat /\ x + 1 \in Nat  OBVIOUS
  <2>3. PICK s \in S : s \in Nat /\ s + 1 \in Nat  BY <2>0
  <2>4. s + 1 <= s  BY <2>2, <2>3 DEF U
  <2> QED  BY <2>3, <2>4
<1> QED  BY <1>2 DEF SF!Min

\* There is a handle left for a descriptor: a device that has one for each of the
\* others and one more never runs out of them.
LEMMA SfFresh ==
    ASSUME SfTyped, SfOwned
    PROVE  SF!FreshHandle \in 1..(MaxOpen + 1) /\ \A i \in SF!Slots : fds[i].fh # SF!FreshHandle
<1>1. \E h \in 1..(MaxOpen + 1) : h \notin {x.fh : x \in handles}
  <2> SUFFICES ASSUME \A h \in 1..(MaxOpen + 1) : h \in {x.fh : x \in handles} PROVE FALSE  OBVIOUS
  <2> DEFINE f == [h \in 1..(MaxOpen + 1) |-> CHOOSE i \in SF!Slots : fds[i].fh = h]
  <2>1. \A h \in 1..(MaxOpen + 1) : \E i \in SF!Slots : fds[i].fh = h
    <3> SUFFICES ASSUME NEW h \in 1..(MaxOpen + 1) PROVE \E i \in SF!Slots : fds[i].fh = h  OBVIOUS
    <3>1. PICK x \in handles : x.fh = h  OBVIOUS
    <3>2. PICK i \in SF!Slots : x = SfHandle(fds[i])  BY DEF SfOwned
    <3>3. x.fh = fds[i].fh  BY <3>2 DEF SfHandle
    <3> QED  BY <3>1, <3>3
  <2>2. \A h \in 1..(MaxOpen + 1) : f[h] \in SF!Slots /\ fds[f[h]].fh = h
    BY <2>1
  <2>3. f \in [1..(MaxOpen + 1) -> SF!Slots]  BY <2>2
  <2>4. /\ IsFiniteSet(SF!Slots) /\ Cardinality(SF!Slots) = MaxOpen
        /\ IsFiniteSet(1..(MaxOpen + 1)) /\ Cardinality(1..(MaxOpen + 1)) = MaxOpen + 1
    <3>0. MaxOpen \in Nat  BY PortsAssumption
    <3>1. /\ IsFiniteSet(0..(MaxOpen - 1))
          /\ Cardinality(0..(MaxOpen - 1)) = IF 0 > MaxOpen - 1 THEN 0 ELSE MaxOpen - 1 - 0 + 1
      BY <3>0, FS_Interval
    <3>2. /\ IsFiniteSet(1..(MaxOpen + 1))
          /\ Cardinality(1..(MaxOpen + 1)) = IF 1 > MaxOpen + 1 THEN 0 ELSE MaxOpen + 1 - 1 + 1
      BY <3>0, FS_Interval
    <3> QED  BY <3>0, <3>1, <3>2 DEF SF!Slots
  <2>5. Cardinality(SF!Slots) < Cardinality(1..(MaxOpen + 1))  BY <2>4, PortsAssumption
  <2> HIDE DEF f
  <2>6. \E g, h \in 1..(MaxOpen + 1) : g # h /\ f[g] = f[h]
    <3> DEFINE H == 1..(MaxOpen + 1)
    <3>1. IsFiniteSet(H) /\ IsFiniteSet(SF!Slots) /\ Cardinality(SF!Slots) < Cardinality(H) /\ f \in [H -> SF!Slots]
      BY <2>3, <2>4, <2>5
    <3> HIDE DEF H
    <3>2. \E g, h \in H : g # h /\ f[g] = f[h]  BY <3>1, FS_PigeonHole
    <3> QED  BY <3>2 DEF H
  <2> QED  BY <2>2, <2>6
<1>2. SF!FreshHandle \in 1..(MaxOpen + 1) /\ SF!FreshHandle \notin {x.fh : x \in handles}
  BY <1>1 DEF SF!FreshHandle
<1>3. ASSUME NEW i \in SF!Slots, fds[i].fh = SF!FreshHandle PROVE FALSE
  <2>1. fds[i].fh > 0  BY <1>2, <1>3, PortsAssumption
  <2>2. SfHandle(fds[i]) \in handles  BY <2>1 DEF SfOwned
  <2>3. SfHandle(fds[i]).fh = SF!FreshHandle  BY <1>3 DEF SfHandle
  <2> QED  BY <1>2, <2>2, <2>3
<1> QED  BY <1>2, <1>3

\* One descriptor changes, and no file that another has open.
SfOthers(i, dk) == \A j \in SF!Slots \ {i} : fds[j].fh > 0 => dk[fds[j].name] = disk[fds[j].name]

LEMMA SfOneFd ==
    ASSUME SfTyped, SfSound, NEW i \in SF!Slots, NEW f \in SfFd, NEW r \in SfRead, NEW dk,
           SfGood(f, r, dk), SfAlone(i, f), SfOthers(i, dk),
           fds' = [fds EXCEPT ![i] = f], reads' = [reads EXCEPT ![i] = r], disk' = dk
    PROVE  SfSound' /\ fds' \in [SF!Slots -> SfFd] /\ reads' \in [SF!Slots -> SfRead]
<1>1. fds' \in [SF!Slots -> SfFd] /\ reads' \in [SF!Slots -> SfRead] /\ fds'[i] = f /\ reads'[i] = r
  BY DEF SfTyped
<1>2. \A j \in SF!Slots \ {i} : fds'[j] = fds[j] /\ reads'[j] = reads[j]  BY DEF SfTyped
<1>3. ASSUME NEW j \in SF!Slots PROVE SfGood(fds'[j], reads'[j], disk')
  <2>1. CASE j = i  BY <1>1, <2>1
  <2>2. CASE j # i
    <3>1. SfGood(fds[j], reads[j], disk)  BY DEF SfSound
    <3>2. fds[j].fh > 0 => dk[fds[j].name] = disk[fds[j].name]  BY <2>2 DEF SfOthers
    <3>3. SfGood(fds[j], reads[j], dk)  BY <3>1, <3>2 DEF SfGood
    <3> QED  BY <1>2, <2>2, <3>3
  <2> QED  BY <2>1, <2>2
<1>4. ASSUME NEW j \in SF!Slots, NEW k \in SF!Slots \ {j} PROVE SfApart(fds'[j], fds'[k])
  <2>1. CASE j = i
    <3>1. SfApart(f, fds[k])  BY <2>1 DEF SfAlone
    <3> QED  BY <1>1, <1>2, <2>1, <3>1
  <2>2. CASE k = i
    <3>1. SfApart(f, fds[j])  BY <2>2 DEF SfAlone
    <3>2. SfApart(fds[j], f)  BY <3>1 DEF SfApart
    <3> QED  BY <1>1, <1>2, <2>2, <3>2
  <2>3. CASE j # i /\ k # i
    <3>1. SfApart(fds[j], fds[k])  BY DEF SfSound, SfAlone
    <3> QED  BY <1>2, <2>3, <3>1
  <2> QED  BY <2>1, <2>2, <2>3
<1>5. \A j \in SF!Slots : SfGood(fds'[j], reads'[j], disk') /\ \A k \in SF!Slots \ {j} : SfApart(fds'[j], fds'[k])
  BY <1>3, <1>4
<1>6. SfSound'  BY <1>5 DEF SfSound, SfAlone
<1> QED  BY <1>1, <1>6

\* The handles stay those of the descriptors: one more, the same, one less.
LEMMA SfOwnsMore ==
    ASSUME SfTyped, SfOwned, NEW i \in SF!Slots, NEW f \in SfFd, fds[i].fh <= 0, f.fh > 0,
           fds' = [fds EXCEPT ![i] = f], handles' = handles \cup {SfHandle(f)}
    PROVE  SfOwned'
<1>1. fds'[i] = f /\ \A j \in SF!Slots \ {i} : fds'[j] = fds[j]  BY DEF SfTyped
<1>2. ~(fds[i].fh > 0)
  <2>1. fds[i].fh \in Int  BY PortsAssumption DEF SfTyped, SfFd
  <2> QED  BY <2>1
<1>3. ASSUME NEW x PROVE x \in handles' <=> \E j \in SF!Slots : fds'[j].fh > 0 /\ x = SfHandle(fds'[j])
  <2>1. ASSUME x \in handles PROVE \E j \in SF!Slots : fds'[j].fh > 0 /\ x = SfHandle(fds'[j])
    <3>1. PICK j \in SF!Slots : fds[j].fh > 0 /\ x = SfHandle(fds[j])  BY <2>1 DEF SfOwned
    <3>2. j # i  BY <1>2, <3>1
    <3> QED  BY <1>1, <3>1, <3>2
  <2>2. ASSUME x = SfHandle(f) PROVE \E j \in SF!Slots : fds'[j].fh > 0 /\ x = SfHandle(fds'[j])
    BY <1>1, <2>2
  <2>3. ASSUME NEW j \in SF!Slots, fds'[j].fh > 0, x = SfHandle(fds'[j]) PROVE x \in handles'
    <3>1. CASE j = i  BY <1>1, <2>3, <3>1
    <3>2. CASE j # i
      <4>1. fds[j].fh > 0 /\ x = SfHandle(fds[j])  BY <1>1, <2>3, <3>2
      <4>2. x \in handles  BY <4>1 DEF SfOwned
      <4> QED  BY <4>2
    <3> QED  BY <3>1, <3>2
  <2> QED  BY <2>1, <2>2, <2>3
<1> QED  BY <1>3 DEF SfOwned

LEMMA SfOwnsSame ==
    ASSUME SfTyped, SfOwned, NEW i \in SF!Slots, NEW f, f.fh = fds[i].fh, SfHandle(f) = SfHandle(fds[i]),
           fds' = [fds EXCEPT ![i] = f], handles' = handles
    PROVE  SfOwned'
<1>1. fds'[i] = f /\ \A j \in SF!Slots \ {i} : fds'[j] = fds[j]  BY DEF SfTyped
<1>2. \A j \in SF!Slots : fds'[j].fh = fds[j].fh /\ SfHandle(fds'[j]) = SfHandle(fds[j])  BY <1>1
<1> QED  BY <1>2 DEF SfOwned

LEMMA SfOwnsLess ==
    ASSUME SfTyped, SfSound, SfOwned, NEW i \in SF!Slots, NEW f, fds[i].fh > 0, f.fh = 0,
           fds' = [fds EXCEPT ![i] = f], handles' = {x \in handles : x.fh # fds[i].fh}
    PROVE  SfOwned'
<1>1. fds'[i] = f /\ \A j \in SF!Slots \ {i} : fds'[j] = fds[j]  BY DEF SfTyped
<1>2. ASSUME NEW x PROVE x \in handles' <=> \E j \in SF!Slots : fds'[j].fh > 0 /\ x = SfHandle(fds'[j])
  <2>1. ASSUME x \in handles, x.fh # fds[i].fh
        PROVE  \E j \in SF!Slots : fds'[j].fh > 0 /\ x = SfHandle(fds'[j])
    <3>1. PICK j \in SF!Slots : fds[j].fh > 0 /\ x = SfHandle(fds[j])  BY <2>1 DEF SfOwned
    <3>2. j # i  BY <2>1, <3>1 DEF SfHandle
    <3> QED  BY <1>1, <3>1, <3>2
  <2>2. ASSUME NEW j \in SF!Slots, fds'[j].fh > 0, x = SfHandle(fds'[j]) PROVE x \in handles /\ x.fh # fds[i].fh
    <3>1. j # i  BY <1>1, <2>2
    <3>2. fds[j].fh > 0 /\ x = SfHandle(fds[j])  BY <1>1, <2>2, <3>1
    <3>3. x \in handles  BY <3>2 DEF SfOwned
    <3>4. fds[j].fh # fds[i].fh  BY <3>1, <3>2 DEF SfSound, SfAlone, SfApart
    <3> QED  BY <3>2, <3>3, <3>4 DEF SfHandle
  <2> QED  BY <2>1, <2>2
<1> QED  BY <1>2 DEF SfOwned

\* How often a hint is in a sequence that has one more, and in a table one entry of
\* which is written.
LEMMA SfTimesAppend ==
    ASSUME NEW S, NEW s \in Seq(S), NEW e \in S, NEW h
    PROVE  /\ SfTimes(h, s) \in Nat
           /\ SfTimes(h, Append(s, e)) = SfTimes(h, s) + (IF e = h THEN 1 ELSE 0)
<1> DEFINE A == {k \in DOMAIN s : s[k] = h}
           B == {k \in DOMAIN Append(s, e) : Append(s, e)[k] = h}
           n == Len(s) + 1
<1>1. DOMAIN s = 1..Len(s) /\ Len(s) \in Nat  BY LenProperties
<1>2. /\ Append(s, e) \in Seq(S) /\ Len(Append(s, e)) = n
      /\ \A k \in 1..Len(s) : Append(s, e)[k] = s[k]
      /\ Append(s, e)[n] = e
  BY AppendProperties
<1>3. DOMAIN Append(s, e) = 1..n  BY <1>2, LenProperties
<1>4. IsFiniteSet(A) /\ n \notin A
  <2>1. IsFiniteSet(1..Len(s))  BY <1>1, FS_Interval
  <2>2. A \in SUBSET (1..Len(s))  BY <1>1
  <2>3. IsFiniteSet(A)  BY <2>1, <2>2, FS_Subset
  <2>4. n \notin 1..Len(s)  BY <1>1
  <2> QED  BY <2>2, <2>3, <2>4
<1>5. B = IF e = h THEN A \cup {n} ELSE A
  <2>1. 1..n = (1..Len(s)) \cup {n}  BY <1>1
  <2> QED  BY <1>1, <1>2, <1>3, <2>1
<1> HIDE DEF A, B, n
<1>6. Cardinality(A) \in Nat  BY <1>4, FS_CardinalityType
<1>7. Cardinality(A \cup {n}) = Cardinality(A) + 1  BY <1>4, FS_AddElement
<1>8. Cardinality(B) = Cardinality(A) + (IF e = h THEN 1 ELSE 0)  BY <1>5, <1>6, <1>7
<1> QED  BY <1>6, <1>8 DEF SfTimes, A, B

SfIs(x, h) == IF x = h THEN 1 ELSE 0
SfWrites(s, i, e, t) == t = [s EXCEPT ![i] = e]
SfShifts(h, s, i, e, t) ==
    SfTimes(h, s) \in Nat /\ SfTimes(h, t) = SfTimes(h, s) - SfIs(s[i], h) + SfIs(e, h)

LEMMA SfTimesWrite ==
    ASSUME NEW T, NEW s \in [SF!Slots -> T], NEW i \in SF!Slots, NEW e, NEW h, NEW t,
           SfWrites(s, i, e, t)
    PROVE  SfShifts(h, s, i, e, t)
<1> DEFINE A == {k \in DOMAIN s : s[k] = h}
           B == {k \in DOMAIN t : t[k] = h}
           C == A \ {i}
<1>1. DOMAIN s = SF!Slots /\ DOMAIN t = SF!Slots /\ t[i] = e /\ \A k \in SF!Slots \ {i} : t[k] = s[k]
  BY DEF SfWrites
<1>2. IsFiniteSet(A)
  <2>1. MaxOpen - 1 \in Int  BY PortsAssumption
  <2>2. IsFiniteSet(SF!Slots)  BY <2>1, FS_Interval DEF SF!Slots
  <2>3. A \in SUBSET SF!Slots  BY <1>1
  <2> QED  BY <2>2, <2>3, FS_Subset
<1>3. B = IF e = h THEN C \cup {i} ELSE C  BY <1>1
<1>4. i \in A <=> s[i] = h  BY <1>1
<1>5. i \notin C  OBVIOUS
<1> HIDE DEF B
<1>6. /\ IsFiniteSet(C)
      /\ Cardinality(C) = IF i \in A THEN Cardinality(A) - 1 ELSE Cardinality(A)
  <2> HIDE DEF A
  <2> QED  BY <1>2, FS_RemoveElement
<1> HIDE DEF A, C
<1>7. Cardinality(A) \in Nat /\ Cardinality(C) \in Nat  BY <1>2, <1>6, FS_CardinalityType
<1>8. Cardinality(C \cup {i}) = Cardinality(C) + 1  BY <1>5, <1>6, FS_AddElement
<1>9. Cardinality(B) = Cardinality(A) - (IF s[i] = h THEN 1 ELSE 0) + (IF e = h THEN 1 ELSE 0)
  BY <1>3, <1>4, <1>6, <1>7, <1>8
<1> QED  BY <1>7, <1>9 DEF SfShifts, SfTimes, SfIs, A, B
-----------------------------------------------------------------------------
(* The steps.                                                                  *)

\* What fs_slfs_open leaves when the device opens the file.
LEMMA SfOpened ==
    ASSUME SfTyped, SfSound, SfOwned, SF!FreeSlot # {}, NEW name \in SlNames, NEW reading \in BOOLEAN,
           SF!Opened(SF!Min(SF!FreeSlot), name, reading), disk' \in [SlNames -> SfFile],
           \A m \in SlNames \ {name} : disk'[m] = disk[m],
           reading => disk' = disk /\ disk[name] # SF!NoFile,
           \A x \in handles : x.name = name => reading /\ x.reading
    PROVE  SfSound' /\ SfOwned' /\ fds' \in [SF!Slots -> SfFd] /\ reads' \in [SF!Slots -> SfRead]
<1> DEFINE i == SF!Min(SF!FreeSlot)
           size == IF reading /\ disk[name] # SF!NoFile THEN Len(disk[name].data) ELSE -1
           f == [fh |-> SF!FreshHandle, pos |-> 0, name |-> name, reading |-> reading, size |-> size]
<1>1. i \in SF!Slots /\ fds[i].fh <= 0
  <2>1. SF!FreeSlot \in SUBSET Nat  BY PortsAssumption DEF SF!FreeSlot, SF!Slots
  <2>2. i \in SF!FreeSlot  BY <2>1, SfLeast
  <2> QED  BY <2>2 DEF SF!FreeSlot
<1>2. /\ fds' = [fds EXCEPT ![i] = f] /\ reads' = [reads EXCEPT ![i] = SF!NoReads]
      /\ handles' = handles \cup {SfHandle(f)}
  <2>1. SfHandle(f) = [fh |-> SF!FreshHandle, name |-> name, reading |-> reading]  BY DEF SfHandle
  <2>2. /\ fds' = [fds EXCEPT ![i] = f] /\ reads' = [reads EXCEPT ![i] = SF!NoReads]
        /\ handles' = handles \cup {[fh |-> SF!FreshHandle, name |-> name, reading |-> reading]}
    BY DEF SF!Opened
  <2> QED  BY <2>1, <2>2
<1>3. /\ SF!FreshHandle \in 1..(MaxOpen + 1) /\ \A j \in SF!Slots : fds[j].fh # SF!FreshHandle
      /\ SF!FreshHandle > 0 /\ SF!FreshHandle \in 0..(MaxOpen + 1)
  <2>1. SF!FreshHandle \in 1..(MaxOpen + 1) /\ \A j \in SF!Slots : fds[j].fh # SF!FreshHandle
    BY SfFresh
  <2> HIDE DEF f, i
  <2>2. \A x \in 1..(MaxOpen + 1) : x > 0 /\ x \in 0..(MaxOpen + 1)  BY PortsAssumption
  <2> QED  BY <2>1, <2>2
<1>4. size \in Int /\ (reading => size = Len(disk[name].data) /\ Len(disk[name].data) \in Nat)
  <2>1. Len(disk[name].data) \in Nat  BY LenProperties DEF SfTyped, SfFile
  <2> QED  BY <2>1
<1> HIDE DEF i, size
<1>5. f \in SfFd  BY <1>3, <1>4 DEF SfFd
<1>6. SF!NoReads \in SfRead  BY EmptySeq DEF SF!NoReads, SfRead
<1>7. SfGood(f, SF!NoReads, disk')
  <2>1. SF!NoReads.got = <<>> /\ SF!NoReads.failed = FALSE  BY DEF SF!NoReads
  <2>2. SubSeq(disk'[name].data, 1, 0) = <<>>  BY SubSeqEmpty
  <2> QED  BY <1>4, <2>1, <2>2 DEF SfGood
<1>8. ASSUME NEW j \in SF!Slots \ {i}, fds[j].fh > 0
      PROVE  fds[j].name = name => reading /\ fds[j].reading
  <2>1. SfHandle(fds[j]) \in handles  BY <1>8 DEF SfOwned
  <2>2. SfHandle(fds[j]).name = fds[j].name /\ SfHandle(fds[j]).reading = fds[j].reading  BY DEF SfHandle
  <2> QED  BY <2>1, <2>2
<1>9. SfAlone(i, f)
  <2> SUFFICES ASSUME NEW j \in SF!Slots \ {i} PROVE SfApart(f, fds[j])  BY DEF SfAlone
  <2>1. f.fh # fds[j].fh  BY <1>3
  <2>2. f.name = name /\ f.reading = reading  OBVIOUS
  <2> HIDE DEF f
  <2> QED  BY <1>8, <2>1, <2>2 DEF SfApart
<1>10. SfOthers(i, disk')
  <2> SUFFICES ASSUME NEW j \in SF!Slots \ {i}, fds[j].fh > 0 PROVE disk'[fds[j].name] = disk[fds[j].name]
    BY DEF SfOthers
  <2>1. fds[j].name \in SlNames  BY DEF SfSound, SfGood
  <2>2. CASE fds[j].name = name  BY <1>8, <2>2
  <2>3. CASE fds[j].name # name  BY <2>1, <2>3
  <2> QED  BY <2>2, <2>3
<1>11. f.fh > 0  BY <1>3
<1> HIDE DEF f
<1>12. SfSound' /\ fds' \in [SF!Slots -> SfFd] /\ reads' \in [SF!Slots -> SfRead]
  BY <1>1, <1>2, <1>5, <1>6, <1>7, <1>9, <1>10, SfOneFd
<1>13. SfOwned'  BY <1>1, <1>2, <1>5, <1>11, SfOwnsMore
<1> QED  BY <1>12, <1>13

\* A step that refuses, or has to do with no descriptor and changes no file.
LEMMA SfSame ==
    ASSUME SfTyped, SfSound, SfOwned, fds' = fds, reads' = reads, handles' = handles, disk' = disk
    PROVE  SfSound' /\ SfOwned' /\ fds' \in [SF!Slots -> SfFd] /\ reads' \in [SF!Slots -> SfRead]
<1>1. SfSound'  BY DEF SfSound, SfAlone, SfGood, SfApart
<1>2. SfOwned'  BY DEF SfOwned
<1> QED  BY <1>1, <1>2 DEF SfTyped

LEMMA SfCount == SfTyped /\ SF!Count => opened' \in 0..MaxOpens
  BY PortsAssumption DEF SF!Count, SfTyped

LEMMA SfOpenRead ==
    ASSUME SfInv, NEW name, SF!OpenRead(name)
    PROVE  SfInv'
<1> USE DEF SfInv
<1>1. /\ SF!FreeSlot # {} /\ name \in SlNames /\ hints' = hints /\ disk' = disk /\ given' = given
      /\ \/ disk[name] # SF!NoFile /\ (\A x \in SF!InUse(name) : x.reading) /\ SF!Opened(SF!Min(SF!FreeSlot), name, TRUE)
         \/ SF!Refused
  BY DEF SF!OpenRead
<1>2. opened' \in 0..MaxOpens  BY SfCount DEF SF!OpenRead
<1>3. SfSound' /\ SfOwned' /\ fds' \in [SF!Slots -> SfFd] /\ reads' \in [SF!Slots -> SfRead]
  <2>1. CASE SF!Refused  BY <1>1, <2>1, SfSame DEF SF!Refused
  <2>2. CASE /\ disk[name] # SF!NoFile /\ (\A x \in SF!InUse(name) : x.reading)
             /\ SF!Opened(SF!Min(SF!FreeSlot), name, TRUE)
    <3>1. \A x \in handles : x.name = name => TRUE /\ x.reading  BY <2>2 DEF SF!InUse
    <3>2. disk' \in [SlNames -> SfFile]  BY <1>1 DEF SfTyped
    <3>3. \A m \in SlNames \ {name} : disk'[m] = disk[m]  BY <1>1
    <3>4. PICK t \in BOOLEAN : t = TRUE  OBVIOUS
    <3>5. /\ SF!Opened(SF!Min(SF!FreeSlot), name, t) /\ \A x \in handles : x.name = name => t /\ x.reading
          /\ t => disk' = disk /\ disk[name] # SF!NoFile
      BY <1>1, <2>2, <3>1, <3>4
    <3> QED  BY <1>1, <3>2, <3>3, <3>5, SfOpened
  <2> QED  BY <1>1, <2>1, <2>2
<1>4. SfTyped'  BY <1>1, <1>2, <1>3 DEF SfTyped
<1>5. SfKept(disk, given.used)' /\ SfCounted'  BY <1>1 DEF SfKept, SfFileKept, SfCounted
<1> QED  BY <1>3, <1>4, <1>5

LEMMA SfOpenWrite ==
    ASSUME SfInv, NEW name, SF!OpenWrite(name)
    PROVE  SfInv'
<1> USE DEF SfInv
<1> DEFINE cut == [disk EXCEPT ![name].data = <<>>]
<1>1. /\ SF!FreeSlot # {} /\ name \in SlNames /\ hints' = hints /\ given' = given
      /\ \/ disk[name] # SF!NoFile /\ SF!InUse(name) = {} /\ SF!Opened(SF!Min(SF!FreeSlot), name, FALSE) /\ disk' = cut
         \/ SF!Refused /\ disk' = disk
  BY DEF SF!OpenWrite
<1>2. opened' \in 0..MaxOpens  BY SfCount DEF SF!OpenWrite
<1>3. /\ SfSound' /\ SfOwned' /\ fds' \in [SF!Slots -> SfFd] /\ reads' \in [SF!Slots -> SfRead]
      /\ disk' \in [SlNames -> SfFile] /\ SfKept(disk', given.used)
  <2>1. CASE SF!Refused /\ disk' = disk
    <3>1. disk' \in [SlNames -> SfFile] /\ SfKept(disk', given.used)  BY <2>1 DEF SfTyped
    <3> QED  BY <2>1, <3>1, SfSame DEF SF!Refused
  <2>2. CASE /\ disk[name] # SF!NoFile /\ SF!InUse(name) = {}
             /\ SF!Opened(SF!Min(SF!FreeSlot), name, FALSE) /\ disk' = cut
    <3>1. \A x \in handles : x.name # name  BY <2>2 DEF SF!InUse
    <3>2. PICK d \in SfFile : d = disk[name]  BY <1>1 DEF SfTyped
    <3>3. PICK e \in SfFile : e = [d EXCEPT !.data = <<>>] /\ e.max = d.max /\ e.data = <<>>
      <4>1. PICK nil \in Seq(Nat) : nil = <<>>  BY EmptySeq
      <4>2. [d EXCEPT !.data = nil] \in SfFile /\ [d EXCEPT !.data = nil].max = d.max
            /\ [d EXCEPT !.data = nil].data = nil
        BY DEF SfFile
      <4> QED  BY <4>1, <4>2, Zenon
    <3>4. disk' = [disk EXCEPT ![name] = e]  BY <2>2, <3>2, <3>3 DEF SfTyped
    <3>5. disk' \in [SlNames -> SfFile] /\ \A m \in SlNames \ {name} : disk'[m] = disk[m]
      BY <3>4 DEF SfTyped
    <3>6. PICK t \in BOOLEAN : t = FALSE  OBVIOUS
    <3>7. /\ SF!Opened(SF!Min(SF!FreeSlot), name, t) /\ \A x \in handles : x.name = name => t /\ x.reading
          /\ t => disk' = disk /\ disk[name] # SF!NoFile
      BY <2>2, <3>1, <3>6
    <3>8. SfKept(disk', given.used)
      <4> SUFFICES ASSUME NEW n \in SlNames PROVE SfFileKept(n, disk'[n], given.used)  BY DEF SfKept
      <4>1. SfFileKept(n, disk[n], given.used)  BY DEF SfKept
      <4>2. CASE n = name
        <5>1. disk'[n] = e  BY <1>1, <3>4, <4>2 DEF SfTyped
        <5>2. d # SF!NoFile /\ Len(d.data) \in Nat  BY <2>2, <3>2, LenProperties DEF SfFile
        <5>3. Len(e.data) <= e.max
          <6>1. d.max \in Int /\ Len(d.data) <= d.max  BY <3>2, <4>1, <4>2, <5>2 DEF SfFileKept, SfFile
          <6>2. Len(e.data) = 0  BY <3>3, EmptySeq
          <6> QED  BY <3>3, <5>2, <6>1, <6>2
        <5> QED  BY <3>2, <3>3, <4>1, <4>2, <5>1, <5>2, <5>3 DEF SfFileKept
      <4>3. CASE n # name  BY <3>5, <4>1, <4>3
      <4> QED  BY <4>2, <4>3
    <3> QED  BY <1>1, <3>5, <3>7, <3>8, SfOpened
  <2> QED  BY <1>1, <2>1, <2>2
<1> HIDE DEF cut
<1>4. SfTyped'  BY <1>1, <1>2, <1>3 DEF SfTyped
<1>5. SfKept(disk, given.used)' /\ SfCounted'  BY <1>1, <1>3 DEF SfCounted
<1> QED  BY <1>3, <1>4, <1>5

LEMMA SfOpenCreate ==
    ASSUME SfInv, NEW name, SF!OpenCreate(name)
    PROVE  SfInv'
<1> USE DEF SfInv
<1> DEFINE found == {i \in SF!Slots : hints[i].name = name}
           i == SF!Min(found)
           size == IF found = {} THEN MaxSize ELSE hints[i].size
           made == [disk EXCEPT ![name] = [max |-> size, data |-> <<>>]]
<1>1. /\ SF!FreeSlot # {} /\ name \in SlNames
      /\ IF found = {} THEN hints' = hints /\ given' = given
         ELSE /\ hints' = SF!AfterUse(hints, i)
              /\ given' = [given EXCEPT !.used = Append(@, hints[i])]
      /\ \/ SF!InUse(name) = {} /\ SF!Opened(SF!Min(SF!FreeSlot), name, FALSE) /\ disk' = made
         \/ SF!Refused /\ disk' = disk
  BY DEF SF!OpenCreate
<1>2. opened' \in 0..MaxOpens  BY SfCount DEF SF!OpenCreate
<1>3. PICK taken \in Seq(SfHint), used \in Seq(SfHint) : given = [taken |-> taken, used |-> used]
  BY DEF SfTyped
<1>4. given.taken = taken /\ given.used = used  BY <1>3
<1>5. ASSUME found # {} PROVE i \in SF!Slots /\ hints[i].name = name /\ hints[i] \in SfHint
  <2>1. found \in SUBSET Nat  BY PortsAssumption DEF SF!Slots
  <2> HIDE DEF found
  <2>2. i \in found  BY <1>5, <2>1, SfLeast
  <2>3. i \in SF!Slots /\ hints[i].name = name  BY <2>2 DEF found
  <2>4. hints[i] \in SfHint \cup SfNoHint  BY <2>3 DEF SfTyped
  <2>5. hints[i] \notin SfNoHint  BY <1>1, <2>3, PortsAssumption DEF SfNoHint
  <2> QED  BY <2>3, <2>4, <2>5
<1>6. size \in Nat /\ (size = MaxSize \/ (found # {} /\ [name |-> name, size |-> size] = hints[i]))
  <2> HIDE DEF found, i
  <2>1. CASE found = {}  BY <2>1, PortsAssumption
  <2>2. CASE found # {}
    <3>1. PICK h \in SfHint : h = hints[i] /\ h.name = name  BY <1>5, <2>2
    <3>2. h.size \in Nat /\ h = [name |-> name, size |-> h.size]  BY <3>1, PortsAssumption DEF SfHint
    <3> QED  BY <2>2, <3>1, <3>2
  <2> QED  BY <2>1, <2>2
<1> HIDE DEF found, i, size
\* A hint that is used is given back and counted.
<1>7. PICK used2 \in Seq(SfHint) :
         /\ given' = [taken |-> taken, used |-> used2]
         /\ used2 = IF found = {} THEN used ELSE Append(used, hints[i])
  <2>1. CASE found = {}  BY <1>1, <1>3, <2>1
  <2>2. CASE found # {}
    <3>1. Append(used, hints[i]) \in Seq(SfHint)  BY <1>5, <2>2, AppendProperties
    <3>2. given' = [given EXCEPT !.used = Append(used, hints[i])]  BY <1>1, <1>4, <2>2
    <3>3. given' = [taken |-> taken, used |-> Append(used, hints[i])]  BY <1>3, <3>2
    <3> QED  BY <2>2, <3>1, <3>3
  <2> QED  BY <2>1, <2>2
<1>8. hints' \in [SF!Slots -> SfHint \cup SfNoHint] /\ SfCounted'
  <2>1. CASE found = {}  BY <1>1, <2>1 DEF SfTyped, SfCounted
  <2>2. CASE found # {}
    <3>1. PICK h \in SfHint : h = hints[i]  BY <1>5, <2>2
    <3>2. PICK e \in SfNoHint : e = [h EXCEPT !.name = <<>>]  BY <3>1, PortsAssumption DEF SfHint, SfNoHint
    <3>3. hints' = [hints EXCEPT ![i] = e]
      <4>1. hints' = [hints EXCEPT ![i].name = <<>>]  BY <1>1, <2>2 DEF SF!AfterUse, SF!NULL
      <4> QED  BY <1>5, <2>2, <3>1, <3>2, <4>1 DEF SfTyped
    <3>4. hints \in [SF!Slots -> SfHint \cup SfNoHint] /\ i \in SF!Slots  BY <1>5, <2>2 DEF SfTyped
    <3>5. hints' \in [SF!Slots -> SfHint \cup SfNoHint]  BY <3>2, <3>3, <3>4
    <3>6. ASSUME NEW g \in SfHint
          PROVE  SfTimes(g, hints') + SfTimes(g, used2) = SfTimes(g, taken)
      <4>1. e # g  BY <3>2, PortsAssumption DEF SfHint, SfNoHint
      <4>2. /\ SfTimes(g, hints) \in Nat
            /\ SfTimes(g, hints') = SfTimes(g, hints) - (IF hints[i] = g THEN 1 ELSE 0) + (IF e = g THEN 1 ELSE 0)
        <5> DEFINE T == SfHint \cup SfNoHint
        <5>1. hints \in [SF!Slots -> T]  BY <3>4
        <5> HIDE DEF T
        <5>3. SfWrites(hints, i, e, hints')  BY <3>3 DEF SfWrites
        <5>2. SfShifts(g, hints, i, e, hints')
          BY <3>4, <5>1, <5>3, SfTimesWrite
        <5> QED  BY <5>2 DEF SfShifts, SfIs
      <4>3. /\ SfTimes(g, used) \in Nat
            /\ SfTimes(g, used2) = SfTimes(g, used) + (IF h = g THEN 1 ELSE 0)
        BY <1>7, <2>2, <3>1, SfTimesAppend
      <4>4. SfTimes(g, hints) + SfTimes(g, used) = SfTimes(g, taken)  BY <1>4 DEF SfCounted
      <4> QED  BY <3>1, <4>1, <4>2, <4>3, <4>4
    <3>7. given'.used = used2 /\ given'.taken = taken  BY <1>7
    <3> QED  BY <3>5, <3>6, <3>7 DEF SfCounted
  <2> QED  BY <2>1, <2>2
\* What a file of another name has been made with is still among those used.
<1>9. SF!Range(used) \subseteq SF!Range(used2) /\ (found # {} => hints[i] \in SF!Range(used2))
  <2>1. CASE found = {}  BY <1>7, <2>1
  <2>2. CASE found # {}
    <3>1. PICK h \in SfHint : h = hints[i] /\ used2 = Append(used, h)  BY <1>5, <1>7, <2>2
    <3>2. /\ Len(used2) = Len(used) + 1 /\ \A k \in 1..Len(used) : used2[k] = used[k]
          /\ used2[Len(used) + 1] = h
      BY <3>1, AppendProperties
    <3>3. DOMAIN used2 = 1..Len(used2) /\ DOMAIN used = 1..Len(used) /\ Len(used) \in Nat  BY LenProperties
    <3>4. ASSUME NEW x \in SF!Range(used) PROVE x \in SF!Range(used2)
      <4>1. PICK k \in 1..Len(used) : x = used[k]  BY <3>3, <3>4 DEF SF!Range
      <4>2. k \in DOMAIN used2 /\ used2[k] = x  BY <3>2, <3>3, <4>1
      <4> QED  BY <4>2 DEF SF!Range
    <3>5. h \in SF!Range(used2)
      <4>1. Len(used) + 1 \in DOMAIN used2  BY <3>2, <3>3
      <4> QED  BY <3>2, <4>1 DEF SF!Range
    <3> QED  BY <3>1, <3>4, <3>5
  <2> QED  BY <2>1, <2>2
<1>10. SfKept(disk, used2)
  <2> SUFFICES ASSUME NEW n \in SlNames PROVE SfFileKept(n, disk[n], used2)  BY DEF SfKept
  <2>1. SfFileKept(n, disk[n], used)  BY <1>4 DEF SfKept
  <2> QED  BY <1>9, <2>1 DEF SfFileKept
<1>11. /\ SfSound' /\ SfOwned' /\ fds' \in [SF!Slots -> SfFd] /\ reads' \in [SF!Slots -> SfRead]
       /\ disk' \in [SlNames -> SfFile] /\ SfKept(disk', used2)
  <2>1. CASE SF!Refused /\ disk' = disk
    <3>1. disk' \in [SlNames -> SfFile] /\ SfKept(disk', used2)  BY <1>10, <2>1 DEF SfTyped
    <3> QED  BY <2>1, <3>1, SfSame DEF SF!Refused
  <2>2. CASE SF!InUse(name) = {} /\ SF!Opened(SF!Min(SF!FreeSlot), name, FALSE) /\ disk' = made
    <3>1. \A x \in handles : x.name # name  BY <2>2 DEF SF!InUse
    <3>2. PICK e \in SfFile : e = [max |-> size, data |-> <<>>] /\ e.max = size /\ e.data = <<>>
      <4>1. PICK nil \in Seq(Nat) : nil = <<>>  BY EmptySeq
      <4>2. [max |-> size, data |-> nil] \in SfFile /\ [max |-> size, data |-> nil].max = size
            /\ [max |-> size, data |-> nil].data = nil
        BY <1>6 DEF SfFile
      <4> QED  BY <4>1, <4>2, Zenon
    <3>3. disk' = [disk EXCEPT ![name] = e]  BY <2>2, <3>2
    <3>4. disk' \in [SlNames -> SfFile] /\ \A m \in SlNames \ {name} : disk'[m] = disk[m]
      BY <3>3 DEF SfTyped
    <3>5. PICK t \in BOOLEAN : t = FALSE  OBVIOUS
    <3>6. /\ SF!Opened(SF!Min(SF!FreeSlot), name, t) /\ \A x \in handles : x.name = name => t /\ x.reading
          /\ t => disk' = disk /\ disk[name] # SF!NoFile
      BY <2>2, <3>1, <3>5
    <3>7. SfKept(disk', used2)
      <4> SUFFICES ASSUME NEW n \in SlNames PROVE SfFileKept(n, disk'[n], used2)  BY DEF SfKept
      <4>1. SfFileKept(n, disk[n], used2)  BY <1>10 DEF SfKept
      <4>2. CASE n = name
        <5>1. disk'[n] = e  BY <1>1, <3>3, <4>2 DEF SfTyped
        <5>2. Len(e.data) <= e.max
          <6>1. Len(e.data) = 0  BY <3>2, EmptySeq
          <6> QED  BY <1>6, <3>2, <6>1
        <5>3. e.max = MaxSize \/ [name |-> name, size |-> e.max] \in SF!Range(used2)  BY <1>6, <1>9, <3>2
        <5> QED  BY <4>2, <5>1, <5>2, <5>3 DEF SfFileKept
      <4>3. CASE n # name  BY <3>4, <4>1, <4>3
      <4> QED  BY <4>2, <4>3
    <3> QED  BY <1>1, <3>4, <3>6, <3>7, SfOpened
  <2> QED  BY <1>1, <2>1, <2>2
<1> HIDE DEF made
<1>12. SfTyped'  BY <1>2, <1>7, <1>8, <1>11 DEF SfTyped
<1>13. SfKept(disk, given.used)'
  <2>1. given'.used = used2  BY <1>7
  <2> QED  BY <1>11, <2>1
<1> QED  BY <1>8, <1>11, <1>12, <1>13

LEMMA SfSetNewFileSize ==
    ASSUME SfInv, NEW name \in SlNames, NEW size \in HintSizes, SF!SetNewFileSize(name, size)
    PROVE  SfInv'
<1> USE DEF SfInv
<1> DEFINE free == {j \in SF!Slots : hints[j].name = SF!NULL}
           i == SF!Min(free)
           e == [name |-> name, size |-> size]
           T == SfHint \cup SfNoHint
<1>1. /\ free # {} /\ hints' = [hints EXCEPT ![i] = e]
      /\ given' = [given EXCEPT !.taken = Append(@, e)]
      /\ fds' = fds /\ disk' = disk /\ handles' = handles /\ opened' = opened /\ reads' = reads
  BY DEF SF!SetNewFileSize
<1>2. e \in SfHint  BY DEF SfHint
<1>3. i \in SF!Slots /\ hints[i].name = <<>>
  <2>1. free \in SUBSET Nat  BY PortsAssumption DEF SF!Slots
  <2> HIDE DEF free
  <2>2. i \in free  BY <1>1, <2>1, SfLeast
  <2> QED  BY <2>2 DEF free, SF!NULL
<1>4. PICK taken \in Seq(SfHint), used \in Seq(SfHint) : given = [taken |-> taken, used |-> used]
  BY DEF SfTyped
<1>5. given.taken = taken /\ given.used = used  BY <1>4
<1> HIDE DEF free, i, e
<1>6. /\ given' = [taken |-> Append(taken, e), used |-> used]
      /\ given'.taken = Append(taken, e) /\ given'.used = used
  BY <1>1, <1>4
<1>7. Append(taken, e) \in Seq(SfHint)  BY <1>2, AppendProperties
<1>8. hints \in [SF!Slots -> T]  BY DEF SfTyped
<1>9. hints' \in [SF!Slots -> SfHint \cup SfNoHint]  BY <1>1, <1>2, <1>8
<1>10. hints[i] \notin SfHint  BY <1>3, PortsAssumption DEF SfHint
<1> HIDE DEF T
<1>11. ASSUME NEW g \in SfHint
       PROVE  SfTimes(g, hints') + SfTimes(g, used) = SfTimes(g, Append(taken, e))
  <2>5. SfWrites(hints, i, e, hints')  BY <1>1 DEF SfWrites
  <2>1. SfShifts(g, hints, i, e, hints')
    BY <1>3, <1>8, <2>5, SfTimesWrite
  <2>2. /\ SfTimes(g, taken) \in Nat
        /\ SfTimes(g, Append(taken, e)) = SfTimes(g, taken) + (IF e = g THEN 1 ELSE 0)
    BY <1>2, SfTimesAppend
  <2>3. SfTimes(g, used) \in Nat  BY <1>2, SfTimesAppend
  <2>4. SfTimes(g, hints) + SfTimes(g, used) = SfTimes(g, taken)  BY <1>5 DEF SfCounted
  <2> QED  BY <1>10, <2>1, <2>2, <2>3, <2>4 DEF SfShifts, SfIs
<1>12. SfCounted'  BY <1>6, <1>11 DEF SfCounted
<1>13. SfSound' /\ SfOwned' /\ fds' \in [SF!Slots -> SfFd] /\ reads' \in [SF!Slots -> SfRead]
  BY <1>1, SfSame
<1>14. SfTyped'  BY <1>1, <1>6, <1>7, <1>9, <1>13 DEF SfTyped
<1>15. SfKept(disk, given.used)'  BY <1>1, <1>5, <1>6 DEF SfKept, SfFileKept
<1> QED  BY <1>12, <1>13, <1>14, <1>15

\* A call for a descriptor that is open.
LEMMA SfLive ==
    ASSUME SfTyped, SfSound, NEW fd \in Int, SF!Live(fd)
    PROVE  \E i \in SF!Slots, f \in SfFd, r \in SfRead :
              /\ i = fd - SF!SLFS_FD_BASE /\ f = fds[i] /\ r = reads[i] /\ f.fh > 0 /\ f.name \in SlNames
              /\ SfGood(f, r, disk) /\ SfAlone(i, f)
<1> DEFINE i == fd - SF!SLFS_FD_BASE
<1>1. i \in SF!Slots /\ fds[i].fh > 0
  BY PortsAssumption DEF SF!Live, SF!IsSlfs, SF!SLFS_FD_BASE, SF!Slots
<1> HIDE DEF i
<1>2. fds[i] \in SfFd /\ reads[i] \in SfRead  BY <1>1 DEF SfTyped
<1>3. SfGood(fds[i], reads[i], disk) /\ SfAlone(i, fds[i])  BY <1>1 DEF SfSound
<1>4. fds[i].name \in SlNames  BY <1>1, <1>3 DEF SfGood
<1> QED  BY <1>1, <1>2, <1>3, <1>4 DEF i

\* A descriptor goes on with its handle, and no file changes that another reads.
LEMMA SfGoesOn ==
    ASSUME SfInv, NEW i \in SF!Slots, NEW f \in SfFd, NEW r \in SfRead,
           SfHandle(f) = SfHandle(fds[i]), SfGood(f, r, disk'), SfOthers(i, disk'),
           disk' \in [SlNames -> SfFile], SfKept(disk', given.used),
           fds' = [fds EXCEPT ![i] = f], reads' = [reads EXCEPT ![i] = r],
           UNCHANGED <<hints, handles, opened, given>>
    PROVE  SfInv'
<1> USE DEF SfInv
<1>1. f.fh = fds[i].fh /\ f.name = fds[i].name /\ f.reading = fds[i].reading  BY DEF SfHandle
<1>2. SfAlone(i, f)
  <2>1. SfAlone(i, fds[i])  BY DEF SfSound
  <2> QED  BY <1>1, <2>1 DEF SfAlone, SfApart
<1>3. SfSound' /\ fds' \in [SF!Slots -> SfFd] /\ reads' \in [SF!Slots -> SfRead]
  BY <1>2, SfOneFd
<1>4. SfOwned'  BY <1>1, SfOwnsSame
<1>5. SfTyped'  BY <1>3 DEF SfTyped
<1>6. SfKept(disk, given.used)' /\ SfCounted'  BY DEF SfKept, SfFileKept, SfCounted
<1> QED  BY <1>3, <1>4, <1>5, <1>6

LEMMA SfReadStep ==
    ASSUME SfInv, NEW fd \in Int, NEW want \in Nat, SF!Read(fd, want)
    PROVE  SfInv'
<1> USE DEF SfInv
<1>1. SF!Live(fd)  BY DEF SF!Read
<1>2. PICK i \in SF!Slots, f \in SfFd, r \in SfRead :
          /\ i = fd - SF!SLFS_FD_BASE /\ f = fds[i] /\ r = reads[i] /\ f.fh > 0 /\ f.name \in SlNames
          /\ SfGood(f, r, disk) /\ SfAlone(i, f)
  BY <1>1, SfLive
<1>3. PICK data \in Seq(Nat) : data = disk[f.name].data /\ Len(data) \in Nat
  BY <1>2, LenProperties DEF SfTyped, SfFile
<1> DEFINE n == SF!Min({want, Len(data) - f.pos})
           some == SubSeq(data, f.pos + 1, f.pos + n)
<1>4. /\ \/ f.pos = f.size /\ fds' = fds /\ reads' = reads
         \/ /\ f.reading /\ f.pos < Len(data)
            /\ fds' = [fds EXCEPT ![i].pos = @ + n]
            /\ reads' = [reads EXCEPT ![i].got = IF r.sought THEN @ ELSE @ \o some]
         \/ /\ f.pos # f.size /\ ~(f.reading /\ f.pos < Len(data)) /\ fds' = fds
            /\ reads' = [reads EXCEPT ![i].failed = ~r.sought]
      /\ UNCHANGED <<hints, disk, handles, opened, given>>
  BY <1>2, <1>3 DEF SF!Read, SF!AtEnd
<1>5. /\ f.fh \in 0..(MaxOpen + 1) /\ f.pos \in Nat /\ f.size \in Int /\ f.reading \in BOOLEAN
      /\ r.got \in Seq(Nat) /\ r.failed \in BOOLEAN /\ r.sought \in BOOLEAN
  BY DEF SfFd, SfRead
<1>6. SfOthers(i, disk') /\ disk' \in [SlNames -> SfFile] /\ SfKept(disk', given.used)
  BY <1>4 DEF SfOthers, SfTyped
<1>7. ASSUME NEW g \in SfFd, NEW q \in SfRead, SfHandle(g) = SfHandle(f), SfGood(g, q, disk),
             fds' = [fds EXCEPT ![i] = g], reads' = [reads EXCEPT ![i] = q]
      PROVE  SfInv'
  <2>1. SfGood(g, q, disk')  BY <1>4, <1>7
  <2> QED  BY <1>2, <1>4, <1>6, <1>7, <2>1, SfGoesOn
<1>8. CASE fds' = fds /\ reads' = reads
  <2>1. fds' = [fds EXCEPT ![i] = f] /\ reads' = [reads EXCEPT ![i] = r]  BY <1>2, <1>8 DEF SfTyped
  <2> QED  BY <1>2, <1>7, <2>1
<1>9. CASE /\ f.reading /\ f.pos < Len(data)
           /\ fds' = [fds EXCEPT ![i].pos = @ + n]
           /\ reads' = [reads EXCEPT ![i].got = IF r.sought THEN @ ELSE @ \o some]
  <2>1. n \in Nat /\ n <= Len(data) - f.pos
    <3>1. Len(data) - f.pos \in Nat  BY <1>3, <1>5, <1>9
    <3>2. {want, Len(data) - f.pos} \in SUBSET Nat  BY <3>1
    <3>3. n \in {want, Len(data) - f.pos} /\ \A y \in {want, Len(data) - f.pos} : n <= y
      BY <3>2, SfLeast
    <3> QED  BY <3>1, <3>3
  <2> HIDE DEF n
  <2>2. f.pos + n \in 0..Len(data)  BY <1>3, <1>5, <2>1
  <2>3. some \in Seq(Nat)
    <3>1. \A k \in (f.pos + 1)..(f.pos + n) : data[k] \in Nat
      <4> SUFFICES ASSUME NEW k \in (f.pos + 1)..(f.pos + n) PROVE data[k] \in Nat  OBVIOUS
      <4>1. k \in 1..Len(data)  BY <1>3, <1>5, <2>1, <2>2
      <4> QED  BY <4>1, ElementOfSeq
    <3> QED  BY <1>5, <2>1, <3>1, SubSeqProperties
  <2>4. r.got \o some \in Seq(Nat)  BY <1>5, <2>3, ConcatProperties
  <2>5. ~r.sought => r.got \o some = SubSeq(data, 1, f.pos + n)
    <3> SUFFICES ASSUME ~r.sought PROVE r.got \o some = SubSeq(data, 1, f.pos + n)  OBVIOUS
    <3>1. r.got = SubSeq(data, 1, f.pos)  BY <1>2, <1>3, <1>9 DEF SfGood
    <3>2. 1 \in 1..(Len(data) + 1) /\ f.pos \in (1 - 1)..Len(data) /\ f.pos + n \in f.pos..Len(data)
      BY <1>3, <1>5, <1>9, <2>1, <2>2
    <3>3. SubSeq(data, 1, f.pos) \o SubSeq(data, f.pos + 1, f.pos + n) = SubSeq(data, 1, f.pos + n)
      BY <3>2, ConcatAdjacentSubSeq
    <3> QED  BY <3>1, <3>3
  <2> HIDE DEF some
  <2>6. PICK got \in Seq(Nat) : got = IF r.sought THEN r.got ELSE r.got \o some
    BY <1>5, <2>4
  <2>12. PICK pos \in Nat : pos = f.pos + n  BY <1>5, <2>1
  <2> DEFINE g == [f EXCEPT !.pos = pos]
             q == [r EXCEPT !.got = got]
  <2>7. g \in SfFd /\ g.pos = pos /\ SfHandle(g) = SfHandle(f) /\ g.size = f.size
        /\ g.name = f.name /\ g.reading = f.reading
    BY DEF SfFd, SfHandle
  <2>8. q \in SfRead /\ q.got = got /\ q.failed = r.failed /\ q.sought = r.sought
    BY DEF SfRead
  <2>9. fds' = [fds EXCEPT ![i] = g]  BY <1>2, <1>9, <2>12 DEF SfTyped
  <2>10. reads' = [reads EXCEPT ![i] = q]  BY <1>2, <1>9, <2>6 DEF SfTyped
  <2> HIDE DEF g, q
  <2>11. SfGood(g, q, disk)
    <3>1. f.fh > 0 => f.name \in SlNames /\ (f.reading /\ ~r.sought =>
              ~r.failed /\ f.size = Len(data))
      BY <1>2, <1>3 DEF SfGood
    <3>2. f.pos + n <= Len(data)  BY <2>2
    <3> QED  BY <1>2, <1>3, <2>5, <2>6, <2>7, <2>8, <2>12, <3>1, <3>2 DEF SfGood
  <2> QED  BY <1>7, <2>7, <2>8, <2>9, <2>10, <2>11
<1>10. CASE /\ f.pos # f.size /\ ~(f.reading /\ f.pos < Len(data)) /\ fds' = fds
            /\ reads' = [reads EXCEPT ![i].failed = ~r.sought]
  <2>1. ~(f.reading /\ ~r.sought)
    <3> SUFFICES ASSUME f.reading, ~r.sought PROVE FALSE  OBVIOUS
    <3>1. f.pos <= Len(data) /\ f.size = Len(data)  BY <1>2, <1>3 DEF SfGood
    <3> QED  BY <1>3, <1>5, <1>10, <3>1
  <2>2. PICK b \in BOOLEAN : b = ~r.sought  BY <1>5
  <2> DEFINE q == [r EXCEPT !.failed = b]
  <2>3. q \in SfRead /\ q.sought = r.sought  BY DEF SfRead
  <2>4. reads' = [reads EXCEPT ![i] = q] /\ fds' = [fds EXCEPT ![i] = f]
    BY <1>2, <1>10, <2>2 DEF SfTyped
  <2> HIDE DEF q
  <2>5. SfGood(f, q, disk)  BY <1>2, <2>1, <2>3 DEF SfGood
  <2> QED  BY <1>7, <2>3, <2>4, <2>5
<1> HIDE DEF n, some
<1> QED  BY <1>4, <1>8, <1>9, <1>10

LEMMA SfSeqOf ==
    ASSUME NEW S, NEW n \in Nat, NEW s \in [1..n -> S]
    PROVE  s \in Seq(S) /\ Len(s) = n
  OBVIOUS

\* The bytes of a file after a write at pos.
SfBytes(old, pos, want, data) ==
    data = [k \in 1..SF!Max({Len(old), pos + want}) |->
               IF k \in (pos + 1)..(pos + want) THEN k ELSE IF k <= Len(old) THEN old[k] ELSE 0]

LEMMA SfWritten ==
    ASSUME NEW old \in Seq(Nat), NEW pos \in Nat, NEW want \in Nat, NEW data, SfBytes(old, pos, want, data)
    PROVE  data \in Seq(Nat) /\ (Len(data) = Len(old) \/ Len(data) = pos + want)
<1> DEFINE m == SF!Max({Len(old), pos + want})
<1>1. Len(old) \in Nat /\ \A k \in 1..Len(old) : old[k] \in Nat  BY LenProperties, ElementOfSeq
<1>2. m = Len(old) \/ m = pos + want
  <2>1. CASE Len(old) >= pos + want
    <3>1. \E x \in {Len(old), pos + want} : \A y \in {Len(old), pos + want} : x >= y  BY <1>1, <2>1
    <3> QED  BY <3>1 DEF SF!Max
  <2>2. CASE ~(Len(old) >= pos + want)
    <3>1. \E x \in {Len(old), pos + want} : \A y \in {Len(old), pos + want} : x >= y  BY <1>1, <2>2
    <3> QED  BY <3>1 DEF SF!Max
  <2> QED  BY <2>1, <2>2
<1> HIDE DEF m
<1>3. m \in Nat  BY <1>1, <1>2
<1>4. data = [k \in 1..m |->
                 IF k \in (pos + 1)..(pos + want) THEN k ELSE IF k <= Len(old) THEN old[k] ELSE 0]
  BY DEF m, SfBytes
<1>5. ASSUME NEW k \in 1..m PROVE data[k] \in Nat
  <2>1. k \in Nat /\ k >= 1  BY <1>3
  <2>2. k <= Len(old) => old[k] \in Nat  BY <1>1, <2>1
  <2>3. data[k] = IF k \in (pos + 1)..(pos + want) THEN k ELSE IF k <= Len(old) THEN old[k] ELSE 0
    BY <1>4
  <2> QED  BY <2>1, <2>2, <2>3
<1>6. data \in [1..m -> Nat]  BY <1>4, <1>5
<1>7. data \in Seq(Nat) /\ Len(data) = m  BY <1>3, <1>6, SfSeqOf
<1> QED  BY <1>2, <1>7

LEMMA SfWriteStep ==
    ASSUME SfInv, NEW fd \in Int, NEW want \in Nat, SF!Write(fd, want)
    PROVE  SfInv'
<1> USE DEF SfInv
<1>1. SF!Live(fd)  BY DEF SF!Write
<1>2. PICK i \in SF!Slots, f \in SfFd, r \in SfRead :
          /\ i = fd - SF!SLFS_FD_BASE /\ f = fds[i] /\ r = reads[i] /\ f.fh > 0 /\ f.name \in SlNames
          /\ SfGood(f, r, disk) /\ SfAlone(i, f)
  BY <1>1, SfLive
<1>3. PICK d \in SfFile : d = disk[f.name]  BY <1>2 DEF SfTyped
<1>4. d.max \in Int /\ d.data \in Seq(Nat) /\ f.pos \in Nat /\ Len(d.data) \in Nat
  BY LenProperties DEF SfFile, SfFd
<1> DEFINE data == [k \in 1..SF!Max({Len(d.data), f.pos + want}) |->
                       IF k \in (f.pos + 1)..(f.pos + want) THEN k
                       ELSE IF k <= Len(d.data) THEN d.data[k] ELSE 0]
<1>5. /\ \/ /\ ~f.reading /\ f.pos + want <= d.max
            /\ fds' = [fds EXCEPT ![i].pos = @ + want]
            /\ disk' = [disk EXCEPT ![f.name].data = data]
         \/ fds' = fds /\ disk' = disk
      /\ UNCHANGED <<hints, handles, opened, given, reads>>
  BY <1>2, <1>3 DEF SF!Write
<1>6. reads' = [reads EXCEPT ![i] = r]  BY <1>2, <1>5 DEF SfTyped
<1>7. data \in Seq(Nat) /\ (Len(data) = Len(d.data) \/ Len(data) = f.pos + want)
  <2>1. PICK old \in Seq(Nat), pos \in Nat : old = d.data /\ pos = f.pos  BY <1>4
  <2>2. SfBytes(old, pos, want, data)  BY <2>1 DEF SfBytes
  <2> HIDE DEF data
  <2>3. data \in Seq(Nat) /\ (Len(data) = Len(old) \/ Len(data) = pos + want)
    BY <2>2, SfWritten
  <2> QED  BY <2>1, <2>3
<1> HIDE DEF data
<1>8. CASE fds' = fds /\ disk' = disk
  <2>1. fds' = [fds EXCEPT ![i] = f]  BY <1>2, <1>8 DEF SfTyped
  <2>2. SfGood(f, r, disk') /\ SfOthers(i, disk') /\ disk' \in [SlNames -> SfFile]
        /\ SfKept(disk', given.used) /\ SfHandle(f) = SfHandle(fds[i])
    BY <1>2, <1>8 DEF SfOthers, SfTyped
  <2> QED  BY <1>2, <1>5, <1>6, <2>1, <2>2, SfGoesOn
<1>9. CASE /\ ~f.reading /\ f.pos + want <= d.max
           /\ fds' = [fds EXCEPT ![i].pos = @ + want]
           /\ disk' = [disk EXCEPT ![f.name].data = data]
  <2> DEFINE g == [f EXCEPT !.pos = @ + want]
             e == [d EXCEPT !.data = data]
  <2>1. g \in SfFd /\ SfHandle(g) = SfHandle(fds[i]) /\ g.reading = f.reading /\ g.name = f.name
    <3>1. PICK p \in Nat : p = f.pos + want  BY <1>4
    <3>2. [f EXCEPT !.pos = p] \in SfFd  BY <1>4, <3>1 DEF SfFd
    <3>3. g = [f EXCEPT !.pos = p]  BY <3>1
    <3>4. g.fh = f.fh /\ g.reading = f.reading /\ g.name = f.name  BY <1>4 DEF SfFd
    <3>5. f = fds[i]  BY <1>2
    <3> QED  BY <3>2, <3>3, <3>4, <3>5 DEF SfHandle
  <2>2. e \in SfFile /\ e.max = d.max /\ e.data = data  BY <1>7 DEF SfFile
  <2>3. fds' = [fds EXCEPT ![i] = g]  BY <1>2, <1>9 DEF SfTyped
  <2>4. disk' = [disk EXCEPT ![f.name] = e]  BY <1>2, <1>3, <1>9 DEF SfTyped
  <2> HIDE DEF g, e
  <2>5. /\ disk' \in [SlNames -> SfFile] /\ disk'[f.name] = e
        /\ \A m \in SlNames \ {f.name} : disk'[m] = disk[m]
    BY <1>2, <2>2, <2>4 DEF SfTyped
  <2>6. SfGood(g, r, disk')  BY <1>2, <1>9, <2>1 DEF SfGood
  <2>7. SfOthers(i, disk')
    <3> SUFFICES ASSUME NEW j \in SF!Slots \ {i}, fds[j].fh > 0
                 PROVE  disk'[fds[j].name] = disk[fds[j].name]
      BY DEF SfOthers
    <3>1. fds[j].name \in SlNames  BY DEF SfSound, SfGood
    <3>2. fds[j].name # f.name  BY <1>2, <1>9 DEF SfAlone, SfApart
    <3> QED  BY <2>5, <3>1, <3>2
  <2>8. SfKept(disk', given.used)
    <3> SUFFICES ASSUME NEW n \in SlNames PROVE SfFileKept(n, disk'[n], given.used)  BY DEF SfKept
    <3>1. SfFileKept(n, disk[n], given.used)  BY DEF SfKept
    <3>2. CASE n = f.name
      <4>1. CASE d = SF!NoFile
        <5>1. d.max = -1  BY <4>1 DEF SF!NoFile
        <5> QED  BY <1>4, <1>9, <5>1
      <4>2. CASE d # SF!NoFile
        <5>1. Len(d.data) <= d.max
              /\ (d.max = MaxSize \/ [name |-> n, size |-> d.max] \in SF!Range(given.used))
          BY <1>3, <3>1, <3>2, <4>2 DEF SfFileKept
        <5>2. Len(e.data) <= e.max  BY <1>7, <1>9, <2>2, <5>1
        <5> QED  BY <2>2, <2>5, <3>2, <5>1, <5>2 DEF SfFileKept
      <4> QED  BY <4>1, <4>2
    <3>3. CASE n # f.name  BY <2>5, <3>1, <3>3
    <3> QED  BY <3>2, <3>3
  <2> QED  BY <1>5, <1>6, <2>1, <2>3, <2>5, <2>6, <2>7, <2>8, SfGoesOn
<1> QED  BY <1>5, <1>8, <1>9

LEMMA SfLseek ==
    ASSUME SfInv, NEW fd \in Int, NEW offset \in Nat, SF!Lseek(fd, offset)
    PROVE  SfInv'
<1> USE DEF SfInv
<1>1. SF!Live(fd)  BY DEF SF!Lseek
<1>2. PICK i \in SF!Slots, f \in SfFd, r \in SfRead :
          /\ i = fd - SF!SLFS_FD_BASE /\ f = fds[i] /\ r = reads[i] /\ f.fh > 0 /\ f.name \in SlNames
          /\ SfGood(f, r, disk) /\ SfAlone(i, f)
  BY <1>1, SfLive
<1> DEFINE g == [f EXCEPT !.pos = offset]
           q == [SF!NoReads EXCEPT !.sought = TRUE]
<1>3. g \in SfFd /\ SfHandle(g) = SfHandle(fds[i]) /\ g.name = f.name /\ g.reading = f.reading
  BY <1>2 DEF SfFd, SfHandle
<1>4. q \in SfRead /\ q.sought = TRUE
  <2>1. PICK nil \in Seq(Nat) : nil = <<>>  BY EmptySeq
  <2>2. SF!NoReads = [got |-> nil, failed |-> FALSE, sought |-> FALSE]  BY <2>1 DEF SF!NoReads
  <2> QED  BY <2>2 DEF SfRead
<1>5. /\ fds' = [fds EXCEPT ![i] = g] /\ reads' = [reads EXCEPT ![i] = q]
      /\ UNCHANGED <<hints, disk, handles, opened, given>>
  BY <1>2 DEF SF!Lseek, SfTyped
<1> HIDE DEF g, q
<1>6. SfGood(g, q, disk')  BY <1>2, <1>3, <1>4 DEF SfGood
<1>7. SfOthers(i, disk') /\ disk' \in [SlNames -> SfFile] /\ SfKept(disk', given.used)
  BY <1>5 DEF SfOthers, SfTyped
<1> QED  BY <1>3, <1>4, <1>5, <1>6, <1>7, SfGoesOn

LEMMA SfClose ==
    ASSUME SfInv, NEW fd \in Int, SF!Close(fd)
    PROVE  SfInv'
<1> USE DEF SfInv
<1>1. SF!Live(fd)  BY DEF SF!Close
<1>2. PICK i \in SF!Slots, f \in SfFd, r \in SfRead :
          /\ i = fd - SF!SLFS_FD_BASE /\ f = fds[i] /\ r = reads[i] /\ f.fh > 0 /\ f.name \in SlNames
          /\ SfGood(f, r, disk) /\ SfAlone(i, f)
  BY <1>1, SfLive
<1>3. /\ handles' = {x \in handles : x.fh # fds[i].fh}
      /\ fds' = [fds EXCEPT ![i] = SF!FreeFd] /\ reads' = [reads EXCEPT ![i] = SF!NoReads]
      /\ UNCHANGED <<hints, disk, opened, given>>
  BY <1>2 DEF SF!Close
<1>4. SF!FreeFd \in SfFd /\ SF!FreeFd.fh = 0  BY PortsAssumption DEF SF!FreeFd, SfFd, SF!NULL
<1>5. SF!NoReads \in SfRead  BY EmptySeq DEF SF!NoReads, SfRead
<1>6. /\ SfGood(SF!FreeFd, SF!NoReads, disk') /\ SfAlone(i, SF!FreeFd) /\ SfOthers(i, disk')
  BY <1>3, <1>4 DEF SfGood, SfAlone, SfApart, SfOthers
<1>7. SfSound' /\ fds' \in [SF!Slots -> SfFd] /\ reads' \in [SF!Slots -> SfRead]
  BY <1>3, <1>4, <1>5, <1>6, SfOneFd
<1>8. SfOwned'  BY <1>2, <1>3, <1>4, SfOwnsLess
<1>9. SfTyped'  BY <1>3, <1>7 DEF SfTyped
<1>10. SfKept(disk, given.used)' /\ SfCounted'  BY <1>3 DEF SfKept, SfFileKept, SfCounted
<1> QED  BY <1>7, <1>8, <1>9, <1>10

LEMMA SfUnlink ==
    ASSUME SfInv, NEW name, SF!Unlink(name)
    PROVE  SfInv'
<1> USE DEF SfInv
<1>1. /\ name \in SlNames /\ SF!InUse(name) = {} /\ disk' = [disk EXCEPT ![name] = SF!NoFile]
      /\ UNCHANGED <<fds, hints, handles, opened, given, reads>>
  BY DEF SF!Unlink
<1>2. SF!NoFile \in SfFile  BY EmptySeq DEF SF!NoFile, SfFile
<1>3. /\ disk' \in [SlNames -> SfFile] /\ disk'[name] = SF!NoFile
      /\ \A m \in SlNames \ {name} : disk'[m] = disk[m]
  BY <1>1, <1>2 DEF SfTyped
<1>4. ASSUME NEW i \in SF!Slots PROVE SfGood(fds[i], reads[i], disk')
  <2>1. SfGood(fds[i], reads[i], disk)  BY DEF SfSound
  <2>2. CASE fds[i].fh > 0
    <3>1. SfHandle(fds[i]) \in handles  BY <2>2 DEF SfOwned
    <3>2. SfHandle(fds[i]).name = fds[i].name  BY DEF SfHandle
    <3>3. fds[i].name # name  BY <1>1, <3>1, <3>2 DEF SF!InUse
    <3>4. disk'[fds[i].name] = disk[fds[i].name]  BY <1>3, <2>1, <2>2, <3>3 DEF SfGood
    <3> QED  BY <2>1, <3>4 DEF SfGood
  <2>3. CASE ~(fds[i].fh > 0)  BY <2>3 DEF SfGood
  <2> QED  BY <2>2, <2>3
<1>5. SfSound'
  <2>1. \A i \in SF!Slots : SfGood(fds[i], reads[i], disk') /\ SfAlone(i, fds[i])  BY <1>4 DEF SfSound
  <2> QED  BY <1>1, <2>1 DEF SfSound, SfAlone
<1>6. SfOwned'  BY <1>1 DEF SfOwned
<1>7. SfKept(disk', given.used)
  <2> SUFFICES ASSUME NEW n \in SlNames PROVE SfFileKept(n, disk'[n], given.used)  BY DEF SfKept
  <2>1. SfFileKept(n, disk[n], given.used)  BY DEF SfKept
  <2>2. CASE n = name  BY <1>3, <2>2 DEF SfFileKept
  <2>3. CASE n # name  BY <1>3, <2>1, <2>3
  <2> QED  BY <2>2, <2>3
<1>8. SfTyped'  BY <1>1, <1>3 DEF SfTyped
<1>9. SfKept(disk, given.used)' /\ SfCounted'  BY <1>1, <1>7 DEF SfCounted
<1> QED  BY <1>5, <1>6, <1>8, <1>9

\* The opens that give no descriptor.
LEMMA SfNotOpened ==
    ASSUME SfInv, NEW name, SF!OpenFull(name) \/ SF!OpenAppend(name)
    PROVE  SfInv'
<1> USE DEF SfInv
<1>1. UNCHANGED <<fds, hints, disk, handles, given, reads>>
  BY DEF SF!OpenFull, SF!OpenAppend, SF!Refused
<1>2. opened' \in 0..MaxOpens  BY SfCount DEF SF!OpenFull, SF!OpenAppend
<1>3. SfSound' /\ SfOwned' /\ fds' \in [SF!Slots -> SfFd] /\ reads' \in [SF!Slots -> SfRead]
  BY <1>1, SfSame
<1>4. SfTyped'  BY <1>1, <1>2, <1>3 DEF SfTyped
<1>5. SfKept(disk, given.used)' /\ SfCounted'  BY <1>1 DEF SfKept, SfFileKept, SfCounted
<1> QED  BY <1>3, <1>4, <1>5

LEMMA SfStep ==
    ASSUME SfInv, [SF!Next]_(SF!vars)
    PROVE  SfInv'
<1>1. CASE UNCHANGED SF!vars
  <2>1. UNCHANGED <<fds, hints, disk, handles, opened, given, reads>>  BY <1>1 DEF SF!vars
  <2>2. SfSound' /\ SfOwned' /\ fds' \in [SF!Slots -> SfFd] /\ reads' \in [SF!Slots -> SfRead]
    BY <2>1, SfSame DEF SfInv
  <2>3. SfTyped'  BY <2>1, <2>2 DEF SfInv, SfTyped
  <2>4. SfKept(disk, given.used)' /\ SfCounted'  BY <2>1 DEF SfInv, SfKept, SfFileKept, SfCounted
  <2> QED  BY <2>2, <2>3, <2>4 DEF SfInv
<1>2. ASSUME NEW p \in SlPaths,
             \/ SF!OpenFull(SF!Name(p)) \/ SF!OpenRead(SF!Name(p)) \/ SF!OpenAppend(SF!Name(p))
             \/ SF!OpenWrite(SF!Name(p)) \/ SF!OpenCreate(SF!Name(p)) \/ SF!Unlink(SF!Name(p))
      PROVE  SfInv'
  BY <1>2, SfNotOpened, SfOpenRead, SfOpenWrite, SfOpenCreate, SfUnlink
<1>3. ASSUME NEW name \in SlNames, NEW size \in HintSizes, SF!SetNewFileSize(name, size) PROVE SfInv'
  BY <1>3, SfSetNewFileSize
<1>4. ASSUME NEW fd \in {1} \cup SF!SLFS_FD_BASE..(SF!SLFS_FD_BASE + MaxOpen),
             \/ \E n \in {1, 2} : SF!Read(fd, n) \/ SF!Write(fd, n)
             \/ SF!Lseek(fd, 0) \/ SF!Lseek(fd, MaxSize) \/ SF!Close(fd)
      PROVE  SfInv'
  <2>1. fd \in Int /\ MaxSize \in Nat /\ 0 \in Nat  BY PortsAssumption DEF SF!SLFS_FD_BASE
  <2>2. ASSUME NEW n \in {1, 2}, SF!Read(fd, n) \/ SF!Write(fd, n) PROVE SfInv'
    <3>1. n \in Nat  OBVIOUS
    <3> QED  BY <2>1, <2>2, <3>1, SfReadStep, SfWriteStep
  <2>3. ASSUME SF!Lseek(fd, 0) \/ SF!Lseek(fd, MaxSize) PROVE SfInv'  BY <2>1, <2>3, SfLseek
  <2> QED  BY <1>4, <2>1, <2>2, <2>3, SfClose
<1>5. CASE SF!Next  BY <1>2, <1>3, <1>4, <1>5 DEF SF!Next
<1> QED  BY <1>1, <1>5

LEMMA SfInit == SF!Init => SfInv
<1> SUFFICES ASSUME SF!Init PROVE SfInv  OBVIOUS
<1>1. /\ fds = [i \in SF!Slots |-> SF!FreeFd] /\ reads = [i \in SF!Slots |-> SF!NoReads]
      /\ hints = [i \in SF!Slots |-> [name |-> <<>>, size |-> 0]]
      /\ disk = [n \in SlNames |-> SF!NoFile]
      /\ handles = {} /\ opened = 0 /\ given = [taken |-> <<>>, used |-> <<>>]
  BY DEF SF!Init, SF!NULL
<1>2. SF!FreeFd \in SfFd /\ SF!FreeFd.fh = 0  BY PortsAssumption DEF SF!FreeFd, SfFd, SF!NULL
<1>3. SF!NoReads \in SfRead  BY EmptySeq DEF SF!NoReads, SfRead
<1>4. SF!NoFile \in SfFile  BY EmptySeq DEF SF!NoFile, SfFile
<1>5. <<>> \in Seq(SfHint)  BY EmptySeq
<1>6. SfTyped
  <2>1. [name |-> <<>>, size |-> 0] \in SfNoHint  BY DEF SfNoHint
  <2> QED  BY <1>1, <1>2, <1>3, <1>4, <1>5, <2>1, PortsAssumption DEF SfTyped
<1>7. SfSound  BY <1>1, <1>2 DEF SfSound, SfGood, SfAlone, SfApart
<1>8. SfOwned  BY <1>1, <1>2 DEF SfOwned
<1>9. SfKept(disk, given.used)  BY <1>1 DEF SfKept, SfFileKept
<1>10. SfCounted
  <2> SUFFICES ASSUME NEW h \in SfHint
               PROVE  SfTimes(h, hints) + SfTimes(h, given.used) = SfTimes(h, given.taken)
    BY DEF SfCounted
  <2>1. h # [name |-> <<>>, size |-> 0]  BY PortsAssumption DEF SfHint
  <2>2. {k \in DOMAIN hints : hints[k] = h} = {}  BY <1>1, <2>1
  <2>3. given.used = <<>> /\ given.taken = <<>>  BY <1>1
  <2>4. {k \in DOMAIN <<>> : <<>>[k] = h} = {}  OBVIOUS
  <2>5. SfTimes(h, hints) = 0 /\ SfTimes(h, <<>>) = 0  BY <2>2, <2>4, FS_EmptySet DEF SfTimes
  <2> QED  BY <2>3, <2>5
<1> QED  BY <1>6, <1>7, <1>8, <1>9, <1>10 DEF SfInv

LEMMA SfSatisfies == SfInv => SF!TypeOK /\ SF!HandlesOwned /\ SF!ReadsWhole /\ SF!HintsUsedOnce
<1> SUFFICES ASSUME SfInv PROVE SF!TypeOK /\ SF!HandlesOwned /\ SF!ReadsWhole /\ SF!HintsUsedOnce  OBVIOUS
<1> USE DEF SfInv
<1>1. \A i \in SF!Slots : fds[i].fh \in 0..(MaxOpen + 1) /\ fds[i].pos \in Nat  BY DEF SfTyped, SfFd
<1>2. \A n \in SlNames : disk[n] # SF!NoFile => Len(disk[n].data) <= disk[n].max  BY DEF SfKept, SfFileKept
<1>3. SF!TypeOK  BY <1>1, <1>2 DEF SF!TypeOK, SfTyped
<1>4. \A i \in SF!Slots : i \notin SF!FreeSlot <=> fds[i].fh > 0
  <2>1. \A x \in 0..(MaxOpen + 1) : ~(x <= 0) <=> x > 0  BY PortsAssumption
  <2> QED  BY <1>1, <2>1 DEF SF!FreeSlot
<1>5. SF!HandlesOwned
  <2>1. \A x : x \in handles <=> \E i \in SF!Slots \ SF!FreeSlot :
                                     x = [fh |-> fds[i].fh, name |-> fds[i].name, reading |-> fds[i].reading]
    BY <1>4 DEF SfOwned, SfHandle
  <2>2. handles = {[fh |-> fds[i].fh, name |-> fds[i].name, reading |-> fds[i].reading] :
                       i \in SF!Slots \ SF!FreeSlot}
    BY <2>1
  <2>3. \A i, j \in SF!Slots \ SF!FreeSlot : fds[i].fh = fds[j].fh => i = j
    BY <1>4 DEF SfSound, SfAlone, SfApart
  <2> QED  BY <2>2, <2>3 DEF SF!HandlesOwned
<1>6. SF!ReadsWhole  BY <1>4 DEF SF!ReadsWhole, SfSound, SfGood
<1>7. SF!HintsUsedOnce
  <2>1. ASSUME NEW name \in SlNames, NEW size \in HintSizes, NEW h, h = [name |-> name, size |-> size]
        PROVE  SfTimes(h, hints) + SfTimes(h, given.used) = SfTimes(h, given.taken)
    <3>1. h \in SfHint  BY <2>1 DEF SfHint
    <3> QED  BY <3>1 DEF SfCounted
  <2>2. ASSUME NEW n \in SlNames, disk[n] # SF!NoFile
        PROVE  disk[n].max = MaxSize \/ [name |-> n, size |-> disk[n].max] \in SF!Range(given.used)
    BY <2>2 DEF SfKept, SfFileKept
  <2>3. \A S : SF!Cardinality(S) = Cardinality(S)  BY Zenon DEF SF!Cardinality, Cardinality
  <2> QED  BY <2>1, <2>2, <2>3, Zenon DEF SF!HintsUsedOnce, SfTimes
<1> QED  BY <1>3, <1>5, <1>6, <1>7

\* Whatever the files, the paths, the hints and the size of the table are: every
\* handle of the device belongs to one open descriptor, a file that is only read
\* gives its data and then an end of file, and every size hint that was taken is
\* used once (fs_slfs_open, fs_slfs_read, fs_slfs_close, fs_slfs_set_new_file_size).
THEOREM FilesOfTheDevice == SF!Spec => []FilesKept
<1>1. SfInv /\ [SF!Next]_(SF!vars) => SfInv'  BY SfStep
<1>2. SfInv => FilesKept  BY SfSatisfies DEF FilesKept
<1> QED  BY <1>1, <1>2, SfInit, PTL DEF SF!Spec
=============================================================================
