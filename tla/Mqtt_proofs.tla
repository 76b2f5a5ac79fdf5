----------------------------- MODULE Mqtt_proofs -----------------------------
(***************************************************************************)
(* Proofs about both sides of MQTT.  First the broker, for any number of   *)
(* clients, sessions, topics and CONNECT packets: the invariant ties each  *)
(* session to its connection in both directions, so that what a connection *)
(* points to is a session of its own, and a session that its connection    *)
(* does not point to is one of several.  Then the packets of a connection, *)
(* for any topics, payloads and ways to cut the stream: what is in the     *)
(* buffer and on its way is the packets not handled yet, one behind the    *)
(* other.                                                                  *)
(***************************************************************************)
EXTENDS MqttBroker, MqttStream, FiniteSetTheorems, FunctionTheorems, SequenceTheorems, TLAPS

\* TypeOK, with what PUBLISH needs in order to count.
Types == TypeOK /\ IsFiniteSet(list)

\* A session that is allocated is in the list, has a connection that sent
\* CONNECT, and is what this connection points to unless it sent another.
Owned(s) ==
  /\ sess[s].alive <=> s \in list
  /\ sess[s].alive =>
       /\ sess[s].nc \in Conn /\ connects[sess[s].nc] > 0
       /\ \/ life[sess[s].nc] = "open" /\ user[sess[s].nc] = s
          \/ connects[sess[s].nc] > 1

\* A connection sends nothing before it is accepted, and then points to a live
\* session of its own or to none.
Connected(c) ==
  /\ life[c] = "absent" => connects[c] = 0
  /\ life[c] = "open" /\ user[c] # Null => user[c] \in list /\ sess[user[c]].nc = c

IInv == Types /\ (\A s \in Session : Owned(s)) /\ (\A c \in Conn : Connected(c))

-----------------------------------------------------------------------------
(* Operators                                                               *)

LEMMA FreshObject ==
  ASSUME NEW c \in Conn, NEW o, o = [NoObject EXCEPT !.alive = TRUE, !.nc = c]
  PROVE  o \in SessionObject /\ o.alive /\ o.nc = c /\ o.subs = <<>>
<1>1. <<>> \in Seq(Filter)  BY EmptySeq
<1> QED  BY <1>1 DEF NoObject, SessionObject

LEMMA FreedObject ==
  ASSUME NEW c \in Conn \cup {Null}, NEW o, o = [NoObject EXCEPT !.nc = c]
  PROVE  o \in SessionObject /\ ~o.alive /\ o.nc = c /\ o.subs = <<>>
<1>1. <<>> \in Seq(Filter)  BY EmptySeq
<1> QED  BY <1>1 DEF NoObject, SessionObject

LEMMA TopicSeq ==
  ASSUME NEW n \in Nat, NEW topics \in [1..n -> Filter]
  PROVE  topics \in Seq(Filter) /\ Len(topics) \in Nat
<1>1. topics \in Seq(Filter)  BY SeqDef
<1> QED  BY <1>1, LenProperties

\* What closing the connections of C does to the sessions: those that C points
\* to are freed and off the list, the others are untouched.
LEMMA CloseSessionsFrame ==
  ASSUME Types, NEW C \in SUBSET Conn, CloseSessions(C)
  PROVE  /\ list' = list \ ClosedSessions(C) /\ IsFiniteSet(list')
         /\ sess' \in [Session -> SessionObject]
         /\ wild' \in BOOLEAN
         /\ \A s \in Session : sess'[s].nc = sess[s].nc
         /\ \A s \in Session : s \in ClosedSessions(C) =>
              ~sess'[s].alive /\ sess'[s].subs = <<>>
         /\ \A s \in Session : s \notin ClosedSessions(C) => sess'[s] = sess[s]
<1> DEFINE gone == ClosedSessions(C)
<1>1. /\ list' = list \ gone
      /\ sess' = [s \in Session |->
                    IF s \in gone THEN [NoObject EXCEPT !.nc = sess[s].nc] ELSE sess[s]]
      /\ wild' = \E s \in gone : Overrun(s)
  BY DEF CloseSessions
<1>2. IsFiniteSet(list')  BY <1>1, FS_Subset DEF Types
<1> HIDE DEF gone
<1>3. ASSUME NEW s \in Session
      PROVE  /\ sess'[s] \in SessionObject /\ sess'[s].nc = sess[s].nc
             /\ s \in gone => ~sess'[s].alive /\ sess'[s].subs = <<>>
             /\ s \notin gone => sess'[s] = sess[s]
  <2>1. sess[s] \in SessionObject /\ sess[s].nc \in Conn \cup {Null}
    BY DEF Types, TypeOK, SessionObject
  <2>2. CASE s \in gone
    <3>1. sess'[s] = [NoObject EXCEPT !.nc = sess[s].nc]  BY <1>1, <2>2
    <3> QED  BY ZenonT(40), <2>1, <2>2, <3>1, FreedObject
  <2>3. CASE s \notin gone  BY <1>1, <2>1, <2>3
  <2> QED  BY <2>2, <2>3
<1>4. sess' \in [Session -> SessionObject]  BY <1>1, <1>3
<1> QED  BY <1>1, <1>2, <1>3, <1>4 DEF gone

-----------------------------------------------------------------------------
(* The invariant, action by action                                         *)

LEMMA InitInv == Init => IInv
<1> SUFFICES ASSUME Init PROVE IInv  OBVIOUS
<1>1. <<>> \in Seq(Filter)  BY EmptySeq
<1>2. NoObject \in SessionObject /\ ~NoObject.alive /\ NoObject.subs = <<>>
  BY <1>1 DEF NoObject, SessionObject
<1>3. IsFiniteSet(list)  BY FS_EmptySet DEF Init
<1>4. connects \in [Conn -> 0..MaxConnects]
  <2>1. 0 \in 0..MaxConnects  BY MqttBrokerAssumption
  <2> QED  BY <2>1 DEF Init
<1>5. /\ sess \in [Session -> SessionObject] /\ user \in [Conn -> Session \cup {Null}]
      /\ \A s \in Session : sess[s].subs = <<>>
  BY <1>2 DEF Init
<1>6. copies \in [Message -> [Conn -> Nat]]  BY DEF Init
<1>7. TypeOK  BY <1>4, <1>5, <1>6 DEF Init, TypeOK
<1> QED  BY <1>2, <1>3, <1>7 DEF Init, IInv, Types, Owned, Connected

LEMMA AcceptInv ==
  ASSUME IInv, NEW c \in Conn, Accept(c)
  PROVE  IInv'
<1> USE DEF Accept
<1>1. Types'  BY DEF IInv, Types, TypeOK, SessionObject
<1>2. ASSUME NEW s \in Session PROVE Owned(s)'
  BY DEF IInv, Types, TypeOK, Owned, Connected
<1>3. ASSUME NEW d \in Conn PROVE Connected(d)'
  BY DEF IInv, Types, TypeOK, Connected
<1> QED  BY <1>1, <1>2, <1>3 DEF IInv

LEMMA HandleConnectInv ==
  ASSUME IInv, NEW c \in Conn, HandleConnect(c)
  PROVE  IInv'
<1>1. PICK s \in Session :
        /\ sess[s].nc = Null
        /\ sess' = [sess EXCEPT ![s] = [NoObject EXCEPT !.alive = TRUE, !.nc = c]]
        /\ list' = list \cup {s}
        /\ user' = [user EXCEPT ![c] = s]
  BY DEF HandleConnect
<1>2. /\ connects' = [connects EXCEPT ![c] = @ + 1] /\ connects[c] < MaxConnects
      /\ life[c] = "open" /\ UNCHANGED <<life, copies, listener, wild, mgr>>
  BY DEF HandleConnect, Handles
<1>3. /\ user \in [Conn -> Session \cup {Null}] /\ connects \in [Conn -> 0..MaxConnects]
      /\ sess \in [Session -> SessionObject] /\ MaxConnects \in Nat
  BY MqttBrokerAssumption DEF IInv, Types, TypeOK
<1>4. /\ sess'[s] \in SessionObject /\ sess'[s].alive /\ sess'[s].nc = c
      /\ sess'[s].subs = <<>>
  BY <1>1, <1>3, FreshObject
<1>5. \A t \in Session \ {s} : sess'[t] = sess[t]  BY <1>1, <1>3
<1>6. sess' \in [Session -> SessionObject]  BY <1>1, <1>3, <1>4
<1>7. ~sess[s].alive /\ s \notin list
  BY <1>1, MqttBrokerAssumption DEF IInv, Owned
<1>8. connects' \in [Conn -> 0..MaxConnects] /\ connects'[c] = connects[c] + 1
  BY <1>2, <1>3
<1>9. Types'
  <2>1. IsFiniteSet(list')  BY <1>1, FS_AddElement DEF IInv, Types
  <2>2. user' \in [Conn -> Session \cup {Null}]  BY <1>1, <1>3
  <2>3. \A t \in Session : sess'[t].alive \/ sess'[t].subs = <<>>
    BY <1>4, <1>5 DEF IInv, Types, TypeOK
  <2>4. list' \subseteq Session  BY <1>1 DEF IInv, Types, TypeOK
  <2> QED  BY <1>2, <1>6, <1>8, <2>1, <2>2, <2>3, <2>4 DEF IInv, Types, TypeOK
<1>10. ASSUME NEW t \in Session PROVE Owned(t)'
  <2>1. CASE t = s
    BY <1>1, <1>2, <1>3, <1>4, <1>8, <2>1 DEF Owned
  <2>2. CASE t # s
    <3>1. sess'[t] = sess[t] /\ (t \in list' <=> t \in list)  BY <1>1, <1>5, <2>2
    <3>2. Owned(t)  BY DEF IInv
    <3>3. CASE sess[t].nc = c
      BY <1>3, <1>8, <3>1, <3>2, <3>3 DEF Owned
    <3>4. CASE sess[t].nc # c
      BY <1>1, <1>2, <1>3, <3>1, <3>2, <3>4 DEF Owned
    <3> QED  BY <3>3, <3>4
  <2> QED  BY <2>1, <2>2
<1>11. ASSUME NEW d \in Conn PROVE Connected(d)'
  <2>1. Connected(d)  BY DEF IInv
  <2>2. CASE d = c  BY <1>1, <1>2, <1>3, <1>4, <2>2 DEF Connected
  <2>3. CASE d # c
    <3>1. user'[d] = user[d] /\ connects'[d] = connects[d] /\ life' = life
      BY <1>1, <1>2, <1>3, <2>3
    <3>2. user[d] \in Session \cup {Null}  BY <1>3
    <3>3. life[d] = "open" /\ user[d] # Null => user[d] # s
      BY <1>7, <2>1 DEF Connected
    <3> QED  BY <1>1, <1>5, <2>1, <3>1, <3>2, <3>3 DEF Connected
  <2> QED  BY <2>2, <2>3
<1> QED  BY <1>9, <1>10, <1>11 DEF IInv

LEMMA HandleSubscribeInv ==
  ASSUME IInv, NEW c \in Conn, HandleSubscribe(c)
  PROVE  IInv'
<1>1. /\ life[c] = "open"
      /\ UNCHANGED <<life, user, connects, list, copies, listener, mgr>>
  BY DEF HandleSubscribe, Handles
<1>2. PICK n \in 0..MaxTopics : \E topics \in [1..n -> Filter] :
        IF user[c] = Null THEN wild' = TRUE /\ UNCHANGED sess
        ELSE LET ss == sess[user[c]] IN
             /\ sess' = [sess EXCEPT ![user[c]] = [ss EXCEPT !.subs = @ \o topics,
                                                             !.size = Len(topics)]]
             /\ wild' = (ss.subs # <<>> /\ topics # <<>>)
  BY DEF HandleSubscribe
<1>3. PICK topics \in [1..n -> Filter] :
        IF user[c] = Null THEN wild' = TRUE /\ UNCHANGED sess
        ELSE LET ss == sess[user[c]] IN
             /\ sess' = [sess EXCEPT ![user[c]] = [ss EXCEPT !.subs = @ \o topics,
                                                             !.size = Len(topics)]]
             /\ wild' = (ss.subs # <<>> /\ topics # <<>>)
  BY <1>2
<1>4. n \in Nat  BY <1>2, MqttBrokerAssumption
<1>5. user \in [Conn -> Session \cup {Null}] /\ sess \in [Session -> SessionObject]
  BY DEF IInv, Types, TypeOK
<1>6. CASE user[c] = Null
  <2>1. wild' = TRUE /\ sess' = sess  BY <1>3, <1>6
  <2> QED  BY <1>1, <2>1 DEF IInv, Types, TypeOK, Owned, Connected
<1>7. CASE user[c] # Null
  <2> DEFINE s == user[c]
  <2>1. s \in Session /\ sess[s] \in SessionObject  BY <1>5, <1>7
  <2>2. sess' = [sess EXCEPT ![s] = [sess[s] EXCEPT !.subs = @ \o topics,
                                                    !.size = Len(topics)]]
    BY <1>3, <1>7
  <2>3. wild' \in BOOLEAN  BY <1>3, <1>7
  <2>4. topics \in Seq(Filter) /\ Len(topics) \in Nat  BY <1>4, TopicSeq
  <2>5. s \in list /\ sess[s].alive
    BY <1>1, <1>7, <2>1 DEF IInv, Connected, Owned
  <2> HIDE DEF s
  <2>6. sess'[s] = [sess[s] EXCEPT !.subs = @ \o topics, !.size = Len(topics)]
    BY <1>5, <2>1, <2>2
  <2>7. sess'[s] \in SessionObject /\ sess'[s].alive = sess[s].alive
        /\ sess'[s].nc = sess[s].nc
    <3> DEFINE subs == sess[s].subs \o topics
               size == Len(topics)
    <3>1. sess[s].subs \in Seq(Filter)  BY <2>1 DEF SessionObject
    <3>2. subs \in Seq(Filter) /\ size \in Nat  BY <2>4, <3>1, ConcatProperties
    <3>3. sess'[s] = [sess[s] EXCEPT !.subs = subs, !.size = size]  BY <2>6
    <3> HIDE DEF subs, size
    <3> QED  BY <2>1, <3>2, <3>3 DEF SessionObject
  <2>8. \A t \in Session \ {s} : sess'[t] = sess[t]  BY <1>5, <2>2
  <2>9. sess' \in [Session -> SessionObject]  BY <1>5, <2>1, <2>2, <2>6, <2>7
  <2>10. \A t \in Session : sess'[t].alive = sess[t].alive /\ sess'[t].nc = sess[t].nc
    BY <2>7, <2>8
  <2>11. \A t \in Session : sess'[t].alive \/ sess'[t].subs = <<>>
    BY <2>5, <2>7, <2>8 DEF IInv, Types, TypeOK
  <2>12. Types'  BY <1>1, <2>3, <2>9, <2>11 DEF IInv, Types, TypeOK
  <2>13. \A t \in Session : Owned(t)'  BY <1>1, <2>10 DEF IInv, Owned
  <2>14. \A d \in Conn : Connected(d)'
    BY <1>1, <1>5, <2>10 DEF IInv, Connected
  <2> QED  BY <2>12, <2>13, <2>14 DEF IInv
<1> QED  BY <1>6, <1>7

LEMMA CopiesForType ==
  ASSUME Types, NEW c, NEW m
  PROVE  CopiesFor(c, m) \in Nat
<1>1. IsFiniteSet({s \in list : sess[s].nc = c /\ Subscribed(s, m)})
  BY FS_Subset DEF Types
<1> QED  BY <1>1, FS_CardinalityType DEF CopiesFor

LEMMA HandlePublishInv ==
  ASSUME IInv, NEW c \in Conn, HandlePublish(c)
  PROVE  IInv'
<1>1. PICK m \in Message :
        /\ copies' = [copies EXCEPT ![m] = [d \in Conn |-> CopiesFor(d, m)]]
        /\ wild' = \E s \in list :
                     Overrun(s) \/ (Subscribed(s, m) /\ life[sess[s].nc] = "gone")
  BY DEF HandlePublish
<1>2. UNCHANGED <<life, user, connects, sess, list, listener, mgr>>
  BY DEF HandlePublish
<1>3. [d \in Conn |-> CopiesFor(d, m)] \in [Conn -> Nat]
  BY CopiesForType DEF IInv
<1>4. copies' \in [Message -> [Conn -> Nat]]  BY <1>1, <1>3 DEF IInv, Types, TypeOK
<1>5. wild' \in BOOLEAN  BY <1>1
<1>6. Types'  BY <1>2, <1>4, <1>5 DEF IInv, Types, TypeOK
<1> QED  BY <1>2, <1>6 DEF IInv, Owned, Connected

\* Connections that close take the sessions they point to with them.
LEMMA ClosingInv ==
  ASSUME IInv, NEW C \in SUBSET {c \in Conn : life[c] = "open"},
         Freed(C), CloseSessions(C), UNCHANGED <<user, connects, copies>>,
         listener' \in {"open", "gone"}, mgr' \in {"running", "freed"}
  PROVE  IInv'
<1> DEFINE gone == ClosedSessions(C)
<1>1. Types /\ C \in SUBSET Conn  BY DEF IInv
<1>2. /\ list' = list \ gone /\ IsFiniteSet(list')
      /\ sess' \in [Session -> SessionObject]
      /\ wild' \in BOOLEAN
      /\ \A s \in Session : sess'[s].nc = sess[s].nc
      /\ \A s \in Session : s \in gone => ~sess'[s].alive /\ sess'[s].subs = <<>>
      /\ \A s \in Session : s \notin gone => sess'[s] = sess[s]
  BY <1>1, CloseSessionsFrame
<1>3. \A s \in Session : s \in gone <=> \E c \in C : user[c] = s
  BY MqttBrokerAssumption DEF ClosedSessions
<1> HIDE DEF gone
<1>4. /\ life' \in [Conn -> {"absent", "open", "gone"}]
      /\ \A c \in C : life'[c] = "gone"
      /\ \A c \in Conn \ C : life'[c] = life[c]
  BY DEF Freed, IInv, Types, TypeOK
<1>5. Types'
  <2>1. \A s \in Session : sess'[s].alive \/ sess'[s].subs = <<>>
    BY <1>2 DEF IInv, Types, TypeOK
  <2>2. list' \subseteq Session  BY <1>2 DEF IInv, Types, TypeOK
  <2> QED  BY <1>2, <1>4, <2>1, <2>2 DEF IInv, Types, TypeOK
<1>6. ASSUME NEW s \in Session PROVE Owned(s)'
  <2>1. Owned(s)  BY DEF IInv
  <2>2. CASE s \in gone  BY <1>2, <2>2 DEF Owned
  <2>3. CASE s \notin gone
    <3>1. sess'[s] = sess[s] /\ (s \in list' <=> s \in list)  BY <1>2, <2>3
    <3>2. sess[s].nc \in C => user[sess[s].nc] # s  BY <1>3, <2>3
    <3> QED  BY <1>4, <2>1, <3>1, <3>2 DEF Owned
  <2> QED  BY <2>2, <2>3
<1>7. ASSUME NEW d \in Conn PROVE Connected(d)'
  <2>1. Connected(d)  BY DEF IInv
  <2>2. CASE d \in C  BY <1>4, <2>2 DEF Connected
  <2>3. CASE d \notin C
    <3>1. life'[d] = life[d]  BY <1>4, <2>3
    <3>2. ASSUME life[d] = "open", user[d] # Null PROVE user[d] \notin gone
      <4>1. user[d] \in Session /\ sess[user[d]].nc = d
        BY <2>1, <3>2 DEF Connected, IInv, Types, TypeOK
      <4>2. \A c \in C : user[c] = user[d] => c = d
        <5> SUFFICES ASSUME NEW c \in C, user[c] = user[d] PROVE c = d  OBVIOUS
        <5>1. Connected(c) /\ life[c] = "open"  BY DEF IInv
        <5> QED  BY <3>2, <4>1, <5>1 DEF Connected
      <4> QED  BY <1>3, <2>3, <4>1, <4>2
    <3>3. user[d] \in Session \cup {Null}  BY DEF IInv, Types, TypeOK
    <3> QED  BY <1>2, <2>1, <3>1, <3>2, <3>3 DEF Connected
  <2> QED  BY <2>2, <2>3
<1> QED  BY <1>5, <1>6, <1>7 DEF IInv

LEMMA NextInv ==
  ASSUME IInv, [Next]_vars
  PROVE  IInv'
<1>1. ASSUME NEW c \in Conn, Step(c) PROVE IInv'
  <2>1. CASE Accept(c)  BY <2>1, AcceptInv
  <2>2. CASE HandleConnect(c)  BY <2>2, HandleConnectInv
  <2>3. CASE HandleSubscribe(c)  BY <2>3, HandleSubscribeInv
  <2>4. CASE HandlePublish(c)  BY <2>4, HandlePublishInv
  <2>5. CASE Close(c)
    <3>1. /\ life[c] = "open" /\ Freed({c}) /\ CloseSessions({c})
          /\ UNCHANGED <<user, connects, copies>>
          /\ listener' = listener /\ mgr' = mgr
      BY <2>5 DEF Close, Handles
    <3>2. {c} \in SUBSET {d \in Conn : life[d] = "open"}  BY <3>1
    <3>3. listener \in {"open", "gone"} /\ mgr \in {"running", "freed"}
      BY DEF IInv, Types, TypeOK
    <3> QED  BY <3>1, <3>2, <3>3, ClosingInv
  <2>6. CASE EventWithoutListener(c)
    BY <2>6 DEF EventWithoutListener, IInv, Types, TypeOK, Owned, Connected
  <2> QED  BY <1>1, <2>1, <2>2, <2>3, <2>4, <2>5, <2>6 DEF Step
<1>2. CASE CloseListener
  BY <1>2 DEF CloseListener, IInv, Types, TypeOK, Owned, Connected
<1>3. CASE MgrFree
  <2> DEFINE open == {c \in Conn : life[c] = "open"}
  <2>1. /\ Freed(open) /\ CloseSessions(open) /\ UNCHANGED <<user, connects, copies>>
        /\ listener' = "gone" /\ mgr' = "freed"
    BY <1>3 DEF MgrFree
  <2> QED  BY <2>1, ClosingInv
<1>4. CASE UNCHANGED vars
  BY <1>4 DEF vars, IInv, Types, TypeOK, Owned, Connected
<1> QED  BY <1>1, <1>2, <1>3, <1>4 DEF Next, Stopped

\* Every behaviour of the broker keeps sessions and connections tied together.
THEOREM BrokerInductive == Spec => []IInv
<1>1. IInv /\ [Next]_vars => IInv'  BY NextInv
<1> QED  BY <1>1, InitInv, PTL DEF Spec

\* The variables keep their types, and a freed session is never written to.
THEOREM BrokerTypes == Spec => []TypeOK
<1>1. IInv => TypeOK  BY DEF IInv, Types
<1> QED  BY <1>1, BrokerInductive, PTL

\* What SUBSCRIBE and CLOSE find in nc->user_data is a live session of that
\* connection, for any number of clients and of CONNECT packets.
THEOREM UserDataOwned == Spec => []UserDataIsSession
<1>1. IInv => UserDataIsSession  BY DEF IInv, UserDataIsSession, Connected
<1> QED  BY <1>1, BrokerInductive, PTL

\* The list holds the allocated sessions, and a session does not outlive its
\* client's connection unless that client sent CONNECT more than once.
THEOREM SessionsOwned == Spec => []SessionsHaveClients
<1>1. IInv => SessionsHaveClients  BY DEF IInv, SessionsHaveClients, Owned
<1> QED  BY <1>1, BrokerInductive, PTL

-----------------------------------------------------------------------------
(* The refinement of PubSub                                                *)

Broken == wild \/ \E c \in Conn : connects[c] > 1

Asked == [c \in Conn |-> AskedBy(c)]

\* The sessions through which c gets what is published.
Holders(c) == {s \in list : sess[s].nc = c}

Topics(s) == {sess[s].subs[i] : i \in DOMAIN sess[s].subs}

\* As long as nobody sent CONNECT twice, a connection has the session it points
\* to and no other, and a closed one has none.
LEMMA OneHolder ==
  ASSUME IInv, ~Broken, NEW c \in Conn
  PROVE  Holders(c) = IF life[c] = "open" /\ user[c] # Null THEN {user[c]} ELSE {}
<1>1. ASSUME NEW s \in list, sess[s].nc = c
      PROVE  life[c] = "open" /\ user[c] = s /\ user[c] # Null
  <2>1. s \in Session /\ Owned(s)  BY DEF IInv, Types, TypeOK
  <2>2. ~(connects[c] > 1)  BY DEF Broken
  <2> QED  BY <1>1, <2>1, <2>2, MqttBrokerAssumption DEF Owned
<1>2. life[c] = "open" /\ user[c] # Null => user[c] \in list /\ sess[user[c]].nc = c
  BY DEF IInv, Connected
<1> QED  BY <1>1, <1>2 DEF Holders

LEMMA AskedByHolders ==
  ASSUME NEW c
  PROVE  AskedBy(c) = UNION {Topics(s) : s \in Holders(c)}
BY DEF AskedBy, Topics, Holders

LEMMA CopiesForOne ==
  ASSUME IInv, ~Broken, NEW c \in Conn, NEW m
  PROVE  CopiesFor(c, m) = IF \E f \in AskedBy(c) : <<f, m>> \in Matches THEN 1 ELSE 0
<1> DEFINE S == {s \in list : sess[s].nc = c /\ Subscribed(s, m)}
           Wanted == \E f \in AskedBy(c) : <<f, m>> \in Matches
<1>1. S = {s \in Holders(c) : Subscribed(s, m)}  BY DEF Holders
<1>2. Wanted <=> \E s \in Holders(c) : \E f \in Topics(s) : <<f, m>> \in Matches
  BY AskedByHolders
<1>3. \A s : Subscribed(s, m) <=> \E f \in Topics(s) : <<f, m>> \in Matches
  BY DEF Subscribed, Topics
<1>4. CopiesFor(c, m) = Cardinality(S)  BY DEF CopiesFor
<1>5. CASE Wanted
  <2>1. PICK s \in Holders(c) : Subscribed(s, m)  BY <1>2, <1>3, <1>5
  <2>2. Holders(c) = {s}  BY <2>1, OneHolder
  <2>3. S = {s}  BY <1>1, <2>1, <2>2
  <2>4. Cardinality({s}) = 1  BY FS_Singleton
  <2> HIDE DEF S, Wanted
  <2> QED  BY <1>4, <1>5, <2>3, <2>4 DEF Wanted
<1>6. CASE ~Wanted
  <2>1. S = {}  BY <1>1, <1>2, <1>3, <1>6
  <2>2. Cardinality({}) = 0  BY FS_EmptySet
  <2> HIDE DEF S, Wanted
  <2> QED  BY <1>4, <1>6, <2>1, <2>2 DEF Wanted
<1> QED  BY <1>5, <1>6

LEMMA HandleConnectAsked ==
  ASSUME IInv, NEW c \in Conn, HandleConnect(c)
  PROVE  Asked' = Asked
<1>1. PICK s \in Session :
        /\ sess[s].nc = Null
        /\ sess' = [sess EXCEPT ![s] = [NoObject EXCEPT !.alive = TRUE, !.nc = c]]
        /\ list' = list \cup {s}
  BY DEF HandleConnect
<1>2. sess \in [Session -> SessionObject] /\ list \subseteq Session
  BY DEF IInv, Types, TypeOK
<1>3. sess'[s].subs = <<>> /\ sess'[s].nc = c  BY <1>1, <1>2, FreshObject
<1>4. \A t \in Session \ {s} : sess'[t] = sess[t]  BY <1>1, <1>2
<1>5. s \notin list  BY <1>1, MqttBrokerAssumption DEF IInv, Owned
<1>6. DOMAIN <<>> = {}  OBVIOUS
<1>7. ASSUME NEW d \in Conn PROVE AskedBy(d)' = AskedBy(d)
  <2>1. \A t \in list : Topics(t)' = Topics(t) /\ sess'[t].nc = sess[t].nc
    BY <1>2, <1>4, <1>5 DEF Topics
  <2>2. Topics(s)' = {}  BY <1>3, <1>6 DEF Topics
  <2>3. AskedBy(d)' = UNION {Topics(t)' : t \in Holders(d)'}
    BY DEF AskedBy, Topics, Holders
  <2>4. Holders(d)' = Holders(d) \/ Holders(d)' = Holders(d) \cup {s}
    <3>1. Holders(d)' = {t \in list' : sess'[t].nc = d}  BY DEF Holders
    <3> QED  BY <1>1, <2>1, <3>1 DEF Holders
  <2>5. \A t \in Holders(d) : Topics(t)' = Topics(t)  BY <2>1 DEF Holders
  <2>6. AskedBy(d)' = UNION {Topics(t) : t \in Holders(d)}
    BY <2>2, <2>3, <2>4, <2>5
  <2> QED  BY <2>6, AskedByHolders
<1> QED  BY <1>7 DEF Asked

LEMMA HandleSubscribeAsked ==
  ASSUME IInv, NEW c \in Conn, HandleSubscribe(c), ~wild'
  PROVE  \E F \in SUBSET Filter : Asked' = [Asked EXCEPT ![c] = @ \cup F]
<1>1. PICK n \in 0..MaxTopics : \E topics \in [1..n -> Filter] :
        /\ user[c] # Null
        /\ sess' = [sess EXCEPT ![user[c]] =
                      [sess[user[c]] EXCEPT !.subs = @ \o topics, !.size = Len(topics)]]
  BY DEF HandleSubscribe
<1>2. PICK topics \in [1..n -> Filter] :
        /\ user[c] # Null
        /\ sess' = [sess EXCEPT ![user[c]] =
                      [sess[user[c]] EXCEPT !.subs = @ \o topics, !.size = Len(topics)]]
  BY <1>1
<1> DEFINE F  == {topics[i] : i \in 1..n}
<1>3. /\ sess \in [Session -> SessionObject] /\ list \subseteq Session /\ n \in Nat
      /\ life[c] = "open" /\ list' = list
  BY MqttBrokerAssumption DEF IInv, Types, TypeOK, HandleSubscribe, Handles
<1>4. PICK s \in Session : s = user[c] /\ s \in list /\ sess[s].nc = c
  BY <1>2, <1>3 DEF IInv, Connected
<1>5. topics \in Seq(Filter) /\ Len(topics) = n /\ F \in SUBSET Filter
  <2>1. topics \in Seq(Filter) /\ Len(topics) \in Nat  BY <1>3, TopicSeq
  <2>2. DOMAIN topics = 1..n /\ DOMAIN topics = 1..Len(topics)
    BY <2>1, LenProperties
  <2> QED  BY <1>3, <2>1, <2>2
<1> DEFINE old == sess[s].subs
           new == old \o topics
<1>6. old \in Seq(Filter)  BY <1>3, <1>4 DEF SessionObject
<1>7. /\ new \in Seq(Filter) /\ Len(new) = Len(old) + n
      /\ \A i \in 1..(Len(old) + n) :
           new[i] = IF i <= Len(old) THEN old[i] ELSE topics[i - Len(old)]
      /\ Len(old) \in Nat /\ DOMAIN old = 1..Len(old) /\ DOMAIN new = 1..Len(new)
  <2> HIDE DEF old
  <2>1. /\ new \in Seq(Filter) /\ Len(new) = Len(old) + n
        /\ \A i \in 1..(Len(old) + n) :
             new[i] = IF i <= Len(old) THEN old[i] ELSE topics[i - Len(old)]
    BY <1>5, <1>6, ConcatProperties
  <2> HIDE DEF new
  <2> QED  BY <1>6, <2>1, LenProperties
<1>8. sess'[s].subs = new /\ sess'[s].nc = c
  <2>1. sess'[s] = [sess[s] EXCEPT !.subs = new, !.size = Len(topics)]
    BY <1>2, <1>3, <1>4
  <2> HIDE DEF new
  <2> QED  BY <1>3, <1>4, <2>1 DEF SessionObject
<1>9. Topics(s)' = Topics(s) \cup F
  <2>1. Topics(s)' = {new[i] : i \in DOMAIN new}  BY <1>8 DEF Topics
  <2>2. Topics(s) = {old[i] : i \in DOMAIN old}  BY DEF Topics
  <2> HIDE DEF old, new
  <2>3. \A i \in 1..n : new[Len(old) + i] = topics[i] /\ Len(old) + i \in DOMAIN new
    BY <1>3, <1>7
  <2>4. \A i \in DOMAIN old : new[i] = old[i] /\ i \in DOMAIN new
    BY <1>3, <1>7
  <2>5. \A i \in DOMAIN new \ DOMAIN old :
          new[i] = topics[i - Len(old)] /\ i - Len(old) \in 1..n
    BY <1>3, <1>7
  <2> QED  BY <2>1, <2>2, <2>3, <2>4, <2>5
<1>10. \A t \in Session \ {s} : sess'[t] = sess[t]  BY <1>2, <1>3, <1>4
<1> HIDE DEF F
<1>11. ASSUME NEW d \in Conn
       PROVE  AskedBy(d)' = IF d = c THEN AskedBy(d) \cup F ELSE AskedBy(d)
  <2>1. Holders(d)' = Holders(d)
    <3>1. \A t \in list : sess'[t].nc = sess[t].nc  BY <1>3, <1>4, <1>8, <1>10
    <3> QED  BY <1>3, <3>1 DEF Holders
  <2>2. AskedBy(d)' = UNION {Topics(t)' : t \in Holders(d)'}
    BY DEF AskedBy, Topics, Holders
  <2>3. \A t \in list \ {s} : Topics(t)' = Topics(t)  BY <1>3, <1>10 DEF Topics
  <2>4. s \in Holders(d) <=> d = c  BY <1>4 DEF Holders
  <2>5. Holders(d) \subseteq list  BY DEF Holders
  <2>6. AskedBy(d) = UNION {Topics(t) : t \in Holders(d)}  BY AskedByHolders
  <2>7. CASE d = c
    <3>1. SUFFICES ASSUME NEW f PROVE f \in AskedBy(d)' <=> f \in AskedBy(d) \cup F
      BY <2>7
    <3>2. f \in AskedBy(d)' <=> \E t \in Holders(d) : f \in Topics(t)'
      BY <2>1, <2>2
    <3>3. f \in AskedBy(d) <=> \E t \in Holders(d) : f \in Topics(t)  BY <2>6
    <3>4. \A t \in Holders(d) \ {s} : Topics(t)' = Topics(t)  BY <2>3, <2>5
    <3>5. f \in Topics(s)' <=> f \in Topics(s) \/ f \in F  BY <1>9
    <3> QED  BY <2>4, <2>7, <3>2, <3>3, <3>4, <3>5
  <2>8. CASE d # c  BY <2>1, <2>2, <2>3, <2>4, <2>5, <2>6, <2>8
  <2> QED  BY <2>7, <2>8
<1>12. Asked' = [Asked EXCEPT ![c] = @ \cup F]  BY <1>11 DEF Asked
<1> QED  BY <1>5, <1>12 DEF F

LEMMA ClosingAsked ==
  ASSUME IInv, ~Broken, NEW C \in SUBSET {c \in Conn : life[c] = "open"},
         CloseSessions(C)
  PROVE  Asked' = [c \in Conn |-> IF c \in C THEN {} ELSE Asked[c]]
<1> DEFINE gone == ClosedSessions(C)
<1>1. Types /\ C \in SUBSET Conn /\ list \subseteq Session  BY DEF IInv, Types, TypeOK
<1>2. /\ list' = list \ gone
      /\ \A s \in Session : s \notin gone => sess'[s] = sess[s]
  BY <1>1, CloseSessionsFrame
<1>3. ASSUME NEW d \in Conn PROVE AskedBy(d)' = IF d \in C THEN {} ELSE AskedBy(d)
  <2>1. AskedBy(d)' = UNION {Topics(t)' : t \in Holders(d)'}
    BY DEF AskedBy, Topics, Holders
  <2>2. AskedBy(d) = UNION {Topics(t) : t \in Holders(d)}  BY AskedByHolders
  <2>3. \A t \in list' : t \in list /\ Topics(t)' = Topics(t) /\ sess'[t] = sess[t]
    BY <1>1, <1>2 DEF Topics
  <2>4. Holders(d)' = Holders(d) \ gone
    BY <1>2, <2>3 DEF Holders
  <2>5. Holders(d) = IF life[d] = "open" /\ user[d] # Null THEN {user[d]} ELSE {}
    BY OneHolder
  <2>6. CASE d \in C
    <3>1. user[d] # Null => user[d] \in gone  BY <2>6 DEF ClosedSessions
    <3>2. Holders(d)' = {}  BY <2>4, <2>5, <3>1
    <3> QED  BY <2>1, <2>6, <3>2
  <2>7. CASE d \notin C
    <3>1. ASSUME NEW s \in Holders(d) PROVE s \notin gone
      <4>1. SUFFICES ASSUME NEW c \in C, user[c] = s PROVE FALSE
        BY DEF ClosedSessions
      <4>2. s \in list /\ sess[s].nc = d /\ s # Null
        BY <1>1, <3>1, MqttBrokerAssumption DEF Holders
      <4>3. Connected(c) /\ life[c] = "open"  BY DEF IInv
      <4> QED  BY <2>7, <4>1, <4>2, <4>3 DEF Connected
    <3>2. Holders(d)' = Holders(d)  BY <2>4, <3>1
    <3>3. \A t \in Holders(d) : Topics(t)' = Topics(t)
      BY <2>3, <3>2 DEF Holders
    <3> QED  BY <2>1, <2>2, <2>7, <3>2, <3>3
  <2> QED  BY <2>6, <2>7
<1> QED  BY <1>3 DEF Asked

LEMMA InitImplements == Init => Broker!Init
<1> SUFFICES ASSUME Init PROVE Broker!Init  OBVIOUS
<1>1. \A c : AskedBy(c) = {}  BY DEF Init, AskedBy
<1> QED  BY <1>1 DEF Init, Broker!Init, Broker!Nobody

LEMMA NextImplements ==
  ASSUME IInv, [Next]_vars
  PROVE  [Broker!Next]_(Broker!vars)
<1> DEFINE Same == life' = life /\ Asked' = Asked /\ copies' = copies /\ Broken' = Broken
<1>1. ASSUME Same PROVE UNCHANGED Broker!vars
  BY <1>1 DEF Broker!vars, Asked, Broken
<1>2. CASE UNCHANGED vars
  BY <1>1, <1>2 DEF vars, Asked, AskedBy, Broken
<1>3. CASE Broken'
  BY <1>3 DEF Broken, Broker!Next, Broker!Break
<1>4. CASE Next /\ ~Broken'
  <2>1. ASSUME Running,
               \A c \in Conn : connects'[c] = connects[c] \/ connects'[c] = connects[c] + 1
        PROVE  ~Broken /\ Broken' = Broken
    <3>1. \A c \in Conn : connects[c] \in 0..MaxConnects /\ MaxConnects \in Nat
      BY MqttBrokerAssumption DEF IInv, Types, TypeOK
    <3>2. ~wild /\ \A c \in Conn : ~(connects'[c] > 1)
      BY <1>4, <2>1 DEF Broken, Running
    <3>3. \A c \in Conn : ~(connects[c] > 1)  BY <2>1, <3>1, <3>2
    <3>4. Broken \in BOOLEAN /\ Broken' \in BOOLEAN  BY DEF Broken
    <3>5. ~Broken  BY <3>2, <3>3 DEF Broken
    <3> QED  BY <1>4, <3>4, <3>5
  <2>2. ASSUME Running, connects' = connects PROVE ~Broken /\ Broken' = Broken
    BY <2>1, <2>2
  <2>3. ASSUME NEW c \in Conn, Accept(c) PROVE Broker!Next
    <3>1. /\ life[c] = "absent" /\ life' = [life EXCEPT ![c] = "open"]
          /\ copies' = copies /\ connects' = connects /\ sess' = sess /\ list' = list
          /\ Running
      BY <2>3 DEF Accept
    <3>2. Asked' = Asked  BY <3>1 DEF Asked, AskedBy
    <3>3. Broken' = Broken  BY <2>2, <3>1
    <3>4. Broker!Arrive(c)  BY <3>1, <3>2, <3>3 DEF Broker!Arrive, Asked, Broken
    <3> QED  BY <3>4 DEF Broker!Next
  <2>4. ASSUME NEW c \in Conn, HandleConnect(c) PROVE Same
    <3>1. Running /\ connects' = [connects EXCEPT ![c] = @ + 1]
          /\ life' = life /\ copies' = copies
      BY <2>4 DEF HandleConnect, Handles
    <3>2. connects \in [Conn -> 0..MaxConnects]  BY DEF IInv, Types, TypeOK
    <3>3. \A d \in Conn : connects'[d] = connects[d] \/ connects'[d] = connects[d] + 1
      BY <3>1, <3>2
    <3>4. Broken' = Broken  BY <2>1, <3>1, <3>3
    <3> QED  BY <1>4, <2>4, <3>1, <3>4, HandleConnectAsked
  <2>5. ASSUME NEW c \in Conn, HandleSubscribe(c) PROVE Broker!Next
    <3>1. Running /\ connects' = connects /\ life[c] = "open"
          /\ life' = life /\ copies' = copies
      BY <2>5 DEF HandleSubscribe, Handles
    <3>2. Broken' = Broken /\ ~wild'  BY <1>4, <2>2, <3>1 DEF Broken
    <3>3. PICK F \in SUBSET Filter : Asked' = [Asked EXCEPT ![c] = @ \cup F]
      BY <2>5, <3>2, HandleSubscribeAsked
    <3>4. Broker!Subscribe(c, F)
      BY <3>1, <3>2, <3>3 DEF Broker!Subscribe, Asked, Broken
    <3> QED  BY <3>4 DEF Broker!Next
  <2>6. ASSUME NEW c \in Conn, HandlePublish(c) PROVE Broker!Next
    <3>1. /\ Running /\ UNCHANGED <<life, user, connects, sess, list>>
      BY <2>6 DEF HandlePublish, Handles
    <3>2. ~Broken /\ Broken' = Broken  BY <2>2, <3>1
    <3>3. Asked' = Asked  BY <3>1 DEF Asked, AskedBy
    <3>4. PICK m \in Message :
            /\ copies[m] = [d \in Conn |-> 0]
            /\ copies' = [copies EXCEPT ![m] = [d \in Conn |-> CopiesFor(d, m)]]
      BY <2>6 DEF HandlePublish
    <3>5. \A d \in Conn : CopiesFor(d, m) = IF Broker!Wants(d, m) THEN 1 ELSE 0
      BY <3>2, CopiesForOne DEF Broker!Wants
    <3>6. Broker!Publish(m)
      BY <3>1, <3>2, <3>3, <3>4, <3>5 DEF Broker!Publish, Broker!Nobody, Asked, Broken
    <3> QED  BY <3>6 DEF Broker!Next
  <2>7. ASSUME NEW C \in SUBSET {c \in Conn : life[c] = "open"}, Running,
               Freed(C), CloseSessions(C), UNCHANGED <<connects, copies>>
        PROVE  Broker!Next
    <3>1. ~Broken /\ Broken' = Broken  BY <2>2, <2>7
    <3>2. Asked' = [c \in Conn |-> IF c \in C THEN {} ELSE Asked[c]]
      BY <2>7, <3>1, ClosingAsked
    <3>3. Broker!Leave(C)
      BY <2>7, <3>1, <3>2 DEF Freed, Broker!Leave, Asked, Broken
    <3>4. C \in SUBSET Conn  OBVIOUS
    <3> QED  BY <3>3, <3>4 DEF Broker!Next
  <2>8. ASSUME NEW c \in Conn, Close(c) PROVE Broker!Next
    <3>1. {c} \in SUBSET {d \in Conn : life[d] = "open"}  BY <2>8 DEF Close, Handles
    <3>2. Running /\ Freed({c}) /\ CloseSessions({c}) /\ UNCHANGED <<connects, copies>>
      BY <2>8 DEF Close, Handles
    <3> QED  BY <2>7, <3>1, <3>2
  <2>9. CASE MgrFree
    <3> DEFINE open == {c \in Conn : life[c] = "open"}
    <3>1. Running /\ Freed(open) /\ CloseSessions(open) /\ UNCHANGED <<connects, copies>>
      BY <2>9 DEF MgrFree
    <3> QED  BY <2>7, <3>1
  <2>10. CASE CloseListener
    <3>1. Same  BY <2>10 DEF CloseListener, Asked, AskedBy, Broken
    <3> QED  BY <1>1, <3>1
  <2>11. ASSUME NEW c \in Conn, EventWithoutListener(c) PROVE FALSE
    BY <1>4, <2>11 DEF EventWithoutListener, Broken
  <2> QED
    BY <1>1, <1>2, <1>4, <2>3, <2>4, <2>5, <2>6, <2>8, <2>9, <2>10, <2>11
       DEF Next, Step, Stopped
<1> QED  BY <1>2, <1>3, <1>4

\* The broker implements PubSub: whatever order clients come, subscribe, publish
\* and go in, a subscriber gets one copy of what is published and nobody else
\* gets any, until the broker's memory is misused or a client sends CONNECT again.
THEOREM BrokerImplementsPubSub == Spec => ImplementsPubSub
<1>1. Init => Broker!Init  BY InitImplements
<1>2. IInv /\ [Next]_vars => [Broker!Next]_(Broker!vars)  BY NextImplements
<1> QED  BY <1>1, <1>2, BrokerInductive, PTL DEF Spec, ImplementsPubSub, Broker!Spec
-----------------------------------------------------------------------------
\* A set of numbers that has 0, and n + 1 with every n, has them all: among the
\* numbers below one it had not, the successor would be one-to-one and leave out 0.
LEMMA NatSet ==
    ASSUME NEW S, 0 \in S, \A n \in Nat : n \in S => n + 1 \in S
    PROVE  \A n \in Nat : n \in S
<1> SUFFICES ASSUME NEW n \in Nat, n \notin S PROVE FALSE
  OBVIOUS
<1> DEFINE A == {k \in 0..n : k \in S}
           f == [k \in A |-> k + 1]
<1>1. IsFiniteSet(A)
  <2>1. IsFiniteSet(0..n)
    BY FS_Interval
  <2>2. A \in SUBSET (0..n)
    OBVIOUS
  <2> QED BY <2>1, <2>2, FS_Subset
<1>2. \A k \in A : k \in Nat /\ k + 1 \in A
  OBVIOUS
<1>3. f \in [A -> A]
  BY <1>2
<1>4. f \in Injection(A, A)
  BY <1>3, <1>2, Fun_IsInj
<1>5. f \in Surjection(A, A)
  <2> HIDE DEF f, A
  <2> QED BY <1>1, <1>4, FS_Injection
<1>6. 0 \in A
  OBVIOUS
<1>7. \E k \in A : f[k] = 0
  <2> HIDE DEF f, A
  <2> QED BY <1>5, <1>6, Fun_SurjectionProperties
<1> QED BY <1>7, <1>2
------------------------------------------------------------------------------
(* MqttConn: what is in the receiver's buffer and on its way is the packets     *)
(* that were not handled yet, whole, one behind the other.                      *)

\* s is in b, from place p on, counted from 0.
MqHas(b, p, s) ==
    /\ b \in Seq(Nat) /\ s \in Seq(Nat) /\ p \in Nat /\ p + Len(s) <= Len(b)
    /\ \A i \in 1..Len(s) : b[p + i] = s[i]

\* The elements of two sequences one behind the other.
LEMMA MqConcat ==
    ASSUME NEW s \in Seq(Nat), NEW t \in Seq(Nat)
    PROVE  /\ s \o t \in Seq(Nat) /\ Len(s \o t) = Len(s) + Len(t)
           /\ \A i \in 1..Len(s) : (s \o t)[i] = s[i]
           /\ \A i \in 1..Len(t) : (s \o t)[Len(s) + i] = t[i]
<1>1. s \o t \in Seq(Nat) /\ Len(s \o t) = Len(s) + Len(t)  BY ConcatProperties
<1>2. Len(s) \in Nat /\ Len(t) \in Nat  BY LenProperties
<1>3. ASSUME NEW i \in 1..Len(s) PROVE (s \o t)[i] = s[i]
  <2>1. i \in 1..(Len(s) + Len(t)) /\ i <= Len(s)  BY <1>2
  <2> QED  BY <2>1, ConcatProperties
<1>4. ASSUME NEW i \in 1..Len(t) PROVE (s \o t)[Len(s) + i] = t[i]
  <2>1. PICK k \in Nat : k = Len(s) + i  BY <1>2
  <2>2. k \in 1..(Len(s) + Len(t)) /\ ~(k <= Len(s)) /\ k - Len(s) = i  BY <1>2, <2>1
  <2>3. (s \o t)[k] = t[k - Len(s)]  BY <2>2, ConcatProperties
  <2> QED  BY <2>1, <2>2, <2>3
<1> QED  BY <1>1, <1>3, <1>4

\* Two sequences one behind the other are each in it.
LEMMA MqHasBoth ==
    ASSUME NEW b, NEW p, NEW s \in Seq(Nat), NEW t \in Seq(Nat), MqHas(b, p, s \o t)
    PROVE  MqHas(b, p, s) /\ MqHas(b, p + Len(s), t)
<1>1. PICK n \in Nat, m \in Nat, l \in Nat : n = Len(s) /\ m = Len(t) /\ l = Len(b)  BY LenProperties DEF MqHas
<1>2. PICK u \in Seq(Nat) : u = s \o t /\ Len(u) = n + m  BY <1>1, MqConcat
<1>3. b \in Seq(Nat) /\ p \in Nat /\ p + (n + m) <= l /\ \A i \in 1..(n + m) : b[p + i] = u[i]
  BY <1>1, <1>2 DEF MqHas
<1>4. \A i \in 1..n : b[p + i] = s[i]
  <2> TAKE i \in 1..n
  <2>1. i \in 1..(n + m)  OBVIOUS
  <2> QED  BY <1>1, <1>2, <1>3, <2>1, MqConcat
<1>5. \A i \in 1..m : b[(p + n) + i] = t[i]
  <2> TAKE i \in 1..m
  <2>1. n + i \in 1..(n + m) /\ p + (n + i) = (p + n) + i  BY <1>3
  <2>2. u[n + i] = t[i]  BY <1>1, <1>2, MqConcat
  <2> QED  BY <1>3, <2>1, <2>2
<1>6. p + n <= l /\ (p + n) + m <= l /\ p + n \in Nat  BY <1>3
<1> QED  BY <1>1, <1>3, <1>4, <1>5, <1>6 DEF MqHas

\* Two sequences that follow each other in b are in it as one.
LEMMA MqHasJoined ==
    ASSUME NEW b, NEW p, NEW s \in Seq(Nat), NEW t \in Seq(Nat), MqHas(b, p, s), MqHas(b, p + Len(s), t)
    PROVE  MqHas(b, p, s \o t)
<1>1. PICK n \in Nat, m \in Nat, l \in Nat : n = Len(s) /\ m = Len(t) /\ l = Len(b)  BY LenProperties DEF MqHas
<1>2. PICK u \in Seq(Nat) : u = s \o t /\ Len(u) = n + m  BY <1>1, MqConcat
<1>3. b \in Seq(Nat) /\ p \in Nat /\ (p + n) + m <= l
  BY <1>1 DEF MqHas
<1>4. ASSUME NEW i \in 1..(n + m) PROVE b[p + i] = u[i]
  <2>1. CASE i <= n
    <3>1. i \in 1..n  BY <2>1
    <3>2. u[i] = s[i]  BY <1>1, <1>2, <3>1, MqConcat
    <3>3. b[p + i] = s[i]  BY <1>1, <3>1 DEF MqHas
    <3> QED  BY <3>2, <3>3
  <2>2. CASE ~(i <= n)
    <3>1. PICK j \in 1..m : i = n + j
      <4>1. i - n \in 1..m /\ i = n + (i - n)  BY <2>2
      <4> QED  BY <4>1
    <3>2. u[n + j] = t[j]  BY <1>1, <1>2, MqConcat
    <3>3. b[(p + n) + j] = t[j]  BY <1>1 DEF MqHas
    <3>4. (p + n) + j = p + i  BY <1>3, <3>1
    <3> QED  BY <3>1, <3>2, <3>3, <3>4
  <2> QED  BY <2>1, <2>2
<1>5. p + (n + m) <= l  BY <1>3
<1> QED  BY <1>1, <1>2, <1>3, <1>4, <1>5 DEF MqHas

\* n elements of b, from place p on.
MqPart(b, p, n) == SubSeq(b, p + 1, p + n)

\* The elements of a part.
LEMMA MqSub ==
    ASSUME NEW T, NEW b \in Seq(T), NEW p \in Nat, NEW n \in Nat, p + n <= Len(b)
    PROVE  /\ MqPart(b, p, n) \in Seq(T) /\ Len(MqPart(b, p, n)) = n
           /\ \A i \in 1..n : MqPart(b, p, n)[i] = b[p + i]
<1>1. Len(b) \in Nat /\ \A i \in 1..Len(b) : b[i] \in T  BY LenProperties, ElementOfSeq
<1>2. PICK x \in Int, q \in Int : x = p + 1 /\ q = p + n  OBVIOUS
<1>3. \A i \in x..q : b[i] \in T  BY <1>1, <1>2
<1>4. PICK u : u = SubSeq(b, x, q)  OBVIOUS
<1>5. /\ u \in Seq(T) /\ Len(u) = IF x <= q THEN q - x + 1 ELSE 0
      /\ \A i \in 1..(q - x + 1) : u[i] = b[x + i - 1]
  BY <1>3, <1>4, SubSeqProperties
<1>6. q - x + 1 = n /\ (x <= q \/ n = 0) /\ \A i \in 1..n : x + i - 1 = p + i  BY <1>2
<1>7. Len(u) = n  BY <1>5, <1>6
<1>8. \A i \in 1..n : u[i] = b[p + i]
  <2> TAKE i \in 1..n
  <2> QED  BY <1>5, <1>6
<1> QED  BY <1>2, <1>4, <1>5, <1>7, <1>8 DEF MqPart

\* The part of b where s is, is s.
LEMMA MqData ==
    ASSUME NEW b, NEW p, NEW s, MqHas(b, p, s)
    PROVE  SubSeq(b, p + 1, p + Len(s)) = s
<1>1. PICK n \in Nat : n = Len(s)  BY LenProperties DEF MqHas
<1>2. b \in Seq(Nat) /\ s \in Seq(Nat) /\ p \in Nat /\ p + n <= Len(b) /\ \A i \in 1..n : b[p + i] = s[i]  BY <1>1 DEF MqHas
<1>3. PICK u : u = MqPart(b, p, n)  OBVIOUS
<1>4. u \in Seq(Nat) /\ Len(u) = n /\ \A i \in 1..n : u[i] = b[p + i]
  <2>1. b \in Seq(Nat) /\ p \in Nat /\ p + n <= Len(b)  BY <1>2
  <2>2. /\ MqPart(b, p, n) \in Seq(Nat) /\ Len(MqPart(b, p, n)) = n
        /\ \A i \in 1..n : MqPart(b, p, n)[i] = b[p + i]
    BY <2>1, MqSub
  <2> QED  BY <1>3, <2>2
<1>5. \A i \in 1..Len(u) : u[i] = s[i]  BY <1>2, <1>4
<1>6. u = s  BY <1>1, <1>2, <1>4, <1>5, SeqEqual
<1> QED  BY <1>1, <1>3, <1>6 DEF MqPart

\* What is in a sequence is there when it grows, or when it is in its first part.
LEMMA MqHasMore ==
    ASSUME NEW b, NEW p, NEW s, MqHas(b, p, s), NEW t \in Seq(Nat)
    PROVE  MqHas(b \o t, p, s)
<1>1. PICK n \in Nat, l \in Nat, m \in Nat : n = Len(s) /\ l = Len(b) /\ m = Len(t)  BY LenProperties DEF MqHas
<1>2. b \in Seq(Nat) /\ s \in Seq(Nat) /\ p \in Nat /\ p + n <= l /\ \A i \in 1..n : b[p + i] = s[i]  BY <1>1 DEF MqHas
<1>3. PICK u \in Seq(Nat) : u = b \o t /\ Len(u) = l + m /\ \A i \in 1..l : u[i] = b[i]  BY <1>1, <1>2, MqConcat
<1>4. ASSUME NEW i \in 1..n PROVE u[p + i] = s[i]
  <2>1. p + i \in 1..l  BY <1>2
  <2> QED  BY <1>2, <1>3, <2>1
<1>5. p + n <= l + m  BY <1>2
<1> QED  BY <1>1, <1>2, <1>3, <1>4, <1>5 DEF MqHas

\* What is in b and what follows it, and ends within b, is in b.
LEMMA MqHasLess ==
    ASSUME NEW b \in Seq(Nat), NEW t \in Seq(Nat), NEW p, NEW s, MqHas(b \o t, p, s), p + Len(s) <= Len(b)
    PROVE  MqHas(b, p, s)
<1>1. PICK n \in Nat, l \in Nat, m \in Nat : n = Len(s) /\ l = Len(b) /\ m = Len(t)  BY LenProperties DEF MqHas
<1>2. PICK u \in Seq(Nat) : u = b \o t /\ Len(u) = l + m /\ \A i \in 1..l : u[i] = b[i]  BY <1>1, MqConcat
<1>3. s \in Seq(Nat) /\ p \in Nat /\ p + n <= l /\ \A i \in 1..n : u[p + i] = s[i]  BY <1>1, <1>2 DEF MqHas
<1>4. ASSUME NEW i \in 1..n PROVE b[p + i] = s[i]
  <2>1. p + i \in 1..l  BY <1>3
  <2> QED  BY <1>2, <1>3, <2>1
<1> QED  BY <1>1, <1>3, <1>4 DEF MqHas

\* What is behind the first k is there when they are gone.
LEMMA MqHasBehind ==
    ASSUME NEW b, NEW p, NEW s, NEW k \in Nat, MqHas(b, p, s), k <= p
    PROVE  MqHas(SubSeq(b, k + 1, Len(b)), p - k, s)
<1>1. PICK n \in Nat, l \in Nat : n = Len(s) /\ l = Len(b)  BY LenProperties DEF MqHas
<1>2. b \in Seq(Nat) /\ s \in Seq(Nat) /\ p \in Nat /\ p + n <= l /\ \A i \in 1..n : b[p + i] = s[i]  BY <1>1 DEF MqHas
<1>3. PICK m \in Nat : k + m = l
  <2>1. l - k \in Nat /\ k + (l - k) = l  BY <1>2
  <2> QED  BY <2>1
<1>4. PICK u : u = MqPart(b, k, m)  OBVIOUS
<1>0. k + m <= Len(b)  BY <1>1, <1>3
<1>10. b \in Seq(Nat)  BY DEF MqHas
<1>5. u \in Seq(Nat) /\ Len(u) = m /\ \A i \in 1..m : u[i] = b[k + i]  BY <1>0, <1>10, <1>4, MqSub, SMTT(30)
<1>6. PICK q \in Nat : q = p - k  BY <1>2
<1>7. q + n <= m  BY <1>2, <1>3, <1>6
<1>8. ASSUME NEW i \in 1..n PROVE u[q + i] = s[i]
  <2>1. q + i \in 1..m /\ k + (q + i) = p + i  BY <1>2, <1>6, <1>7
  <2> QED  BY <1>2, <1>5, <2>1
<1>9. MqHas(u, q, s)  BY <1>1, <1>2, <1>5, <1>7, <1>8 DEF MqHas
<1> QED  BY <1>1, <1>3, <1>4, <1>6, <1>9 DEF MqPart
-----------------------------------------------------------------------------
\* A number of two bytes, and a string with its length.
MqWord(v) == v \in Nat /\ v < 65536
MqShort(s) == s \in Seq(Nat) /\ MqWord(Len(s))
MqIsWord(b, p, v) == MQ!GetU16(b, p) = v
MqIsString(b, p, s) == MQ!GetU16(b, p) = Len(s) /\ MQ!StringAt(b, p) = s /\ MQ!Behind(b, p) = p + (Len(s) + 2)

LEMMA MqU16Is ==
    ASSUME NEW v, MqWord(v)
    PROVE  \E x, y \in Nat : MQ!U16(v) = <<x, y>> /\ 256 * x + y = v
<1>1. v \in Nat  BY DEF MqWord
<1>2. v \div 256 \in Nat /\ v % 256 \in Nat  BY <1>1
<1>3. 256 * (v \div 256) + (v % 256) = v  BY <1>1
<1>4. MQ!U16(v) = <<v \div 256, v % 256>>  BY DEF MQ!U16
<1> QED  BY <1>2, <1>3, <1>4

\* A number below 65536 is what is read from its two bytes.
LEMMA MqU16 ==
    ASSUME NEW v, MqWord(v)
    PROVE  /\ MQ!U16(v) \in Seq(Nat) /\ Len(MQ!U16(v)) = 2
           /\ \A b, p : MqHas(b, p, MQ!U16(v)) => MqIsWord(b, p, v)
<1>1. PICK x \in Nat, y \in Nat : MQ!U16(v) = <<x, y>> /\ 256 * x + y = v  BY MqU16Is
<1>3. <<x, y>> \in Seq(Nat) /\ Len(<<x, y>>) = 2 /\ <<x, y>>[1] = x /\ <<x, y>>[2] = y  OBVIOUS
<1>4. ASSUME NEW b, NEW p, MqHas(b, p, <<x, y>>) PROVE MqIsWord(b, p, v)
  <2>0. p \in Nat /\ \A i \in 1..2 : b[p + i] = <<x, y>>[i]  BY <1>3, <1>4 DEF MqHas
  <2>1. p \in Nat /\ b[p + 1] = x /\ b[p + 2] = y  BY <1>3, <2>0
  <2>2. (p + 1) + 1 = p + 2  BY <2>1
  <2>3. MQ!GetU16(b, p) = 256 * b[p + 1] + b[(p + 1) + 1]  BY DEF MQ!GetU16, MQ!At
  <2>4. MQ!GetU16(b, p) = 256 * x + y  BY <2>1, <2>2, <2>3
  <2> QED  BY <1>1, <2>4 DEF MqIsWord
<1> QED  BY <1>1, <1>3, <1>4

\* A string with its length before it.
LEMMA MqCounted ==
    ASSUME NEW s, MqShort(s)
    PROVE  /\ MQ!Counted(s) \in Seq(Nat) /\ Len(MQ!Counted(s)) = Len(s) + 2
           /\ \A b, p : MqHas(b, p, MQ!Counted(s)) => MqIsString(b, p, s)
<1>1. PICK n \in Nat : n = Len(s)  BY LenProperties DEF MqShort
<1>2. MqWord(n) /\ s \in Seq(Nat)  BY <1>1 DEF MqShort
<1>3. PICK u : u = MQ!U16(n)  OBVIOUS
<1>4. u \in Seq(Nat) /\ Len(u) = 2  BY <1>2, <1>3, MqU16
<1>5. \A b, p : MqHas(b, p, u) => MqIsWord(b, p, n)  BY <1>2, <1>3, MqU16
<1>6. MQ!Counted(s) = u \o s  BY <1>1, <1>3 DEF MQ!Counted
<1>7. u \o s \in Seq(Nat) /\ Len(u \o s) = Len(u) + n  BY <1>1, <1>2, <1>4, MqConcat
<1>8. ASSUME NEW b, NEW p, MqHas(b, p, u \o s) PROVE MqIsString(b, p, s)
  <2>1. MqHas(b, p, u) /\ MqHas(b, p + Len(u), s)  BY <1>2, <1>4, <1>8, MqHasBoth
  <2>2. MQ!GetU16(b, p) = n  BY <1>5, <2>1 DEF MqIsWord
  <2>3. MqHas(b, p + 2, s)  BY <1>4, <2>1
  <2>4. SubSeq(b, (p + 2) + 1, (p + 2) + n) = s  BY <1>1, <2>3, MqData
  <2>5. p \in Nat  BY <1>8 DEF MqHas
  <2>6. (p + 2) + 1 = p + 3 /\ (p + 2) + n = p + 2 + n /\ p + 2 + n = p + (n + 2)  BY <2>5
  <2>7. MQ!StringAt(b, p) = SubSeq(b, p + 3, p + 2 + n)  BY <2>2 DEF MQ!StringAt
  <2>8. MQ!Behind(b, p) = p + 2 + n  BY <2>2 DEF MQ!Behind
  <2> QED  BY <1>1, <2>2, <2>4, <2>6, <2>7, <2>8 DEF MqIsString
<1>9. Len(u \o s) = n + 2  BY <1>4, <1>7
<1> QED  BY <1>1, <1>6, <1>7, <1>8, <1>9
-----------------------------------------------------------------------------
(* The remaining length: written, and read from a buffer that may end in it.    *)

MqFits(n) == n \in Nat /\ n < 128 ^ 4
MqPower(k) == 128 ^ k

\* Its k bytes r: all but the last go on, and their values make n.
MqLengthIs(n, k, r) ==
    /\ r \in Seq(Nat) /\ Len(r) = k /\ k \in 1..4
    /\ \A i \in 1..(k - 1) : r[i] >= 128
    /\ r[k] < 128

\* The value of the first k bytes.
MqScale(i) == 128 ^ (i - 1)
MqDigit(r, i) == (r[i] % 128) * MqScale(i)
MqValue(r, k) ==
    CASE k = 0 -> 0
      [] k = 1 -> MqDigit(r, 1)
      [] k = 2 -> MqDigit(r, 1) + MqDigit(r, 2)
      [] k = 3 -> MqDigit(r, 1) + MqDigit(r, 2) + MqDigit(r, 3)
      [] k = 4 -> MqDigit(r, 1) + MqDigit(r, 2) + MqDigit(r, 3) + MqDigit(r, 4)

MqShift(n, i) == n \div MqScale(i)
MqByte(n, k, i) == (MqShift(n, i) % 128) + (IF i < k THEN 128 ELSE 0)
MqBytes(n, k) == [i \in 1..k |-> MqByte(n, k, i)]

LEMMA MqPowers ==
    128 ^ 0 = 1 /\ 128 ^ 1 = 128 /\ 128 ^ 2 = 16384 /\ 128 ^ 3 = 2097152 /\ 128 ^ 4 = 268435456
<1>1. 128 ^ 0 = 1 /\ 128 ^ 1 = 128  BY SMT
<1>2. 128 ^ 2 = 16384  BY SMT
<1>3. 128 ^ 3 = 2097152  BY SMT
<1>4. 128 ^ 4 = 268435456  BY SMT
<1> QED  BY <1>1, <1>2, <1>3, <1>4, SMT

LEMMA MqScales == MqScale(1) = 1 /\ MqScale(2) = 128 /\ MqScale(3) = 16384 /\ MqScale(4) = 2097152
<1>1. 1 - 1 = 0 /\ 2 - 1 = 1 /\ 3 - 1 = 2 /\ 4 - 1 = 3  BY SMT
<1> QED  BY <1>1, MqPowers, SMT DEF MqScale

LEMMA MqShifts ==
    ASSUME NEW n \in Nat
    PROVE  /\ MqShift(n, 1) = n /\ MqShift(n, 2) = n \div 128
           /\ MqShift(n, 3) = n \div 16384 /\ MqShift(n, 4) = n \div 2097152
<1>1. MqShift(n, 1) = n /\ MqShift(n, 2) = n \div 128  BY MqScales, SMT DEF MqShift
<1>2. MqShift(n, 3) = n \div 16384 /\ MqShift(n, 4) = n \div 2097152  BY MqScales, SMT DEF MqShift
<1> QED  BY <1>1, <1>2, SMT

LEMMA MqShiftNat ==
    ASSUME NEW n \in Nat, NEW i \in 1..4
    PROVE  MqShift(n, i) \in Nat
<1>1. n \div 128 \in Nat /\ n \div 16384 \in Nat /\ n \div 2097152 \in Nat  BY SMT
<1>2. i = 1 \/ i = 2 \/ i = 3 \/ i = 4  BY SMT
<1>3. MqShift(n, 1) = n /\ MqShift(n, 2) = n \div 128  BY MqShifts, SMT
<1>4. MqShift(n, 3) = n \div 16384 /\ MqShift(n, 4) = n \div 2097152  BY MqShifts, SMT
<1>5. n \in Nat  BY SMT
<1> QED  BY <1>1, <1>2, <1>3, <1>4, <1>5, SMT

\* The length needs one to four bytes.
LEMMA MqSize ==
    ASSUME NEW n, MqFits(n)
    PROVE  \E k \in 1..4 : /\ MQ!RemainingLength(n) = MqBytes(n, k)
                           /\ n < MqPower(k) /\ (k > 1 => n >= MqPower(k - 1))
<1> DEFINE P(k) == n < 128 ^ k /\ (k > 1 => n >= 128 ^ (k - 1))
<1>1. \E k \in 1..4 : P(k)
  <2>1. CASE n < 128
    <3>1. P(1)  BY <2>1, MqPowers, SMT
    <3> HIDE DEF P
    <3> QED  BY <3>1, SMT
  <2>2. CASE n >= 128 /\ n < 16384
    <3>1. P(2)  BY <2>2, MqPowers, SMT
    <3> HIDE DEF P
    <3> QED  BY <3>1, SMT
  <2>3. CASE n >= 16384 /\ n < 2097152
    <3>1. P(3)  BY <2>3, MqPowers, SMT
    <3> HIDE DEF P
    <3> QED  BY <3>1, SMT
  <2>4. CASE n >= 2097152 /\ n < 268435456
    <3>1. P(4)  BY <2>4, MqPowers, SMT
    <3> HIDE DEF P
    <3> QED  BY <3>1, SMT
  <2>5. n \in Nat /\ n < 268435456  BY MqPowers, SMT DEF MqFits
  <2> HIDE DEF P
  <2> QED  BY <2>1, <2>2, <2>3, <2>4, <2>5, SMT
<1> DEFINE k == CHOOSE k \in 1..4 : P(k)
<1>2. k \in 1..4 /\ P(k)
  <2> HIDE DEF P
  <2> QED  BY <1>1, Zenon
<1>3. MQ!RemainingLength(n) = MqBytes(n, k)  BY SMT DEF MQ!RemainingLength, MqBytes, MqByte, MqShift, MqScale
<1>4. n < MqPower(k) /\ (k > 1 => n >= MqPower(k - 1))
  <2> HIDE DEF k
  <2> QED  BY <1>2, SMT DEF MqPower
<1> HIDE DEF k
<1> QED  BY <1>2, <1>3, <1>4, SMT

\* mg_mqtt_prepend_header writes a length that fits four bytes of seven bits.
LEMMA MqLengthWritten ==
    ASSUME NEW n, MqFits(n)
    PROVE  \E k \in 1..4 : MqLengthIs(n, k, MQ!RemainingLength(n)) /\ MqValue(MQ!RemainingLength(n), k) = n
<1>1. PICK k \in 1..4 : /\ MQ!RemainingLength(n) = MqBytes(n, k)
                        /\ n < MqPower(k) /\ (k > 1 => n >= MqPower(k - 1))
  BY MqSize, SMT
<1>2. n \in Nat  BY SMT DEF MqFits
<1>11. MqShift(n, 1) = n /\ MqShift(n, 2) = n \div 128  BY <1>2, MqShifts, SMT
<1>12. MqShift(n, 3) = n \div 16384 /\ MqShift(n, 4) = n \div 2097152  BY <1>2, MqShifts, SMT
<1>14. MqScale(1) = 1 /\ MqScale(2) = 128 /\ MqScale(3) = 16384 /\ MqScale(4) = 2097152  BY MqScales, SMT
<1>3. \A i \in 1..k : MqShift(n, i) \in Nat
  <2> TAKE i \in 1..k
  <2>1. i \in 1..4  BY SMT
  <2> QED  BY <1>2, <2>1, MqShiftNat, SMT
<1>4. ASSUME NEW i \in 1..k PROVE /\ MqByte(n, k, i) \in Nat
                                  /\ i < k => MqByte(n, k, i) >= 128
                                  /\ i = k => MqByte(n, k, i) < 128
  <2>1. PICK q \in Nat : q = MqShift(n, i)  BY <1>3, SMT
  <2>2. MqByte(n, k, i) = (q % 128) + (IF i < k THEN 128 ELSE 0)  BY <2>1, SMT DEF MqByte
  <2>3. q % 128 \in 0..127  BY <2>1, SMT
  <2> QED  BY <2>2, <2>3, SMT
<1>5. PICK r : r = MqBytes(n, k)  BY SMT
<1>6. r \in [1..k -> Nat] /\ \A i \in 1..k : r[i] = MqByte(n, k, i)  BY <1>4, <1>5, SMT DEF MqBytes
<1>7. r \in Seq(Nat) /\ Len(r) = k  BY <1>6, SMT
<1>8. MqLengthIs(n, k, r)
  <2>1. \A i \in 1..(k - 1) : r[i] >= 128
    <3> TAKE i \in 1..(k - 1)
    <3>1. i \in 1..k /\ i < k  BY SMT
    <3> QED  BY <1>4, <1>6, <3>1, SMT
  <2>2. r[k] < 128
    <3>1. k \in 1..k  BY SMT
    <3> QED  BY <1>4, <1>6, <3>1, SMT
  <2> QED  BY <1>7, <2>1, <2>2, SMT DEF MqLengthIs
<1>9. ASSUME NEW i \in 1..k PROVE MqDigit(r, i) = (MqShift(n, i) % 128) * MqScale(i)
  <2>1. PICK q \in Nat : q = MqShift(n, i)  BY <1>3, SMT
  <2>2. r[i] = (q % 128) + (IF i < k THEN 128 ELSE 0)  BY <1>6, <2>1, SMT DEF MqByte
  <2>3. r[i] % 128 = q % 128  BY <2>1, <2>2, SMT
  <2> QED  BY <2>1, <2>3, SMT DEF MqDigit
<1>10. MqValue(r, k) = n
  <2>1. CASE k = 1
    <3>1. MqDigit(r, 1) = n % 128
      <4>1. MqDigit(r, 1) = (MqShift(n, 1) % 128) * MqScale(1)  BY <1>9, <2>1, SMT
      <4> QED  BY <1>2, <4>1, <1>11, <1>12, <1>14, SMT
    <3>2. n < 128  BY <1>1, <2>1, MqPowers, SMT DEF MqPower
    <3>3. MqValue(r, 1) = MqDigit(r, 1)  BY SMT DEF MqValue
    <3> QED  BY <1>2, <2>1, <3>1, <3>2, <3>3, SMT
  <2>2. ASSUME k > 1 PROVE MqDigit(r, 1) = n % 128 /\ MqDigit(r, 2) = ((n \div 128) % 128) * 128
    <3>1. MqDigit(r, 1) = (MqShift(n, 1) % 128) * MqScale(1)  BY <1>9, <2>2, SMT
    <3>2. MqDigit(r, 2) = (MqShift(n, 2) % 128) * MqScale(2)  BY <1>9, <2>2, SMT
    <3> QED  BY <1>2, <3>1, <3>2, <1>11, <1>12, <1>14, SMT
  <2>3. ASSUME k > 2 PROVE MqDigit(r, 3) = ((n \div 16384) % 128) * 16384
    <3>1. MqDigit(r, 3) = (MqShift(n, 3) % 128) * MqScale(3)  BY <1>9, <2>3, SMT
    <3> QED  BY <1>2, <3>1, <1>11, <1>12, <1>14, SMT
  <2>4. ASSUME k > 3 PROVE MqDigit(r, 4) = ((n \div 2097152) % 128) * 2097152
    <3>1. MqDigit(r, 4) = (MqShift(n, 4) % 128) * MqScale(4)  BY <1>9, <2>4, SMT
    <3> QED  BY <1>2, <3>1, <1>11, <1>12, <1>14, SMT
  <2>5. CASE k = 2
    <3>1. n < 16384  BY <1>1, <2>5, MqPowers, SMT DEF MqPower
    <3>2. MqValue(r, 2) = MqDigit(r, 1) + MqDigit(r, 2)  BY SMT DEF MqValue
    <3>3. (n % 128) + ((n \div 128) % 128) * 128 = n  BY <1>2, <3>1, SMT
    <3> QED  BY <2>2, <2>5, <3>2, <3>3, SMT
  <2>6. CASE k = 3
    <3>1. n < 2097152  BY <1>1, <2>6, MqPowers, SMT DEF MqPower
    <3>2. MqValue(r, 3) = MqDigit(r, 1) + MqDigit(r, 2) + MqDigit(r, 3)  BY SMT DEF MqValue
    <3>3. (n % 128) + ((n \div 128) % 128) * 128 + ((n \div 16384) % 128) * 16384 = n  BY <1>2, <3>1, SMT
    <3> QED  BY <2>2, <2>3, <2>6, <3>2, <3>3, SMT
  <2>7. CASE k = 4
    <3>1. n < 268435456  BY <1>1, <2>7, MqPowers, SMT DEF MqPower
    <3>2. MqValue(r, 4) = MqDigit(r, 1) + MqDigit(r, 2) + MqDigit(r, 3) + MqDigit(r, 4)  BY SMT DEF MqValue
    <3>3. (n % 128) + ((n \div 128) % 128) * 128 + ((n \div 16384) % 128) * 16384
            + ((n \div 2097152) % 128) * 2097152 = n  BY <1>2, <3>1, SMT
    <3> QED  BY <2>2, <2>3, <2>4, <2>7, <3>2, <3>3, SMT
  <2>8. k = 1 \/ k = 2 \/ k = 3 \/ k = 4  BY SMT
  <2> QED  BY <2>1, <2>5, <2>6, <2>7, <2>8, SMT
<1> QED  BY <1>1, <1>5, <1>8, <1>10, SMT

LEMMA MqDigitNat ==
    ASSUME NEW r \in Seq(Nat), NEW i \in 1..4, i <= Len(r)
    PROVE  MqDigit(r, i) \in Nat
<1>1. PICK x \in Nat : x = r[i]
  <2>1. i \in 1..Len(r)  BY LenProperties
  <2> QED  BY <2>1, ElementOfSeq
<1>2. PICK y \in Nat : y = x % 128  OBVIOUS
<1>3. MqDigit(r, i) = y * MqScale(i)  BY <1>1, <1>2 DEF MqDigit
<1>4. i = 1 \/ i = 2 \/ i = 3 \/ i = 4  OBVIOUS
<1>5. y * 1 \in Nat /\ y * 128 \in Nat /\ y * 16384 \in Nat /\ y * 2097152 \in Nat  BY SMT
<1>6. MqScale(1) = 1 /\ MqScale(2) = 128 /\ MqScale(3) = 16384 /\ MqScale(4) = 2097152  BY MqScales, SMT
<1> QED  BY <1>3, <1>4, <1>5, <1>6, SMT

\* A longer length adds one digit.
LEMMA MqValueMore ==
    ASSUME NEW r \in Seq(Nat), NEW k \in 1..4, k <= Len(r)
    PROVE  MqValue(r, k) = MqValue(r, k - 1) + MqDigit(r, k) /\ MqValue(r, k) \in Nat
<1>1. MqValue(r, 0) = 0 /\ MqValue(r, 1) = MqDigit(r, 1) /\ MqValue(r, 2) = MqDigit(r, 1) + MqDigit(r, 2)
  BY DEF MqValue
<1>2. MqValue(r, 3) = MqDigit(r, 1) + MqDigit(r, 2) + MqDigit(r, 3)  BY DEF MqValue
<1>3. MqValue(r, 4) = MqDigit(r, 1) + MqDigit(r, 2) + MqDigit(r, 3) + MqDigit(r, 4)  BY DEF MqValue
<1>4. Len(r) \in Nat  BY LenProperties
<1>5. ASSUME NEW i \in 1..k PROVE MqDigit(r, i) \in Nat
  <2>1. i \in 1..4 /\ i <= Len(r)  BY <1>4
  <2> QED  BY <2>1, MqDigitNat
<1>6. CASE k = 1
  <2>1. MqDigit(r, 1) \in Nat  BY <1>5, <1>6
  <2>2. k - 1 = 0  BY <1>6
  <2> QED  BY <1>1, <1>6, <2>1, <2>2
<1>7. CASE k = 2
  <2>1. MqDigit(r, 1) \in Nat /\ MqDigit(r, 2) \in Nat  BY <1>5, <1>7
  <2>2. k - 1 = 1  BY <1>7
  <2> QED  BY <1>1, <1>7, <2>1, <2>2
<1>8. CASE k = 3
  <2>1. MqDigit(r, 1) \in Nat /\ MqDigit(r, 2) \in Nat /\ MqDigit(r, 3) \in Nat  BY <1>5, <1>8
  <2>2. k - 1 = 2  BY <1>8
  <2> QED  BY <1>1, <1>2, <1>8, <2>1, <2>2
<1>9. CASE k = 4
  <2>1. MqDigit(r, 1) \in Nat /\ MqDigit(r, 2) \in Nat /\ MqDigit(r, 3) \in Nat /\ MqDigit(r, 4) \in Nat  BY <1>5, <1>9
  <2>2. k - 1 = 3  BY <1>9
  <2> QED  BY <1>2, <1>3, <1>9, <2>1, <2>2
<1>10. k = 1 \/ k = 2 \/ k = 3 \/ k = 4  OBVIOUS
<1> QED  BY <1>6, <1>7, <1>8, <1>9, <1>10

\* The loop ends at the first byte that does not go on, or at the end.
MqEnd(b, size, k) ==
    (MQ!At(b, k) < 128 \/ k = size) /\ \A j \in 1..(k - 1) : MQ!At(b, j) >= 128

\* The last byte of the length is the first without the high bit, or the last there is.
LEMMA MqLast ==
    ASSUME NEW b, NEW size \in Nat, NEW k \in 1..size, MqEnd(b, size, k),
           \A j \in 1..size : MQ!At(b, j) \in Nat
    PROVE  k = CHOOSE x \in 1..size : MqEnd(b, size, x)
<1>1. ASSUME NEW x \in 1..size, MqEnd(b, size, x) PROVE x = k
  <2>1. CASE x < k
    <3>1. x \in 1..(k - 1) /\ x # size  BY <2>1
    <3>2. MQ!At(b, x) >= 128  BY <3>1 DEF MqEnd
    <3>3. MQ!At(b, x) < 128  BY <1>1, <3>1 DEF MqEnd
    <3>4. MQ!At(b, x) \in Nat  BY <1>1
    <3> QED  BY <3>2, <3>3, <3>4
  <2>2. CASE k < x
    <3>1. k \in 1..(x - 1) /\ k # size  BY <2>2
    <3>2. MQ!At(b, k) >= 128  BY <1>1, <3>1 DEF MqEnd
    <3>3. MQ!At(b, k) < 128  BY <3>1 DEF MqEnd
    <3>4. MQ!At(b, k) \in Nat  OBVIOUS
    <3> QED  BY <3>2, <3>3, <3>4
  <2> QED  BY <2>1, <2>2
<1> QED  BY <1>1

\* The code reads r, if it ends there.
LEMMA MqDecoded ==
    ASSUME NEW b, NEW size \in Nat, NEW k \in 1..4, NEW r \in Seq(Nat), k <= size, k <= Len(r),
           \A j \in 1..size : MQ!At(b, j) \in Nat,
           \A j \in 1..k : MQ!At(b, j) = r[j], MqEnd(b, size, k)
    PROVE  MQ!Decoded(b, size) = [p |-> k + 1, len |-> MqValue(r, k)]
<1> DEFINE Body(g) == [i \in 0..k |-> IF i = 0 THEN 0 ELSE g[i - 1] + (MQ!At(b, i) % 128) * 128 ^ (i - 1)]
           first == CHOOSE g : g = Body(g)
           h == [i \in 0..k |-> MqValue(r, i)]
<1>1. k \in 1..size  OBVIOUS
<1>2. k = CHOOSE x \in 1..size : MqEnd(b, size, x)  BY <1>1, MqLast
<1>3. MQ!Decoded(b, size) = [p |-> k + 1, len |-> first[k]]
  BY <1>2 DEF MQ!Decoded, MqEnd
<1>4. MqValue(r, 0) = 0  BY DEF MqValue
<1>5. ASSUME NEW i \in 1..k
      PROVE  /\ i - 1 \in 0..k /\ MqValue(r, i) = MqValue(r, i - 1) + MqDigit(r, i)
             /\ MqDigit(r, i) = (MQ!At(b, i) % 128) * 128 ^ (i - 1)
  <2>1. i \in 1..4 /\ i <= Len(r) /\ i - 1 \in 0..k  BY LenProperties
  <2> QED  BY <2>1, MqValueMore DEF MqDigit, MqScale
<1>6. h = Body(h)
  <2>1. ASSUME NEW i \in 0..k
        PROVE  h[i] = IF i = 0 THEN 0 ELSE h[i - 1] + (MQ!At(b, i) % 128) * 128 ^ (i - 1)
    <3>1. CASE i = 0  BY <1>4, <3>1
    <3>2. CASE i # 0
      <4>1. i \in 1..k  BY <3>2
      <4> QED  BY <1>5, <3>2, <4>1
    <3> QED  BY <3>1, <3>2
  <2>2. h = [i \in 0..k |-> h[i]]  OBVIOUS
  <2> HIDE DEF h
  <2> QED  BY <2>1, <2>2
<1>7. first = Body(first)
  <2> HIDE DEF Body, h
  <2> QED  BY <1>6
<1>8. \A i \in 0..k : first[i] = IF i = 0 THEN 0 ELSE first[i - 1] + (MQ!At(b, i) % 128) * 128 ^ (i - 1)
  <2> HIDE DEF first
  <2> QED  BY <1>7
<1> HIDE DEF first, Body, h
<1>9. first[0] = MqValue(r, 0)  BY <1>4, <1>8
<1>10. ASSUME NEW i \in 1..k, first[i - 1] = MqValue(r, i - 1) PROVE first[i] = MqValue(r, i)
  <2>1. i \in 0..k /\ i # 0  OBVIOUS
  <2>2. first[i] = first[i - 1] + (MQ!At(b, i) % 128) * 128 ^ (i - 1)  BY <1>8, <2>1
  <2> QED  BY <1>5, <1>10, <2>2
<1>11. first[k] = MqValue(r, k)
  <2>1. first[1] = MqValue(r, 1)
    <3>1. 1 \in 1..k /\ 1 - 1 = 0  OBVIOUS
    <3> QED  BY <1>9, <1>10, <3>1
  <2>2. ASSUME k >= 2 PROVE first[2] = MqValue(r, 2)
    <3>1. 2 \in 1..k /\ 2 - 1 = 1  BY <2>2
    <3> QED  BY <1>10, <2>1, <3>1
  <2>3. ASSUME k >= 3 PROVE first[3] = MqValue(r, 3)
    <3>1. 3 \in 1..k /\ 3 - 1 = 2 /\ k >= 2  BY <2>3
    <3> QED  BY <1>10, <2>2, <3>1
  <2>4. ASSUME k >= 4 PROVE first[4] = MqValue(r, 4)
    <3>1. 4 \in 1..k /\ 4 - 1 = 3 /\ k >= 3  BY <2>4
    <3> QED  BY <1>10, <2>3, <3>1
  <2>5. k = 1 \/ k = 2 \/ k = 3 \/ k = 4  OBVIOUS
  <2> QED  BY <2>1, <2>2, <2>3, <2>4, <2>5
<1> QED  BY <1>3, <1>11
-----------------------------------------------------------------------------
(* Strings one behind the other, written and read.                              *)

MqStrings == {s \in Seq(Nat) : MqShort(s)}
MqItem(s, x, i) == MQ!Counted(s[i]) \o x

\* f: what is written when i strings are.
MqWritten(s, x, n, f) ==
    /\ f \in [0..n -> Seq(Nat)] /\ f[0] = <<>>
    /\ \A i \in 1..n : f[i] = f[i - 1] \o MqItem(s, x, i)

LEMMA MqItemIs ==
    ASSUME NEW s \in Seq(MqStrings), NEW x \in Seq(Nat), NEW i \in 1..Len(s)
    PROVE  /\ MqItem(s, x, i) \in Seq(Nat) /\ Len(MqItem(s, x, i)) = (Len(s[i]) + 2) + Len(x)
           /\ s[i] \in Seq(Nat) /\ MqShort(s[i])
<1>1. PICK t : t = s[i] /\ t \in Seq(Nat) /\ MqShort(t)  BY ElementOfSeq DEF MqStrings
<1>2. PICK u \in Seq(Nat) : u = MQ!Counted(t) /\ Len(u) = Len(t) + 2  BY <1>1, MqCounted
<1>3. u \o x \in Seq(Nat) /\ Len(u \o x) = Len(u) + Len(x)  BY <1>2, MqConcat
<1> QED  BY <1>1, <1>2, <1>3 DEF MqItem

\* Concatenation is associative, and with nothing changes nothing.
LEMMA MqAssoc ==
    ASSUME NEW a \in Seq(Nat), NEW b \in Seq(Nat), NEW c \in Seq(Nat)
    PROVE  (a \o b) \o c = a \o (b \o c)
  BY ConcatAssociative

LEMMA MqEmpty ==
    ASSUME NEW a \in Seq(Nat)
    PROVE  <<>> \o a = a /\ a \o <<>> = a /\ <<>> \in Seq(Nat)
  BY ConcatEmptySeq, EmptySeq

\* Strings one behind the other, as a recursion over how many.
LEMMA MqWrittenUpto ==
    ASSUME NEW s \in Seq(MqStrings), NEW x \in Seq(Nat), NEW n \in Nat, n <= Len(s)
    PROVE  \E f : MqWritten(s, x, n, f)
<1> DEFINE S == {k \in Nat : k <= Len(s) => \E f : MqWritten(s, x, k, f)}
<1>1. 0 \in S
  <2> DEFINE f == [i \in 0..0 |-> <<>>]
  <2>1. f \in [0..0 -> Seq(Nat)] /\ f[0] = <<>>  BY EmptySeq
  <2>2. \A i \in 1..0 : f[i] = f[i - 1] \o MqItem(s, x, i)  OBVIOUS
  <2> HIDE DEF f
  <2>3. MqWritten(s, x, 0, f)  BY <2>1, <2>2 DEF MqWritten
  <2> QED  BY <2>3
<1>2. ASSUME NEW k \in Nat, k \in S PROVE k + 1 \in S
  <2> SUFFICES ASSUME k + 1 <= Len(s) PROVE \E f : MqWritten(s, x, k + 1, f)
    OBVIOUS
  <2>0. Len(s) \in Nat /\ k <= Len(s)  BY LenProperties
  <2>1. PICK f : MqWritten(s, x, k, f)  BY <1>2, <2>0
  <2>2. PICK u \in Seq(Nat) : u = f[k] \o MqItem(s, x, k + 1)
    <3>1. k + 1 \in 1..Len(s) /\ k \in 0..k  BY <2>0
    <3>2. f[k] \in Seq(Nat)  BY <2>1, <3>1 DEF MqWritten
    <3> QED  BY <3>1, <3>2, MqItemIs, MqConcat
  <2> DEFINE g == [i \in 0..(k + 1) |-> IF i <= k THEN f[i] ELSE u]
  <2>3. \A i \in 0..k : i \in 0..(k + 1) /\ g[i] = f[i] /\ f[i] \in Seq(Nat)  BY <2>1 DEF MqWritten
  <2>4. g[k + 1] = u  OBVIOUS
  <2>5. g \in [0..(k + 1) -> Seq(Nat)]
    <3>1. \A i \in 0..(k + 1) : i \in 0..k \/ ~(i <= k)  OBVIOUS
    <3> QED  BY <2>3, <3>1
  <2> HIDE DEF g
  <2>6. g[0] = <<>>  BY <2>1, <2>3 DEF MqWritten
  <2>7. ASSUME NEW i \in 1..(k + 1) PROVE g[i] = g[i - 1] \o MqItem(s, x, i)
    <3>1. i - 1 \in 0..k /\ g[i - 1] = f[i - 1]  BY <2>3
    <3>2. CASE i <= k
      <4>1. i \in 1..k /\ i \in 0..k  BY <3>2
      <4>2. f[i] = f[i - 1] \o MqItem(s, x, i)  BY <2>1, <4>1 DEF MqWritten
      <4> QED  BY <2>3, <3>1, <4>1, <4>2
    <3>3. CASE ~(i <= k)
      <4>1. i = k + 1 /\ i - 1 = k  BY <3>3
      <4> QED  BY <2>2, <2>4, <3>1, <4>1
    <3> QED  BY <3>2, <3>3
  <2>8. MqWritten(s, x, k + 1, g)  BY <2>5, <2>6, <2>7 DEF MqWritten
  <2> QED  BY <2>8
<1>3. n \in S
  <2> HIDE DEF S
  <2> QED  BY <1>1, <1>2, NatSet
<1> QED  BY <1>3

LEMMA MqStringsAre ==
    ASSUME NEW s \in Seq(MqStrings), NEW x \in Seq(Nat)
    PROVE  \E f : MqWritten(s, x, Len(s), f) /\ MQ!Strings(s, x) = f[Len(s)]
<1> DEFINE L == Len(s)
           items == [i \in DOMAIN s |-> MqItem(s, x, i)]
           Body(g) == [i \in 1..L |-> IF i = 1 THEN items[i] ELSE g[i - 1] \o items[i]]
           first == CHOOSE g : g = Body(g)
<1>1. L \in Nat /\ DOMAIN s = 1..L  BY LenProperties
<1>2. PICK f : MqWritten(s, x, L, f)
  <2>1. L <= Len(s)  BY <1>1
  <2> QED  BY <1>1, <2>1, MqWrittenUpto
<1>3. \A i \in 1..L : MqItem(s, x, i) \in Seq(Nat)  BY MqItemIs
<1>4. items \in Seq(Seq(Nat)) /\ Len(items) = L /\ \A i \in 1..L : items[i] = MqItem(s, x, i)
  <2>1. items = [i \in 1..L |-> MqItem(s, x, i)]  BY <1>1
  <2>2. items \in [1..L -> Seq(Nat)]  BY <1>3, <2>1
  <2> QED  BY <1>1, <2>1, <2>2
<1>5. MQ!Strings(s, x) = MQ!FlattenSeq(items)  BY DEF MQ!Strings, MqItem
<1>6. CASE L = 0
  <2>1. items = <<>>
    <3> HIDE DEF items
    <3> QED  BY <1>4, <1>6, EmptySeq
  <2>2. MQ!FlattenSeq(items) = items
    <3> HIDE DEF items
    <3> QED  BY <1>4, <1>6 DEF MQ!FlattenSeq
  <2>3. f[0] = <<>>  BY <1>2 DEF MqWritten
  <2> QED  BY <1>2, <1>5, <1>6, <2>1, <2>2, <2>3
<1>7. CASE L # 0
  <2> HIDE DEF items
  <2> DEFINE h == [i \in 1..L |-> f[i]]
  <2>1. ASSUME NEW i \in 1..L PROVE h[i] = IF i = 1 THEN items[i] ELSE h[i - 1] \o items[i]
    <3>1. f[i] = f[i - 1] \o items[i]  BY <1>2, <1>4 DEF MqWritten
    <3>2. CASE i = 1
      <4>1. f[0] = <<>> /\ i - 1 = 0  BY <1>2, <3>2 DEF MqWritten
      <4>2. items[i] \in Seq(Nat)  BY <1>3, <1>4
      <4>3. <<>> \o items[i] = items[i]  BY <4>2, MqEmpty
      <4> QED  BY <3>1, <3>2, <4>1, <4>3
    <3>3. CASE i # 1
      <4>1. i - 1 \in 1..L  BY <1>1, <3>3
      <4> QED  BY <3>1, <3>3, <4>1
    <3> QED  BY <3>2, <3>3
  <2>2. h = [i \in 1..L |-> h[i]]  OBVIOUS
  <2>3. h = Body(h)
    <3> HIDE DEF h
    <3> QED  BY <2>1, <2>2
  <2>4. first = Body(first)
    <3> HIDE DEF h, Body
    <3> QED  BY <2>3
  <2>5. \A i \in 1..L : first[i] = IF i = 1 THEN items[i] ELSE first[i - 1] \o items[i]
    <3> HIDE DEF first, h
    <3> QED  BY <2>4
  <2>6. MQ!FlattenSeq(items) = first[L]  BY <1>4, <1>7 DEF MQ!FlattenSeq
  <2> HIDE DEF first, h, Body
  <2> DEFINE S == {k \in Nat : k + 1 <= L => first[k + 1] = f[k + 1]}
  <2>7. \A i \in 1..L : f[i] = IF i = 1 THEN items[i] ELSE f[i - 1] \o items[i]
    <3> TAKE i \in 1..L
    <3>1. h[i] = f[i]  BY DEF h
    <3>2. i # 1 => h[i - 1] = f[i - 1]  BY <1>1 DEF h
    <3> QED  BY <2>1, <3>1, <3>2
  <2>8. 0 \in S
    <3> SUFFICES ASSUME 0 + 1 <= L PROVE first[0 + 1] = f[0 + 1]  OBVIOUS
    <3>1. 0 + 1 = 1 /\ 1 \in 1..L  BY <1>1
    <3> QED  BY <2>5, <2>7, <3>1
  <2>9. ASSUME NEW k \in Nat, k \in S PROVE k + 1 \in S
    <3> SUFFICES ASSUME (k + 1) + 1 <= L PROVE first[(k + 1) + 1] = f[(k + 1) + 1]  OBVIOUS
    <3>1. PICK i \in 1..L : i = (k + 1) + 1 /\ i # 1 /\ i - 1 = k + 1  BY <1>1
    <3>2. first[k + 1] = f[k + 1]  BY <1>1, <2>9
    <3>3. first[i] = first[i - 1] \o items[i] /\ f[i] = f[i - 1] \o items[i]  BY <2>5, <2>7, <3>1
    <3> QED  BY <3>1, <3>2, <3>3
  <2>10. \A k \in Nat : k \in S
    <3> HIDE DEF S
    <3> QED  BY <2>8, <2>9, NatSet
  <2>11. first[L] = f[L]
    <3>1. L - 1 \in Nat /\ (L - 1) + 1 = L  BY <1>1, <1>7
    <3>2. L - 1 \in S  BY <2>10, <3>1
    <3> QED  BY <3>1, <3>2
  <2> QED  BY <1>2, <1>5, <2>6, <2>11
<1> HIDE DEF L
<1> QED  BY <1>6, <1>7 DEF L

\* What is written when i strings are is the beginning of what is written at the end.
MqBegins(u, v) == \E t \in Seq(Nat) : v = u \o t

LEMMA MqWrittenBegins ==
    ASSUME NEW s \in Seq(MqStrings), NEW x \in Seq(Nat), NEW f, MqWritten(s, x, Len(s), f), NEW i \in 0..Len(s)
    PROVE  MqBegins(f[i], f[Len(s)])
<1> DEFINE L == Len(s)
           S == {k \in Nat : k <= L => MqBegins(f[L - k], f[L])}
<1>1. L \in Nat /\ f \in [0..L -> Seq(Nat)]  BY LenProperties DEF MqWritten
<1>2. 0 \in S
  <2>1. L - 0 = L /\ f[L] \in Seq(Nat)  BY <1>1
  <2>2. f[L] = f[L] \o <<>> /\ <<>> \in Seq(Nat)  BY <2>1, MqEmpty
  <2> QED  BY <2>1, <2>2 DEF MqBegins
<1>3. ASSUME NEW k \in Nat, k \in S PROVE k + 1 \in S
  <2> SUFFICES ASSUME k + 1 <= L PROVE MqBegins(f[L - (k + 1)], f[L])  OBVIOUS
  <2>0. L - k \in 1..L /\ (L - k) - 1 = L - (k + 1) /\ (L - k) - 1 \in 0..L /\ k <= L  BY <1>1
  <2>1. PICK j \in 1..L : j = L - k /\ j - 1 = L - (k + 1) /\ j - 1 \in 0..L  BY <2>0
  <2>7. MqBegins(f[L - k], f[L])  BY <1>3, <2>0
  <2>2. PICK t \in Seq(Nat) : f[L] = f[j] \o t  BY <2>1, <2>7 DEF MqBegins
  <2>3. PICK a \in Seq(Nat), c \in Seq(Nat) : a = f[j - 1] /\ c = MqItem(s, x, j)  BY <1>1, <2>1, MqItemIs
  <2>4. f[j] = a \o c  BY <2>1, <2>3 DEF MqWritten
  <2>5. f[L] = a \o (c \o t)
    <3>1. f[L] = (a \o c) \o t  BY <2>2, <2>4
    <3> QED  BY <3>1, MqAssoc
  <2>6. c \o t \in Seq(Nat)  BY <2>2, <2>3, MqConcat
  <2> QED  BY <2>1, <2>3, <2>5, <2>6 DEF MqBegins
<1>4. \A k \in Nat : k \in S
  <2> HIDE DEF S
  <2> QED  BY <1>2, <1>3, NatSet
<1>5. L - i \in Nat /\ L - i <= L /\ L - (L - i) = i  BY <1>1
<1>6. L - i \in S  BY <1>4, <1>5
<1> QED  BY <1>5, <1>6

\* What the loop has when it read i of the strings.
MqReadUpto(s, x, f, start, i) == [p |-> start + Len(f[i]), strings |-> SubSeq(s, 1, i)]
MqRound(b, end, gap, r) ==
    IF r.p < end THEN [p |-> MQ!Behind(b, r.p) + gap, strings |-> Append(r.strings, MQ!StringAt(b, r.p))]
    ELSE r

MqReadsNext(b, s, x, f, start, i) ==
    MqRound(b, start + Len(f[Len(s)]), Len(x), MqReadUpto(s, x, f, start, i - 1))
      = MqReadUpto(s, x, f, start, i)

\* One step of the reader takes one string.
LEMMA MqReadNext ==
    ASSUME NEW b, NEW start \in Nat, NEW s \in Seq(MqStrings), NEW x \in Seq(Nat), NEW f,
           MqWritten(s, x, Len(s), f), MqHas(b, start, f[Len(s)]), NEW i \in 1..Len(s)
    PROVE  MqReadsNext(b, s, x, f, start, i)
<1>1. PICK L \in Nat : L = Len(s)  BY LenProperties
<1>2. i - 1 \in 0..L /\ i \in 0..L /\ L \in 0..L /\ i \in Nat  BY <1>1
<1>3. f \in [0..L -> Seq(Nat)]  BY <1>1 DEF MqWritten
<1>4. PICK a \in Seq(Nat), c \in Seq(Nat), w \in Seq(Nat) : a = f[i - 1] /\ c = f[i] /\ w = f[L]  BY <1>2, <1>3
<1>5. PICK item \in Seq(Nat) : item = MqItem(s, x, i) /\ Len(item) = (Len(s[i]) + 2) + Len(x)
  BY MqItemIs
<1>6. c = a \o item  BY <1>4, <1>5, <1>1 DEF MqWritten
<1>7. PICK u \in Seq(Nat) : u = MQ!Counted(s[i]) /\ item = u \o x
  <2>1. MqShort(s[i])  BY MqItemIs
  <2> QED  BY <1>5, <2>1, MqCounted DEF MqItem
<1>8. PICK t \in Seq(Nat) : w = c \o t
  <2>1. MqBegins(f[i], f[L])  BY <1>1, <1>2, MqWrittenBegins
  <2> QED  BY <1>4, <2>1 DEF MqBegins
<1>9. PICK na \in Nat, ni \in Nat, nt \in Nat, ns \in Nat, nx \in Nat :
         na = Len(a) /\ ni = Len(item) /\ nt = Len(t) /\ ns = Len(s[i]) /\ nx = Len(x)
  <2>1. s[i] \in Seq(Nat)  BY MqItemIs
  <2> QED  BY <2>1, LenProperties
<1>10. Len(c) = na + ni  BY <1>6, <1>9, MqConcat
<1>11. Len(w) = (na + ni) + nt
  <2>1. Len(c \o t) = Len(c) + Len(t)  BY <1>4, <1>8, MqConcat
  <2> QED  BY <2>1, <1>8, <1>9, <1>10
<1>12. MqHas(b, start, c)
  <2>1. MqHas(b, start, c \o t)  BY <1>1, <1>4, <1>8
  <2> QED  BY <2>1, MqHasBoth
<1>13. MqHas(b, start + na, item)
  <2>1. MqHas(b, start, a \o item)  BY <1>6, <1>12
  <2> QED  BY <1>9, <2>1, MqHasBoth
<1>14. MqHas(b, start + na, u)
  <2>1. MqHas(b, start + na, u \o x)  BY <1>7, <1>13
  <2> QED  BY <2>1, MqHasBoth
<1>15. MQ!StringAt(b, start + na) = s[i] /\ MQ!Behind(b, start + na) = (start + na) + (ns + 2)
  <2>1. MqShort(s[i])  BY MqItemIs
  <2>2. MqIsString(b, start + na, s[i])  BY <1>7, <1>14, <2>1, MqCounted
  <2> QED  BY <1>9, <2>2 DEF MqIsString
<1>16. ni = (ns + 2) + nx  BY <1>5, <1>9
<1>17. PICK before \in Seq(MqStrings) : before = SubSeq(s, 1, i - 1)
  <2>1. PICK j \in Nat : j = i - 1  BY <1>1, <1>2
  <2>2. 0 + j <= Len(s)  BY <2>1, <1>1, <1>2
  <2>3. MqPart(s, 0, j) \in Seq(MqStrings)  BY <2>2, MqSub
  <2>4. 0 + 1 = 1 /\ 0 + j = i - 1  BY <2>1
  <2> QED  BY <2>3, <2>4 DEF MqPart
<1>18. SubSeq(s, 1, i) = Append(before, s[i])
  <2>1. PICK j \in Nat : j = i - 1  BY <1>1, <1>2
  <2>10. j + 1 = i /\ j + 1 \in Nat  BY <2>1, <1>2
  <2>11. 0 + j <= Len(s)  BY <2>1, <1>1, <1>2
  <2>12. 0 + (j + 1) <= Len(s)  BY <2>1, <1>1, <1>2
  <2>13. 0 + 1 = 1 /\ 0 + j = i - 1 /\ 0 + (j + 1) = i  BY <2>1, <2>10
  <2>2. PICK d : d = MqPart(s, 0, j + 1)  OBVIOUS
  <2>3. d \in Seq(MqStrings) /\ Len(d) = j + 1 /\ \A k \in 1..(j + 1) : d[k] = s[0 + k]
    <3>1. PICK m \in Nat : m = j + 1  BY <2>10
    <3>2. 0 + m <= Len(s)  BY <2>12, <3>1
    <3>3. /\ MqPart(s, 0, m) \in Seq(MqStrings) /\ Len(MqPart(s, 0, m)) = m
          /\ \A k \in 1..m : MqPart(s, 0, m)[k] = s[0 + k]
      BY <3>2, MqSub
    <3> QED  BY <2>2, <3>1, <3>3
  <2>4. before = MqPart(s, 0, j)  BY <1>17, <2>13 DEF MqPart
  <2>5. Len(before) = j /\ \A k \in 1..j : before[k] = s[0 + k]
    <3>1. Len(MqPart(s, 0, j)) = j /\ \A k \in 1..j : MqPart(s, 0, j)[k] = s[0 + k]  BY <2>11, MqSub
    <3> QED  BY <2>4, <3>1
  <2>6. PICK y \in MqStrings : y = s[i]  BY ElementOfSeq
  <2>14. PICK e : e = Append(before, y)  OBVIOUS
  <2>15. /\ e \in Seq(MqStrings) /\ Len(e) = Len(before) + 1
         /\ \A k \in 1..Len(before) : e[k] = before[k]
         /\ e[Len(before) + 1] = y
    BY <2>14, AppendProperties
  <2>7. /\ e \in Seq(MqStrings) /\ e = Append(before, s[i]) /\ Len(e) = j + 1 /\ e[j + 1] = s[i]
        /\ \A k \in 1..j : e[k] = before[k]
    BY <2>5, <2>6, <2>14, <2>15
  <2>8. \A k \in 1..Len(d) : d[k] = e[k]
    <3> TAKE k \in 1..Len(d)
    <3>1. k \in 1..(j + 1) /\ 0 + k = k  BY <2>3
    <3>2. CASE k = j + 1
      <4>1. d[k] = s[k]  BY <2>3, <3>1
      <4>2. k = i  BY <2>10, <3>2
      <4> QED  BY <2>7, <3>2, <4>1, <4>2
    <3>3. CASE k # j + 1
      <4>1. k \in 1..j  BY <3>1, <3>3
      <4>2. d[k] = s[k] /\ before[k] = s[k] /\ e[k] = before[k]  BY <2>3, <2>5, <2>7, <3>1, <4>1
      <4> QED  BY <4>2
    <3> QED  BY <3>2, <3>3
  <2>9. d = e  BY <2>3, <2>7, <2>8, SeqEqual
  <2>16. SubSeq(s, 1, i) = MqPart(s, 0, j + 1)  BY <2>13 DEF MqPart
  <2> QED  BY <2>2, <2>7, <2>9, <2>16
<1>19. MqReadUpto(s, x, f, start, i - 1) = [p |-> start + na, strings |-> before]
  BY <1>4, <1>9, <1>17 DEF MqReadUpto
<1>20. MqReadUpto(s, x, f, start, i) = [p |-> start + (na + ni), strings |-> Append(before, s[i])]
  BY <1>4, <1>10, <1>18 DEF MqReadUpto
<1>21. start + na < start + ((na + ni) + nt)  BY <1>16
<1>22. ((start + na) + (ns + 2)) + nx = start + (na + ni)  BY <1>16
<1>23. MqRound(b, start + Len(f[Len(s)]), Len(x), [p |-> start + na, strings |-> before])
         = [p |-> ((start + na) + (ns + 2)) + nx, strings |-> Append(before, s[i])]
  BY <1>1, <1>4, <1>9, <1>11, <1>15, <1>21 DEF MqRound
<1> QED  BY <1>19, <1>20, <1>22, <1>23 DEF MqReadsNext

\* The strings that were written are the strings that are read.
LEMMA MqStringsRead ==
    ASSUME NEW b, NEW start \in Nat, NEW s \in Seq(MqStrings), NEW x \in Seq(Nat),
           MqHas(b, start, MQ!Strings(s, x)), NEW n \in Nat, n >= Len(s)
    PROVE  MQ!StringsFrom(b, start, start + Len(MQ!Strings(s, x)), n, Len(x)) = s
<1>1. PICK f : MqWritten(s, x, Len(s), f) /\ MQ!Strings(s, x) = f[Len(s)]  BY MqStringsAre
<1>2. PICK L \in Nat : L = Len(s)  BY LenProperties
<1>3. PICK end : end = start + Len(f[L])  OBVIOUS
<1> DEFINE R(i) == MqReadUpto(s, x, f, start, i)
           Body(g) == [i \in 0..n |->
                          IF i = 0 THEN [p |-> start, strings |-> <<>>]
                          ELSE IF g[i - 1].p < end
                          THEN [p |-> MQ!Behind(b, g[i - 1].p) + Len(x),
                                strings |-> Append(g[i - 1].strings, MQ!StringAt(b, g[i - 1].p))]
                          ELSE g[i - 1]]
           first == CHOOSE g : g = Body(g)
           h == [i \in 0..n |-> IF i <= L THEN R(i) ELSE R(L)]
<1>4. R(0) = [p |-> start, strings |-> <<>>]
  <2>1. f[0] = <<>> /\ Len(<<>>) = 0  BY <1>1 DEF MqWritten
  <2>2. SubSeq(s, 1, 0) = <<>>  BY SubSeqEmpty
  <2>3. start + 0 = start  OBVIOUS
  <2> QED  BY <2>1, <2>2, <2>3 DEF MqReadUpto
<1>5. R(L).p = end  BY <1>3 DEF MqReadUpto
<1>6. end \in Nat
  <2>1. f[L] \in Seq(Nat)  BY <1>1, <1>2 DEF MqWritten
  <2>2. Len(f[L]) \in Nat  BY <2>1, LenProperties
  <2> QED  BY <1>3, <2>2
<1>7. ASSUME NEW i \in 1..L PROVE MqRound(b, end, Len(x), R(i - 1)) = R(i)
  <2>1. MqWritten(s, x, Len(s), f)  BY <1>1
  <2>2. MqHas(b, start, f[Len(s)])  BY <1>1
  <2>3. i \in 1..Len(s)  BY <1>2
  <2>4. MqReadsNext(b, s, x, f, start, i)
    <3> HIDE DEF Body, first, h
    <3> QED  BY <2>1, <2>2, <2>3, MqReadNext
  <2>5. end = start + Len(f[Len(s)])  BY <1>2, <1>3
  <2> QED  BY <2>4, <2>5 DEF R, MqReadsNext
<1>8. MqRound(b, end, Len(x), R(L)) = R(L)
  <2> HIDE DEF R
  <2>1. ~(R(L).p < end)  BY <1>5, <1>6
  <2> QED  BY <2>1 DEF MqRound
<1> HIDE DEF R
<1>9. \A i \in 0..n : h[i] = IF i <= L THEN R(i) ELSE R(L)  OBVIOUS
<1>10. ASSUME NEW i \in 1..n PROVE h[i] = MqRound(b, end, Len(x), h[i - 1]) /\ i - 1 \in 0..n
  <2> HIDE DEF h
  <2>1. i - 1 \in 0..n /\ i \in 0..n  OBVIOUS
  <2>2. CASE i <= L
    <3>1. i \in 1..L /\ i - 1 <= L  BY <2>2
    <3>2. h[i] = R(i) /\ h[i - 1] = R(i - 1)  BY <1>9, <2>1, <2>2, <3>1
    <3> QED  BY <1>7, <2>1, <3>1, <3>2
  <2>3. CASE i = L + 1
    <3>1. i - 1 = L /\ ~(i <= L) /\ L <= L  BY <2>3
    <3>2. h[i] = R(L) /\ h[i - 1] = R(L)  BY <1>9, <2>1, <3>1
    <3> QED  BY <1>8, <2>1, <3>2
  <2>4. CASE i > L + 1
    <3>1. ~(i - 1 <= L) /\ ~(i <= L)  BY <2>4
    <3>2. h[i] = R(L) /\ h[i - 1] = R(L)  BY <1>9, <2>1, <3>1
    <3> QED  BY <1>8, <2>1, <3>2
  <2> QED  BY <2>2, <2>3, <2>4
<1>11. h[0] = [p |-> start, strings |-> <<>>]
  <2> HIDE DEF h
  <2>1. 0 \in 0..n /\ 0 <= L  OBVIOUS
  <2> QED  BY <1>4, <1>9, <2>1
<1>12. h = Body(h)
  <2>1. h = [i \in 0..n |-> h[i]]  OBVIOUS
  <2> HIDE DEF h
  <2>2. ASSUME NEW i \in 0..n
        PROVE  h[i] = IF i = 0 THEN [p |-> start, strings |-> <<>>]
                      ELSE IF h[i - 1].p < end
                      THEN [p |-> MQ!Behind(b, h[i - 1].p) + Len(x),
                            strings |-> Append(h[i - 1].strings, MQ!StringAt(b, h[i - 1].p))]
                      ELSE h[i - 1]
    <3>1. CASE i = 0  BY <1>11, <3>1
    <3>2. CASE i # 0
      <4>1. i \in 1..n  BY <3>2
      <4> QED  BY <1>10, <3>2, <4>1 DEF MqRound
    <3> QED  BY <3>1, <3>2
  <2> QED  BY <2>1, <2>2
<1>13. first = Body(first)
  <2> HIDE DEF Body, h
  <2> QED  BY <1>12
<1>14. first[0] = h[0] /\ \A i \in 1..n : first[i] = MqRound(b, end, Len(x), first[i - 1])
  <2> HIDE DEF first, h
  <2>1. \A i \in 0..n : first[i] = IF i = 0 THEN [p |-> start, strings |-> <<>>]
                      ELSE IF first[i - 1].p < end
                      THEN [p |-> MQ!Behind(b, first[i - 1].p) + Len(x),
                            strings |-> Append(first[i - 1].strings, MQ!StringAt(b, first[i - 1].p))]
                      ELSE first[i - 1]
    BY <1>13
  <2>4. 0 \in 0..n  OBVIOUS
  <2>5. first[0] = [p |-> start, strings |-> <<>>]  BY <2>1, <2>4
  <2>2. first[0] = h[0]  BY <1>11, <2>5
  <2>3. ASSUME NEW i \in 1..n PROVE first[i] = MqRound(b, end, Len(x), first[i - 1])
    <3>1. i \in 0..n /\ i # 0  OBVIOUS
    <3> QED  BY <2>1, <3>1 DEF MqRound
  <2> QED  BY <2>2, <2>3
<1> DEFINE S == {k \in Nat : k <= n => first[k] = h[k]}
<1>15. 0 \in S  BY <1>14
<1>16. ASSUME NEW k \in Nat, k \in S PROVE k + 1 \in S
  <2> SUFFICES ASSUME k + 1 <= n PROVE first[k + 1] = h[k + 1]  OBVIOUS
  <2> HIDE DEF first, h
  <2>1. first[k] = h[k]  BY <1>16
  <2>2. k + 1 \in 1..n /\ (k + 1) - 1 = k  OBVIOUS
  <2>3. first[k + 1] = MqRound(b, end, Len(x), first[k])  BY <1>14, <2>2
  <2>4. h[k + 1] = MqRound(b, end, Len(x), h[k])  BY <1>10, <2>2
  <2> QED  BY <2>1, <2>3, <2>4
<1>17. first[n] = h[n]
  <2> HIDE DEF S
  <2>1. n \in S  BY <1>15, <1>16, NatSet
  <2> QED  BY <2>1 DEF S
<1>18. h[n].strings = s
  <2>1. n \in 0..n /\ (n <= L => n = L)  BY <1>2
  <2>2. h[n] = R(L)  BY <1>9, <2>1
  <2>3. SubSeq(s, 1, L) = s  BY <1>2, SubSeqFull
  <2>4. R(L).strings = SubSeq(s, 1, L)  BY DEF R, MqReadUpto
  <2> QED  BY <2>2, <2>3, <2>4
<1>19. MQ!StringsFrom(b, start, end, n, Len(x)) = first[n].strings  BY DEF MQ!StringsFrom
<1> HIDE DEF first, h
<1> QED  BY <1>1, <1>2, <1>3, <1>17, <1>18, <1>19
-----------------------------------------------------------------------------
(* What the parser makes of each kind of packet.                                *)

MqNamed(cmd, q) == [MQ!Blank EXCEPT !.cmd = cmd, !.qos = q]
MqWords == {MQ!PUBACK, MQ!PUBREC, MQ!PUBREL, MQ!PUBCOMP, MQ!SUBACK}
MqOthers == {MQ!UNSUBSCRIBE, MQ!UNSUBACK, MQ!PINGREQ, MQ!PINGRESP, MQ!DISCONNECT}

MqConnected(q, strings) == [MqNamed(MQ!CONNECT, q) EXCEPT !.strings = strings]

LEMMA MqMessageConnect ==
    ASSUME NEW b, NEW p, NEW end, NEW q
    PROVE  MQ!Message(b, p, end, MQ!CONNECT, q)
             = MqConnected(q, MQ!StringsFrom(b, (MQ!Behind(b, p) + 1) + 3, end,
                                             MQ!StringsExpected(MQ!At(b, MQ!Behind(b, p) + 1)), 0))
  BY SMT DEF MQ!Message, MqConnected, MqNamed, MQ!Blank, MQ!CONNECT, MQ!CONNACK, MQ!PUBACK, MQ!PUBREC, MQ!PUBREL, MQ!PUBCOMP,
        MQ!SUBACK, MQ!PUBLISH, MQ!SUBSCRIBE

LEMMA MqMessageConnack ==
    ASSUME NEW b, NEW p, NEW end, NEW q
    PROVE  MQ!Message(b, p, end, MQ!CONNACK, q) = [MqNamed(MQ!CONNACK, q) EXCEPT !.code = MQ!At(b, p + 1)]
  BY SMT DEF MQ!Message, MqNamed, MQ!CONNECT, MQ!CONNACK, MQ!PUBACK, MQ!PUBREC, MQ!PUBREL, MQ!PUBCOMP,
        MQ!SUBACK, MQ!PUBLISH, MQ!SUBSCRIBE

LEMMA MqMessageWord ==
    ASSUME NEW b, NEW p, NEW end, NEW q, NEW cmd \in MqWords
    PROVE  MQ!Message(b, p, end, cmd, q) = [MqNamed(cmd, q) EXCEPT !.id = MQ!GetU16(b, p)]
  BY SMT DEF MQ!Message, MqNamed, MqWords, MQ!CONNECT, MQ!CONNACK, MQ!PUBACK, MQ!PUBREC, MQ!PUBREL,
        MQ!PUBCOMP, MQ!SUBACK, MQ!PUBLISH, MQ!SUBSCRIBE

MqPublished(q, topic, id, payload) ==
    [MqNamed(MQ!PUBLISH, q) EXCEPT !.topic = topic, !.id = id, !.payload = payload]

\* The topic, the id if there is one, and the rest as payload.
LEMMA MqMessagePublish ==
    ASSUME NEW b, NEW p, NEW end, NEW q
    PROVE  MQ!Message(b, p, end, MQ!PUBLISH, q)
             = MqPublished(q, MQ!StringAt(b, p), IF q > 0 THEN MQ!GetU16(b, MQ!Behind(b, p)) ELSE 0,
                           SubSeq(b, (IF q > 0 THEN MQ!Behind(b, p) + 2 ELSE MQ!Behind(b, p)) + 1, end))
  BY SMT DEF MQ!Message, MqPublished, MQ!CONNECT, MQ!CONNACK, MQ!PUBACK, MQ!PUBREC, MQ!PUBREL, MQ!PUBCOMP,
        MQ!SUBACK, MQ!PUBLISH, MQ!SUBSCRIBE, MqNamed

MqSubscribed(q, id, payload, strings) ==
    [MqNamed(MQ!SUBSCRIBE, q) EXCEPT !.id = id, !.payload = payload, !.strings = strings]

LEMMA MqMessageSubscribe ==
    ASSUME NEW b, NEW p, NEW end, NEW q
    PROVE  MQ!Message(b, p, end, MQ!SUBSCRIBE, q)
             = MqSubscribed(q, MQ!GetU16(b, p), SubSeq(b, (p + 2) + 1, end), MQ!TopicsIn(SubSeq(b, (p + 2) + 1, end)))
  BY SMT DEF MQ!Message, MqSubscribed, MqNamed, MQ!Blank, MQ!CONNECT, MQ!CONNACK, MQ!PUBACK, MQ!PUBREC, MQ!PUBREL, MQ!PUBCOMP,
        MQ!SUBACK, MQ!PUBLISH, MQ!SUBSCRIBE

LEMMA MqMessageOther ==
    ASSUME NEW b, NEW p, NEW end, NEW q, NEW cmd \in MqOthers
    PROVE  MQ!Message(b, p, end, cmd, q) = MqNamed(cmd, q)
  BY SMT DEF MQ!Message, MqNamed, MqOthers, MQ!CONNECT, MQ!CONNACK, MQ!PUBACK, MQ!PUBREC, MQ!PUBREL,
        MQ!PUBCOMP, MQ!SUBACK, MQ!PUBLISH, MQ!SUBSCRIBE, MQ!UNSUBSCRIBE, MQ!UNSUBACK, MQ!PINGREQ,
        MQ!PINGRESP, MQ!DISCONNECT

\* The variable part of a packet: where it is, the parser makes m of it.
MqMeans(cmd, q, body, m) ==
    /\ body \in Seq(Nat)
    /\ \A b, p : MqHas(b, p, body) => MQ!Message(b, p, p + Len(body), cmd, q) = m

LEMMA MqMeansOther ==
    ASSUME NEW cmd \in MqOthers, NEW q, NEW body \in Seq(Nat)
    PROVE  MqMeans(cmd, q, body, MqNamed(cmd, q))
  BY MqMessageOther DEF MqMeans

\* A sequence is where another begins with it.
LEMMA MqHasFirst ==
    ASSUME NEW b, NEW p, NEW s \in Seq(Nat), NEW t \in Seq(Nat), MqHas(b, p, s \o t)
    PROVE  MqHas(b, p, s)
  BY MqHasBoth

LEMMA MqMeansWord ==
    ASSUME NEW cmd \in MqWords, NEW q, NEW id, MqWord(id), NEW more \in Seq(Nat)
    PROVE  MqMeans(cmd, q, MQ!U16(id) \o more, [MqNamed(cmd, q) EXCEPT !.id = id])
<1>1. PICK u \in Seq(Nat) : u = MQ!U16(id) /\ \A b, p : MqHas(b, p, u) => MqIsWord(b, p, id)  BY MqU16
<1>2. u \o more \in Seq(Nat)  BY MqConcat
<1>3. ASSUME NEW b, NEW p, MqHas(b, p, u \o more)
      PROVE  MQ!Message(b, p, p + Len(u \o more), cmd, q) = [MqNamed(cmd, q) EXCEPT !.id = id]
  <2>1. MqHas(b, p, u)  BY <1>3, MqHasFirst
  <2>2. MQ!GetU16(b, p) = id  BY <1>1, <2>1 DEF MqIsWord
  <2>3. MQ!Message(b, p, p + Len(u \o more), cmd, q) = [MqNamed(cmd, q) EXCEPT !.id = MQ!GetU16(b, p)]
    BY MqMessageWord
  <2> QED  BY <2>2, <2>3
<1> QED  BY <1>1, <1>2, <1>3 DEF MqMeans

\* The byte that a place has.
LEMMA MqHasAt ==
    ASSUME NEW b, NEW p, NEW s, MqHas(b, p, s), NEW i \in 1..Len(s)
    PROVE  b[p + i] = s[i]
  BY DEF MqHas

LEMMA MqMeansConnack ==
    ASSUME NEW q, NEW code \in Nat
    PROVE  MqMeans(MQ!CONNACK, q, <<0, code>>, [MqNamed(MQ!CONNACK, q) EXCEPT !.code = code])
<1>1. <<0, code>> \in Seq(Nat) /\ Len(<<0, code>>) = 2 /\ <<0, code>>[2] = code  OBVIOUS
<1>2. ASSUME NEW b, NEW p, MqHas(b, p, <<0, code>>)
      PROVE  MQ!Message(b, p, p + Len(<<0, code>>), MQ!CONNACK, q) = [MqNamed(MQ!CONNACK, q) EXCEPT !.code = code]
  <2>1. 2 \in 1..Len(<<0, code>>)  BY <1>1
  <2>2. b[p + 2] = code  BY <1>1, <1>2, <2>1, MqHasAt
  <2>3. p \in Nat  BY <1>2 DEF MqHas
  <2>4. (p + 1) + 1 = p + 2  BY <2>3
  <2>5. MQ!At(b, p + 1) = code  BY <2>2, <2>4 DEF MQ!At
  <2> QED  BY <2>5, MqMessageConnack
<1> QED  BY <1>1, <1>2 DEF MqMeans

\* A PUBLISH is read with its topic, its id if it has one, and its payload.
LEMMA MqMeansPublish ==
    ASSUME NEW q \in {0, 1, 2}, NEW topic, MqShort(topic), NEW id, MqWord(id), NEW payload \in Seq(Nat)
    PROVE  MqMeans(MQ!PUBLISH, q, (MQ!Counted(topic) \o (IF q > 0 THEN MQ!U16(id) ELSE <<>>)) \o payload,
                   MqPublished(q, topic, IF q > 0 THEN id ELSE 0, payload))
<1>1. PICK t \in Seq(Nat) : t = MQ!Counted(topic) /\ Len(t) = Len(topic) + 2
                            /\ \A b, p : MqHas(b, p, t) => MqIsString(b, p, topic)
  BY MqCounted
<1>2. PICK u \in Seq(Nat) : u = MQ!U16(id) /\ Len(u) = 2 /\ \A b, p : MqHas(b, p, u) => MqIsWord(b, p, id)
  BY MqU16
<1>3. <<>> \in Seq(Nat) /\ Len(<<>>) = 0  OBVIOUS
<1>14. PICK w : w = (IF q > 0 THEN u ELSE <<>>)  OBVIOUS
<1>4. w \in Seq(Nat) /\ Len(w) = (IF q > 0 THEN 2 ELSE 0)
  <2>1. CASE q > 0
    <3>1. w = u  BY <1>14, <2>1
    <3> QED  BY <1>2, <2>1, <3>1
  <2>2. CASE ~(q > 0)
    <3>1. w = <<>>  BY <1>14, <2>2
    <3> QED  BY <1>3, <2>2, <3>1
  <2> QED  BY <2>1, <2>2
<1>5. PICK h \in Seq(Nat) : h = t \o w /\ Len(h) = Len(t) + Len(w)  BY <1>4, MqConcat
<1>6. PICK body \in Seq(Nat) : body = h \o payload /\ Len(body) = Len(h) + Len(payload)  BY MqConcat
<1>7. PICK nt \in Nat, np \in Nat : nt = Len(topic) /\ np = Len(payload)
  <2>1. topic \in Seq(Nat)  BY DEF MqShort
  <2> QED  BY <2>1, LenProperties
<1>8. ASSUME NEW b, NEW p, MqHas(b, p, body)
      PROVE  MQ!Message(b, p, p + Len(body), MQ!PUBLISH, q)
               = MqPublished(q, topic, IF q > 0 THEN id ELSE 0, payload)
  <2>0. p \in Nat  BY <1>8 DEF MqHas
  <2>1. MqHas(b, p, h \o payload)  BY <1>6, <1>8
  <2>2. MqHas(b, p, h) /\ MqHas(b, p + Len(h), payload)  BY <2>1, MqHasBoth
  <2>3. MqHas(b, p, t \o w)  BY <1>5, <2>2
  <2>4. MqHas(b, p, t) /\ MqHas(b, p + Len(t), w)  BY <1>4, <2>3, MqHasBoth
  <2>5. MQ!StringAt(b, p) = topic /\ MQ!Behind(b, p) = p + (nt + 2)  BY <1>1, <1>7, <2>4 DEF MqIsString
  <2>6. Len(t) = nt + 2 /\ Len(h) = (nt + 2) + Len(w) /\ Len(body) = ((nt + 2) + Len(w)) + np  BY <1>1, <1>5, <1>6, <1>7
  <2>7. SubSeq(b, (p + Len(h)) + 1, (p + Len(h)) + np) = payload  BY <1>7, <2>2, MqData
  <2>8. PICK x : x = MQ!Behind(b, p)  OBVIOUS
  <2>9. MQ!Message(b, p, p + Len(body), MQ!PUBLISH, q)
          = MqPublished(q, MQ!StringAt(b, p), IF q > 0 THEN MQ!GetU16(b, x) ELSE 0,
                        SubSeq(b, (IF q > 0 THEN x + 2 ELSE x) + 1, p + Len(body)))
    BY <2>8, MqMessagePublish
  <2>10. x = p + (nt + 2)  BY <2>5, <2>8
  <2>11. CASE q > 0
    <3>1. MqHas(b, x, u)  BY <1>14, <2>4, <2>6, <2>10, <2>11
    <3>2. MQ!GetU16(b, x) = id  BY <1>2, <3>1 DEF MqIsWord
    <3>3. Len(w) = 2  BY <1>4, <2>11
    <3>4. (x + 2) + 1 = (p + Len(h)) + 1 /\ p + Len(body) = (p + Len(h)) + np  BY <2>0, <2>6, <2>10, <3>3
    <3>5. SubSeq(b, (x + 2) + 1, p + Len(body)) = payload  BY <2>7, <3>4
    <3>6. MQ!Message(b, p, p + Len(body), MQ!PUBLISH, q)
            = MqPublished(q, topic, id, payload)
      BY <2>5, <2>9, <2>11, <3>2, <3>5
    <3> QED  BY <2>11, <3>6
  <2>12. CASE ~(q > 0)
    <3>3. Len(w) = 0  BY <1>4, <2>12
    <3>4. x + 1 = (p + Len(h)) + 1 /\ p + Len(body) = (p + Len(h)) + np  BY <2>0, <2>6, <2>10, <3>3
    <3>5. SubSeq(b, x + 1, p + Len(body)) = payload  BY <2>7, <3>4
    <3>6. MQ!Message(b, p, p + Len(body), MQ!PUBLISH, q)
            = MqPublished(q, topic, 0, payload)
      BY <2>5, <2>9, <2>12, <3>5
    <3> QED  BY <2>12, <3>6
  <2> QED  BY <2>11, <2>12
<1>9. (MQ!Counted(topic) \o (IF q > 0 THEN MQ!U16(id) ELSE <<>>)) \o payload = body
  BY <1>1, <1>2, <1>14, <1>5, <1>6
<1>10. PICK m : m = MqPublished(q, topic, IF q > 0 THEN id ELSE 0, payload)
  OBVIOUS
<1>11. MqMeans(MQ!PUBLISH, q, body, m)
  <2>1. ASSUME NEW b, NEW p, MqHas(b, p, body)
        PROVE  MQ!Message(b, p, p + Len(body), MQ!PUBLISH, q) = m
    BY <1>8, <1>10, <2>1
  <2> QED  BY <1>6, <2>1 DEF MqMeans
<1> QED  BY <1>9, <1>10, <1>11

\* Each string takes more than a byte.
LEMMA MqStringsLong ==
    ASSUME NEW s \in Seq(MqStrings), NEW x \in Seq(Nat)
    PROVE  MQ!Strings(s, x) \in Seq(Nat) /\ Len(MQ!Strings(s, x)) >= Len(s)
<1>1. PICK f : MqWritten(s, x, Len(s), f) /\ MQ!Strings(s, x) = f[Len(s)]  BY MqStringsAre
<1>2. PICK L \in Nat : L = Len(s)  BY LenProperties
<1>3. f \in [0..L -> Seq(Nat)] /\ f[0] = <<>>  BY <1>1, <1>2 DEF MqWritten
<1> DEFINE S == {k \in Nat : k <= L => Len(f[k]) >= k}
<1>4. 0 \in S
  <2>1. Len(f[0]) = 0  BY <1>3
  <2> QED  BY <2>1
<1>5. ASSUME NEW k \in Nat, k \in S PROVE k + 1 \in S
  <2> SUFFICES ASSUME k + 1 <= L PROVE Len(f[k + 1]) >= k + 1  OBVIOUS
  <2>1. k \in 0..L /\ k + 1 \in 1..Len(s) /\ (k + 1) - 1 = k  BY <1>2
  <2>2. Len(f[k]) >= k  BY <1>5
  <2>3. PICK item \in Seq(Nat) : item = MqItem(s, x, k + 1) /\ Len(item) = (Len(s[k + 1]) + 2) + Len(x)
    BY <2>1, MqItemIs
  <2>4. s[k + 1] \in Seq(Nat)  BY <2>1, MqItemIs
  <2>5. PICK a \in Nat, c \in Nat : a = Len(s[k + 1]) /\ c = Len(x)  BY <2>4, LenProperties
  <2>6. f[k + 1] = f[k] \o item  BY <1>1, <2>1, <2>3 DEF MqWritten
  <2>7. PICK u \in Seq(Nat) : u = f[k]  BY <1>3, <2>1
  <2>8. PICK n \in Nat : n = Len(u)  BY LenProperties
  <2>9. Len(u \o item) = Len(u) + Len(item)  BY MqConcat
  <2>10. Len(f[k + 1]) = n + ((a + 2) + c)  BY <2>3, <2>5, <2>6, <2>7, <2>8, <2>9
  <2>11. n >= k  BY <2>2, <2>7, <2>8
  <2>12. n + ((a + 2) + c) >= k + 1  BY <2>11
  <2> QED  BY <2>10, <2>12
<1>6. L \in S
  <2> HIDE DEF S
  <2> QED  BY <1>4, <1>5, NatSet
<1>7. L \in 0..L  OBVIOUS
<1> QED  BY <1>1, <1>2, <1>3, <1>6, <1>7

LEMMA MqHasItself ==
    ASSUME NEW s \in Seq(Nat)
    PROVE  MqHas(s, 0, s)
<1>1. PICK n \in Nat : n = Len(s)  BY LenProperties
<1>2. 0 + n <= n /\ \A i \in 1..n : 0 + i = i  OBVIOUS
<1> QED  BY <1>1, <1>2 DEF MqHas

MqTopicsRead(payload, topics) == MQ!TopicsIn(payload) = topics

\* mg_mqtt_next_subscribe_topic gives the topics that were written.
LEMMA MqTopicsInRead ==
    ASSUME NEW topics \in Seq(MqStrings)
    PROVE  MqTopicsRead(MQ!Strings(topics, <<0>>), topics)
<1>1. PICK x \in Seq(Nat) : x = <<0>> /\ Len(x) = 1
  <2>1. <<0>> \in Seq(Nat) /\ Len(<<0>>) = 1  OBVIOUS
  <2> QED  BY <2>1
<1>2. PICK d \in Seq(Nat) : d = MQ!Strings(topics, x) /\ Len(d) >= Len(topics)  BY MqStringsLong
<1>3. PICK n \in Nat : n = Len(d)  BY LenProperties
<1>4. MqHas(d, 0, MQ!Strings(topics, x))  BY <1>2, MqHasItself
<1>5. n >= Len(topics)  BY <1>2, <1>3
<1>6. 0 \in Nat  OBVIOUS
<1>7. MQ!StringsFrom(d, 0, 0 + Len(MQ!Strings(topics, x)), n, Len(x)) = topics  BY <1>4, <1>5, <1>6, MqStringsRead
<1>8. 0 + Len(MQ!Strings(topics, x)) = n  BY <1>2, <1>3
<1>9. MQ!StringsFrom(d, 0, n, n, 1) = topics  BY <1>1, <1>7, <1>8
<1>10. MQ!TopicsIn(d) = topics  BY <1>3, <1>9 DEF MQ!TopicsIn
<1> QED  BY <1>1, <1>2, <1>10 DEF MqTopicsRead

\* A SUBSCRIBE is read with its id, its topics and what is behind the id.
LEMMA MqMeansSubscribe ==
    ASSUME NEW q, NEW id, MqWord(id), NEW topics \in Seq(MqStrings)
    PROVE  MqMeans(MQ!SUBSCRIBE, q, MQ!U16(id) \o MQ!TopicsAndQos(topics),
                   MqSubscribed(q, id, MQ!TopicsAndQos(topics), topics))
<1>1. PICK u \in Seq(Nat) : u = MQ!U16(id) /\ Len(u) = 2 /\ \A b, p : MqHas(b, p, u) => MqIsWord(b, p, id)
  BY MqU16
<1>2. PICK d : d = MQ!Strings(topics, <<0>>)  OBVIOUS
<1>3. d \in Seq(Nat)
  <2>1. <<0>> \in Seq(Nat)  OBVIOUS
  <2> QED  BY <1>2, <2>1, MqStringsLong
<1>4. d = MQ!TopicsAndQos(topics)  BY <1>2 DEF MQ!TopicsAndQos
<1>5. MQ!TopicsIn(d) = topics  BY <1>2, MqTopicsInRead DEF MqTopicsRead
<1>6. PICK n \in Nat : n = Len(d)  BY <1>3, LenProperties
<1>7. PICK body \in Seq(Nat) : body = u \o d /\ Len(body) = 2 + n
  <2>1. u \o d \in Seq(Nat) /\ Len(u \o d) = Len(u) + Len(d)  BY <1>3, MqConcat
  <2> QED  BY <1>1, <1>6, <2>1
<1>8. PICK m : m = MqSubscribed(q, id, d, topics)  OBVIOUS
<1>9. ASSUME NEW b, NEW p, MqHas(b, p, body) PROVE MQ!Message(b, p, p + Len(body), MQ!SUBSCRIBE, q) = m
  <2>0. p \in Nat  BY <1>9 DEF MqHas
  <2>1. MqHas(b, p, u \o d)  BY <1>7, <1>9
  <2>2. MqHas(b, p, u) /\ MqHas(b, p + Len(u), d)  BY <1>3, <2>1, MqHasBoth
  <2>3. MqHas(b, p + 2, d)  BY <1>1, <2>2
  <2>4. SubSeq(b, (p + 2) + 1, (p + 2) + n) = d  BY <1>6, <2>3, MqData
  <2>5. (p + 2) + n = p + Len(body)  BY <1>7, <2>0
  <2>6. MQ!GetU16(b, p) = id  BY <1>1, <2>2 DEF MqIsWord
  <2>7. PICK end : end = p + Len(body)  OBVIOUS
  <2>8. SubSeq(b, (p + 2) + 1, end) = d  BY <2>4, <2>5, <2>7
  <2>9. MQ!Message(b, p, end, MQ!SUBSCRIBE, q) = m  
    <3>1. MQ!Message(b, p, end, MQ!SUBSCRIBE, q)
            = MqSubscribed(q, MQ!GetU16(b, p), SubSeq(b, (p + 2) + 1, end), MQ!TopicsIn(SubSeq(b, (p + 2) + 1, end)))
      BY MqMessageSubscribe
    <3> QED  BY <1>5, <1>8, <2>6, <2>8, <3>1
  <2> QED  BY <2>7, <2>9
<1>10. MqMeans(MQ!SUBSCRIBE, q, body, m)  BY <1>7, <1>9 DEF MqMeans
<1> QED  BY <1>1, <1>4, <1>7, <1>8, <1>10

MqConnectBody(client) ==
    ((MQ!MagicAndVersion \o <<client.flags>>) \o MQ!U16(MQ!KeepAlive)) \o MQ!Strings(client.strings, <<>>)

LEMMA MqMagic ==
    /\ MQ!MagicAndVersion \in Seq(Nat) /\ Len(MQ!MagicAndVersion) = 9
    /\ MQ!MagicAndVersion[1] = 0 /\ MQ!MagicAndVersion[2] = 6
  BY DEF MQ!MagicAndVersion

\* A CONNECT is read with as many strings as its flags say.
LEMMA MqMeansConnect ==
    ASSUME NEW q, NEW client, client.flags \in Nat, client.strings \in Seq(MqStrings),
           Len(client.strings) = MQ!StringsExpected(client.flags)
    PROVE  MqMeans(MQ!CONNECT, q, MqConnectBody(client), MqConnected(q, client.strings))
<1>1. PICK flags \in Nat, s \in Seq(MqStrings) : flags = client.flags /\ s = client.strings  OBVIOUS
<1>2. PICK h \in Seq(Nat) : h = MQ!MagicAndVersion /\ Len(h) = 9 /\ h[1] = 0 /\ h[2] = 6  BY MqMagic
<1>3. PICK c \in Seq(Nat) : c = <<flags>> /\ Len(c) = 1 /\ c[1] = flags
  <2>1. <<flags>> \in Seq(Nat) /\ Len(<<flags>>) = 1 /\ <<flags>>[1] = flags  OBVIOUS
  <2> QED  BY <2>1
<1>4. PICK u \in Seq(Nat) : u = MQ!U16(MQ!KeepAlive) /\ Len(u) = 2
  <2>1. MqWord(MQ!KeepAlive)  BY SMT DEF MqWord, MQ!KeepAlive
  <2> QED  BY <2>1, MqU16
<1>5. PICK x \in Seq(Nat) : x = <<>> /\ Len(x) = 0
  <2>1. <<>> \in Seq(Nat) /\ Len(<<>>) = 0  OBVIOUS
  <2> QED  BY <2>1
<1>6. PICK d \in Seq(Nat) : d = MQ!Strings(s, x)  BY MqStringsLong
<1>7. PICK n \in Nat, l \in Nat : n = Len(d) /\ l = Len(s)  BY LenProperties
<1>8. PICK hc \in Seq(Nat) : hc = h \o c /\ Len(hc) = 10
  <2>1. h \o c \in Seq(Nat) /\ Len(h \o c) = Len(h) + Len(c)  BY MqConcat
  <2>2. Len(h \o c) = 10  BY <1>2, <1>3, <2>1
  <2> QED  BY <2>1, <2>2
<1>9. PICK hu \in Seq(Nat) : hu = hc \o u /\ Len(hu) = 12
  <2>1. hc \o u \in Seq(Nat) /\ Len(hc \o u) = Len(hc) + Len(u)  BY MqConcat
  <2>2. Len(hc \o u) = 12  BY <1>4, <1>8, <2>1
  <2> QED  BY <2>1, <2>2
<1>10. PICK body \in Seq(Nat) : body = hu \o d /\ Len(body) = 12 + n
  <2>1. hu \o d \in Seq(Nat) /\ Len(hu \o d) = Len(hu) + Len(d)  BY MqConcat
  <2> QED  BY <1>7, <1>9, <2>1
<1>11. PICK m : m = MqConnected(q, s)  OBVIOUS
<1>12. ASSUME NEW b, NEW p, MqHas(b, p, body) PROVE MQ!Message(b, p, p + Len(body), MQ!CONNECT, q) = m
  <2>0. p \in Nat  BY <1>12 DEF MqHas
  <2>1. MqHas(b, p, hu \o d)  BY <1>10, <1>12
  <2>2. MqHas(b, p, hu) /\ MqHas(b, p + Len(hu), d)  BY <2>1, MqHasBoth
  <2>3. MqHas(b, p + 12, d)  BY <1>9, <2>2
  <2>4. MqHas(b, p, hc \o u)  BY <1>9, <2>2
  <2>5. MqHas(b, p, h \o c)  BY <1>8, <2>4, MqHasFirst
  <2>6. MqHas(b, p, h) /\ MqHas(b, p + Len(h), c)  BY <2>5, MqHasBoth
  <2>7. MqHas(b, p + 9, c)  BY <1>2, <2>6
  <2>8. b[p + 1] = 0 /\ b[p + 2] = 6
    <3>1. 1 \in 1..Len(h) /\ 2 \in 1..Len(h)  BY <1>2
    <3>2. b[p + 1] = h[1]  BY <2>6, <3>1, MqHasAt
    <3>3. b[p + 2] = h[2]  BY <2>6, <3>1, MqHasAt
    <3> QED  BY <1>2, <3>2, <3>3
  <2>9. b[(p + 9) + 1] = flags
    <3>1. 1 \in 1..Len(c)  BY <1>3
    <3>2. PICK y \in Nat : y = p + 9  BY <2>0
    <3>3. MqHas(b, y, c)  BY <2>7, <3>2
    <3>4. b[y + 1] = c[1]  BY <3>1, <3>3 DEF MqHas
    <3> QED  BY <1>3, <3>2, <3>4
  <2>10. (p + 1) + 1 = p + 2 /\ p + 2 + 6 = p + 8 /\ (p + 8) + 1 = p + 9 /\ (p + 9) + 3 = p + 12  BY <2>0
  <2>11. MQ!GetU16(b, p) = 6
    <3>1. MQ!GetU16(b, p) = 256 * b[p + 1] + b[(p + 1) + 1]  BY DEF MQ!GetU16, MQ!At
    <3> QED  BY <2>8, <2>10, <3>1
  <2>12. MQ!Behind(b, p) = p + 8  BY <2>10, <2>11 DEF MQ!Behind
  <2>13. MQ!At(b, p + 9) = flags  BY <2>9 DEF MQ!At
  <2>14. PICK k : k = MQ!StringsExpected(flags)  OBVIOUS
  <2>15. k = l  BY <1>1, <1>7, <2>14
  <2>16. MQ!StringsFrom(b, p + 12, (p + 12) + n, l, 0) = s
    <3>1. PICK y \in Nat : y = p + 12  BY <2>0
    <3>2. MqHas(b, y, MQ!Strings(s, x))  BY <1>6, <2>3, <3>1
    <3>3. l >= Len(s)  BY <1>7
    <3>4. MQ!StringsFrom(b, y, y + Len(MQ!Strings(s, x)), l, Len(x)) = s  BY <3>2, <3>3, MqStringsRead
    <3> QED  BY <1>5, <1>6, <1>7, <3>1, <3>4
  <2>17. (p + 12) + n = p + Len(body)  BY <1>10, <2>0
  <2>18. PICK end : end = p + Len(body)  OBVIOUS
  <2>19. MQ!StringsFrom(b, p + 12, end, k, 0) = s  BY <2>15, <2>16, <2>17, <2>18
  <2>20. MQ!Message(b, p, end, MQ!CONNECT, q)
           = MqConnected(q, MQ!StringsFrom(b, (MQ!Behind(b, p) + 1) + 3, end,
                                           MQ!StringsExpected(MQ!At(b, MQ!Behind(b, p) + 1)), 0))
    BY MqMessageConnect
  <2>21. MQ!Behind(b, p) + 1 = p + 9  BY <2>10, <2>12
  <2>22. MQ!Message(b, p, end, MQ!CONNECT, q) = MqConnected(q, MQ!StringsFrom(b, p + 12, end, k, 0))
    BY <2>10, <2>13, <2>14, <2>20, <2>21
  <2> QED  BY <1>11, <2>18, <2>19, <2>22
<1>13. MqMeans(MQ!CONNECT, q, body, m)  BY <1>10, <1>12 DEF MqMeans
<1>14. body = MqConnectBody(client)  BY <1>1, <1>2, <1>3, <1>4, <1>5, <1>6, <1>8, <1>9, <1>10 DEF MqConnectBody
<1> QED  BY <1>1, <1>11, <1>13, <1>14
-----------------------------------------------------------------------------
(* A packet: its first byte, its length and what it is about.                   *)

MqMessage == [cmd : Nat, qos : {0, 1, 2}, id : Nat, code : Nat,
              topic : Seq(Nat), payload : Seq(Nat), strings : Seq(Seq(Nat))]

\* The first byte, and the two numbers in it that the parser reads.
MqFirst(x, cmd, q) == x \in Nat /\ x \div 16 = cmd /\ ((x % 16) \div 2) % 4 = q

MqPacketIs(e, m) ==
    \E x \in Nat, r, body \in Seq(Nat), k \in 1..4, cmd \in Nat, q \in Nat :
        /\ e = <<x>> \o (r \o body)
        /\ MqFirst(x, cmd, q) /\ MqMeans(cmd, q, body, m)
        /\ MqLengthIs(Len(body), k, r) /\ MqValue(r, k) = Len(body)

LEMMA MqByteIs ==
    ASSUME NEW x \in Nat
    PROVE  <<x>> \in Seq(Nat) /\ Len(<<x>>) = 1 /\ <<x>>[1] = x
  OBVIOUS

\* A packet and its parts.
MqParts(e, x, r, body, k) ==
    /\ e \in Seq(Nat) /\ Len(e) = 1 + (k + Len(body)) /\ Len(r) = k
    /\ \A b, p : MqHas(b, p, e) => b[p + 1] = x /\ MqHas(b, p + 1, r) /\ MqHas(b, (p + 1) + k, body)

LEMMA MqPartsOf ==
    ASSUME NEW x \in Nat, NEW r \in Seq(Nat), NEW body \in Seq(Nat), NEW k \in 1..4, Len(r) = k
    PROVE  MqParts(<<x>> \o (r \o body), x, r, body, k)
<1>1. PICK c \in Seq(Nat) : c = <<x>> /\ Len(c) = 1 /\ c[1] = x  BY MqByteIs
<1>2. PICK t \in Seq(Nat) : t = r \o body /\ Len(t) = Len(r) + Len(body)  BY MqConcat
<1>3. PICK e \in Seq(Nat) : e = c \o t /\ Len(e) = Len(c) + Len(t)  BY MqConcat
<1>4. Len(e) = 1 + (k + Len(body))  BY <1>1, <1>2, <1>3
<1>5. ASSUME NEW b, NEW p, MqHas(b, p, e)
      PROVE  b[p + 1] = x /\ MqHas(b, p + 1, r) /\ MqHas(b, (p + 1) + k, body)
  <2>1. MqHas(b, p, c \o t)  BY <1>3, <1>5
  <2>2. MqHas(b, p, c) /\ MqHas(b, p + Len(c), t)  BY <2>1, MqHasBoth
  <2>3. 1 \in 1..Len(c)  BY <1>1
  <2>4. b[p + 1] = c[1]  BY <2>2, <2>3, MqHasAt
  <2>5. MqHas(b, p + 1, r \o body)  BY <1>1, <1>2, <2>2
  <2>6. MqHas(b, p + 1, r) /\ MqHas(b, (p + 1) + Len(r), body)  BY <2>5, MqHasBoth
  <2> QED  BY <1>1, <2>4, <2>6
<1>6. MqParts(e, x, r, body, k)  BY <1>3, <1>4, <1>5 DEF MqParts
<1> QED  BY <1>1, <1>2, <1>3, <1>6

\* The last byte of the length is where it ends.
MqEndsWith(b, size, k, r) == MqEnd(b, size, k) /\ \A j \in 1..k : MQ!At(b, j) = r[j]

LEMMA MqLengthEnds ==
    ASSUME NEW b, NEW size \in Nat, NEW n, NEW k \in 1..4, NEW r, MqLengthIs(n, k, r), MqHas(b, 1, r)
    PROVE  MqEndsWith(b, size, k, r)
<1>1. ASSUME NEW j \in 1..k PROVE MQ!At(b, j) = r[j]
  <2>1. j \in 1..Len(r) /\ 1 + j = j + 1  BY DEF MqLengthIs
  <2>2. b[1 + j] = r[j]  BY <2>1, MqHasAt
  <2> QED  BY <2>1, <2>2 DEF MQ!At
<1>2. k \in 1..k /\ \A j \in 1..(k - 1) : j \in 1..k  OBVIOUS
<1>3. MQ!At(b, k) = r[k] /\ r[k] < 128  BY <1>1, <1>2 DEF MqLengthIs
<1>4. \A j \in 1..(k - 1) : MQ!At(b, j) >= 128
  <2> TAKE j \in 1..(k - 1)
  <2>1. MQ!At(b, j) = r[j]  BY <1>1, <1>2
  <2>2. r[j] >= 128  BY DEF MqLengthIs
  <2> QED  BY <2>1, <2>2
<1>5. MQ!At(b, k) < 128  BY <1>3
<1> QED  BY <1>1, <1>4, <1>5 DEF MqEnd, MqEndsWith

\* What parse_mqtt makes of a buffer that has a whole packet.
MqReads(b, size, n, m) == MQ!ParseMqtt(b, size) = [end |-> n, message |-> m]

\* parse_mqtt reads a packet that is whole, whatever is behind it.
LEMMA MqWhole ==
    ASSUME NEW buf0 \in Seq(Nat), NEW g \in Nat, NEW e, NEW m, MqPacketIs(e, m), MqHas(buf0, 0, e)
    PROVE  /\ MqReads(Append(buf0, g), Len(buf0), Len(e), m)
           /\ Len(e) >= 2 /\ Len(e) <= Len(buf0)
<1>1. PICK x \in Nat, r \in Seq(Nat), body \in Seq(Nat), k \in 1..4, cmd \in Nat, q \in Nat :
        /\ e = <<x>> \o (r \o body)
        /\ MqFirst(x, cmd, q) /\ MqMeans(cmd, q, body, m)
        /\ MqLengthIs(Len(body), k, r) /\ MqValue(r, k) = Len(body)
  BY DEF MqPacketIs
<1>2. Len(r) = k  BY <1>1 DEF MqLengthIs
<1>3. MqParts(e, x, r, body, k)  BY <1>1, <1>2, MqPartsOf
<1>4. PICK n \in Nat, size \in Nat : n = Len(body) /\ size = Len(buf0)  BY LenProperties
<1>5. e \in Seq(Nat) /\ Len(e) = 1 + (k + n)  BY <1>3, <1>4 DEF MqParts
<1>6. 1 + (k + n) <= size
  <2>1. 0 + Len(e) <= Len(buf0)  BY DEF MqHas
  <2> QED  BY <1>4, <1>5, <2>1
<1>7. PICK c \in Seq(Nat) : c = <<g>> /\ Len(c) = 1 /\ c[1] = g  BY MqByteIs
<1>8. PICK b \in Seq(Nat) : b = buf0 \o c /\ Len(b) = size + 1
  <2>1. buf0 \o c \in Seq(Nat) /\ Len(buf0 \o c) = Len(buf0) + Len(c)  BY MqConcat
  <2>2. Len(buf0 \o c) = size + 1  BY <1>4, <1>7, <2>1
  <2> QED  BY <2>1, <2>2
<1>9. b = Append(buf0, g)
  <2>1. buf0 \o <<g>> = Append(buf0, g)  BY AppendIsConcat
  <2> QED  BY <1>7, <1>8, <2>1
<1>10. MqHas(b, 0, e)  BY <1>8, MqHasMore
<1>11. b[0 + 1] = x /\ MqHas(b, 0 + 1, r) /\ MqHas(b, (0 + 1) + k, body)  BY <1>3, <1>10 DEF MqParts
<1>12. PICK s \in Nat : s = k + 1  OBVIOUS
<1>13. 0 + 1 = 1 /\ (0 + 1) + k = s  BY <1>12
<1>14. b[1] = x /\ MqHas(b, 1, r) /\ MqHas(b, s, body)  BY <1>11, <1>13
<1>15. MqEnd(b, size, k) /\ \A j \in 1..k : MQ!At(b, j) = r[j]
  <2>1. MqLengthIs(Len(body), k, r)  BY <1>1
  <2>2. MqHas(b, 1, r)  BY <1>14
  <2>3. MqEndsWith(b, size, k, r)  BY <2>1, <2>2, MqLengthEnds
  <2> QED  BY <2>3 DEF MqEndsWith
<1>16. ASSUME NEW j \in 1..size PROVE MQ!At(b, j) \in Nat
  <2>1. j + 1 \in 1..Len(b)  BY <1>8
  <2>2. b[j + 1] \in Nat  BY <2>1, ElementOfSeq
  <2> QED  BY <2>2 DEF MQ!At
<1>17. MQ!Decoded(b, size) = [p |-> k + 1, len |-> MqValue(r, k)]
  <2>1. k <= size /\ k <= Len(r)  BY <1>2, <1>6
  <2> QED  BY <1>15, <1>16, <2>1, MqDecoded
<1>18. MQ!Decoded(b, size).p = s /\ MQ!Decoded(b, size).len = n  BY <1>1, <1>4, <1>12, <1>17
<1>19. MQ!At(b, 0) = x
  <2>1. MQ!At(b, 0) = b[0 + 1]  BY DEF MQ!At
  <2> QED  BY <1>11, <2>1
<1>20. MQ!Message(b, s, s + n, cmd, q) = m  BY <1>1, <1>4, <1>14 DEF MqMeans
<1>21. ~(size < 2 \/ s + n > size) /\ s + n = Len(e)  BY <1>5, <1>6, <1>12
<1>22. MQ!ParseMqtt(b, size) = [end |-> s + n, message |-> MQ!Message(b, s, s + n, x \div 16, ((x % 16) \div 2) % 4)]
  BY <1>18, <1>19, <1>21 DEF MQ!ParseMqtt
<1>23. x \div 16 = cmd /\ ((x % 16) \div 2) % 4 = q  BY <1>1 DEF MqFirst
<1>24. MQ!ParseMqtt(b, size) = [end |-> Len(e), message |-> m]  BY <1>20, <1>21, <1>22, <1>23
<1>25. Len(e) >= 2 /\ Len(e) <= size  BY <1>5, <1>6
<1> QED  BY <1>4, <1>9, <1>24, <1>25 DEF MqReads

\* s begins in b, and goes on behind it.
MqCutIn(b, s) ==
    /\ b \in Seq(Nat) /\ s \in Seq(Nat) /\ Len(b) < Len(s)
    /\ \A i \in 1..Len(b) : b[i] = s[i]

\* parse_mqtt reads nothing of a packet that is cut, its length's bytes included.
LEMMA MqCut ==
    ASSUME NEW buf0, NEW g \in Nat, NEW e, NEW m, MqPacketIs(e, m), MqCutIn(buf0, e), Len(buf0) >= 2
    PROVE  MQ!ParseMqtt(Append(buf0, g), Len(buf0)) = MQ!Incomplete
<1>1. PICK x \in Nat, r \in Seq(Nat), body \in Seq(Nat), k \in 1..4, cmd \in Nat, q \in Nat :
        /\ e = <<x>> \o (r \o body)
        /\ MqFirst(x, cmd, q) /\ MqMeans(cmd, q, body, m)
        /\ MqLengthIs(Len(body), k, r) /\ MqValue(r, k) = Len(body)
  BY DEF MqPacketIs
<1>2. Len(r) = k  BY <1>1 DEF MqLengthIs
<1>3. MqParts(e, x, r, body, k)  BY <1>1, <1>2, MqPartsOf
<1>0. buf0 \in Seq(Nat)  BY DEF MqCutIn
<1>4. PICK n \in Nat, size \in Nat : n = Len(body) /\ size = Len(buf0)  BY <1>0, LenProperties
<1>5. e \in Seq(Nat) /\ Len(e) = 1 + (k + n)  BY <1>3, <1>4 DEF MqParts
<1>6. size < 1 + (k + n) /\ size >= 2 /\ \A i \in 1..size : buf0[i] = e[i]  BY <1>4, <1>5 DEF MqCutIn
<1>7. PICK c \in Seq(Nat) : c = <<g>> /\ Len(c) = 1 /\ c[1] = g  BY MqByteIs
<1>8. PICK b \in Seq(Nat) : b = buf0 \o c /\ Len(b) = size + 1 /\ \A i \in 1..size : b[i] = e[i]
  <2>1. /\ buf0 \o c \in Seq(Nat) /\ Len(buf0 \o c) = Len(buf0) + Len(c)
        /\ \A i \in 1..Len(buf0) : (buf0 \o c)[i] = buf0[i]
    BY <1>0, MqConcat
  <2>2. Len(buf0 \o c) = size + 1  BY <1>4, <1>7, <2>1
  <2>3. \A i \in 1..size : (buf0 \o c)[i] = e[i]  BY <1>4, <1>6, <2>1
  <2> QED  BY <2>1, <2>2, <2>3
<1>9. b = Append(buf0, g)
  <2>1. buf0 \o <<g>> = Append(buf0, g)  BY <1>0, AppendIsConcat
  <2> QED  BY <1>7, <1>8, <2>1
<1>10. ASSUME NEW j \in 1..size PROVE MQ!At(b, j) \in Nat
  <2>1. j + 1 \in 1..Len(b)  BY <1>8
  <2>2. b[j + 1] \in Nat  BY <2>1, ElementOfSeq
  <2> QED  BY <2>2 DEF MQ!At
<1>11. ASSUME NEW j \in 1..k, j + 1 <= size PROVE MQ!At(b, j) = r[j]
  <2>1. MqHas(e, 0, e)  BY <1>5, MqHasItself
  <2>2. MqHas(e, 0 + 1, r)  BY <1>3, <2>1 DEF MqParts
  <2>3. MqHas(e, 1, r)  BY <2>2
  <2>4. j \in 1..Len(r)  BY <1>2
  <2>5. e[1 + j] = r[j]  BY <2>3, <2>4 DEF MqHas
  <2>6. 1 + j = j + 1 /\ j + 1 \in 1..size  BY <1>11
  <2>7. b[j + 1] = r[j]  BY <1>8, <2>5, <2>6
  <2> QED  BY <2>7 DEF MQ!At
<1>12. \A j \in 1..(k - 1) : r[j] >= 128  BY <1>1 DEF MqLengthIs
\* The length is whole: what it counts is not.
<1>13. CASE k + 1 <= size
  <2>1. MqEnd(b, size, k) /\ \A j \in 1..k : MQ!At(b, j) = r[j]
    <3>1. \A j \in 1..k : MQ!At(b, j) = r[j]
      <4> TAKE j \in 1..k
      <4>1. j + 1 <= size  BY <1>13
      <4> QED  BY <1>11, <4>1
    <3>2. \A j \in 1..(k - 1) : MQ!At(b, j) >= 128
      <4> TAKE j \in 1..(k - 1)
      <4>1. j \in 1..k  OBVIOUS
      <4>2. MQ!At(b, j) = r[j]  BY <3>1, <4>1
      <4> QED  BY <1>12, <4>2
    <3>3. MQ!At(b, k) < 128
      <4>1. k \in 1..k  OBVIOUS
      <4>2. MQ!At(b, k) = r[k]  BY <3>1, <4>1
      <4>3. r[k] < 128  BY <1>1 DEF MqLengthIs
      <4> QED  BY <4>2, <4>3
    <3> QED  BY <3>1, <3>2, <3>3 DEF MqEnd
  <2>2. MQ!Decoded(b, size) = [p |-> k + 1, len |-> MqValue(r, k)]
    <3>1. k <= size /\ k <= Len(r)  BY <1>2, <1>13
    <3> QED  BY <1>10, <2>1, <3>1, MqDecoded
  <2>3. MQ!Decoded(b, size).p = k + 1 /\ MQ!Decoded(b, size).len = n  BY <1>1, <1>4, <2>2
  <2>4. (k + 1) + n > size  BY <1>6
  <2>5. MQ!ParseMqtt(b, size) = MQ!Incomplete  BY <2>3, <2>4 DEF MQ!ParseMqtt
  <2> QED  BY <1>4, <1>9, <2>5
\* The length is cut: the byte behind the buffer is taken for its last.
<1>14. CASE ~(k + 1 <= size)
  <2>1. size \in 1..4 /\ size - 1 < k /\ size <= k  BY <1>6, <1>14
  <2>2. PICK r0 : r0 = MqPart(b, 1, size)  OBVIOUS
  <2>3. r0 \in Seq(Nat) /\ Len(r0) = size /\ \A i \in 1..size : r0[i] = b[1 + i]
    <3>1. PICK y \in Nat : y = 1  OBVIOUS
    <3>2. y + size <= Len(b)  BY <1>8, <3>1
    <3>3. /\ MqPart(b, y, size) \in Seq(Nat) /\ Len(MqPart(b, y, size)) = size
          /\ \A i \in 1..size : MqPart(b, y, size)[i] = b[y + i]
      BY <3>2, MqSub
    <3> QED  BY <2>2, <3>1, <3>3
  <2>4. \A j \in 1..size : MQ!At(b, j) = r0[j]
    <3> TAKE j \in 1..size
    <3>1. 1 + j = j + 1  OBVIOUS
    <3> QED  BY <2>3, <3>1 DEF MQ!At
  <2>5. \A j \in 1..(size - 1) : MQ!At(b, j) >= 128
    <3> TAKE j \in 1..(size - 1)
    <3>1. j \in 1..k /\ j + 1 <= size /\ j \in 1..(k - 1)  BY <2>1
    <3>2. MQ!At(b, j) = r[j]  BY <1>11, <3>1
    <3> QED  BY <1>12, <3>1, <3>2
  <2>6. MqEnd(b, size, size)  BY <2>5 DEF MqEnd
  <2>7. MQ!Decoded(b, size) = [p |-> size + 1, len |-> MqValue(r0, size)]
    <3>1. PICK z \in 1..4 : z = size  BY <2>1
    <3>2. z <= size /\ z <= Len(r0)  BY <2>3, <3>1
    <3>3. MqEnd(b, size, z) /\ \A j \in 1..z : MQ!At(b, j) = r0[j]  BY <2>4, <2>6, <3>1
    <3>4. r0 \in Seq(Nat)  BY <2>3
    <3>5. MQ!Decoded(b, size) = [p |-> z + 1, len |-> MqValue(r0, z)]  BY <1>10, <3>2, <3>3, <3>4, MqDecoded
    <3> QED  BY <3>1, <3>5
  <2>8. MqValue(r0, size) \in Nat
    <3>1. PICK z \in 1..4 : z = size  BY <2>1
    <3>2. z <= Len(r0) /\ r0 \in Seq(Nat)  BY <2>3, <3>1
    <3> QED  BY <3>1, <3>2, MqValueMore
  <2>9. PICK v \in Nat : v = MqValue(r0, size)  BY <2>8
  <2>10. MQ!Decoded(b, size).p = size + 1 /\ MQ!Decoded(b, size).len = v  BY <2>7, <2>9
  <2>11. (size + 1) + v > size  OBVIOUS
  <2>12. MQ!ParseMqtt(b, size) = MQ!Incomplete  BY <2>10, <2>11 DEF MQ!ParseMqtt
  <2> QED  BY <1>4, <1>9, <2>12
<1> QED  BY <1>13, <1>14
-----------------------------------------------------------------------------
(* What the functions that build packets append to the send buffer.            *)

MqMade(w, bytes, m) == \E e \in Seq(Nat) : MqPacketIs(e, m) /\ bytes = w \o e

LEMMA MqConcatParts ==
    ASSUME NEW s \in Seq(Nat), NEW t \in Seq(Nat), NEW n \in Nat, n = Len(t)
    PROVE  /\ SubSeq(s \o t, 1, Len(s \o t) - n) = s
           /\ SubSeq(s \o t, (Len(s \o t) - n) + 1, Len(s \o t)) = t
<1>1. PICK u \in Seq(Nat) : u = s \o t /\ Len(u) = Len(s) + Len(t)  BY MqConcat
<1>2. PICK l \in Nat : l = Len(s)  BY LenProperties
<1>3. MqHas(u, 0, s \o t)  BY <1>1, MqHasItself
<1>4. MqHas(u, 0, s) /\ MqHas(u, 0 + Len(s), t)  BY <1>3, MqHasBoth
<1>5. Len(u) - n = l /\ 0 + l = l /\ Len(u) = l + n /\ 0 + 1 = 1  BY <1>1, <1>2
<1>6. SubSeq(u, 0 + 1, 0 + Len(s)) = s  BY <1>4, MqData
<1>7. MqHas(u, l, t)  BY <1>2, <1>4, <1>5
<1>8. SubSeq(u, l + 1, l + Len(t)) = t  BY <1>7, MqData
<1> QED  BY <1>1, <1>2, <1>5, <1>6, <1>8

LEMMA MqFirstByte ==
    ASSUME NEW cmd \in 1..14, NEW flags \in 0..15
    PROVE  16 * cmd + flags \in Nat /\ MqFirst(16 * cmd + flags, cmd, (flags \div 2) % 4)
<1>1. PICK x \in Nat : x = 16 * cmd + flags  BY SMT
<1>2. x \div 16 = cmd  BY <1>1, SMT
<1>3. x % 16 = flags  BY <1>1, SMT
<1> QED  BY <1>1, <1>2, <1>3 DEF MqFirst

MqGrouped(a, b, c) == (a \o b) \o c = a \o (b \o c)
MqHeaderGrouped(w, c, r, t) == ((w \o c) \o r) \o t = w \o (c \o (r \o t))

LEMMA MqGroup ==
    ASSUME NEW a \in Seq(Nat), NEW b \in Seq(Nat), NEW c \in Seq(Nat)
    PROVE  MqGrouped(a, b, c)
  BY MqAssoc DEF MqGrouped

LEMMA MqHeaderAssoc ==
    ASSUME NEW w \in Seq(Nat), NEW c \in Seq(Nat), NEW r \in Seq(Nat), NEW t \in Seq(Nat)
    PROVE  MqHeaderGrouped(w, c, r, t)
<1>1. PICK rt \in Seq(Nat) : rt = r \o t  BY MqConcat
<1>2. PICK wc \in Seq(Nat) : wc = w \o c  BY MqConcat
<1>3. PICK x : x = (wc \o r) \o t  OBVIOUS
<1>9. MqGrouped(wc, r, t)  BY MqGroup
<1>6. x = wc \o (r \o t)  BY <1>3, <1>9 DEF MqGrouped
<1>7. x = (w \o c) \o rt  BY <1>1, <1>2, <1>6
<1>8. MqGrouped(w, c, rt)  BY MqGroup
<1>4. x = w \o (c \o rt)  BY <1>7, <1>8 DEF MqGrouped
<1> QED  BY <1>1, <1>2, <1>3, <1>4 DEF MqHeaderGrouped

\* mg_mqtt_prepend_header makes a packet of what is at the end of the buffer.
LEMMA MqPacketMade ==
    ASSUME NEW w \in Seq(Nat), NEW cmd \in 1..14, NEW flags \in 0..15, NEW body \in Seq(Nat), NEW m,
           MqMeans(cmd, (flags \div 2) % 4, body, m), MqFits(Len(body))
    PROVE  MqMade(w, MQ!PrependHeader(w \o body, cmd, flags, Len(body)), m)
<1>1. PICK n \in Nat : n = Len(body)  BY LenProperties
<1>2. PICK r : r = MQ!RemainingLength(n)  OBVIOUS
<1>3. PICK k \in 1..4 : MqLengthIs(n, k, r) /\ MqValue(r, k) = n  BY <1>1, <1>2, MqLengthWritten
<1>4. r \in Seq(Nat)  BY <1>3 DEF MqLengthIs
<1>5. PICK x \in Nat : x = 16 * cmd + flags /\ MqFirst(x, cmd, (flags \div 2) % 4)  BY MqFirstByte
<1>6. PICK c \in Seq(Nat) : c = <<x>>  BY MqByteIs
<1>7. PICK e \in Seq(Nat) : e = c \o (r \o body)
  <2>1. r \o body \in Seq(Nat)  BY <1>4, MqConcat
  <2>2. c \o (r \o body) \in Seq(Nat)  BY <2>1, MqConcat
  <2> QED  BY <2>2
<1>12. cmd \in Nat /\ (flags \div 2) % 4 \in Nat  BY SMT
<1>8. MqPacketIs(e, m)  BY <1>1, <1>3, <1>4, <1>5, <1>6, <1>7, <1>12 DEF MqPacketIs
<1>9. MQ!PrependHeader(w \o body, cmd, flags, n)
        = ((SubSeq(w \o body, 1, Len(w \o body) - n) \o c) \o r) \o SubSeq(w \o body, (Len(w \o body) - n) + 1, Len(w \o body))
  BY <1>2, <1>5, <1>6 DEF MQ!PrependHeader
<1>10. MQ!PrependHeader(w \o body, cmd, flags, n) = ((w \o c) \o r) \o body
  <2>1. SubSeq(w \o body, 1, Len(w \o body) - n) = w  BY <1>1, MqConcatParts
  <2>2. SubSeq(w \o body, (Len(w \o body) - n) + 1, Len(w \o body)) = body  BY <1>1, MqConcatParts
  <2> QED  BY <1>9, <2>1, <2>2
<1>11. ((w \o c) \o r) \o body = w \o e
  <2>1. MqHeaderGrouped(w, c, r, body)  BY <1>4, MqHeaderAssoc
  <2> QED  BY <1>7, <2>1 DEF MqHeaderGrouped
<1> QED  BY <1>1, <1>8, <1>10, <1>11 DEF MqMade

\* mg_send_mqtt_handshake_opt makes a packet if its length fits one byte.
LEMMA MqHandshakeMade ==
    ASSUME NEW w \in Seq(Nat), NEW client, client.flags \in Nat, client.strings \in Seq(MqStrings),
           Len(client.strings) = MQ!StringsExpected(client.flags), Len(MQ!Handshake(client)) < 2 + 128
    PROVE  MqMade(w, w \o MQ!Handshake(client), MqConnected(0, client.strings))
<1>1. PICK body : body = MqConnectBody(client)  OBVIOUS
<1>2. MqMeans(MQ!CONNECT, 0, body, MqConnected(0, client.strings))  BY <1>1, MqMeansConnect
<1>3. body \in Seq(Nat)  BY <1>2 DEF MqMeans
<1>4. PICK n \in Nat : n = Len(body)  BY <1>3, LenProperties
<1>5. MQ!Handshake(client) = <<16 * MQ!CONNECT, n % 256>> \o body
  BY <1>1, <1>4 DEF MQ!Handshake, MqConnectBody
<1>6. PICK x \in Nat : x = 16 * MQ!CONNECT /\ MqFirst(x, MQ!CONNECT, 0)
  <2>1. MQ!CONNECT \in 1..14 /\ 0 \in 0..15  BY DEF MQ!CONNECT
  <2>2. 16 * MQ!CONNECT + 0 \in Nat /\ MqFirst(16 * MQ!CONNECT + 0, MQ!CONNECT, (0 \div 2) % 4)  BY <2>1, MqFirstByte
  <2>3. 16 * MQ!CONNECT + 0 = 16 * MQ!CONNECT  BY <2>1
  <2>4. (0 \div 2) % 4 = 0  BY SMT
  <2> QED  BY <2>2, <2>3, <2>4
<1>7. PICK y \in Nat : y = n % 256  OBVIOUS
<1>8. <<x, y>> \in Seq(Nat) /\ Len(<<x, y>>) = 2  OBVIOUS
<1>9. n < 128
  <2>1. Len(<<x, y>> \o body) = 2 + n  BY <1>3, <1>4, <1>8, MqConcat
  <2>2. MQ!Handshake(client) = <<x, y>> \o body  BY <1>5, <1>6, <1>7
  <2>3. 2 + n < 2 + 128  BY <2>1, <2>2
  <2> QED  BY <2>3, SMT
<1>10. y = n  BY <1>7, <1>9, SMTT(30)
<1>11. PICK r \in Seq(Nat) : r = <<y>> /\ Len(r) = 1 /\ r[1] = y  BY MqByteIs
<1>12. MqLengthIs(n, 1, r)
  <2>1. \A i \in 1..(1 - 1) : r[i] >= 128  BY SMT
  <2>2. r[1] < 128  BY <1>9, <1>10, <1>11, SMT
  <2>3. 1 \in 1..4  BY SMT
  <2> QED  BY <1>11, <2>1, <2>2, <2>3 DEF MqLengthIs
<1>13. MqValue(r, 1) = n
  <2>1. MqValue(r, 1) = (r[1] % 128) * MqScale(1)  BY SMT DEF MqValue, MqDigit
  <2>2. MqScale(1) = 1  BY MqScales, SMT
  <2>3. r[1] % 128 = n  BY <1>9, <1>10, <1>11, SMT
  <2> QED  BY <2>1, <2>2, <2>3, SMT
<1>14. PICK c \in Seq(Nat) : c = <<x>>  BY MqByteIs
<1>15. PICK e \in Seq(Nat) : e = c \o (r \o body)
  <2>1. r \o body \in Seq(Nat)  BY <1>3, MqConcat
  <2>2. c \o (r \o body) \in Seq(Nat)  BY <2>1, MqConcat
  <2> QED  BY <2>2
<1>16. MqPacketIs(e, MqConnected(0, client.strings))
  <2>1. 1 \in 1..4  BY SMT
  <2>2. e = <<x>> \o (r \o body)  BY <1>14, <1>15
  <2>3. MQ!CONNECT \in Nat /\ 0 \in Nat  BY DEF MQ!CONNECT
  <2> QED  BY <1>2, <1>3, <1>4, <1>6, <1>12, <1>13, <2>1, <2>2, <2>3 DEF MqPacketIs
<1>17. MQ!Handshake(client) = e
  <2>1. c \o r = <<x, y>>
    <3>1. PICK u \in Seq(Nat) : u = c \o r /\ Len(u) = Len(c) + Len(r)  BY MqConcat
    <3>2. Len(c) = 1 /\ c[1] = x  BY <1>14
    <3>3. 1 \in 1..Len(c) /\ 1 \in 1..Len(r) /\ Len(c) + 1 = 2  BY <1>11, <3>2
    <3>4. u[1] = c[1]  BY <3>1, <3>3, MqConcat
    <3>5. u[Len(c) + 1] = r[1]  BY <3>1, <3>3, MqConcat
    <3>6. Len(u) = 2 /\ u[1] = x /\ u[2] = y  BY <1>11, <3>1, <3>2, <3>3, <3>4, <3>5
    <3>7. PICK v \in Seq(Nat) : v = <<x, y>> /\ Len(v) = 2 /\ v[1] = x /\ v[2] = y
      <4>1. <<x, y>> \in Seq(Nat) /\ Len(<<x, y>>) = 2 /\ <<x, y>>[1] = x /\ <<x, y>>[2] = y  OBVIOUS
      <4> QED  BY <4>1
    <3>8. \A i \in 1..Len(u) : u[i] = v[i]  BY <3>6, <3>7
    <3>9. u = v  BY <3>6, <3>7, <3>8, SeqEqual
    <3> QED  BY <3>1, <3>7, <3>9
  <2>2. (c \o r) \o body = c \o (r \o body)  BY <1>3, MqAssoc, ZenonT(30)
  <2> QED  BY <1>5, <1>6, <1>7, <1>15, <2>1, <2>2
<1> QED  BY <1>16, <1>17 DEF MqMade
-----------------------------------------------------------------------------
(* What the inputs are.                                                         *)

LEMMA MqTopicsShort ==
    ASSUME NEW topic \in MqttTopics
    PROVE  MqShort(topic)
<1>1. topic \in Seq(Nat) /\ Len(topic) < 65536  BY MqttAssumption, SMT
<1>2. Len(topic) \in Nat  BY <1>1, LenProperties
<1> QED  BY <1>1, <1>2, SMT DEF MqShort, MqWord

LEMMA MqIdsWords ==
    ASSUME NEW id \in MqttIds
    PROVE  MqWord(id)
  BY MqttAssumption, SMT DEF MqWord

\* The length of a PUBLISH fits four bytes.
LEMMA MqPublishFits ==
    ASSUME NEW topic \in MqttTopics, NEW payload \in MqttPayloads, NEW l \in 0..2
    PROVE  /\ payload \in Seq(Nat)
           /\ MqFits(((Len(topic) + 2) + l) + Len(payload))
<1>1. topic \in Seq(Nat) /\ Len(topic) < 65536  BY MqttAssumption, SMT
<1>2. payload \in Seq(Nat) /\ Len(payload) + 65539 < 128 ^ 4  BY MqttAssumption, SMT
<1>3. PICK n \in Nat, p \in Nat : n = Len(topic) /\ p = Len(payload)  BY <1>1, <1>2, LenProperties
<1>4. p + 65539 < 268435456  BY <1>2, <1>3, MqPowers, SMT
<1>5. n < 65536  BY <1>1, <1>3, SMT
<1>6. ((n + 2) + l) + p < 268435456  BY <1>4, <1>5, SMT
<1>7. ((n + 2) + l) + p \in Nat  BY SMT
<1>8. MqFits(((n + 2) + l) + p)  BY <1>6, <1>7, MqPowers, SMT DEF MqFits
<1> QED  BY <1>2, <1>3, <1>8

\* What SUBSCRIBE and UNSUBSCRIBE say is short enough.
LEMMA MqSubscribeFits ==
    ASSUME NEW s \in Seq(MqStrings), Len(s) \in 1..2, NEW x \in Seq(Nat), Len(x) \in 0..1
    PROVE  MqFits(2 + Len(MQ!Strings(s, x)))
<1>1. PICK f : MqWritten(s, x, Len(s), f) /\ MQ!Strings(s, x) = f[Len(s)]  BY MqStringsAre
<1>2. PICK l \in 0..1, L \in 1..2 : l = Len(x) /\ L = Len(s)  OBVIOUS
<1>3. f \in [0..L -> Seq(Nat)] /\ f[0] = <<>>  BY <1>1, <1>2 DEF MqWritten
<1>4. ASSUME NEW i \in 1..L PROVE Len(f[i]) <= Len(f[i - 1]) + 65538
  <2>1. i \in 1..Len(s) /\ i - 1 \in 0..L  BY <1>2, SMT
  <2>2. PICK item \in Seq(Nat) : item = MqItem(s, x, i) /\ Len(item) = (Len(s[i]) + 2) + Len(x)
    BY <2>1, MqItemIs
  <2>3. MqShort(s[i])  BY <2>1, MqItemIs
  <2>4. PICK n \in Nat : n = Len(s[i]) /\ n < 65536  BY <2>3, SMT DEF MqShort, MqWord
  <2>5. PICK u \in Seq(Nat) : u = f[i - 1]  BY <1>3, <2>1
  <2>6. f[i] = u \o item  BY <1>1, <2>1, <2>2, <2>5 DEF MqWritten
  <2>7. Len(u \o item) = Len(u) + Len(item)  BY MqConcat
  <2>8. Len(u) \in Nat  BY LenProperties
  <2>11. Len(item) = (n + 2) + l  BY <1>2, <2>2, <2>4
  <2>12. (n + 2) + l <= 65538  BY <2>4, SMT
  <2>9. Len(item) <= 65538  BY <2>11, <2>12
  <2>10. Len(item) \in Nat  BY LenProperties
  <2> QED  BY <2>5, <2>6, <2>7, <2>8, <2>9, <2>10, SMT
<1>5. Len(f[0]) = 0  BY <1>3
<1>6. PICK a \in Nat : a = Len(f[1])
  <2>1. 1 \in 0..L  BY SMT
  <2>2. f[1] \in Seq(Nat)  BY <1>3, <2>1
  <2> QED  BY <2>2, LenProperties
<1>7. a <= 65538
  <2>1. 1 \in 1..L /\ 1 - 1 = 0  BY SMT
  <2>2. Len(f[1]) <= Len(f[0]) + 65538  BY <1>4, <2>1, SMT
  <2> QED  BY <1>5, <1>6, <2>2, SMT
<1>8. PICK n \in Nat : n = Len(f[L])
  <2>1. L \in 0..L  BY SMT
  <2>2. f[L] \in Seq(Nat)  BY <1>3, <2>1
  <2> QED  BY <2>2, LenProperties
<1>9. n <= 131076
  <2>1. CASE L = 1  BY <1>6, <1>7, <1>8, <2>1, SMT
  <2>2. CASE L = 2
    <3>1. 2 \in 1..L /\ 2 - 1 = 1  BY <2>2, SMT
    <3>2. Len(f[2]) <= Len(f[1]) + 65538  BY <1>4, <3>1, SMT
    <3> QED  BY <1>6, <1>7, <1>8, <2>2, <3>2, SMT
  <2> QED  BY <2>1, <2>2, SMT
<1>10. 2 + n \in Nat /\ 2 + n < 268435456  BY <1>9, SMT
<1>11. MqFits(2 + n)  BY <1>10, MqPowers, SMT DEF MqFits
<1> QED  BY <1>1, <1>2, <1>8, <1>11

LEMMA MqTopicsAre ==
    ASSUME NEW topics \in MQ!SeqOf(MqttTopics, 2) \ {<<>>}
    PROVE  topics \in Seq(MqStrings) /\ Len(topics) \in 1..2 /\ topics \in Seq(Seq(Nat))
<1>1. PICK n \in 0..2 : topics \in [1..n -> MqttTopics]  BY DEF MQ!SeqOf
<1>2. n # 0
  <2> SUFFICES ASSUME n = 0 PROVE FALSE  OBVIOUS
  <2>1. topics \in Seq(MqttTopics) /\ Len(topics) = 0  BY <1>1
  <2>2. topics = <<>>  BY <2>1, EmptySeq
  <2> QED  BY <2>2
<1>3. MqttTopics \subseteq MqStrings
  <2> SUFFICES ASSUME NEW t \in MqttTopics PROVE t \in MqStrings  OBVIOUS
  <2>1. MqShort(t)  BY MqTopicsShort
  <2> QED  BY <2>1 DEF MqStrings, MqShort
<1>4. MqStrings \subseteq Seq(Nat)  BY DEF MqStrings
<1>5. topics \in [1..n -> MqStrings] /\ topics \in [1..n -> Seq(Nat)]  BY <1>1, <1>3, <1>4
<1>6. n \in Nat  OBVIOUS
<1>7. topics \in Seq(MqStrings) /\ topics \in Seq(Seq(Nat)) /\ Len(topics) = n  BY <1>5, <1>6
<1> QED  BY <1>2, <1>7
-----------------------------------------------------------------------------
(* Every action of the sender appends a packet and owes what its reader sees.   *)

MqSent ==
    \E m \in MqMessage : /\ MqMade(wire, wire', m) /\ owed' = Append(owed, m)
                         /\ UNCHANGED <<buf, looping, events, acks>>

\* A packet made by mg_mqtt_prepend_header.
LEMMA MqSendPacket ==
    ASSUME wire \in Seq(Nat), NEW cmd \in 1..14, NEW flags \in {0, 2, 4}, NEW q, q = (flags \div 2) % 4,
           NEW body, NEW m \in MqMessage, MqMeans(cmd, q, body, m), MqFits(Len(body)),
           MQ!Send(MQ!Packet(cmd, flags, body), m)
    PROVE  MqSent
<1>1. body \in Seq(Nat)  BY DEF MqMeans
<1>2. flags \in 0..15  OBVIOUS
<1>3. MqMeans(cmd, (flags \div 2) % 4, body, m)  OBVIOUS
<1>4. MqMade(wire, MQ!PrependHeader(wire \o body, cmd, flags, Len(body)), m)  BY <1>1, <1>2, <1>3, MqPacketMade
<1>5. wire' = MQ!PrependHeader(wire \o body, cmd, flags, Len(body))  BY DEF MQ!Send, MQ!Packet
<1>6. owed' = Append(owed, m) /\ UNCHANGED <<buf, looping, events, acks>>  BY DEF MQ!Send
<1> QED  BY <1>4, <1>5, <1>6 DEF MqSent

LEMMA MqCommands ==
    /\ MQ!CONNECT \in 1..14 /\ MQ!CONNACK \in 1..14 /\ MQ!PUBLISH \in 1..14 /\ MQ!SUBSCRIBE \in 1..14
    /\ MqWords \subseteq 1..14 /\ MqOthers \subseteq 1..14
    /\ MQ!PUBLISH \notin MqWords /\ MQ!PUBLISH \notin MqOthers
  BY SMT DEF MqWords, MqOthers, MQ!CONNECT, MQ!CONNACK, MQ!PUBLISH, MQ!SUBSCRIBE, MQ!PUBACK, MQ!PUBREC, MQ!PUBREL,
     MQ!PUBCOMP, MQ!SUBACK, MQ!UNSUBSCRIBE, MQ!UNSUBACK, MQ!PINGREQ, MQ!PINGRESP, MQ!DISCONNECT

LEMMA MqTwoBits == (0 \div 2) % 4 = 0 /\ (2 \div 2) % 4 = 1 /\ (4 \div 2) % 4 = 2
  BY SMT

LEMMA MqSmallFits ==
    ASSUME NEW n \in 0..10
    PROVE  MqFits(n)
<1>1. n < 268435456  BY SMT
<1> QED  BY <1>1, MqPowers, SMT DEF MqFits

\* What the messages are made of.
LEMMA MqNamedIs ==
    ASSUME NEW cmd \in Nat, NEW q \in {0, 1, 2}
    PROVE  MqNamed(cmd, q) \in MqMessage
<1>1. <<>> \in Seq(Nat) /\ <<>> \in Seq(Seq(Nat))  BY EmptySeq
<1> QED  BY <1>1 DEF MqNamed, MQ!Blank, MqMessage

\* What SendHandshake owes.
MqHello(s) == [MQ!Blank EXCEPT !.cmd = MQ!CONNECT, !.strings = s]

LEMMA MqConnectedIs ==
    ASSUME NEW s
    PROVE  MqHello(s) = MqConnected(0, s)
<1>1. [MQ!Blank EXCEPT !.qos = 0] = MQ!Blank  BY DEF MQ!Blank
<1>2. MqNamed(MQ!CONNECT, 0) = [[MQ!Blank EXCEPT !.qos = 0] EXCEPT !.cmd = MQ!CONNECT]  BY DEF MqNamed, MQ!Blank
<1>3. MqNamed(MQ!CONNECT, 0) = [MQ!Blank EXCEPT !.cmd = MQ!CONNECT]  BY <1>1, <1>2
<1>4. PICK u : u = MqNamed(MQ!CONNECT, 0)  OBVIOUS
<1>5. [u EXCEPT !.strings = s] = [MQ!Blank EXCEPT !.cmd = MQ!CONNECT, !.strings = s]  BY <1>3, <1>4
<1> QED  BY <1>4, <1>5 DEF MqConnected, MqHello

\* Each of the functions that send appends a packet and owes what it means.
LEMMA MqSendHandshake ==
    ASSUME wire \in Seq(Nat), NEW client \in MqttClients, MQ!SendHandshake(client)
    PROVE  MqSent
<1>1. /\ client.flags \in Nat /\ client.strings \in Seq({s \in Seq(Nat) : Len(s) < 65536})
      /\ Len(client.strings) = MQ!StringsExpected(client.flags) /\ Len(MQ!Handshake(client)) < 2 + 128
  BY MqttAssumption, SMT
<1>2. {s \in Seq(Nat) : Len(s) < 65536} = MqStrings
  <2>1. ASSUME NEW s \in Seq(Nat) PROVE Len(s) < 65536 <=> MqShort(s)
    <3>1. Len(s) \in Nat  BY LenProperties
    <3> QED  BY <3>1, SMT DEF MqShort, MqWord
  <2> QED  BY <2>1, SMT DEF MqStrings
<1>3. client.strings \in Seq(MqStrings)  BY <1>1, <1>2
<1>4. MqMade(wire, wire \o MQ!Handshake(client), MqConnected(0, client.strings))  BY <1>1, <1>3, MqHandshakeMade
<1>5. client.strings \in Seq(Seq(Nat))
  <2>1. MqStrings \subseteq Seq(Nat)  BY DEF MqStrings
  <2> QED  BY <1>3, <2>1
<1>6. MqConnected(0, client.strings) \in MqMessage
  <2>1. MQ!CONNECT \in Nat  BY DEF MQ!CONNECT
  <2>2. MqNamed(MQ!CONNECT, 0) \in MqMessage  BY <2>1, MqNamedIs
  <2> QED  BY <1>5, <2>2 DEF MqConnected, MqMessage
<1>7. MQ!Send(wire \o MQ!Handshake(client), MqHello(client.strings))  BY DEF MQ!SendHandshake, MqHello
<1>8. MQ!Send(wire \o MQ!Handshake(client), MqConnected(0, client.strings))  BY <1>7, MqConnectedIs
<1> QED  BY <1>4, <1>6, <1>8 DEF MqSent, MQ!Send

LEMMA MqPublish ==
    ASSUME wire \in Seq(Nat), NEW topic \in MqttTopics, NEW id \in MqttIds, NEW q \in {0, 1, 2},
           NEW payload \in MqttPayloads, MQ!Publish(topic, id, q, payload)
    PROVE  MqSent
<1>1. MqShort(topic) /\ MqWord(id) /\ payload \in Seq(Nat)
  <2>1. 0 \in 0..2  OBVIOUS
  <2> QED  BY <2>1, MqTopicsShort, MqIdsWords, MqPublishFits
<1>2. topic \in Seq(Nat) /\ id \in Nat  BY <1>1 DEF MqShort, MqWord
<1>3. PICK w : w = (IF q > 0 THEN MQ!U16(id) ELSE <<>>)  OBVIOUS
<1>4. PICK l \in 0..2 : w \in Seq(Nat) /\ Len(w) = l
  <2>1. CASE q > 0
    <3>1. w = MQ!U16(id)  BY <1>3, <2>1
    <3>2. w \in Seq(Nat) /\ Len(w) = 2  BY <1>1, <3>1, MqU16
    <3> QED  BY <3>2
  <2>2. CASE ~(q > 0)
    <3>1. w = <<>>  BY <1>3, <2>2
    <3>2. w \in Seq(Nat) /\ Len(w) = 0  BY <3>1
    <3> QED  BY <3>2
  <2> QED  BY <2>1, <2>2
<1>5. PICK t \in Seq(Nat) : t = MQ!Counted(topic) /\ Len(t) = Len(topic) + 2  BY <1>1, MqCounted
<1>6. PICK h \in Seq(Nat) : h = t \o w /\ Len(h) = Len(t) + Len(w)  BY <1>4, MqConcat
<1>7. PICK body \in Seq(Nat) : body = h \o payload /\ Len(body) = Len(h) + Len(payload)  BY <1>1, MqConcat
<1>8. MqFits(Len(body))
  <2>1. Len(body) = ((Len(topic) + 2) + l) + Len(payload)  BY <1>4, <1>5, <1>6, <1>7
  <2> QED  BY <2>1, MqPublishFits
<1>9. PICK m : m = MqPublished(q, topic, IF q > 0 THEN id ELSE 0, payload)  OBVIOUS
<1>10. MqMeans(MQ!PUBLISH, q, body, m)
  <2>1. MqMeans(MQ!PUBLISH, q, (MQ!Counted(topic) \o (IF q > 0 THEN MQ!U16(id) ELSE <<>>)) \o payload,
                MqPublished(q, topic, IF q > 0 THEN id ELSE 0, payload))
    BY <1>1, MqMeansPublish
  <2> QED  BY <1>3, <1>5, <1>6, <1>7, <1>9, <2>1
<1>11. PICK i \in Nat : i = IF q > 0 THEN id ELSE 0  BY <1>2
<1>12. m \in MqMessage
  <2>1. MqNamed(MQ!PUBLISH, q) \in MqMessage
    <3>1. MQ!PUBLISH \in Nat  BY DEF MQ!PUBLISH
    <3> QED  BY <3>1, MqNamedIs
  <2>2. m = MqPublished(q, topic, i, payload)  BY <1>9, <1>11
  <2> QED  BY <1>1, <1>2, <2>1, <2>2 DEF MqPublished, MqMessage
<1>13. m = [MQ!Blank EXCEPT !.cmd = MQ!PUBLISH, !.qos = q, !.id = IF q > 0 THEN id ELSE 0,
                            !.topic = topic, !.payload = payload]
  BY <1>9 DEF MqPublished, MqNamed, MQ!Blank
<1>14. MQ!Send(MQ!Packet(MQ!PUBLISH, MQ!QosFlags(q), body), m)
  BY <1>3, <1>5, <1>6, <1>7, <1>13 DEF MQ!Publish
<1>15. MQ!QosFlags(q) \in {0, 2, 4} /\ q = (MQ!QosFlags(q) \div 2) % 4
  <2>1. MQ!QosFlags(q) = 2 * q  BY DEF MQ!QosFlags
  <2>2. q = 0 \/ q = 1 \/ q = 2  OBVIOUS
  <2>3. CASE q = 0  BY <2>1, <2>3, MqTwoBits, SMT
  <2>4. CASE q = 1  BY <2>1, <2>4, MqTwoBits, SMT
  <2>5. CASE q = 2  BY <2>1, <2>5, MqTwoBits, SMT
  <2> QED  BY <2>2, <2>3, <2>4, <2>5
<1> QED  BY <1>8, <1>10, <1>12, <1>14, <1>15, MqCommands, MqSendPacket

LEMMA MqSubscribe ==
    ASSUME wire \in Seq(Nat), NEW topics \in MQ!SeqOf(MqttTopics, 2) \ {<<>>}, NEW id \in MqttIds,
           MQ!Subscribe(topics, id)
    PROVE  MqSent
<1>1. topics \in Seq(MqStrings) /\ Len(topics) \in 1..2 /\ topics \in Seq(Seq(Nat))  BY MqTopicsAre
<1>2. MqWord(id) /\ id \in Nat  BY MqIdsWords DEF MqWord
<1>3. PICK u \in Seq(Nat) : u = MQ!U16(id) /\ Len(u) = 2  BY <1>2, MqU16
<1>4. PICK x \in Seq(Nat) : x = <<0>> /\ Len(x) \in 0..1
  <2>1. <<0>> \in Seq(Nat) /\ Len(<<0>>) \in 0..1  OBVIOUS
  <2> QED  BY <2>1
<1>5. PICK d \in Seq(Nat) : d = MQ!TopicsAndQos(topics) /\ d = MQ!Strings(topics, x)
  <2>1. MQ!Strings(topics, x) \in Seq(Nat)  BY <1>1, MqStringsLong
  <2> QED  BY <1>4, <2>1 DEF MQ!TopicsAndQos
<1>6. PICK body \in Seq(Nat) : body = u \o d /\ Len(body) = Len(u) + Len(d)  BY MqConcat
<1>7. MqFits(Len(body))
  <2>1. MqFits(2 + Len(MQ!Strings(topics, x)))  BY <1>1, <1>4, MqSubscribeFits
  <2> QED  BY <1>3, <1>5, <1>6, <2>1
<1>8. PICK m : m = MqSubscribed(1, id, d, topics)  OBVIOUS
<1>9. MqMeans(MQ!SUBSCRIBE, 1, body, m)
  <2>1. MqMeans(MQ!SUBSCRIBE, 1, MQ!U16(id) \o MQ!TopicsAndQos(topics),
                MqSubscribed(1, id, MQ!TopicsAndQos(topics), topics))
    BY <1>1, <1>2, MqMeansSubscribe
  <2> QED  BY <1>3, <1>5, <1>6, <1>8, <2>1
<1>10. m \in MqMessage
  <2>1. MQ!SUBSCRIBE \in Nat  BY DEF MQ!SUBSCRIBE
  <2>2. MqNamed(MQ!SUBSCRIBE, 1) \in MqMessage  BY <2>1, MqNamedIs
  <2> QED  BY <1>1, <1>2, <1>8, <2>2 DEF MqSubscribed, MqMessage
<1>11. m = [MQ!Blank EXCEPT !.cmd = MQ!SUBSCRIBE, !.qos = 1, !.id = id, !.strings = topics,
                            !.payload = MQ!TopicsAndQos(topics)]
  BY <1>5, <1>8 DEF MqSubscribed, MqNamed, MQ!Blank
<1>12. MQ!Send(MQ!Packet(MQ!SUBSCRIBE, MQ!QosFlags(1), body), m)
  BY <1>3, <1>5, <1>6, <1>11 DEF MQ!Subscribe
<1>13. MQ!QosFlags(1) \in {0, 2, 4} /\ 1 = (MQ!QosFlags(1) \div 2) % 4
  BY MqTwoBits, SMT DEF MQ!QosFlags
<1> QED  BY <1>7, <1>9, <1>10, <1>12, <1>13, MqCommands, MqSendPacket

LEMMA MqUnsubscribe ==
    ASSUME wire \in Seq(Nat), NEW topics \in MQ!SeqOf(MqttTopics, 2) \ {<<>>}, NEW id \in MqttIds,
           MQ!Unsubscribe(topics, id)
    PROVE  MqSent
<1>1. topics \in Seq(MqStrings) /\ Len(topics) \in 1..2  BY MqTopicsAre
<1>2. MqWord(id)  BY MqIdsWords
<1>3. PICK u \in Seq(Nat) : u = MQ!U16(id) /\ Len(u) = 2  BY <1>2, MqU16
<1>4. PICK x \in Seq(Nat) : x = <<>> /\ Len(x) \in 0..1
  <2>1. <<>> \in Seq(Nat) /\ Len(<<>>) = 0  OBVIOUS
  <2>2. 0 \in 0..1  OBVIOUS
  <2>3. Len(<<>>) \in 0..1  BY <2>1, <2>2
  <2> QED  BY <2>1, <2>3
<1>5. PICK d \in Seq(Nat) : d = MQ!Strings(topics, x)
  <2>1. MQ!Strings(topics, x) \in Seq(Nat)  BY <1>1, MqStringsLong
  <2> QED  BY <2>1
<1>6. PICK body \in Seq(Nat) : body = u \o d /\ Len(body) = Len(u) + Len(d)  BY MqConcat
<1>7. MqFits(Len(body))
  <2>1. MqFits(2 + Len(MQ!Strings(topics, x)))  BY <1>1, <1>4, MqSubscribeFits
  <2> QED  BY <1>3, <1>5, <1>6, <2>1
<1>8. PICK m : m = MqNamed(MQ!UNSUBSCRIBE, 1)  OBVIOUS
<1>0. MQ!UNSUBSCRIBE \in MqOthers  BY DEF MqOthers
<1>9. MqMeans(MQ!UNSUBSCRIBE, 1, body, m)  BY <1>0, <1>8, MqMeansOther
<1>10. m \in MqMessage
  <2>1. MQ!UNSUBSCRIBE \in Nat  BY DEF MQ!UNSUBSCRIBE
  <2> QED  BY <1>8, <2>1, MqNamedIs
<1>12. MQ!Send(MQ!Packet(MQ!UNSUBSCRIBE, MQ!QosFlags(1), body), m)
  BY <1>3, <1>4, <1>5, <1>6, <1>8 DEF MQ!Unsubscribe, MqNamed
<1>13. MQ!QosFlags(1) \in {0, 2, 4} /\ 1 = (MQ!QosFlags(1) \div 2) % 4
  BY MqTwoBits, SMT DEF MQ!QosFlags
<1> QED  BY <1>0, <1>7, <1>9, <1>10, <1>12, <1>13, MqCommands, MqSendPacket

LEMMA MqConnAck ==
    ASSUME wire \in Seq(Nat), NEW code \in {0, 5}, MQ!ConnAck(code)
    PROVE  MqSent
<1>1. PICK m : m = [MqNamed(MQ!CONNACK, 0) EXCEPT !.code = code]  OBVIOUS
<1>2. code \in Nat  OBVIOUS
<1>3. PICK body : body = <<0, code>>  OBVIOUS
<1>4. Len(body) = 2  BY <1>3
<1>5. MqMeans(MQ!CONNACK, 0, body, m)  BY <1>1, <1>2, <1>3, MqMeansConnack
<1>6. MQ!CONNACK \in Nat  BY DEF MQ!CONNACK
<1>7. MqNamed(MQ!CONNACK, 0) \in MqMessage  BY <1>6, MqNamedIs
<1>8. m \in MqMessage  BY <1>1, <1>2, <1>7 DEF MqMessage
<1>9. m = [MQ!Blank EXCEPT !.cmd = MQ!CONNACK, !.code = code]
  <2>1. [MQ!Blank EXCEPT !.qos = 0] = MQ!Blank  BY DEF MQ!Blank
  <2>2. MqNamed(MQ!CONNACK, 0) = [[MQ!Blank EXCEPT !.qos = 0] EXCEPT !.cmd = MQ!CONNACK]  BY DEF MqNamed, MQ!Blank
  <2>3. MqNamed(MQ!CONNACK, 0) = [MQ!Blank EXCEPT !.cmd = MQ!CONNACK]  BY <2>1, <2>2
  <2> QED  BY <1>1, <2>3
<1>10. MQ!Send(MQ!Packet(MQ!CONNACK, 0, body), m)  BY <1>3, <1>9 DEF MQ!ConnAck
<1>11. MqFits(Len(body))
  <2>1. 2 \in 0..10  OBVIOUS
  <2> QED  BY <1>4, <2>1, MqSmallFits
<1>12. 0 \in {0, 2, 4} /\ 0 = (0 \div 2) % 4  BY MqTwoBits, SMT
<1> QED  BY <1>5, <1>8, <1>10, <1>11, <1>12, MqCommands, MqSendPacket

LEMMA MqSubAck ==
    ASSUME wire \in Seq(Nat), NEW qoss \in MQ!SeqOf({0, 1}, 2) \ {<<>>}, NEW id \in MqttIds, MQ!SubAck(qoss, id)
    PROVE  MqSent
<1>1. PICK n \in 0..2 : qoss \in [1..n -> {0, 1}]  BY DEF MQ!SeqOf
<1>2. qoss \in Seq(Nat) /\ Len(qoss) = n  BY <1>1
<1>3. MqWord(id) /\ id \in Nat  BY MqIdsWords DEF MqWord
<1>4. PICK u \in Seq(Nat) : u = MQ!U16(id) /\ Len(u) = 2  BY <1>3, MqU16
<1>5. PICK body \in Seq(Nat) : body = u \o qoss /\ Len(body) = Len(u) + Len(qoss)  BY <1>2, MqConcat
<1>6. MqFits(Len(body))
  <2>1. Len(body) \in 0..10  BY <1>2, <1>4, <1>5
  <2> QED  BY <2>1, MqSmallFits
<1>7. PICK m : m = [MqNamed(MQ!SUBACK, 1) EXCEPT !.id = id]  OBVIOUS
<1>0. MQ!SUBACK \in MqWords  BY DEF MqWords
<1>8. MqMeans(MQ!SUBACK, 1, body, m)
  <2>1. MqMeans(MQ!SUBACK, 1, MQ!U16(id) \o qoss, [MqNamed(MQ!SUBACK, 1) EXCEPT !.id = id])
    BY <1>0, <1>2, <1>3, MqMeansWord
  <2> QED  BY <1>4, <1>5, <1>7, <2>1
<1>9. m \in MqMessage
  <2>1. MQ!SUBACK \in Nat  BY DEF MQ!SUBACK
  <2>2. MqNamed(MQ!SUBACK, 1) \in MqMessage  BY <2>1, MqNamedIs
  <2> QED  BY <1>3, <1>7, <2>2 DEF MqMessage
<1>10. MQ!Send(MQ!Packet(MQ!SUBACK, MQ!QosFlags(1), body), m)
  BY <1>4, <1>5, <1>7 DEF MQ!SubAck, MqNamed
<1>11. MQ!QosFlags(1) \in {0, 2, 4} /\ 1 = (MQ!QosFlags(1) \div 2) % 4
  BY MqTwoBits, SMT DEF MQ!QosFlags
<1> QED  BY <1>0, <1>6, <1>8, <1>9, <1>10, <1>11, MqCommands, MqSendPacket

LEMMA MqShortCommand ==
    ASSUME wire \in Seq(Nat), NEW cmd \in {MQ!PUBACK, MQ!PUBREC, MQ!PUBREL, MQ!PUBCOMP, MQ!UNSUBACK},
           NEW id \in MqttIds, MQ!ShortCommand(cmd, id)
    PROVE  MqSent
<1>3. MqWord(id) /\ id \in Nat  BY MqIdsWords DEF MqWord
<1>4. PICK body \in Seq(Nat) : body = MQ!U16(id) /\ Len(body) = 2  BY <1>3, MqU16
<1>6. MqFits(Len(body))
  <2>1. 2 \in 0..10  OBVIOUS
  <2> QED  BY <1>4, <2>1, MqSmallFits
<1>11. MQ!QosFlags(1) \in {0, 2, 4} /\ 1 = (MQ!QosFlags(1) \div 2) % 4
  BY MqTwoBits, SMT DEF MQ!QosFlags
<1>12. cmd \in 1..14 /\ cmd \in Nat
  BY DEF MQ!PUBACK, MQ!PUBREC, MQ!PUBREL, MQ!PUBCOMP, MQ!UNSUBACK
<1>13. MqNamed(cmd, 1) \in MqMessage  BY <1>12, MqNamedIs
<1>14. CASE cmd = MQ!UNSUBACK
  <2>1. cmd \in MqOthers  BY <1>14 DEF MqOthers
  <2>2. MqMeans(cmd, 1, body, MqNamed(cmd, 1))  BY <2>1, MqMeansOther
  <2>3. [MQ!Blank EXCEPT !.cmd = cmd, !.qos = 1, !.id = 0] = MqNamed(cmd, 1)
    <3>1. [MQ!Blank EXCEPT !.id = 0] = MQ!Blank  BY DEF MQ!Blank
    <3>2. [MQ!Blank EXCEPT !.cmd = cmd, !.qos = 1, !.id = 0]
            = [[MQ!Blank EXCEPT !.id = 0] EXCEPT !.cmd = cmd, !.qos = 1]  BY DEF MQ!Blank
    <3> QED  BY <3>1, <3>2 DEF MqNamed
  <2>4. MQ!Send(MQ!Packet(cmd, MQ!QosFlags(1), body), [MQ!Blank EXCEPT !.cmd = cmd, !.qos = 1, !.id = 0])
    BY <1>4, <1>14 DEF MQ!ShortCommand
  <2>5. MQ!Send(MQ!Packet(cmd, MQ!QosFlags(1), body), MqNamed(cmd, 1))  BY <2>3, <2>4
  <2> QED  BY <1>6, <1>11, <1>12, <1>13, <2>2, <2>5, MqSendPacket
<1>15. CASE cmd # MQ!UNSUBACK
  <2>1. cmd \in MqWords  BY <1>15 DEF MqWords
  <2>2. PICK m : m = [MqNamed(cmd, 1) EXCEPT !.id = id]  OBVIOUS
  <2>3. MqMeans(cmd, 1, body, m)
    <3>1. <<>> \in Seq(Nat)  OBVIOUS
    <3>2. MqMeans(cmd, 1, MQ!U16(id) \o <<>>, [MqNamed(cmd, 1) EXCEPT !.id = id])
      BY <1>3, <2>1, <3>1, MqMeansWord
    <3>3. MQ!U16(id) \o <<>> = body
      <4>1. body \o <<>> = body  BY MqEmpty
      <4> QED  BY <1>4, <4>1
    <3> QED  BY <2>2, <3>2, <3>3
  <2>4. m \in MqMessage  BY <1>3, <1>13, <2>2 DEF MqMessage
  <2>5. MQ!Send(MQ!Packet(cmd, MQ!QosFlags(1), body), m)
    BY <1>4, <1>15, <2>2 DEF MQ!ShortCommand, MqNamed
  <2> QED  BY <1>6, <1>11, <1>12, <2>3, <2>4, <2>5, MqSendPacket
<1> QED  BY <1>14, <1>15

LEMMA MqBare ==
    ASSUME wire \in Seq(Nat), NEW cmd \in {MQ!PINGREQ, MQ!PINGRESP, MQ!DISCONNECT}, MQ!Bare(cmd)
    PROVE  MqSent
<1>1. cmd \in MqOthers  BY DEF MqOthers
<1>2. cmd \in 1..14 /\ cmd \in Nat  BY DEF MQ!PINGREQ, MQ!PINGRESP, MQ!DISCONNECT
<1>3. PICK body \in Seq(Nat) : body = <<>> /\ Len(body) = 0
  <2>1. <<>> \in Seq(Nat) /\ Len(<<>>) = 0  OBVIOUS
  <2> QED  BY <2>1
<1>4. MqNamed(cmd, 0) \in MqMessage  BY <1>2, MqNamedIs
<1>5. MqMeans(cmd, 0, body, MqNamed(cmd, 0))  BY <1>1, MqMeansOther
<1>6. [MQ!Blank EXCEPT !.cmd = cmd] = MqNamed(cmd, 0)
  <2>1. [MQ!Blank EXCEPT !.qos = 0] = MQ!Blank  BY DEF MQ!Blank
  <2>2. MqNamed(cmd, 0) = [[MQ!Blank EXCEPT !.qos = 0] EXCEPT !.cmd = cmd]  BY DEF MqNamed, MQ!Blank
  <2> QED  BY <2>1, <2>2
<1>7. MQ!Send(MQ!Packet(cmd, 0, body), MqNamed(cmd, 0))  BY <1>3, <1>6 DEF MQ!Bare
<1>8. MqFits(Len(body))
  <2>1. 0 \in 0..10  OBVIOUS
  <2> QED  BY <1>3, <2>1, MqSmallFits
<1>9. 0 \in {0, 2, 4} /\ 0 = (0 \div 2) % 4  BY MqTwoBits, SMT
<1> QED  BY <1>2, <1>4, <1>5, <1>7, <1>8, <1>9, MqSendPacket

\* Whatever is sent, a packet is appended and owed.
LEMMA MqSomePacket ==
    ASSUME wire \in Seq(Nat), MQ!SomePacket
    PROVE  MqSent
<1>1. ASSUME NEW client \in MqttClients, MQ!SendHandshake(client) PROVE MqSent  BY <1>1, MqSendHandshake
<1>2. ASSUME NEW topic \in MqttTopics, NEW id \in MqttIds, NEW q \in 0..2, NEW payload \in MqttPayloads,
             MQ!Publish(topic, id, q, payload)
      PROVE  MqSent
  <2>1. q \in {0, 1, 2}  OBVIOUS
  <2> QED  BY <1>2, <2>1, MqPublish
<1>3. ASSUME NEW topics \in MQ!SeqOf(MqttTopics, 2) \ {<<>>}, NEW id \in MqttIds,
             MQ!Subscribe(topics, id) \/ MQ!Unsubscribe(topics, id)
      PROVE  MqSent
  BY <1>3, MqSubscribe, MqUnsubscribe
<1>4. ASSUME NEW code \in {0, 5}, MQ!ConnAck(code) PROVE MqSent  BY <1>4, MqConnAck
<1>5. ASSUME NEW qoss \in MQ!SeqOf({0, 1}, 2) \ {<<>>}, NEW id \in MqttIds, MQ!SubAck(qoss, id) PROVE MqSent
  BY <1>5, MqSubAck
<1>6. ASSUME NEW cmd \in {MQ!PUBACK, MQ!PUBREC, MQ!PUBREL, MQ!PUBCOMP, MQ!UNSUBACK}, NEW id \in MqttIds,
             MQ!ShortCommand(cmd, id)
      PROVE  MqSent
  BY <1>6, MqShortCommand
<1>7. ASSUME NEW cmd \in {MQ!PINGREQ, MQ!PINGRESP, MQ!DISCONNECT}, MQ!Bare(cmd) PROVE MqSent  BY <1>7, MqBare
<1> QED  BY <1>1, <1>2, <1>3, <1>4, <1>5, <1>6, <1>7 DEF MQ!SomePacket
-----------------------------------------------------------------------------
(* The acknowledgements owed for a sequence of packets.                         *)

MqAck == [cmd : Nat, id : Nat]
MqDueNext(d, m) ==
    IF m.cmd = MQ!PUBLISH /\ m.qos > 0
    THEN Append(d, [cmd |-> <<MQ!PUBACK, MQ!PUBREC>>[m.qos], id |-> m.id])
    ELSE d

\* h: what is owed for the first i of the packets, up to n of them.
MqDueUpto(ms, n, h) ==
    /\ h[0] = <<>> /\ \A i \in 0..n : h[i] \in Seq(MqAck)
    /\ \A i \in 1..n : h[i] = MqDueNext(h[i - 1], ms[i])

\* One more packet: what is owed for it comes behind.
MqDueStep(d, m) ==
    /\ MQ!Acks(m) \in Seq(MqAck) /\ MqDueNext(d, m) = d \o MQ!Acks(m) /\ MqDueNext(d, m) \in Seq(MqAck)

\* One more message owes the acknowledgement that parse_mqtt sends for it.
LEMMA MqDueOne ==
    ASSUME NEW d \in Seq(MqAck), NEW m \in MqMessage
    PROVE  MqDueStep(d, m)
<1>1. m.cmd \in Nat /\ m.id \in Nat /\ m.qos \in {0, 1, 2}  BY DEF MqMessage
<1>2. CASE m.cmd = MQ!PUBLISH /\ m.qos > 0
  <2>1. PICK a : a = [cmd |-> IF m.qos = 1 THEN MQ!PUBACK ELSE MQ!PUBREC, id |-> m.id]  OBVIOUS
  <2>2. MQ!PUBACK \in Nat /\ MQ!PUBREC \in Nat  BY DEF MQ!PUBACK, MQ!PUBREC
  <2>3. a \in MqAck  BY <1>1, <2>1, <2>2 DEF MqAck
  <2>4. MQ!Acks(m) = <<a>>  BY <1>1, <1>2, <2>1 DEF MQ!Acks
  <2>5. <<MQ!PUBACK, MQ!PUBREC>>[m.qos] = IF m.qos = 1 THEN MQ!PUBACK ELSE MQ!PUBREC
    <3>1. CASE m.qos = 1  BY <3>1
    <3>2. CASE m.qos = 2  BY <3>2
    <3> QED  BY <1>1, <1>2, <3>1, <3>2
  <2>6. MqDueNext(d, m) = Append(d, a)  BY <1>2, <2>1, <2>5 DEF MqDueNext
  <2>7. Append(d, a) = d \o <<a>> /\ Append(d, a) \in Seq(MqAck)  BY <2>3, AppendIsConcat, AppendProperties
  <2>8. <<a>> \in Seq(MqAck)  BY <2>3
  <2> QED  BY <2>4, <2>6, <2>7, <2>8 DEF MqDueStep
<1>3. CASE ~(m.cmd = MQ!PUBLISH /\ m.qos > 0)
  <2>1. m.cmd # MQ!PUBLISH \/ m.qos = 0  BY <1>1, <1>3
  <2>2. MQ!Acks(m) = <<>>  BY <2>1 DEF MQ!Acks
  <2>3. MqDueNext(d, m) = d  BY <1>3 DEF MqDueNext
  <2>4. d \o <<>> = d  BY ConcatEmptySeq
  <2>5. <<>> \in Seq(MqAck)  BY EmptySeq
  <2> QED  BY <2>2, <2>3, <2>4, <2>5 DEF MqDueStep
<1> QED  BY <1>2, <1>3

LEMMA MqDueExists ==
    ASSUME NEW ms \in Seq(MqMessage), NEW n \in Nat, n <= Len(ms)
    PROVE  \E h : MqDueUpto(ms, n, h)
<1> DEFINE S == {k \in Nat : k <= Len(ms) => \E h : MqDueUpto(ms, k, h)}
<1>0. Len(ms) \in Nat  BY LenProperties
<1>1. 0 \in S
  <2> DEFINE h == [i \in 0..0 |-> <<>>]
  <2>1. h[0] = <<>> /\ \A i \in 0..0 : h[i] \in Seq(MqAck)  BY EmptySeq
  <2>2. \A i \in 1..0 : h[i] = MqDueNext(h[i - 1], ms[i])  OBVIOUS
  <2> HIDE DEF h
  <2>3. MqDueUpto(ms, 0, h)  BY <2>1, <2>2 DEF MqDueUpto
  <2> QED  BY <2>3
<1>2. ASSUME NEW k \in Nat, k \in S PROVE k + 1 \in S
  <2> SUFFICES ASSUME k + 1 <= Len(ms) PROVE \E h : MqDueUpto(ms, k + 1, h)  OBVIOUS
  <2>0. k <= Len(ms) /\ k + 1 \in 1..Len(ms)  BY <1>0
  <2>1. PICK h : MqDueUpto(ms, k, h)  BY <1>2, <2>0
  <2>2. ms[k + 1] \in MqMessage  BY <2>0, ElementOfSeq
  <2>3. k \in 0..k  OBVIOUS
  <2>4. h[k] \in Seq(MqAck)  BY <2>1, <2>3 DEF MqDueUpto
  <2>5. MqDueStep(h[k], ms[k + 1])  BY <2>2, <2>4, MqDueOne
  <2> DEFINE f == [i \in 0..(k + 1) |-> IF i <= k THEN h[i] ELSE MqDueNext(h[k], ms[k + 1])]
  <2>6. \A i \in 0..k : f[i] = h[i]  OBVIOUS
  <2>7. f[k + 1] = MqDueNext(h[k], ms[k + 1])  OBVIOUS
  <2> HIDE DEF f
  <2>8. f[0] = <<>>
    <3>1. 0 \in 0..k  OBVIOUS
    <3> QED  BY <2>1, <2>6, <3>1 DEF MqDueUpto
  <2>9. ASSUME NEW i \in 0..(k + 1) PROVE f[i] \in Seq(MqAck)
    <3>1. CASE i \in 0..k  BY <2>1, <2>6, <3>1 DEF MqDueUpto
    <3>2. CASE i = k + 1  BY <2>5, <2>7, <3>2 DEF MqDueStep
    <3> QED  BY <3>1, <3>2
  <2>10. ASSUME NEW i \in 1..(k + 1) PROVE f[i] = MqDueNext(f[i - 1], ms[i])
    <3>1. CASE i \in 1..k
      <4>1. i \in 0..k /\ i - 1 \in 0..k  BY <3>1
      <4>2. h[i] = MqDueNext(h[i - 1], ms[i])  BY <2>1, <3>1 DEF MqDueUpto
      <4> QED  BY <2>6, <4>1, <4>2
    <3>2. CASE i = k + 1
      <4>1. i - 1 = k /\ k \in 0..k  BY <3>2
      <4> QED  BY <2>6, <2>7, <3>2, <4>1
    <3> QED  BY <3>1, <3>2
  <2>11. MqDueUpto(ms, k + 1, f)  BY <2>8, <2>9, <2>10 DEF MqDueUpto
  <2> QED  BY <2>11
<1>3. n \in S
  <2> HIDE DEF S
  <2> QED  BY <1>1, <1>2, NatSet
<1> QED  BY <1>3

\* What is owed for the same packets is the same.
LEMMA MqDueSame ==
    ASSUME NEW ms, NEW ns, NEW n \in Nat, NEW h, NEW k, MqDueUpto(ms, n, h), MqDueUpto(ns, n, k),
           \A i \in 1..n : ms[i] = ns[i]
    PROVE  h[n] = k[n]
<1> DEFINE S == {j \in Nat : j <= n => h[j] = k[j]}
<1>1. 0 \in S  BY DEF MqDueUpto
<1>2. ASSUME NEW j \in Nat, j \in S PROVE j + 1 \in S
  <2> SUFFICES ASSUME j + 1 <= n PROVE h[j + 1] = k[j + 1]  OBVIOUS
  <2>1. h[j] = k[j]  BY <1>2
  <2>2. PICK i \in 1..n : i = j + 1 /\ i - 1 = j  OBVIOUS
  <2>3. h[i] = MqDueNext(h[i - 1], ms[i]) /\ k[i] = MqDueNext(k[i - 1], ns[i])  BY DEF MqDueUpto
  <2>4. ms[i] = ns[i]  OBVIOUS
  <2> QED  BY <2>1, <2>2, <2>3, <2>4
<1>3. n \in S
  <2> HIDE DEF S
  <2> QED  BY <1>1, <1>2, NatSet
<1> QED  BY <1>3

\* What is owed is the recursion over the messages.
LEMMA MqDueAre ==
    ASSUME NEW ms \in Seq(MqMessage)
    PROVE  \E h : MqDueUpto(ms, Len(ms), h) /\ MQ!Due(ms) = h[Len(ms)]
<1>1. PICK n \in Nat : n = Len(ms)  BY LenProperties
<1> DEFINE Body(g) == [i \in 0..n |-> IF i = 0 THEN <<>> ELSE MqDueNext(g[i - 1], ms[i])]
           first == CHOOSE g : g = Body(g)
<1>2. PICK h : MqDueUpto(ms, n, h)
  <2>1. n <= Len(ms)  BY <1>1
  <2> QED  BY <2>1, MqDueExists
<1> DEFINE f == [i \in 0..n |-> h[i]]
<1>3. f = Body(f)
  <2>1. f = [i \in 0..n |-> f[i]] /\ \A i \in 0..n : f[i] = h[i]  OBVIOUS
  <2> HIDE DEF f
  <2>2. ASSUME NEW i \in 0..n PROVE f[i] = IF i = 0 THEN <<>> ELSE MqDueNext(f[i - 1], ms[i])
    <3>1. CASE i = 0  BY <1>2, <2>1, <3>1 DEF MqDueUpto
    <3>2. CASE i # 0
      <4>1. i \in 1..n /\ i - 1 \in 0..n  BY <3>2
      <4>2. h[i] = MqDueNext(h[i - 1], ms[i])  BY <1>2, <4>1 DEF MqDueUpto
      <4> QED  BY <2>1, <3>2, <4>1, <4>2
    <3> QED  BY <3>1, <3>2
  <2> QED  BY <2>1, <2>2
<1>4. first = Body(first)
  <2> HIDE DEF Body, f
  <2> QED  BY <1>3
<1>5. MQ!Due(ms) = first[n]  BY <1>1 DEF MQ!Due, MqDueNext
<1> HIDE DEF first, f
<1>6. \A i \in 0..n : first[i] = IF i = 0 THEN <<>> ELSE MqDueNext(first[i - 1], ms[i])  BY <1>4
<1> DEFINE S == {k \in Nat : k <= n => first[k] = h[k]}
<1>7. 0 \in S
  <2>1. 0 \in 0..n  OBVIOUS
  <2>2. first[0] = <<>>  BY <1>6, <2>1
  <2> QED  BY <1>2, <2>2 DEF MqDueUpto
<1>8. ASSUME NEW k \in Nat, k \in S PROVE k + 1 \in S
  <2> SUFFICES ASSUME k + 1 <= n PROVE first[k + 1] = h[k + 1]  OBVIOUS
  <2>1. first[k] = h[k]  BY <1>8
  <2>2. PICK i \in 1..n : i = k + 1 /\ i - 1 = k /\ i # 0 /\ i \in 0..n  OBVIOUS
  <2>3. first[i] = MqDueNext(first[i - 1], ms[i])  BY <1>6, <2>2
  <2>4. h[i] = MqDueNext(h[i - 1], ms[i])  BY <1>2 DEF MqDueUpto
  <2> QED  BY <2>1, <2>2, <2>3, <2>4
<1>9. n \in S
  <2> HIDE DEF S
  <2> QED  BY <1>7, <1>8, NatSet
<1> QED  BY <1>1, <1>2, <1>5, <1>9

\* A sequence is a prefix of itself with another behind it.
LEMMA MqPrefix ==
  ASSUME NEW T, NEW a \in Seq(T), NEW z \in Seq(T)
  PROVE  MQ!IsPrefix(a, a \o z)
<1>1. a \o z \in Seq(T) /\ Len(a \o z) = Len(a) + Len(z) /\ Len(a) \in Nat /\ Len(z) \in Nat
  BY ConcatProperties, LenProperties
<1>2. SubSeq(a, 1, Len(a)) = SubSeq(a \o z, 1, Len(a))
  <2>1. CASE Len(a) = 0
    <3>1. \A s \in Seq(T) : SubSeq(s, 1, 0) = <<>>  OBVIOUS
    <3> QED  BY <2>1, <3>1, <1>1
  <2>2. CASE Len(a) # 0
    <3>1. 1 \in 1..Len(a) /\ Len(a) \in 1..Len(a)  BY <1>1, <2>2
    <3> QED  BY <3>1, SubSeqOfConcat1
  <2> QED  BY <2>1, <2>2
<1>3. Len(a) <= Len(a \o z)  BY <1>1
<1> QED  BY <1>2, <1>3, Zenon DEF MQ!IsPrefix

\* What is owed for the first packets comes first.
MqDueBegins(d, e) == \E t \in Seq(MqAck) : e = d \o t

LEMMA MqAckGroup ==
    ASSUME NEW a \in Seq(MqAck), NEW b \in Seq(MqAck), NEW c \in Seq(MqAck)
    PROVE  MqGrouped(a, b, c)
  BY ConcatAssociative DEF MqGrouped

LEMMA MqDueGrows ==
    ASSUME NEW ms \in Seq(MqMessage), NEW n \in Nat, NEW h, MqDueUpto(ms, Len(ms), h), n <= Len(ms)
    PROVE  MqDueBegins(h[n], h[Len(ms)])
<1>1. PICK L \in Nat : L = Len(ms)  BY LenProperties
<1>2. MqDueUpto(ms, L, h) /\ n <= L  BY <1>1
<1> DEFINE S == {k \in Nat : n + k <= L => MqDueBegins(h[n], h[n + k])}
<1>3. 0 \in S
  <2>1. n \in 0..L /\ n + 0 = n  BY <1>2
  <2>2. h[n] \in Seq(MqAck)  BY <1>2, <2>1 DEF MqDueUpto
  <2>3. h[n] = h[n] \o <<>> /\ <<>> \in Seq(MqAck)  BY <2>2, ConcatEmptySeq, EmptySeq
  <2> QED  BY <2>1, <2>3 DEF MqDueBegins
<1>4. ASSUME NEW k \in Nat, k \in S PROVE k + 1 \in S
  <2> SUFFICES ASSUME n + (k + 1) <= L PROVE MqDueBegins(h[n], h[n + (k + 1)])  OBVIOUS
  <2>1. n + k <= L  OBVIOUS
  <2>2. MqDueBegins(h[n], h[n + k])  BY <1>4, <2>1
  <2>3. PICK i \in 1..L : i = n + (k + 1) /\ i - 1 = n + k
    <3>1. n + (k + 1) \in 1..L /\ (n + (k + 1)) - 1 = n + k  OBVIOUS
    <3> QED  BY <3>1
  <2>4. h[i] = MqDueNext(h[i - 1], ms[i])  BY <1>2 DEF MqDueUpto
  <2>5. i - 1 \in 0..L /\ n \in 0..L  BY <1>2
  <2>6. PICK d \in Seq(MqAck), g \in Seq(MqAck) : d = h[i - 1] /\ g = h[n]  BY <1>2, <2>5 DEF MqDueUpto
  <2>7. ms[i] \in MqMessage  BY <1>1, ElementOfSeq
  <2>8. MqDueStep(d, ms[i])  BY <2>7, MqDueOne
  <2>9. PICK a \in Seq(MqAck) : a = MQ!Acks(ms[i]) /\ h[i] = d \o a  BY <2>4, <2>6, <2>8 DEF MqDueStep
  <2>10. PICK t \in Seq(MqAck) : d = g \o t  BY <2>2, <2>3, <2>6 DEF MqDueBegins
  <2>11. t \o a \in Seq(MqAck)  BY ConcatProperties
  <2>14. MqGrouped(g, t, a)  BY MqAckGroup
  <2>12. (g \o t) \o a = g \o (t \o a)  BY <2>14 DEF MqGrouped
  <2>13. h[i] = g \o (t \o a)  BY <2>9, <2>10, <2>12
  <2> QED  BY <2>3, <2>6, <2>11, <2>13 DEF MqDueBegins
<1>5. PICK k \in Nat : n + k = L
  <2>1. L - n \in Nat /\ n + (L - n) = L  BY <1>2
  <2> QED  BY <2>1
<1>6. k \in S
  <2> HIDE DEF S
  <2> QED  BY <1>3, <1>4, NatSet
<1>7. MqDueBegins(h[n], h[n + k])
  <2>1. n + k <= L  BY <1>5
  <2> QED  BY <1>6, <2>1
<1> QED  BY <1>1, <1>5, <1>7

\* The first messages owe the first acknowledgements.
LEMMA MqDuePart ==
    ASSUME NEW ms \in Seq(MqMessage), NEW ns \in Seq(MqMessage), Len(ms) <= Len(ns),
           \A i \in 1..Len(ms) : ms[i] = ns[i]
    PROVE  MQ!IsPrefix(MQ!Due(ms), MQ!Due(ns))
<1>1. PICK h : MqDueUpto(ms, Len(ms), h) /\ MQ!Due(ms) = h[Len(ms)]  BY MqDueAre
<1>2. PICK k : MqDueUpto(ns, Len(ns), k) /\ MQ!Due(ns) = k[Len(ns)]  BY MqDueAre
<1>3. PICK n \in Nat, l \in Nat : n = Len(ms) /\ l = Len(ns)  BY LenProperties
<1>4. MqDueUpto(ns, n, k)
  <2>1. n <= l  BY <1>3
  <2>2. MqDueUpto(ns, l, k)  BY <1>2, <1>3
  <2>3. 0..n \subseteq 0..l /\ 1..n \subseteq 1..l  BY <2>1
  <2> QED  BY <2>2, <2>3 DEF MqDueUpto
<1>5. h[n] = k[n]
  <2>1. MqDueUpto(ms, n, h) /\ \A i \in 1..n : ms[i] = ns[i]  BY <1>1, <1>3
  <2> QED  BY <1>4, <2>1, MqDueSame
<1>6. MqDueBegins(k[n], k[Len(ns)])
  <2>1. n <= Len(ns)  BY <1>3
  <2> QED  BY <1>2, <2>1, MqDueGrows
<1>7. PICK t \in Seq(MqAck) : k[Len(ns)] = k[n] \o t  BY <1>6 DEF MqDueBegins
<1>8. k[n] \in Seq(MqAck)
  <2>1. n \in 0..n  OBVIOUS
  <2> QED  BY <1>4, <2>1 DEF MqDueUpto
<1>9. MQ!IsPrefix(k[n], k[n] \o t)  BY <1>8, MqPrefix
<1> QED  BY <1>1, <1>2, <1>3, <1>5, <1>7, <1>9

\* What is owed grows by what parse_mqtt sends.
LEMMA MqDueAppend ==
    ASSUME NEW ms \in Seq(MqMessage), NEW m \in MqMessage
    PROVE  MQ!Due(Append(ms, m)) = MQ!Due(ms) \o MQ!Acks(m)
<1>1. PICK n \in Nat : n = Len(ms)  BY LenProperties
<1>2. PICK ns : ns = Append(ms, m)  OBVIOUS
<1>3. /\ ns \in Seq(MqMessage) /\ Len(ns) = n + 1 /\ ns[n + 1] = m
      /\ \A i \in 1..n : ns[i] = ms[i]
  <2>1. /\ Append(ms, m) \in Seq(MqMessage) /\ Len(Append(ms, m)) = Len(ms) + 1
        /\ \A i \in 1..Len(ms) : Append(ms, m)[i] = ms[i]
        /\ Append(ms, m)[Len(ms) + 1] = m
    BY AppendProperties
  <2> QED  BY <1>1, <1>2, <2>1
<1>4. PICK h : MqDueUpto(ms, n, h) /\ MQ!Due(ms) = h[n]  BY <1>1, MqDueAre
<1>5. PICK k : MqDueUpto(ns, n + 1, k) /\ MQ!Due(ns) = k[n + 1]
  <2>1. PICK k : MqDueUpto(ns, Len(ns), k) /\ MQ!Due(ns) = k[Len(ns)]  BY <1>3, MqDueAre
  <2> QED  BY <1>3, <2>1
<1>6. MqDueUpto(ns, n, k)
  <2>1. 0..n \subseteq 0..(n + 1) /\ 1..n \subseteq 1..(n + 1)  OBVIOUS
  <2> QED  BY <1>5, <2>1 DEF MqDueUpto
<1>7. h[n] = k[n]
  <2>1. \A i \in 1..n : ms[i] = ns[i]  BY <1>3
  <2> QED  BY <1>4, <1>6, <2>1, MqDueSame
<1>8. k[n + 1] = MqDueNext(k[n], m)
  <2>1. n + 1 \in 1..(n + 1) /\ (n + 1) - 1 = n  OBVIOUS
  <2>2. k[n + 1] = MqDueNext(k[(n + 1) - 1], ns[n + 1])  BY <1>5, <2>1 DEF MqDueUpto
  <2> QED  BY <1>3, <2>1, <2>2
<1>9. k[n] \in Seq(MqAck)
  <2>1. n \in 0..n  OBVIOUS
  <2> QED  BY <1>6, <2>1 DEF MqDueUpto
<1>10. MqDueStep(k[n], m)  BY <1>9, MqDueOne
<1> QED  BY <1>2, <1>4, <1>5, <1>7, <1>8, <1>10 DEF MqDueStep

LEMMA MqDueNone == MQ!Due(<<>>) = <<>>
<1>1. <<>> \in Seq(MqMessage) /\ Len(<<>>) = 0  BY EmptySeq
<1>2. PICK h : MqDueUpto(<<>>, 0, h) /\ MQ!Due(<<>>) = h[0]  BY <1>1, MqDueAre
<1> QED  BY <1>2 DEF MqDueUpto
-----------------------------------------------------------------------------
(* The stream.                                                                  *)

\* A packet that m is read from lies between two places of s.
MqLies(s, from, to, m) ==
    \E e \in Seq(Nat) : MqPacketIs(e, m) /\ MqHas(s, from, e) /\ to = from + Len(e)

\* at: where each packet ends, in all that was sent; of the first n nothing is left.
MqStream(s, n, ms, at) ==
    /\ n <= Len(ms) /\ at \in [0..Len(ms) -> Nat] /\ at[n] + Len(s) = at[Len(ms)]
    /\ \A i, j \in 0..Len(ms) : i <= j => at[i] <= at[j]
    /\ \A i \in (n + 1)..Len(ms) : MqLies(s, at[i - 1] - at[n], at[i] - at[n], ms[i])

\* The next packet is not whole yet.
MqWaits(b, n, ms, at) == n < Len(ms) => at[n] + Len(b) < at[n + 1]

\* A packet has its first byte and a byte of length.
LEMMA MqPacketLong ==
    ASSUME NEW e, NEW m, MqPacketIs(e, m)
    PROVE  e \in Seq(Nat) /\ Len(e) >= 2
<1>1. PICK x \in Nat, r \in Seq(Nat), body \in Seq(Nat), k \in 1..4, cmd \in Nat, q \in Nat :
        e = <<x>> \o (r \o body) /\ MqLengthIs(Len(body), k, r)
  BY DEF MqPacketIs
<1>2. Len(r) = k  BY <1>1 DEF MqLengthIs
<1>3. MqParts(e, x, r, body, k)  BY <1>1, <1>2, MqPartsOf
<1>4. PICK n \in Nat : n = Len(body)  BY LenProperties
<1>5. e \in Seq(Nat) /\ Len(e) = 1 + (k + n)  BY <1>3, <1>4 DEF MqParts
<1>6. 1 + (k + n) >= 2  OBVIOUS
<1> QED  BY <1>5, <1>6

\* A packet is appended.
LEMMA MqStreamSend ==
    ASSUME NEW s \in Seq(Nat), NEW n \in Nat, NEW ms \in Seq(MqMessage), NEW at, MqStream(s, n, ms, at),
           NEW e \in Seq(Nat), NEW m \in MqMessage, MqPacketIs(e, m), NEW b \in Seq(Nat), Len(b) <= Len(s)
    PROVE  \E new : /\ MqStream(s \o e, n, Append(ms, m), new)
                    /\ MqWaits(b, n, ms, at) => MqWaits(b, n, Append(ms, m), new)
<1>1. PICK L \in Nat, l \in Nat, k \in Nat, c \in Nat : L = Len(ms) /\ l = Len(s) /\ k = Len(e) /\ c = Len(b)
  BY LenProperties
<1>2. PICK ns : ns = Append(ms, m)  OBVIOUS
<1>3. Len(ns) = L + 1 /\ ns[L + 1] = m /\ \A i \in 1..L : ns[i] = ms[i]
  <2>1. /\ Len(Append(ms, m)) = Len(ms) + 1
        /\ \A i \in 1..Len(ms) : Append(ms, m)[i] = ms[i]
        /\ Append(ms, m)[Len(ms) + 1] = m
    BY AppendProperties
  <2> QED  BY <1>1, <1>2, <2>1
<1>4. /\ n <= L /\ at \in [0..L -> Nat] /\ at[n] + l = at[L]
      /\ \A i, j \in 0..L : i <= j => at[i] <= at[j]
      /\ \A i \in (n + 1)..L : MqLies(s, at[i - 1] - at[n], at[i] - at[n], ms[i])
  BY <1>1 DEF MqStream
<1>5. PICK u \in Seq(Nat) : u = s \o e /\ Len(u) = l + k  BY <1>1, MqConcat
<1> DEFINE new == [i \in 0..(L + 1) |-> IF i <= L THEN at[i] ELSE at[L] + k]
<1>0. \A i \in 0..L : at[i] \in Nat  BY <1>4
<1>16. \A i \in 0..L : new[i] = at[i]  OBVIOUS
<1>6. \A i \in 0..L : new[i] = at[i] /\ at[i] \in Nat  BY <1>0, <1>16
<1>7. new[L + 1] = at[L] + k  OBVIOUS
<1>8. L \in 0..L /\ n \in 0..L /\ L + 1 \in 0..(L + 1)  BY <1>4
<1>9. at[L] \in Nat /\ at[n] \in Nat /\ new[n] = at[n] /\ new[L] = at[L]  BY <1>6, <1>8
<1>17. PICK aL \in Nat, an \in Nat : aL = at[L] /\ an = at[n]  BY <1>9
<1>18. an + l = aL  BY <1>4, <1>17
<1>19. new[L + 1] = aL + k  BY <1>7, <1>17
<1>10. new \in [0..(L + 1) -> Nat]
  <2>1. new = [i \in 0..(L + 1) |-> new[i]]  OBVIOUS
  <2>2. ASSUME NEW i \in 0..(L + 1) PROVE new[i] \in Nat
    <3>1. CASE i \in 0..L  BY <1>6, <3>1
    <3>2. CASE i = L + 1
      <4>1. aL + k \in Nat  OBVIOUS
      <4> QED  BY <1>19, <3>2, <4>1
    <3> QED  BY <3>1, <3>2
  <2> HIDE DEF new
  <2> QED  BY <2>1, <2>2
<1> HIDE DEF new
<1>11. ASSUME NEW i \in 0..(L + 1), NEW j \in 0..(L + 1), i <= j PROVE new[i] <= new[j]
  <2>1. CASE j <= L
    <3>1. i \in 0..L /\ j \in 0..L  BY <1>11, <2>1
    <3> QED  BY <1>4, <1>6, <1>11, <3>1
  <2>2. CASE j = L + 1 /\ i <= L
    <3>1. i \in 0..L  BY <2>2
    <3>2. at[i] <= at[L] /\ at[i] \in Nat  BY <1>4, <1>6, <1>8, <2>2, <3>1
    <3>3. PICK ai \in Nat : ai = at[i]  BY <3>2
    <3>6. ai <= aL  BY <1>17, <3>2, <3>3
    <3>4. ai <= aL + k  BY <3>6
    <3>5. new[i] = ai /\ new[j] = aL + k  BY <1>6, <1>19, <2>2, <3>1, <3>3
    <3> QED  BY <3>4, <3>5
  <2>3. CASE i = L + 1
    <3>1. i = j  BY <1>11, <2>3
    <3>2. new[i] \in Nat  BY <1>10
    <3> QED  BY <3>1, <3>2
  <2> QED  BY <2>1, <2>2, <2>3
<1>12. ASSUME NEW i \in (n + 1)..(L + 1) PROVE MqLies(u, new[i - 1] - new[n], new[i] - new[n], ns[i])
  <2>1. CASE i <= L
    <3>1. i \in (n + 1)..L /\ i \in 1..L /\ i \in 0..L /\ i - 1 \in 0..L  BY <1>4, <2>1
    <3>2. PICK f \in Seq(Nat) : MqPacketIs(f, ms[i]) /\ MqHas(s, at[i - 1] - at[n], f)
                                /\ at[i] - at[n] = (at[i - 1] - at[n]) + Len(f)
      BY <1>4, <3>1 DEF MqLies
    <3>3. MqHas(u, at[i - 1] - at[n], f)  BY <1>5, <3>2, MqHasMore
    <3>4. new[i - 1] = at[i - 1] /\ new[i] = at[i] /\ ns[i] = ms[i]  BY <1>3, <1>6, <3>1
    <3> QED  BY <1>9, <3>2, <3>3, <3>4 DEF MqLies
  <2>2. CASE i = L + 1
    <3>1. i - 1 = L /\ new[i - 1] = aL /\ new[i] = aL + k /\ new[n] = an  BY <1>9, <1>17, <1>19, <2>2
    <3>2. aL - an = l  BY <1>18
    <3>3. MqHas(u, l, e)
      <4>1. MqHas(u, 0, s \o e)  BY <1>5, MqHasItself
      <4>2. MqHas(u, 0 + Len(s), e)  BY <4>1, MqHasBoth
      <4>3. 0 + Len(s) = l  BY <1>1
      <4> QED  BY <4>2, <4>3
    <3>4. (aL + k) - an = l + k  BY <1>18
    <3>5. MqLies(u, l, l + k, m)  BY <1>1, <3>3 DEF MqLies
    <3> QED  BY <1>3, <2>2, <3>1, <3>2, <3>4, <3>5
  <2> QED  BY <2>1, <2>2
<1>13. new[n] + (l + k) = new[L + 1]
  <2>1. an + (l + k) = aL + k  BY <1>18
  <2> QED  BY <1>9, <1>17, <1>19, <2>1
<1>14. MqStream(u, n, ns, new)
  <2>1. n <= L + 1  BY <1>4
  <2> QED  BY <1>3, <1>5, <1>10, <1>11, <1>12, <1>13, <2>1 DEF MqStream
<1>15. ASSUME MqWaits(b, n, ms, at) PROVE MqWaits(b, n, ns, new)
  <2>1. CASE n < L
    <3>1. n + 1 \in 0..L  BY <2>1
    <3>2. at[n] + Len(b) < at[n + 1]  BY <1>1, <1>15, <2>1 DEF MqWaits
    <3>3. new[n + 1] = at[n + 1]  BY <1>6, <3>1
    <3> QED  BY <1>9, <3>2, <3>3 DEF MqWaits
  <2>2. CASE n = L
    <3>1. l = 0  BY <1>4, <1>9, <2>2
    <3>2. c = 0  BY <1>1, <3>1
    <3>3. k >= 2  BY <1>1, MqPacketLong
    <3>4. at[n] + c < at[L] + k  BY <1>9, <2>2, <3>2, <3>3
    <3>5. new[n] + Len(b) < new[n + 1]  BY <1>1, <1>7, <1>9, <2>2, <3>4
    <3> QED  BY <3>5 DEF MqWaits
  <2> QED  BY <1>4, <2>1, <2>2
<1> QED  BY <1>2, <1>5, <1>14, <1>15

\* A sequence cut in two.
MqCutAt(s, n) == SubSeq(s, 1, n) \o SubSeq(s, n + 1, Len(s))

\* A sequence is its first n elements and the others.
LEMMA MqSplit ==
    ASSUME NEW s \in Seq(Nat), NEW n \in Nat, n <= Len(s)
    PROVE  \E t, u \in Seq(Nat) : /\ t = SubSeq(s, 1, n) /\ u = SubSeq(s, n + 1, Len(s)) /\ s = t \o u
                                  /\ Len(t) = n
<1>1. PICK l \in Nat : l = Len(s)  BY LenProperties
<1>2. PICK k \in Nat : n + k = l
  <2>1. l - n \in Nat /\ n + (l - n) = l  BY <1>1
  <2> QED  BY <2>1
<1>3. PICK z \in Nat : z = 0 /\ z + 1 = 1 /\ z + n = n /\ z + n <= Len(s)  OBVIOUS
<1>4. PICK t : t = MqPart(s, z, n)  OBVIOUS
<1>5. t \in Seq(Nat) /\ Len(t) = n /\ \A i \in 1..n : t[i] = s[z + i]  BY <1>3, <1>4, MqSub, SMTT(30)
<1>6. PICK u : u = MqPart(s, n, k)  OBVIOUS
<1>7. n + k <= Len(s)  BY <1>1, <1>2
<1>8. u \in Seq(Nat) /\ Len(u) = k /\ \A i \in 1..k : u[i] = s[n + i]  BY <1>6, <1>7, MqSub, SMTT(30)
<1>9. PICK w \in Seq(Nat) : /\ w = t \o u /\ Len(w) = n + k
                            /\ \A i \in 1..n : w[i] = t[i]
                            /\ \A i \in 1..k : w[n + i] = u[i]
  <2>1. /\ t \o u \in Seq(Nat) /\ Len(t \o u) = Len(t) + Len(u)
        /\ \A i \in 1..Len(t) : (t \o u)[i] = t[i]
        /\ \A i \in 1..Len(u) : (t \o u)[Len(t) + i] = u[i]
    BY <1>5, <1>8, MqConcat
  <2> QED  BY <1>5, <1>8, <2>1
<1>10. ASSUME NEW i \in 1..l PROVE w[i] = s[i]
  <2>1. CASE i <= n
    <3>1. i \in 1..n /\ z + i = i  BY <1>3, <2>1
    <3> QED  BY <1>5, <1>9, <3>1
  <2>2. CASE ~(i <= n)
    <3>1. PICK j \in 1..k : i = n + j
      <4>1. i - n \in 1..k /\ i = n + (i - n)  BY <1>2, <2>2
      <4> QED  BY <4>1
    <3> QED  BY <1>8, <1>9, <3>1
  <2> QED  BY <2>1, <2>2
<1>11. w = s
  <2>1. Len(w) = l  BY <1>2, <1>9
  <2> QED  BY <1>1, <1>10, <2>1, SeqEqual
<1>12. t = SubSeq(s, 1, n)  BY <1>3, <1>4 DEF MqPart
<1>13. u = SubSeq(s, n + 1, Len(s))  BY <1>1, <1>2, <1>6 DEF MqPart
<1> QED  BY <1>5, <1>8, <1>9, <1>11, <1>12, <1>13

\* What is dropped from the front of b is dropped from the front of b and what follows.
LEMMA MqDropped ==
    ASSUME NEW b \in Seq(Nat), NEW w \in Seq(Nat), NEW k \in Nat, k <= Len(b)
    PROVE  /\ SubSeq(b, k + 1, Len(b)) \in Seq(Nat)
           /\ SubSeq(b \o w, k + 1, Len(b \o w)) = SubSeq(b, k + 1, Len(b)) \o w
<1>1. PICK t \in Seq(Nat), u \in Seq(Nat) : t = SubSeq(b, 1, k) /\ u = SubSeq(b, k + 1, Len(b)) /\ b = t \o u /\ Len(t) = k
  BY MqSplit
<1>2. PICK uw \in Seq(Nat) : uw = u \o w  BY MqConcat
<1>3. MqGrouped(t, u, w)  BY MqGroup
<1>4. PICK s : s = b \o w  OBVIOUS
<1>5. s = t \o uw  BY <1>1, <1>2, <1>3, <1>4 DEF MqGrouped
<1>6. PICK n \in Nat : n = Len(uw)  BY LenProperties
<1>7. Len(t \o uw) = k + n
  <2>1. Len(t \o uw) = Len(t) + Len(uw)  BY MqConcat
  <2> QED  BY <1>1, <1>6, <2>1
<1>8. SubSeq(t \o uw, (Len(t \o uw) - n) + 1, Len(t \o uw)) = uw  BY <1>6, MqConcatParts
<1>9. Len(t \o uw) - n = k  BY <1>7
<1>10. SubSeq(s, k + 1, Len(s)) = uw  BY <1>5, <1>8, <1>9
<1> QED  BY <1>1, <1>2, <1>4, <1>10

\* The first packet is taken off.
LEMMA MqStreamTake ==
    ASSUME NEW s \in Seq(Nat), NEW n \in Nat, NEW ms \in Seq(MqMessage), NEW at, MqStream(s, n, ms, at), n < Len(ms),
           NEW k \in Nat, at[n + 1] = at[n] + k, NEW r \in Seq(Nat), r = SubSeq(s, k + 1, Len(s)), k <= Len(s)
    PROVE  MqStream(r, n + 1, ms, at)
<1>1. PICK L \in Nat, l \in Nat, lr \in Nat : L = Len(ms) /\ l = Len(s) /\ lr = Len(r)  BY LenProperties
<1>2. /\ n < L /\ at \in [0..L -> Nat] /\ at[n] + l = at[L]
      /\ \A i, j \in 0..L : i <= j => at[i] <= at[j]
      /\ \A i \in (n + 1)..L : MqLies(s, at[i - 1] - at[n], at[i] - at[n], ms[i])
  BY <1>1 DEF MqStream
<1>3. l = k + lr
  <2>1. PICK t \in Seq(Nat), u \in Seq(Nat) : t = SubSeq(s, 1, k) /\ u = SubSeq(s, k + 1, Len(s)) /\ s = t \o u /\ Len(t) = k
    BY MqSplit
  <2>2. Len(t \o u) = Len(t) + Len(u)  BY MqConcat
  <2> QED  BY <1>1, <2>1, <2>2
<1>4. n \in 0..L /\ n + 1 \in 0..L /\ L \in 0..L  BY <1>2
<1>5. PICK a \in Nat, c \in Nat, aL \in Nat : a = at[n] /\ c = at[n + 1] /\ aL = at[L]  BY <1>2, <1>4
<1>6. c = a + k /\ a + l = aL  BY <1>2, <1>5
<1>7. c + lr = aL  BY <1>3, <1>6
<1>8. ASSUME NEW i \in ((n + 1) + 1)..L PROVE MqLies(r, at[i - 1] - c, at[i] - c, ms[i])
  <2>1. i \in (n + 1)..L /\ i \in 0..L /\ i - 1 \in 0..L /\ n + 1 <= i - 1  BY <1>2
  <2>2. PICK x \in Nat, y \in Nat : x = at[i - 1] /\ y = at[i]  BY <1>2, <2>1
  <2>3. PICK f \in Seq(Nat) : MqPacketIs(f, ms[i]) /\ MqHas(s, x - a, f) /\ y - a = (x - a) + Len(f)
    <3>1. MqLies(s, x - a, y - a, ms[i])  BY <1>2, <1>5, <2>1, <2>2
    <3> QED  BY <3>1 DEF MqLies
  <2>4. c <= x
    <3>1. at[n + 1] <= at[i - 1]  BY <1>2, <1>4, <2>1
    <3> QED  BY <1>5, <2>2, <3>1
  <2>5. PICK p \in Nat : p = x - a /\ k <= p /\ p - k = x - c
    <3>1. x - a \in Nat /\ k <= x - a /\ (x - a) - k = x - c  BY <1>6, <2>4
    <3> QED  BY <3>1
  <2>6. MqHas(s, p, f)  BY <2>3, <2>5
  <2>7. MqHas(SubSeq(s, k + 1, Len(s)), p - k, f)  BY <2>5, <2>6, MqHasBehind
  <2>8. MqHas(r, x - c, f)  BY <2>5, <2>7
  <2>9. PICK lf \in Nat : lf = Len(f)  BY LenProperties
  <2>10. y - c = (x - c) + lf
    <3>1. y - a = (x - a) + lf  BY <2>3, <2>9
    <3> QED  BY <3>1
  <2>11. MqLies(r, x - c, y - c, ms[i])  BY <2>3, <2>8, <2>9, <2>10 DEF MqLies
  <2> QED  BY <2>2, <2>11
<1>9. n + 1 <= L  BY <1>2
<1>10. at[n + 1] + Len(r) = at[L]  BY <1>1, <1>5, <1>7
<1>11. \A i \in ((n + 1) + 1)..L : MqLies(r, at[i - 1] - at[n + 1], at[i] - at[n + 1], ms[i])  BY <1>5, <1>8
<1> QED  BY <1>1, <1>2, <1>9, <1>10, <1>11 DEF MqStream
-----------------------------------------------------------------------------
(* One turn of the receiver.                                                    *)

MqParsed(b, g) == IF Len(b) < 2 THEN MQ!Incomplete ELSE MQ!ParseMqtt(Append(b, g), Len(b))

\* The next packet is whole in b: it is read, and what is left is the stream behind it.
MqTakes(b, g, w, n, ms, at) ==
    \E k \in Nat :
        /\ n < Len(ms) /\ k >= 2 /\ k <= Len(b) /\ MqParsed(b, g) = [end |-> k, message |-> ms[n + 1]]
        /\ LET rest == SubSeq(b, k + 1, Len(b))
           IN  /\ rest \in Seq(Nat) /\ MqStream(rest \o w, n + 1, ms, at)
               /\ Len(rest) < 2 => MqWaits(rest, n + 1, ms, at)

\* The first packet of a stream.
MqFirstIs(s, n, ms, at, e) ==
    /\ MqPacketIs(e, ms[n + 1]) /\ MqHas(s, 0, e) /\ e \in Seq(Nat)
    /\ at[n] \in Nat /\ at[n + 1] = at[n] + Len(e)

\* A stream that is not at its end begins with a packet.
LEMMA MqFirstOf ==
    ASSUME NEW s \in Seq(Nat), NEW n \in Nat, NEW ms \in Seq(MqMessage), NEW at, MqStream(s, n, ms, at), n < Len(ms)
    PROVE  \E e : MqFirstIs(s, n, ms, at, e)
<1>1. PICK L \in Nat : L = Len(ms)  BY LenProperties
<1>2. /\ n < L /\ at \in [0..L -> Nat]
      /\ \A i \in (n + 1)..L : MqLies(s, at[i - 1] - at[n], at[i] - at[n], ms[i])
  BY <1>1 DEF MqStream
<1>3. n \in 0..L /\ n + 1 \in 0..L /\ n + 1 \in (n + 1)..L /\ (n + 1) - 1 = n  BY <1>2
<1>4. PICK a \in Nat, c \in Nat : a = at[n] /\ c = at[n + 1]  BY <1>2, <1>3
<1>5. MqLies(s, a - a, c - a, ms[n + 1])
  <2>1. MqLies(s, at[(n + 1) - 1] - at[n], at[n + 1] - at[n], ms[n + 1])  BY <1>2, <1>3
  <2> QED  BY <1>3, <1>4, <2>1
<1>6. PICK e \in Seq(Nat) : MqPacketIs(e, ms[n + 1]) /\ MqHas(s, a - a, e) /\ c - a = (a - a) + Len(e)
  BY <1>5 DEF MqLies
<1>7. PICK k \in Nat : k = Len(e)  BY LenProperties
<1>8. a - a = 0 /\ c = a + k
  <2>1. c - a = (a - a) + k  BY <1>6, <1>7
  <2> QED  BY <2>1
<1>9. MqHas(s, 0, e)  BY <1>6, <1>8
<1>10. MqFirstIs(s, n, ms, at, e)  BY <1>4, <1>6, <1>7, <1>8, <1>9 DEF MqFirstIs
<1> QED  BY <1>10

\* A turn either takes a packet or finds that the next one is not whole.
LEMMA MqTurn ==
    ASSUME NEW b \in Seq(Nat), NEW w \in Seq(Nat), NEW n \in Nat, NEW ms \in Seq(MqMessage), NEW at,
           MqStream(b \o w, n, ms, at), NEW g \in Nat
    PROVE  \/ MqParsed(b, g) = MQ!Incomplete /\ MqWaits(b, n, ms, at)
           \/ MqTakes(b, g, w, n, ms, at)
<1>1. PICK L \in Nat, l \in Nat, lw \in Nat : L = Len(ms) /\ l = Len(b) /\ lw = Len(w)  BY LenProperties
<1>2. PICK s \in Seq(Nat) : s = b \o w /\ Len(s) = l + lw  BY <1>1, MqConcat
<1>3. MqStream(s, n, ms, at)  BY <1>2
<1>4. CASE n >= L
  <2>1. n = L /\ at[n] + (l + lw) = at[L] /\ at \in [0..L -> Nat]  BY <1>1, <1>2, <1>3, <1>4 DEF MqStream
  <2>2. L \in 0..L  OBVIOUS
  <2>3. PICK a \in Nat : a = at[L]  BY <2>1, <2>2
  <2>4. a + (l + lw) = a  BY <2>1, <2>3
  <2>5. l < 2  BY <2>4
  <2> QED  BY <1>1, <1>4, <2>5 DEF MqParsed, MqWaits
<1>5. CASE n < L
  <2>1. PICK e : MqFirstIs(s, n, ms, at, e)  BY <1>1, <1>3, <1>5, MqFirstOf
  <2>2. MqPacketIs(e, ms[n + 1]) /\ MqHas(s, 0, e) /\ e \in Seq(Nat)  BY <2>1 DEF MqFirstIs
  <2>3. PICK k \in Nat, a \in Nat : k = Len(e) /\ a = at[n] /\ at[n + 1] = a + k
    BY <2>1, LenProperties DEF MqFirstIs
  <2>4. k >= 2  BY <2>2, <2>3, MqPacketLong
  <2>5. k <= l + lw
    <3>1. 0 + Len(e) <= Len(s)  BY <2>2 DEF MqHas
    <3> QED  BY <1>2, <2>3, <3>1
  <2>6. CASE k <= l
    <3>1. MqHas(b, 0, e)
      <4>1. 0 + Len(e) <= Len(b)  BY <1>1, <2>3, <2>6
      <4> QED  BY <1>2, <2>2, <4>1, MqHasLess
    <3>2. MqReads(Append(b, g), Len(b), Len(e), ms[n + 1])  BY <2>2, <3>1, MqWhole
    <3>3. MqParsed(b, g) = [end |-> k, message |-> ms[n + 1]]
      <4>1. ~(Len(b) < 2)  BY <1>1, <2>4, <2>6
      <4> QED  BY <2>3, <3>2, <4>1 DEF MqParsed, MqReads
    <3>4. PICK rest : rest = SubSeq(b, k + 1, Len(b))  OBVIOUS
    <3>5. rest \in Seq(Nat) /\ SubSeq(s, k + 1, Len(s)) = rest \o w  BY <1>1, <1>2, <2>6, <3>4, MqDropped
    <3>6. PICK r \in Seq(Nat) : r = rest \o w  BY <3>5, MqConcat
    <3>7. MqStream(r, n + 1, ms, at)
      <4>1. at[n + 1] = at[n] + k /\ k <= Len(s) /\ r = SubSeq(s, k + 1, Len(s)) /\ n < Len(ms)
        BY <1>1, <1>2, <1>5, <2>3, <2>5, <3>5, <3>6
      <4> QED  BY <1>3, <4>1, MqStreamTake
    <3>8. ASSUME Len(rest) < 2 PROVE MqWaits(rest, n + 1, ms, at)
      <4> SUFFICES ASSUME n + 1 < Len(ms) PROVE at[n + 1] + Len(rest) < at[(n + 1) + 1]  BY DEF MqWaits
      <4>1. n + 1 \in Nat  OBVIOUS
      <4>2. PICK f : MqFirstIs(r, n + 1, ms, at, f)  BY <3>7, <4>1, MqFirstOf
      <4>3. Len(f) >= 2 /\ f \in Seq(Nat)  BY <4>2, MqPacketLong DEF MqFirstIs
      <4>4. PICK c \in Nat, lf \in Nat, lr \in Nat :
              c = at[n + 1] /\ lf = Len(f) /\ lr = Len(rest) /\ at[(n + 1) + 1] = c + lf
        BY <3>5, <4>2, <4>3, LenProperties DEF MqFirstIs
      <4>6. lr < 2 /\ lf >= 2  BY <3>8, <4>3, <4>4
      <4>5. c + lr < c + lf  BY <4>6
      <4> QED  BY <4>4, <4>5
    <3>9. MqTakes(b, g, w, n, ms, at)
      <4>1. k <= Len(b) /\ n < Len(ms)  BY <1>1, <1>5, <2>6
      <4>2. MqStream(rest \o w, n + 1, ms, at)  BY <3>6, <3>7
      <4> QED  BY <2>4, <3>3, <3>4, <3>5, <3>8, <4>1, <4>2 DEF MqTakes
    <3> QED  BY <3>9
  <2>7. CASE k > l
    <3>1. MqWaits(b, n, ms, at)
      <4>1. a + l < a + k  BY <2>7
      <4> QED  BY <1>1, <2>3, <4>1 DEF MqWaits
    <3>2. MqParsed(b, g) = MQ!Incomplete
      <4>1. CASE Len(b) < 2  BY <4>1 DEF MqParsed
      <4>2. CASE ~(Len(b) < 2)
        <5>1. Len(b) >= 2 /\ Len(b) < Len(e)  BY <1>1, <2>3, <2>7, <4>2
        <5>2. \A i \in 1..Len(b) : b[i] = e[i]
          <6> TAKE i \in 1..Len(b)
          <6>1. i \in 1..Len(e) /\ 0 + i = i  BY <1>1, <2>3, <2>7
          <6>2. s[0 + i] = e[i]  BY <2>2, <6>1, MqHasAt
          <6>3. s[i] = b[i]  BY <1>2, MqConcat
          <6> QED  BY <6>1, <6>2, <6>3
        <5>3. MqCutIn(b, e)  BY <2>2, <5>1, <5>2 DEF MqCutIn
        <5>4. MQ!ParseMqtt(Append(b, g), Len(b)) = MQ!Incomplete  BY <2>2, <5>1, <5>3, MqCut
        <5> QED  BY <4>2, <5>4 DEF MqParsed
      <4> QED  BY <4>1, <4>2
    <3> QED  BY <3>1, <3>2
  <2> QED  BY <2>3, <2>6, <2>7, <1>1
<1> QED  BY <1>4, <1>5
-----------------------------------------------------------------------------
(* The invariant.                                                               *)

\* The messages handled are the first of those sent.
MqFirsts(es, ms) == Len(es) <= Len(ms) /\ \A i \in 1..Len(es) : es[i] = ms[i]

\* What is in the buffer and on its way is the packets not handled yet; when the
\* handler does not run, the first of them is not whole in the buffer.
MqCarried(b, w, lp, n, ms) ==
    \E at : MqStream(b \o w, n, ms, at) /\ (~lp => MqWaits(b, n, ms, at))

MqInv ==
    /\ wire \in Seq(Nat) /\ buf \in Seq(Nat) /\ looping \in BOOLEAN
    /\ owed \in Seq(MqMessage) /\ events \in Seq(MqMessage)
    /\ MqFirsts(events, owed) /\ acks = MQ!Due(events)
    /\ MqCarried(buf, wire, looping, Len(events), owed)

\* Nothing was sent.
LEMMA MqInitially == ASSUME MQ!Init PROVE MqInv
<1>0. <<>> \in Seq(Nat) /\ Len(<<>>) = 0  OBVIOUS
<1>1. PICK b \in Seq(Nat) : b = <<>> /\ Len(b) = 0  BY <1>0
<1>2. PICK ms \in Seq(MqMessage) : ms = <<>> /\ Len(ms) = 0  BY EmptySeq
<1>3. /\ wire = b /\ buf = b /\ looping = FALSE /\ owed = ms /\ events = ms /\ acks = <<>>
  BY <1>1, <1>2 DEF MQ!Init
<1>4. b \o b = b  BY <1>1, MqEmpty
<1>5. PICK at : at = [i \in 0..0 |-> 0]  OBVIOUS
<1>6. at \in [0..0 -> Nat] /\ at[0] = 0 /\ \A i, j \in 0..0 : i <= j => at[i] <= at[j]  BY <1>5
<1>7. MqStream(b, 0, ms, at)
  <2>1. \A i \in (0 + 1)..0 : MqLies(b, at[i - 1] - at[0], at[i] - at[0], ms[i])  OBVIOUS
  <2>2. at[0] + Len(b) = at[0]  BY <1>1, <1>6
  <2> QED  BY <1>2, <1>6, <2>1, <2>2 DEF MqStream
<1>8. MqWaits(b, 0, ms, at)  BY <1>2 DEF MqWaits
<1>9. MqCarried(b, b, FALSE, 0, ms)  BY <1>4, <1>7, <1>8 DEF MqCarried
<1>10. MqFirsts(ms, ms)  BY <1>2 DEF MqFirsts
<1>11. MQ!Due(ms) = <<>>  BY <1>2, MqDueNone
<1> QED  BY <1>2, <1>3, <1>9, <1>10, <1>11 DEF MqInv

\* What the sender appends joins the stream at its end.
LEMMA MqSendKeeps == ASSUME MqInv, MQ!SomePacket PROVE MqInv'
<1>1. /\ wire \in Seq(Nat) /\ buf \in Seq(Nat) /\ looping \in BOOLEAN
      /\ owed \in Seq(MqMessage) /\ events \in Seq(MqMessage)
      /\ MqFirsts(events, owed) /\ acks = MQ!Due(events)
  BY DEF MqInv
<1>2. PICK m \in MqMessage : MqMade(wire, wire', m) /\ owed' = Append(owed, m)
                             /\ UNCHANGED <<buf, looping, events, acks>>
  BY <1>1, MqSomePacket DEF MqSent
<1>3. PICK e \in Seq(Nat) : MqPacketIs(e, m) /\ wire' = wire \o e  BY <1>2 DEF MqMade
<1>4. PICK n \in Nat : n = Len(events)  BY <1>1, LenProperties
<1>5. PICK at : MqStream(buf \o wire, n, owed, at) /\ (~looping => MqWaits(buf, n, owed, at))
  BY <1>4 DEF MqInv, MqCarried
<1>6. PICK s \in Seq(Nat) : s = buf \o wire /\ Len(buf) <= Len(s)
  <2>1. PICK s \in Seq(Nat) : s = buf \o wire /\ Len(s) = Len(buf) + Len(wire)  BY <1>1, MqConcat
  <2>2. PICK l \in Nat, lw \in Nat : l = Len(buf) /\ lw = Len(wire)  BY <1>1, LenProperties
  <2>3. l <= l + lw  OBVIOUS
  <2> QED  BY <2>1, <2>2, <2>3
<1>7. PICK new : MqStream(s \o e, n, Append(owed, m), new)
                 /\ (MqWaits(buf, n, owed, at) => MqWaits(buf, n, Append(owed, m), new))
  BY <1>1, <1>3, <1>5, <1>6, MqStreamSend
<1>8. s \o e = buf \o wire'
  <2>1. MqGrouped(buf, wire, e)  BY <1>1, MqGroup
  <2> QED  BY <1>3, <1>6, <2>1 DEF MqGrouped
<1>9. MqCarried(buf, wire', looping, n, owed')
  <2>1. MqStream(buf \o wire', n, owed', new)  BY <1>2, <1>7, <1>8
  <2>2. ~looping => MqWaits(buf, n, owed', new)  BY <1>2, <1>5, <1>7
  <2> QED  BY <2>1, <2>2 DEF MqCarried
<1>10. owed' \in Seq(MqMessage) /\ MqFirsts(events, owed')
  <2>1. /\ Append(owed, m) \in Seq(MqMessage) /\ Len(Append(owed, m)) = Len(owed) + 1
        /\ \A i \in 1..Len(owed) : Append(owed, m)[i] = owed[i]
    BY <1>1, AppendProperties
  <2>2. PICK L \in Nat : L = Len(owed)  BY <1>1, LenProperties
  <2>3. n <= L /\ \A i \in 1..n : events[i] = owed[i]  BY <1>1, <1>4, <2>2 DEF MqFirsts
  <2>4. n <= L + 1  BY <2>3
  <2>5. \A i \in 1..n : i \in 1..L  BY <2>3
  <2>6. \A i \in 1..n : events[i] = Append(owed, m)[i]  BY <2>1, <2>2, <2>3, <2>5
  <2> QED  BY <1>2, <1>4, <2>1, <2>2, <2>4, <2>6 DEF MqFirsts
<1>11. wire' \in Seq(Nat)  BY <1>1, <1>3, MqConcat
<1>12. buf' = buf /\ looping' = looping /\ events' = events /\ acks' = acks  BY <1>2
<1>13. acks = MQ!Due(events)  BY <1>1
<1> QED  BY <1>1, <1>4, <1>9, <1>10, <1>11, <1>12, <1>13 DEF MqInv

\* A read moves the border between the buffer and what is on its way.
LEMMA MqReceiveKeeps == ASSUME MqInv, NEW k \in PacketChunks, MQ!Receive(k) PROVE MqInv'
<1>1. /\ wire \in Seq(Nat) /\ buf \in Seq(Nat) /\ MqFirsts(events, owed) /\ acks = MQ!Due(events)
      /\ owed \in Seq(MqMessage) /\ events \in Seq(MqMessage)
  BY DEF MqInv
<1>2. k \in Nat /\ k <= Len(wire)  BY MqttAssumption DEF MQ!Receive
<1>3. PICK t \in Seq(Nat), u \in Seq(Nat) :
        t = SubSeq(wire, 1, k) /\ u = SubSeq(wire, k + 1, Len(wire)) /\ wire = t \o u
  <2>1. \E t, u \in Seq(Nat) : /\ t = SubSeq(wire, 1, k) /\ u = SubSeq(wire, k + 1, Len(wire)) /\ wire = t \o u
                               /\ Len(t) = k
    BY <1>1, <1>2, MqSplit
  <2> QED  BY <2>1
<1>4. /\ buf' = buf \o t /\ wire' = u /\ looping' = TRUE
      /\ owed' = owed /\ events' = events /\ acks' = acks
  BY <1>3 DEF MQ!Receive
<1>5. PICK n \in Nat : n = Len(events)  BY <1>1, LenProperties
<1>6. PICK at : MqStream(buf \o wire, n, owed, at)  BY <1>5 DEF MqInv, MqCarried
<1>7. buf \o wire = buf' \o wire'
  <2>1. MqGrouped(buf, t, u)  BY <1>1, MqGroup
  <2> QED  BY <1>3, <1>4, <2>1 DEF MqGrouped
<1>8. MqCarried(buf', wire', TRUE, n, owed)  BY <1>6, <1>7 DEF MqCarried
<1>9. buf' \in Seq(Nat)  BY <1>1, <1>4, MqConcat
<1> QED  BY <1>1, <1>4, <1>5, <1>8, <1>9 DEF MqInv

\* A turn that takes a packet, and one that does not.
MqHandled(g) ==
    LET parsed == MqParsed(buf, g)
        rest == SubSeq(buf, parsed.end + 1, Len(buf))
    IN  IF parsed = MQ!Incomplete
        THEN looping' = FALSE /\ UNCHANGED <<buf, events, acks>>
        ELSE /\ acks' = acks \o MQ!Acks(parsed.message)
             /\ events' = Append(events, parsed.message)
             /\ buf' = rest
             /\ looping' = (Len(rest) >= 2)

\* A turn takes the packet that comes first, or leaves all as it is.
LEMMA MqHandleKeeps == ASSUME MqInv, MQ!HandleRecv PROVE MqInv'
<1>1. /\ wire \in Seq(Nat) /\ buf \in Seq(Nat) /\ MqFirsts(events, owed) /\ acks = MQ!Due(events)
      /\ owed \in Seq(MqMessage) /\ events \in Seq(MqMessage)
  BY DEF MqInv
<1>2. PICK g \in Garbage : MqHandled(g)  BY DEF MQ!HandleRecv, MqHandled, MqParsed
<1>3. wire' = wire /\ owed' = owed /\ g \in Nat  BY <1>2, MqttAssumption DEF MQ!HandleRecv
<1>4. PICK n \in Nat : n = Len(events)  BY <1>1, LenProperties
<1>5. PICK at : MqStream(buf \o wire, n, owed, at)  BY <1>4 DEF MqInv, MqCarried
<1>6. CASE MqParsed(buf, g) = MQ!Incomplete /\ MqWaits(buf, n, owed, at)
  <2>1. looping' = FALSE /\ buf' = buf /\ events' = events /\ acks' = acks  BY <1>2, <1>6 DEF MqHandled
  <2>2. MqCarried(buf, wire, FALSE, n, owed)  BY <1>5, <1>6 DEF MqCarried
  <2> QED  BY <1>1, <1>3, <1>4, <2>1, <2>2 DEF MqInv
<1>7. CASE MqTakes(buf, g, wire, n, owed, at)
  <2>1. PICK k \in Nat, rest \in Seq(Nat) :
          /\ n < Len(owed) /\ k >= 2 /\ MqParsed(buf, g) = [end |-> k, message |-> owed[n + 1]]
          /\ rest = SubSeq(buf, k + 1, Len(buf)) /\ MqStream(rest \o wire, n + 1, owed, at)
          /\ (Len(rest) < 2 => MqWaits(rest, n + 1, owed, at))
    BY <1>7 DEF MqTakes
  <2>2. MqParsed(buf, g) # MQ!Incomplete
    <3>1. MqParsed(buf, g).end = k  BY <2>1
    <3>2. MQ!Incomplete.end = -1  BY DEF MQ!Incomplete
    <3> QED  BY <2>1, <3>1, <3>2
  <2>3. PICK m : m = owed[n + 1]  OBVIOUS
  <2>4. MqParsed(buf, g).end = k /\ MqParsed(buf, g).message = m  BY <2>1, <2>3
  <2>5. acks' = acks \o MQ!Acks(m) /\ events' = Append(events, m) /\ buf' = rest /\ looping' = (Len(rest) >= 2)
    BY <1>2, <2>1, <2>2, <2>4 DEF MqHandled
  <2>6. PICK L \in Nat : L = Len(owed) /\ n < L  BY <1>1, <2>1, LenProperties
  <2>7. m \in MqMessage
    <3>1. n + 1 \in 1..L  BY <2>6
    <3> QED  BY <1>1, <2>3, <2>6, <3>1, ElementOfSeq
  <2>8. /\ events' \in Seq(MqMessage) /\ Len(events') = n + 1 /\ events'[n + 1] = m
        /\ \A i \in 1..n : events'[i] = events[i]
    <3>1. /\ Append(events, m) \in Seq(MqMessage) /\ Len(Append(events, m)) = Len(events) + 1
          /\ \A i \in 1..Len(events) : Append(events, m)[i] = events[i]
          /\ Append(events, m)[Len(events) + 1] = m
      BY <1>1, <2>7, AppendProperties
    <3> QED  BY <1>4, <2>5, <3>1
  <2>9. MqFirsts(events', owed)
    <3>1. \A i \in 1..n : events[i] = owed[i]  BY <1>1, <1>4 DEF MqFirsts
    <3>2. \A i \in 1..(n + 1) : events'[i] = owed[i]
      <4> TAKE i \in 1..(n + 1)
      <4>1. CASE i = n + 1  BY <2>3, <2>8, <4>1
      <4>2. CASE i # n + 1
        <5>1. i \in 1..n  BY <4>2
        <5> QED  BY <2>8, <3>1, <5>1
      <4> QED  BY <4>1, <4>2
    <3>3. n + 1 <= L  BY <2>6
    <3> QED  BY <2>6, <2>8, <3>2, <3>3 DEF MqFirsts
  <2>10. acks' = MQ!Due(events')
    <3>1. MQ!Due(Append(events, m)) = MQ!Due(events) \o MQ!Acks(m)  BY <1>1, <2>7, MqDueAppend
    <3> QED  BY <1>1, <2>5, <3>1
  <2>11. looping' \in BOOLEAN /\ (~looping' => Len(rest) < 2)
    <3>1. PICK l \in Nat : l = Len(rest)  BY LenProperties
    <3>2. looping' = (l >= 2)  BY <2>5, <3>1
    <3>3. CASE l >= 2
      <4>1. looping' = TRUE  BY <3>2, <3>3
      <4> QED  BY <4>1
    <3>4. CASE ~(l >= 2)
      <4>0. (l >= 2) = FALSE  BY <3>4
      <4>1. looping' = FALSE  BY <3>2, <4>0, Zenon
      <4>2. l < 2  BY <3>4
      <4> QED  BY <3>1, <4>1, <4>2
    <3> QED  BY <3>3, <3>4
  <2>12. MqCarried(rest, wire, looping', n + 1, owed)  BY <2>1, <2>11 DEF MqCarried
  <2> QED  BY <1>1, <1>3, <2>5, <2>8, <2>9, <2>10, <2>11, <2>12 DEF MqInv
<1>8. \/ MqParsed(buf, g) = MQ!Incomplete /\ MqWaits(buf, n, owed, at)
      \/ MqTakes(buf, g, wire, n, owed, at)
  BY <1>1, <1>3, <1>5, MqTurn
<1> QED  BY <1>6, <1>7, <1>8

\* Every step keeps the invariant.
LEMMA MqStep == ASSUME MqInv, [MQ!Next]_MQ!vars PROVE MqInv'
<1>1. CASE MQ!SomePacket  BY <1>1, MqSendKeeps
<1>2. CASE \E n \in PacketChunks : MQ!Receive(n)  BY <1>2, MqReceiveKeeps
<1>3. CASE MQ!HandleRecv  BY <1>3, MqHandleKeeps
<1>4. CASE UNCHANGED MQ!vars
  <2>1. /\ wire' = wire /\ buf' = buf /\ looping' = looping
        /\ owed' = owed /\ events' = events /\ acks' = acks
    BY <1>4 DEF MQ!vars
  <2> QED  BY <2>1 DEF MqInv
<1> QED  BY <1>1, <1>2, <1>3, <1>4 DEF MQ!Next

\* What is first in a sequence is a prefix of it.
LEMMA MqFirstsPrefix ==
    ASSUME NEW es \in Seq(MqMessage), NEW ms \in Seq(MqMessage), MqFirsts(es, ms)
    PROVE  MQ!IsPrefix(es, ms)
<1>1. PICK n \in Nat, L \in Nat : n = Len(es) /\ L = Len(ms)  BY LenProperties
<1>2. n <= L /\ \A i \in 1..n : es[i] = ms[i]  BY <1>1 DEF MqFirsts
<1>3. es = SubSeq(ms, 1, n)
  <2>1. PICK z \in Nat : z = 0 /\ z + 1 = 1 /\ z + n = n  OBVIOUS
  <2>2. z + n <= Len(ms)  BY <1>1, <1>2, <2>1
  <2>3. PICK t : t = MqPart(ms, z, n)  OBVIOUS
  <2>4. t \in Seq(MqMessage) /\ Len(t) = n /\ \A i \in 1..n : t[i] = ms[z + i]  BY <2>2, <2>3, MqSub
  <2>5. \A i \in 1..n : es[i] = t[i]
    <3> TAKE i \in 1..n
    <3>1. z + i = i  BY <2>1
    <3> QED  BY <1>2, <2>4, <3>1
  <2>6. es = t  BY <1>1, <2>4, <2>5, SeqEqual
  <2> QED  BY <2>1, <2>3, <2>6 DEF MqPart
<1>4. SubSeq(es, 1, n) = es
  <2>1. es = SubSeq(es, 1, n)
    <3>1. PICK z \in Nat : z = 0 /\ z + 1 = 1 /\ z + n = n  OBVIOUS
    <3>2. z + n <= Len(es)  BY <1>1, <3>1
    <3>3. PICK t : t = MqPart(es, z, n)  OBVIOUS
    <3>4. t \in Seq(MqMessage) /\ Len(t) = n /\ \A i \in 1..n : t[i] = es[z + i]  BY <3>2, <3>3, MqSub
    <3>5. \A i \in 1..n : es[i] = t[i]
      <4> TAKE i \in 1..n
      <4>1. z + i = i  BY <3>1
      <4> QED  BY <3>4, <4>1
    <3>6. es = t  BY <1>1, <3>4, <3>5, SeqEqual
    <3> QED  BY <3>1, <3>3, <3>6 DEF MqPart
  <2> QED  BY <2>1
<1> QED  BY <1>1, <1>2, <1>3, <1>4 DEF MQ!IsPrefix

\* The invariant says what is to be shown.
LEMMA MqMeant == ASSUME MqInv PROVE MQ!PacketsWhole /\ MQ!PublishAcknowledgedOnce
<1>1. /\ wire \in Seq(Nat) /\ buf \in Seq(Nat) /\ MqFirsts(events, owed) /\ acks = MQ!Due(events)
      /\ owed \in Seq(MqMessage) /\ events \in Seq(MqMessage)
  BY DEF MqInv
<1>2. MQ!IsPrefix(events, owed)  BY <1>1, MqFirstsPrefix
<1>3. MQ!IsPrefix(acks, MQ!Due(owed))  BY <1>1, MqDuePart DEF MqFirsts
<1>4. ASSUME wire = <<>>, ~looping PROVE events = owed
  <2>1. PICK n \in Nat, L \in Nat : n = Len(events) /\ L = Len(owed)  BY <1>1, LenProperties
  <2>2. PICK at : MqStream(buf \o wire, n, owed, at) /\ MqWaits(buf, n, owed, at)
    BY <1>4, <2>1 DEF MqInv, MqCarried
  <2>3. buf \o wire = buf  BY <1>1, <1>4, MqEmpty
  <2>4. /\ n <= L /\ at \in [0..L -> Nat] /\ at[n] + Len(buf) = at[L]
        /\ \A i, j \in 0..L : i <= j => at[i] <= at[j]
    BY <2>1, <2>2, <2>3 DEF MqStream
  <2>5. ~(n < L)
    <3> SUFFICES ASSUME n < L PROVE FALSE  OBVIOUS
    <3>1. n + 1 \in 0..L /\ L \in 0..L /\ n + 1 <= L  OBVIOUS
    <3>2. PICK x \in Nat, y \in Nat : x = at[n + 1] /\ y = at[L] /\ x <= y  BY <2>4, <3>1
    <3>3. at[n] + Len(buf) < at[n + 1]  BY <2>1, <2>2 DEF MqWaits
    <3>4. y < x  BY <2>4, <3>2, <3>3
    <3> QED  BY <3>2, <3>4
  <2>6. n = L  BY <2>4, <2>5
  <2>7. \A i \in 1..n : events[i] = owed[i]  BY <1>1, <2>1 DEF MqFirsts
  <2> QED  BY <1>1, <2>1, <2>6, <2>7, SeqEqual
<1>5. ASSUME wire = <<>>, ~looping PROVE acks = MQ!Due(owed)  BY <1>1, <1>4, <1>5
<1> QED  BY <1>2, <1>3, <1>4, <1>5 DEF MQ!PacketsWhole, MQ!PublishAcknowledgedOnce

\* However the stream is cut, every packet is handled once, in order and with what
\* was sent in it, and every PUBLISH acknowledged once (mqtt_handler, parse_mqtt).
THEOREM MqttPacketsWhole == MQ!Spec => []MqttPackets
<1>1. MqInv => MqttPackets  BY MqMeant DEF MqttPackets
<1>2. MQ!Init => MqInv  BY MqInitially
<1>3. MqInv /\ [MQ!Next]_MQ!vars => MqInv'  BY MqStep
<1> QED  BY <1>1, <1>2, <1>3, PTL DEF MQ!Spec
=============================================================================
