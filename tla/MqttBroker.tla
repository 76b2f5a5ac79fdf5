------------------------------ MODULE MqttBroker -----------------------------
(***************************************************************************)
(* The MQTT broker (mqtt_server.c section of mongoose.c): the handler of a *)
(* listener and of the connections it accepts.  A session is made by       *)
(* CONNECT, hangs in the broker's list and in nc->user_data, and goes with *)
(* its connection.  Connections live as in ConnLife; what a client sends   *)
(* is any packet at any time, one action for each packet that mqtt_handler *)
(* takes out of recv_mbuf.                                                 *)
(***************************************************************************)
EXTENDS Integers, FiniteSets, Sequences

CONSTANTS
  Conn,         \* names for the accepted connections; never reused
  Session,      \* names for the malloc'ed sessions; never reused
  Null,
  Filter,       \* topic expressions
  Message,      \* what is published; nobody gets one in two publications
  Matches,      \* mg_mqtt_match_topic_expression: pairs of a filter and a message
  MaxTopics,    \* bound on the topics of one SUBSCRIBE; the code has room for the
                \* QoS of 512 (qoss), and what more of them break is left out
  MaxConnects   \* how many CONNECT packets a client sends; MQTT says one

ASSUME MqttBrokerAssumption ==
  /\ Null \notin Session \cup Conn /\ Matches \subseteq Filter \X Message
  /\ MaxTopics \in 0..512 /\ MaxConnects \in Nat

VARIABLES
  life,      \* life[c]: "absent", "open" or "gone"
  user,      \* user[c]: nc->user_data
  connects,  \* connects[c]: the CONNECT packets c has sent
  sess,      \* sess[s]: the session objects
  list,      \* the sessions in brk->sessions
  copies,    \* copies[m][c]: the copies of m that went into c's send buffer
  listener,  \* "open" or "gone"
  wild,      \* freed or foreign memory was used: nothing is modelled after it
  mgr        \* "running" or "freed"

vars == <<life, user, connects, sess, list, copies, listener, wild, mgr>>

NoObject == [alive |-> FALSE, nc |-> Null, subs |-> <<>>, size |-> 0]

-----------------------------------------------------------------------------
Running == mgr = "running" /\ ~wild

Handles_Slip(c) ==                     \* also what came before the close
  Running /\ life[c] # "absent" /\ listener = "open"

\* The handler of an accepted connection begins with nc->listener->user_data.
Handles(c) == Running /\ life[c] = "open" /\ listener = "open"

Accept(c) ==
  /\ Running /\ listener = "open" /\ life[c] = "absent"
  /\ life' = [life EXCEPT ![c] = "open"]
  /\ user' = [user EXCEPT ![c] = Null]
  /\ UNCHANGED <<connects, sess, list, copies, listener, wild, mgr>>

HandleConnect_Slip(c) ==     \* drops the session there is, not the pointer to it
  /\ Handles(c) /\ connects[c] < MaxConnects
  /\ connects' = [connects EXCEPT ![c] = @ + 1]
  /\ \E s \in Session :
       /\ sess[s].nc = Null
       /\ sess' = [t \in Session |->
            IF t = s THEN [NoObject EXCEPT !.alive = TRUE, !.nc = c]
            ELSE [sess[t] EXCEPT !.alive = @ /\ t # user[c]]]
       /\ list' = (list \ {user[c]}) \cup {s}
       /\ user' = [user EXCEPT ![c] = IF @ = Null THEN s ELSE @]
  /\ UNCHANGED <<life, copies, listener, wild, mgr>>

\* mg_mqtt_broker_handle_connect: every CONNECT makes a session.
HandleConnect(c) ==
  /\ Handles(c) /\ connects[c] < MaxConnects
  /\ connects' = [connects EXCEPT ![c] = @ + 1]
  /\ \E s \in Session :
       /\ sess[s].nc = Null
       /\ sess' = [sess EXCEPT ![s] = [NoObject EXCEPT !.alive = TRUE, !.nc = c]]
       /\ list' = list \cup {s}
       /\ user' = [user EXCEPT ![c] = s]
  /\ UNCHANGED <<life, copies, listener, wild, mgr>>

\* mg_mqtt_broker_handle_subscribe: the array is reallocated to the number of
\* topics in this packet, and they are written behind those already counted.
\* Without a session there is nothing to write to.
HandleSubscribe(c) ==
  /\ Handles(c)
  /\ \E n \in 0..MaxTopics : \E topics \in [1..n -> Filter] :
       IF user[c] = Null THEN wild' = TRUE /\ UNCHANGED sess
       ELSE LET ss == sess[user[c]] IN
            /\ sess' = [sess EXCEPT ![user[c]] = [ss EXCEPT !.subs = @ \o topics,
                                                            !.size = Len(topics)]]
            /\ wild' = (ss.subs # <<>> /\ topics # <<>>)
  /\ UNCHANGED <<life, user, connects, list, copies, listener, mgr>>

Subscribed(s, m) == \E i \in DOMAIN sess[s].subs : <<sess[s].subs[i], m>> \in Matches
Overrun(s)       == Len(sess[s].subs) > sess[s].size

CopiesFor_Slip(c, m) ==                  \* no break: a copy per subscription
  Cardinality({p \in list \X (1..MaxTopics) :
     /\ sess[p[1]].nc = c /\ p[2] \in DOMAIN sess[p[1]].subs
     /\ <<sess[p[1]].subs[p[2]], m>> \in Matches})

\* The loop over the sessions leaves off at the first matching subscription.
CopiesFor(c, m) ==
  Cardinality({s \in list : sess[s].nc = c /\ Subscribed(s, m)})

\* mg_mqtt_broker_handle_publish.
HandlePublish(c) ==
  /\ Handles(c)
  /\ \E m \in Message :
       /\ copies[m] = [d \in Conn |-> 0]
       /\ copies' = [copies EXCEPT ![m] = [d \in Conn |-> CopiesFor(d, m)]]
       /\ wild' = \E s \in list :
                    Overrun(s) \/ (Subscribed(s, m) /\ life[sess[s].nc] = "gone")
  /\ UNCHANGED <<life, user, connects, sess, list, listener, mgr>>

ClosedSessions_Slip(C) == {}             \* user_data was cleared too early

\* mg_mqtt_close_session, in the CLOSE event of each connection of C.
ClosedSessions(C) == {user[c] : c \in C} \ {Null}

CloseSessions(C) ==
  LET gone == ClosedSessions(C) IN
  /\ list' = list \ gone
  /\ sess' = [s \in Session |->
                IF s \in gone THEN [NoObject EXCEPT !.nc = sess[s].nc] ELSE sess[s]]
  /\ wild' = \E s \in gone : Overrun(s)

\* mg_close_conn frees the connection after its handler had CLOSE.
Freed(C) == life' = [c \in Conn |-> IF c \in C THEN "gone" ELSE life[c]]

Close(c) ==
  /\ Handles(c) /\ Freed({c}) /\ CloseSessions({c})
  /\ UNCHANGED <<user, connects, copies, listener, mgr>>

\* The application closes the listener; its connections go on without it, and
\* the next event of any of them looks at it.
CloseListener == /\ Running /\ listener = "open" /\ listener' = "gone"
                 /\ UNCHANGED <<life, user, connects, sess, list, copies, wild, mgr>>

EventWithoutListener(c) ==
  /\ Running /\ life[c] = "open" /\ listener = "gone" /\ wild' = TRUE
  /\ UNCHANGED <<life, user, connects, sess, list, copies, listener, mgr>>

\* mg_mgr_free closes from the head of the list: the connections, then the
\* listener, which is older than they are.
MgrFree ==
  /\ Running /\ mgr' = "freed"
  /\ LET open == {c \in Conn : life[c] = "open"} IN
     /\ listener = "gone" => open = {}
     /\ Freed(open) /\ CloseSessions(open)
  /\ listener' = "gone"
  /\ UNCHANGED <<user, connects, copies>>

Stopped == ~Running /\ UNCHANGED vars

Init == /\ life = [c \in Conn |-> "absent"]
        /\ user = [c \in Conn |-> Null]
        /\ connects = [c \in Conn |-> 0]
        /\ sess = [s \in Session |-> NoObject]
        /\ list = {}
        /\ copies = [m \in Message |-> [c \in Conn |-> 0]]
        /\ listener = "open" /\ wild = FALSE /\ mgr = "running"

Step(c) == \/ Accept(c) \/ HandleConnect(c) \/ HandleSubscribe(c)
           \/ HandlePublish(c) \/ Close(c) \/ EventWithoutListener(c)

Next == (\E c \in Conn : Step(c)) \/ CloseListener \/ MgrFree \/ Stopped

Spec == Init /\ [][Next]_vars

-----------------------------------------------------------------------------
(* Properties                                                              *)

SessionObject == [alive : BOOLEAN, nc : Conn \cup {Null},
                  subs : Seq(Filter), size : Nat]

\* Types; and nothing is ever put into a session that was freed.
TypeOK ==
  /\ life \in [Conn -> {"absent", "open", "gone"}]
  /\ user \in [Conn -> Session \cup {Null}] /\ connects \in [Conn -> 0..MaxConnects]
  /\ sess \in [Session -> SessionObject]
  /\ \A s \in Session : sess[s].alive \/ sess[s].subs = <<>>
  /\ list \subseteq Session
  /\ copies \in [Message -> [Conn -> Nat]]
  /\ listener \in {"open", "gone"} /\ wild \in BOOLEAN /\ mgr \in {"running", "freed"}

\* What SUBSCRIBE and CLOSE take from nc->user_data is a live session of that
\* very connection, however many sessions its client has made.
UserDataIsSession ==
  \A c \in Conn : life[c] = "open" /\ user[c] # Null =>
    user[c] \in list /\ sess[user[c]].nc = c

\* A session is in the list exactly as long as it is allocated, and its "nc",
\* the "connection with the client", is not freed before it, as long as the
\* client sends the one CONNECT that MQTT allows.
SessionsHaveClients ==
  \A s \in Session :
    /\ sess[s].alive <=> s \in list
    /\ sess[s].alive => life[sess[s].nc] = "open" \/ connects[sess[s].nc] > 1

\* num_subscriptions is the "size of `subscriptions` array".
ArrayHasItsSize == \A s \in list : Len(sess[s].subs) = sess[s].size

\* The refinement of PubSub: a client has asked for what the sessions that name
\* its connection hold.  Nothing is promised to clients that send CONNECT twice.
AskedBy(c) == UNION {{sess[s].subs[i] : i \in DOMAIN sess[s].subs} :
                       s \in {t \in list : sess[t].nc = c}}

Broker == INSTANCE PubSub WITH
            Client <- Conn,
            asked  <- [c \in Conn |-> AskedBy(c)],
            broken <- wild \/ \E c \in Conn : connects[c] > 1

\* Every subscriber gets one copy of what is published and nobody else does,
\* through sessions, arrays and list and whatever order clients come and go in.
ImplementsPubSub == Broker!Spec
=============================================================================
