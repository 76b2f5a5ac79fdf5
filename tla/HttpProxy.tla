----------------------------- MODULE HttpProxy -----------------------------
(***************************************************************************)
(* The reverse proxy of http.c: mg_http_reverse_proxy opens a connection   *)
(* to the upstream for a request, each of the two points to the other, and *)
(* mg_reverse_proxy_handler and mg_http_free_reverse_proxy_data are to see *)
(* that "they must live and die together".                                 *)
(*                                                                         *)
(* usedFreed is TRUE when a connection that was freed has been used.       *)
(***************************************************************************)
EXTENDS Naturals

CONSTANTS Client,      \* the accepted connection
          Backends,    \* the connections that may be made for it
          MaxRequests  \* bounds the requests that wait

VARIABLES
    conns,     \* life, linked_conn, and the close flags of each connection
    waiting,   \* requests of the client without an answer yet
    late,      \* history: a request was handled while the client was closing,
               \* or before the last one was answered
    usedFreed

vars == <<conns, waiting, late, usedFreed>>

NULL == "NULL"
Conns == {Client} \cup Backends

ASSUME HttpProxyAssumption == Client \notin Backends /\ NULL \notin Conns /\ MaxRequests \in Nat

Unused == [life |-> "unused", linked |-> NULL, sendAndClose |-> FALSE, closeNow |-> FALSE]
Alive(cs, x) == cs[x].life \in {"connecting", "open"}
-----------------------------------------------------------------------------
(* Steps of the code, as functions of all connections *)

\* A slip in it: the linked connection is not told.
Destroyed_Slip(cs, x) == [cs EXCEPT ![x].life = "freed", ![x].linked = NULL]

\* mg_http_free_reverse_proxy_data, by the destructor of x, and the end of x:
\* the flag goes to what the linked connection is linked to.
Destroyed(cs, x) ==
    LET y == cs[x].linked
        z == IF y = NULL THEN NULL ELSE cs[y].linked
        unlinked == IF z = NULL THEN cs
                    ELSE [cs EXCEPT ![z].sendAndClose = TRUE, ![y].linked = NULL]
    IN  [unlinked EXCEPT ![x].life = "freed", ![x].linked = NULL]

\* mg_http_send_error, or mg_send with SEND_AND_CLOSE, to the client of b.
Answered(cs, b) ==
    IF cs[b].linked = NULL THEN cs ELSE [cs EXCEPT ![cs[b].linked].sendAndClose = TRUE]

\* mg_reverse_proxy_handler at MG_EV_HTTP_REPLY.
Replied(cs, b) ==
    IF cs[b].linked = NULL THEN cs ELSE [Answered(cs, b) EXCEPT ![b].closeNow = TRUE]

UsesFreed(cs, b) == cs[b].linked # NULL /\ ~Alive(cs, cs[b].linked)

\* mg_http_reverse_proxy on the backend b.
Linked(cs, b) ==
    [cs EXCEPT ![b] = [Unused EXCEPT !.life = "connecting", !.linked = Client],
               ![Client].linked = b]
-----------------------------------------------------------------------------
\* A request of the client, for which a connection can be made, or not: 502.
Request ==
    /\ ~usedFreed /\ Alive(conns, Client)
    /\ waiting < MaxRequests
    /\ waiting' = waiting + 1
    /\ late' = (late \/ waiting > 0 \/ conns[Client].sendAndClose)
    /\ UNCHANGED usedFreed
    /\ \/ \E b \in Backends : conns[b].life = "unused" /\ conns' = Linked(conns, b)
       \/ conns' = [conns EXCEPT ![Client].sendAndClose = TRUE]

\* MG_EV_CONNECT
Connected(b) ==
    /\ ~usedFreed /\ conns[b].life = "connecting"
    /\ conns' = [conns EXCEPT ![b].life = "open"]
    /\ UNCHANGED <<waiting, late, usedFreed>>

ConnectFails(b) ==
    /\ ~usedFreed /\ conns[b].life = "connecting" /\ ~conns[b].closeNow
    /\ usedFreed' = UsesFreed(conns, b)
    /\ conns' = IF usedFreed' THEN conns ELSE [Answered(conns, b) EXCEPT ![b].closeNow = TRUE]
    /\ UNCHANGED <<waiting, late>>

\* MG_EV_HTTP_REPLY
Reply(b) ==
    /\ ~usedFreed /\ conns[b].life = "open" /\ ~conns[b].closeNow
    /\ usedFreed' = UsesFreed(conns, b)
    /\ conns' = IF usedFreed' THEN conns ELSE Replied(conns, b)
    /\ UNCHANGED <<waiting, late>>

\* MG_EV_CLOSE of a backend: of its own, by the upstream, perhaps in the middle of
\* a reply, which is then reported as one, or for its flags; and the destructor.
CloseBackend(b) ==
    /\ ~usedFreed /\ Alive(conns, b)
    /\ usedFreed' = UsesFreed(conns, b)
    /\ conns' = IF usedFreed' THEN conns ELSE Destroyed(Answered(conns, b), b)
    /\ UNCHANGED <<waiting, late>>

\* The client has got all that was sent, or has gone; what it has begun to send
\* may be taken for a request and proxied while it closes.
CloseClient ==
    /\ ~usedFreed /\ Alive(conns, Client)
    /\ waiting' = 0
    /\ UNCHANGED usedFreed
    /\ \/ conns' = Destroyed(conns, Client) /\ UNCHANGED late
       \/ /\ late' = TRUE
          /\ \E b \in Backends :
                /\ conns[b].life = "unused"
                /\ conns' = Destroyed(Linked(conns, b), Client)
-----------------------------------------------------------------------------
Init ==
    /\ conns = [x \in Conns |-> IF x = Client THEN [Unused EXCEPT !.life = "open"] ELSE Unused]
    /\ waiting = 0 /\ late = FALSE /\ usedFreed = FALSE

Next ==
    \/ Request \/ CloseClient
    \/ \E b \in Backends : Connected(b) \/ ConnectFails(b) \/ Reply(b) \/ CloseBackend(b)

Spec == Init /\ [][Next]_vars
-----------------------------------------------------------------------------
(* Properties *)

Life == {"unused", "connecting", "open", "freed"}
TypeOK ==
    /\ conns \in [Conns -> [life : Life, linked : Conns \cup {NULL},
                            sendAndClose : BOOLEAN, closeNow : BOOLEAN]]
    /\ waiting \in Nat /\ {late, usedFreed} \subseteq BOOLEAN

\* For a client that waits for its answers, no connection points to one that has
\* been freed, the two point to each other, and none is used after it was freed.
LinkedPairs ==
    ~late =>
        /\ ~usedFreed
        /\ \A x, y \in Conns : conns[x].linked = y =>
              Alive(conns, x) /\ Alive(conns, y) /\ conns[y].linked = x

\* Such a client is never left without an answer and without an end: as long as
\* it waits, a backend works for it, or the connection is told to close.
NeverLeftWaiting ==
    ~late /\ Alive(conns, Client) /\ waiting > 0 =>
        conns[Client].sendAndClose \/ conns[Client].linked # NULL

\* What the two sides owe a client that waits for its answers.
ProxySound == LinkedPairs /\ NeverLeftWaiting

\* What the comment in mg_http_reverse_proxy says: the connections live and die
\* together, that is, a backend whose client has gone is told to close.
LiveAndDieTogether ==
    \A b \in Backends : Alive(conns, b) /\ ~Alive(conns, Client) =>
        conns[b].sendAndClose \/ conns[b].closeNow
=============================================================================
