--------------------------------- MODULE Sntp ---------------------------------
(***************************************************************************)
(* The SNTP client (sntp.c): mg_sntp_get_time asks again every ten seconds *)
(* until a reply comes, until one cannot be read, or until it gives up.    *)
(* The repeats hang on MG_EV_TIMER, which only the polls of SimpleLink and *)
(* lwIP deliver: under libev (timers = FALSE) a lost datagram is waited    *)
(* for for ever.  Time and the delay correction are left out: a timer that *)
(* is set may fire at any later poll.                                      *)
(***************************************************************************)
EXTENDS Naturals, Sequences

CONSTANTS Datagrams, \* the forms of what a server may answer: set of [len, version, mode]
          MaxReplies \* bounds the datagrams that come

VARIABLES
    timers,   \* whether the poll of the interface, one of MG_NET_IF, calls mg_if_timer
    life,     \* the connection: connecting, open, closing (MG_F_CLOSE_IMMEDIATELY), closed
    timer,    \* ev_timer_time is set
    count,    \* sntp_data.count
    failed,   \* a request could not be written: the interface is to close the connection
    requests, \* history: requests made
    replies,  \* history: how many datagrams have come
    heard,    \* history: the last datagram handed to the handler, <<>> before there is one
    outcomes, \* history: what the application was told, in order
    quit      \* history: the application closed the connection

vars == <<timers, life, timer, count, failed, requests, replies, heard, outcomes, quit>>

SNTP_ATTEMPTS == 3

Init ==
    /\ timers \in BOOLEAN
    /\ life = "connecting" /\ timer = FALSE /\ count = 0 /\ failed = FALSE
    /\ requests = 0 /\ replies = 0 /\ heard = <<>> /\ outcomes = <<>> /\ quit = FALSE

Tell(outcome) == outcomes' = Append(outcomes, outcome)
-----------------------------------------------------------------------------
(* mg_sntp_util_ev_handler *)

\* MG_EV_TIMER, and MG_EV_CONNECT when it went well.  mg_if_timer clears the
\* timer unless the handler has set it again; mg_sntp_send_request may fail.
AskOrGiveUp ==
    IF count <= SNTP_ATTEMPTS
    THEN /\ requests' = requests + 1 /\ count' = count + 1 /\ timer' = TRUE
         /\ failed' \in BOOLEAN
         /\ life' = "open"
         /\ UNCHANGED outcomes
    ELSE /\ Tell("FAILED") /\ life' = "closing" /\ timer' = FALSE
         /\ UNCHANGED <<requests, count, failed>>

\* mg_if_connect_cb; when the name is not resolved or the socket not made it
\* has set MG_F_CLOSE_IMMEDIATELY.
Connect(ok) ==
    /\ life = "connecting"
    /\ IF ok THEN AskOrGiveUp
       ELSE Tell("FAILED") /\ life' = "closing" /\ UNCHANGED <<timer, count, failed, requests>>
    /\ UNCHANGED <<replies, heard, quit>>

Timer ==
    /\ timers /\ timer /\ life = "open" /\ ~failed
    /\ AskOrGiveUp
    /\ UNCHANGED <<replies, heard, quit>>

\* mg_sntp_parse_reply
Parsed(d) == d.len >= 48 /\ d.version = 4 /\ d.mode \in {4, 5}

\* A slip in the next: what comes for a connection that is closing as well.
Delivered_Slip == life \in {"open", "closing"}

\* mg_recv_common drops what comes for a connection that is closing.
Delivered == life = "open"

\* MG_EV_RECV in mg_sntp_handler.  A reply may be late or repeated, and is not
\* matched with a request.
Recv(d) ==
    /\ life \in {"open", "closing"} /\ requests > 0 /\ replies < MaxReplies
    /\ replies' = replies + 1
    /\ IF Delivered
       THEN heard' = <<d>> /\ Tell(IF Parsed(d) THEN "REPLY" ELSE "FAILED") /\ life' = "closing"
       ELSE UNCHANGED <<heard, outcomes, life>>
    /\ UNCHANGED <<timer, count, failed, requests, quit>>

\* The application, in a handler of its own or between polls.
UserClose ==
    /\ life \in {"connecting", "open"} /\ outcomes = <<>>
    /\ life' = "closing" /\ quit' = TRUE
    /\ UNCHANGED <<timer, count, failed, requests, replies, heard, outcomes>>

\* MG_EV_CLOSE: user_data is freed, and nothing is reported.
Close ==
    /\ life = "closing" \/ (life = "open" /\ failed)
    /\ life' = "closed"
    /\ UNCHANGED <<timer, count, failed, requests, replies, heard, outcomes, quit>>

Next ==
    /\ UNCHANGED timers
    /\ \/ \E ok \in BOOLEAN : Connect(ok)
       \/ Timer \/ UserClose \/ Close
       \/ \E d \in Datagrams : Recv(d)

Spec == Init /\ [][Next]_vars
-----------------------------------------------------------------------------
(* Properties *)

TypeOK ==
    /\ life \in {"connecting", "open", "closing", "closed"} /\ timer \in BOOLEAN /\ failed \in BOOLEAN
    /\ count \in 0..(SNTP_ATTEMPTS + 1) /\ requests \in 0..(SNTP_ATTEMPTS + 1) /\ quit \in BOOLEAN

\* The application is told one outcome, whatever comes late or twice: the time
\* only on a whole reply of a server, and a failure when there was a bad reply,
\* no connection, or every request had its ten seconds.  Only a request that
\* cannot be written, and the application itself, end a query without one.
OneOutcome ==
    /\ Len(outcomes) <= 1
    /\ outcomes = <<"REPLY">> => heard # <<>> /\ heard[1].len >= 48 /\ heard[1].version = 4 /\ heard[1].mode \in {4, 5}
    /\ outcomes = <<"FAILED">> =>
          requests = 0 \/ heard # <<>> \/ (timers /\ requests = SNTP_ATTEMPTS + 1)
    /\ life = "closed" /\ outcomes = <<>> => failed \/ quit
=============================================================================
