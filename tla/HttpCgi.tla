------------------------------- MODULE HttpCgi -------------------------------
(***************************************************************************)
(* CGI (http_cgi.c): mg_handle_cgi starts a process for a request, gives   *)
(* it the body over a socket pair whose other end becomes a connection,    *)
(* and mg_cgi_ev_handler makes of what the process writes the response.    *)
(*                                                                         *)
(* wild is TRUE when the client's connection has been used after its end.  *)
(***************************************************************************)
EXTENDS Integers, Sequences, SequencesExt, FiniteSetsExt

CONSTANTS Scripts,        \* the processes that may run
          Outputs,        \* what a process may write: a sequence of "field",
                          \* "status", "location", "empty", "bad" and "body"
          Bodies,         \* lengths of the body of a request
          MaxRequests,    \* bounds the requests
          MaxRequestSize, \* MG_MAX_HTTP_REQUEST_SIZE
          Chunks          \* how many symbols one read may deliver

VARIABLES
    nc,        \* the client's connection: open; user1, MG_F_USER_1; cgi, cgi_nc of
               \* its proto data; buf, recv_mbuf; out, what was put in send_mbuf;
               \* sendAndClose
    wire,      \* symbols the client has sent and nc has not received
    cgi,       \* of each process and the connection to it: life; told, user_data
               \* is nc; fed, its input; left, its output not yet received;
               \* buf, recv_mbuf; closeNow
    asked,     \* history: lengths of the bodies of the requests
    served,    \* history: the process started for each request, with its output
    eager,     \* history: the client did not wait for an answer
    wild

vars == <<nc, wire, cgi, asked, served, eager, wild>>

NULL == "NULL"
Header(n) == [head |-> n]
Byte(r, i) == [request |-> r, byte |-> i]
RequestBody(r) == [i \in 1..asked[r] |-> Byte(r, i)]
Unused == [life |-> "unused", told |-> FALSE, fed |-> <<>>, left |-> <<>>, buf |-> <<>>,
           closeNow |-> FALSE]
-----------------------------------------------------------------------------
(* Steps of the code *)

\* mg_http_get_request_len, for what a process writes: -1, 0, or the header.
HeaderLen(b) ==
    LET ends == {i \in DOMAIN b : b[i] = "empty"}
        head == IF ends = {} THEN b ELSE SubSeq(b, 1, Min(ends))
    IN  IF Contains(head, "bad") THEN -1 ELSE IF ends = {} THEN 0 ELSE Min(ends)

\* The reply line for the headers b.
StatusLine(b) ==
    LET h == SubSeq(b, 1, HeaderLen(b))
    IN  IF Contains(h, "location") THEN "302" ELSE IF Contains(h, "status") THEN "as told" ELSE "200"

BadHeaders(b) == HeaderLen(b) < 0 \/ (HeaderLen(b) # 0 /\ Len(b) > MaxRequestSize)

\* A slip in the next: MG_F_USER_1 is not looked at, and every read is taken for headers.
Response_Slip(user1, b) ==
    IF HeaderLen(b) = 0 THEN <<>>
    ELSE IF BadHeaders(b) THEN <<"500">> \o b
    ELSE <<StatusLine(b)>> \o b

\* What mg_cgi_ev_handler adds to the response when b is in recv_mbuf: nothing
\* before the headers are complete, and what was received, unchanged, behind.
Response(user1, b) ==
    IF ~user1 THEN b
    ELSE IF HeaderLen(b) = 0 THEN <<>>
    ELSE IF BadHeaders(b) THEN <<"500">> \o b
    ELSE <<StatusLine(b)>> \o b

\* mg_handle_cgi on the connection c, whose recv_mbuf begins with a request: all
\* that is behind the header goes to the new process.  The process that could not
\* be forked (-1 is not 0) writes nothing.
Started(c, s) == [c EXCEPT !.user1 = TRUE, !.cgi = s, !.buf = <<>>]
Process(c, output) == [life |-> "running", told |-> TRUE, fed |-> Tail(c.buf), left |-> output, buf |-> <<>>,
                       closeNow |-> FALSE]

\* mg_http_free_proto_data_cgi
FreeCgi(c, ps) == IF c.cgi = NULL THEN ps ELSE [ps EXCEPT ![c.cgi].closeNow = TRUE]

HasHeader(b) == b # <<>> /\ "head" \in DOMAIN b[1]
Whole(b) == HasHeader(b) /\ Len(b) >= 1 + b[1].head
-----------------------------------------------------------------------------
(* The client *)

Ask(n) ==
    /\ nc.open /\ ~wild /\ Len(asked) < MaxRequests
    /\ asked' = Append(asked, n)
    /\ wire' = wire \o <<Header(n)>> \o [i \in 1..n |-> Byte(Len(asked'), i)]
    /\ eager' = (eager \/ asked # <<>>)
    /\ UNCHANGED <<nc, cgi, served, wild>>

\* MG_EV_RECV of nc: a request that is complete is served.  A buffer that begins
\* with a byte of a body is no request.
Receive(n) ==
    /\ nc.open /\ ~wild /\ n <= Len(wire)
    /\ wire' = SubSeq(wire, n + 1, Len(wire))
    /\ LET c == [nc EXCEPT !.buf = @ \o SubSeq(wire, 1, n)]
       IN  \/ /\ ~Whole(c.buf)
              /\ nc' = [c EXCEPT !.sendAndClose = @ \/ ~HasHeader(c.buf)]
              /\ UNCHANGED <<cgi, served>>
           \/ /\ Whole(c.buf)
              /\ \E s \in Scripts, output \in Outputs \cup {<<>>} :
                    /\ cgi[s].life = "unused"
                    /\ nc' = Started(c, s)
                    /\ cgi' = [cgi EXCEPT ![s] = Process(c, output)]
                    /\ served' = Append(served, [script |-> s, output |-> output])
    /\ UNCHANGED <<asked, eager, wild>>

\* MG_EV_CLOSE of nc, and its destructor.  A request of which only a part has come
\* is reported, and served, after the process has been told.
CloseClient ==
    /\ nc.open /\ ~wild
    /\ LET told == IF nc.cgi = NULL THEN cgi
                   ELSE [cgi EXCEPT ![nc.cgi].told = FALSE, ![nc.cgi].closeNow = TRUE]
       IN  \/ /\ ~HasHeader(nc.buf)
              /\ nc' = [nc EXCEPT !.open = FALSE]
              /\ cgi' = FreeCgi(nc, told)
              /\ UNCHANGED served
           \/ /\ HasHeader(nc.buf)
              /\ \E s \in Scripts, output \in Outputs \cup {<<>>} :
                    /\ cgi[s].life = "unused"
                    /\ nc' = [Started(nc, s) EXCEPT !.open = FALSE]
                    /\ cgi' = FreeCgi(Started(nc, s), [told EXCEPT ![s] = Process(nc, output)])
                    /\ served' = Append(served, [script |-> s, output |-> output])
    /\ eager' = (eager \/ nc.buf # <<>>)
    /\ UNCHANGED <<wire, asked, wild>>
-----------------------------------------------------------------------------
(* The process s *)

\* MG_EV_RECV of cgi_nc
Output(s, n) ==
    /\ cgi[s].life = "running" /\ ~cgi[s].closeNow /\ ~wild /\ n <= Len(cgi[s].left)
    /\ LET b == cgi[s].buf \o SubSeq(cgi[s].left, 1, n)
           waits == nc.user1 /\ HeaderLen(b) = 0
           bad == nc.user1 /\ BadHeaders(b)
       IN  /\ wild' = (cgi[s].told /\ ~nc.open)
           /\ cgi' = [cgi EXCEPT ![s].left = SubSeq(@, n + 1, Len(@)),
                                 ![s].buf = IF waits \/ ~cgi[s].told THEN b ELSE <<>>,
                                 ![s].closeNow = bad \/ ~cgi[s].told]
           /\ nc' = IF ~cgi[s].told \/ wild' THEN nc
                    ELSE [nc EXCEPT !.out = @ \o Response(nc.user1, b), !.user1 = waits,
                                    !.sendAndClose = @ \/ bad]
    /\ UNCHANGED <<wire, asked, served, eager>>

\* MG_EV_CLOSE of cgi_nc: the process has ended, perhaps before its output was
\* complete, or the connection was told to close.
CloseCgi(s) ==
    /\ cgi[s].life = "running" /\ ~wild
    /\ wild' = (cgi[s].told /\ ~nc.open)
    /\ LET ended == [cgi EXCEPT ![s].life = "freed"]
       IN  IF cgi[s].told /\ ~wild'
           THEN /\ cgi' = FreeCgi(nc, ended)
                /\ nc' = [nc EXCEPT !.cgi = NULL, !.sendAndClose = TRUE]
           ELSE cgi' = ended /\ UNCHANGED nc
    /\ UNCHANGED <<wire, asked, served, eager>>
-----------------------------------------------------------------------------
Init ==
    /\ nc = [open |-> TRUE, user1 |-> FALSE, cgi |-> NULL, buf |-> <<>>, out |-> <<>>, sendAndClose |-> FALSE]
    /\ wire = <<>> /\ cgi = [s \in Scripts |-> Unused]
    /\ asked = <<>> /\ served = <<>> /\ eager = FALSE /\ wild = FALSE

Next ==
    \/ \E n \in Bodies : Ask(n)
    \/ \E n \in Chunks : Receive(n) \/ \E s \in Scripts : Output(s, n)
    \/ CloseClient
    \/ \E s \in Scripts : CloseCgi(s)

Spec == Init /\ [][Next]_vars
-----------------------------------------------------------------------------
(* Properties *)

TypeOK ==
    /\ {nc.open, nc.user1, nc.sendAndClose, eager, wild} \subseteq BOOLEAN
    /\ nc.cgi \in Scripts \cup {NULL}
    /\ \A s \in Scripts : /\ cgi[s].life \in {"unused", "running", "freed"}
                          /\ {cgi[s].told, cgi[s].closeNow} \subseteq BOOLEAN
    /\ Len(served) <= Cardinality(Scripts)

\* For a client that waits for the answer before it asks again or goes with half
\* a request sent: the process gets the body, byte by byte, and what the client
\* gets is the reply line the headers call for and the output in order, however
\* it was cut into reads, and all of it once the process has written all.
ScriptServed ==
    ~eager /\ served # <<>> /\ ~BadHeaders(served[1].output) =>
        LET s == served[1].script
            output == served[1].output
            due == Response(TRUE, output)
        IN  /\ cgi[s].fed = RequestBody(1)
            /\ IsPrefix(nc.out, due)
            /\ nc.open /\ cgi[s].left = <<>> => nc.out = due

\* Such a client is never left without an end: until the response is complete
\* and the connection told to close, a process that can still answer is linked,
\* and neither of the two uses the other after its end.
CgiPaired ==
    ~eager =>
        /\ ~wild
        /\ nc.open /\ served # <<>> /\ ~nc.sendAndClose => nc.cgi # NULL
        /\ \A s \in Scripts : nc.cgi = s /\ nc.open => cgi[s].life = "running" /\ cgi[s].told
        /\ \A s \in Scripts : cgi[s].life = "running" /\ cgi[s].told => nc.open
=============================================================================
