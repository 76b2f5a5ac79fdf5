------------------------------- MODULE Resolver ------------------------------
(***************************************************************************)
(* One asynchronous name resolution (resolv.c section of mongoose.c) made  *)
(* by mg_connect for a host name: the request, the UDP connection to the   *)
(* name server that carries it, and the client connection that waits.      *)
(* The client is in no list and has no timer while it waits, so only the   *)
(* resolver's callback can move it on: to mg_do_connect (its life is then  *)
(* that of SocketIf) or to its end.                                        *)
(*                                                                         *)
(* The DNS connection is driven as in SocketIf: WriteCb, ReadCb, TimerCb.  *)
(* Its event handler is mg_resolve_async_eh and makes no choices, so the   *)
(* steps are functions from one state of the resolution to the next.       *)
(***************************************************************************)
EXTENDS Integers

CONSTANTS
  MaxRetries,      \* opts.max_retries
  Timeout,         \* opts.timeout, in seconds
  ConnectTimeout,  \* 5 in mg_connection_timer_cb
  Lag              \* two callbacks of the 1 s timer are at most Lag s apart

ASSUME ResolverAssumption ==
  /\ MaxRetries \in Nat /\ Timeout \in Nat \ {0}
  /\ ConnectTimeout \in Nat /\ Lag \in Nat \ {0}

VARIABLES
  res,    \* the resolution: DNS connection, request and client
  clock,  \* seconds since mg_connect
  mgr     \* "running" until mg_mgr_free returns, then "freed"

vars == <<res, clock, mgr>>

\* The answers a datagram can hold: an A record, only others, none (or none
\* that parses).
Replies  == {"A", "OTHER", "NONE"}
Errors   == {"OK", "NO_ANSWERS", "TIMEOUT"}     \* enum mg_resolve_err

Resolution ==
  [ life     : {"none", "live", "freed"},  \* of the DNS connection
    sock     : BOOLEAN,     \* socket() succeeded and the socket is open
    connecting : BOOLEAN,   \* MG_F_CONNECTING
    closing  : BOOLEAN,     \* MG_F_CLOSE_IMMEDIATELY
    ww       : BOOLEAN,     \* watcher_w is active
    queued   : 0..(MaxRetries + 1),  \* queries in send_mbuf
    sent     : BOOLEAN,     \* a datagram has left: replies can come
    lastIo   : Nat,         \* nc->last_io_time
    pending  : BOOLEAN,     \* nc->user_data still holds the request
    retries  : Nat,         \* req->retries: the queries made
    lastTime : Int,         \* req->last_time, 0 at first, which is long ago
    err      : Errors,      \* req->err
    client   : {"none", "resolving", "connecting", "gone"},
    calls    : Nat,         \* how often the callback has run
    got      : {"A", "OTHER"} \cup Errors ]  \* and what it was last given

Idle ==
  [ life |-> "none", sock |-> FALSE, connecting |-> FALSE, closing |-> FALSE,
    ww |-> FALSE, queued |-> 0, sent |-> FALSE, lastIo |-> 0,
    pending |-> FALSE, retries |-> 0, lastTime |-> -Timeout, err |-> "OK",
    client |-> "none", calls |-> 0, got |-> "OK" ]

-----------------------------------------------------------------------------
(* The request and its callback                                            *)

Callback_Slip(r, what) ==                \* leaves the request attached
  [r EXCEPT !.calls = @ + 1, !.got = what,
            !.client = IF what = "A" THEN "connecting" ELSE "gone"]

\* req->callback, that is resolve_cb: the first A record is connected to; in
\* any other case the client is told (TIMER if it was a timeout, then CONNECT
\* with an error, then CLOSE) and destroyed.  The request is freed.
Callback(r, what) ==
  [r EXCEPT !.calls = @ + 1, !.got = what, !.pending = FALSE,
            !.client = IF what = "A" THEN "connecting" ELSE "gone"]

Query_Slip(r, now) ==                     \* does not note when it asked
  [r EXCEPT !.queued = @ + 1, !.ww = r.sock, !.lastIo = now, !.retries = @ + 1]

\* mg_send_dns_query through mg_send.
Query(r, now) ==
  [r EXCEPT !.queued = @ + 1, !.ww = r.sock, !.lastIo = now,
            !.lastTime = now, !.retries = @ + 1]

\* MG_EV_CONNECT (due at once) and MG_EV_POLL (due after Timeout).
AskOrGiveUp_Slip(r, now, due) ==              \* counts one retry too many
  CASE ~r.pending -> r
    [] r.pending /\ r.retries > MaxRetries + 1 ->
         [r EXCEPT !.err = "TIMEOUT", !.closing = TRUE]
    [] r.pending /\ r.retries <= MaxRetries + 1 -> IF due THEN Query(r, now) ELSE r

AskOrGiveUp(r, now, due) ==
  CASE ~r.pending -> r
    [] r.pending /\ r.retries > MaxRetries ->
         [r EXCEPT !.err = "TIMEOUT", !.closing = TRUE]
    [] r.pending /\ r.retries <= MaxRetries -> IF due THEN Query(r, now) ELSE r

EvConnect(r, now) == AskOrGiveUp(r, now, TRUE)
EvPoll(r, now)    == AskOrGiveUp(r, now, now - r.lastTime >= Timeout)

\* MG_EV_RECV: an answer is passed on; anything else is an error.
EvRecv(r, reply) ==
  LET heard == IF ~r.pending THEN r
               ELSE IF reply = "NONE" THEN [r EXCEPT !.err = "NO_ANSWERS"]
               ELSE Callback(r, reply)
  IN  [heard EXCEPT !.closing = @ \/ r.pending]

\* MG_EV_SEND keeps the connection open and drops what was not sent.
EvSend(r) == IF r.pending THEN [r EXCEPT !.closing = FALSE, !.queued = 0] ELSE r

\* MG_EV_CLOSE with the request still there is a failure.
EvClose(r) == IF r.pending THEN Callback(r, r.err) ELSE r

-----------------------------------------------------------------------------
(* The DNS connection                                                      *)

\* mg_connect of the "udp://" name server; socket() may fail.
MgResolveAsync(now) ==
  {[Idle EXCEPT !.life = "live", !.sock = s, !.connecting = TRUE, !.ww = s,
                !.lastIo = now, !.pending = TRUE, !.client = "resolving"] :
     s \in BOOLEAN}

MgIfConnectCb(r, now, ok) ==
  EvConnect([r EXCEPT !.connecting = FALSE, !.closing = @ \/ ~ok], now)

\* mg_mgr_handle_conn: a readiness flag on a UDP socket is success.
ConnectStep(r, now) == IF r.connecting THEN MgIfConnectCb(r, now, TRUE) ELSE r

\* mg_recv_common drops data for a connection that is about to be closed.
ReadStep(r, reply) == IF r.closing THEN r ELSE EvRecv(r, reply)

\* mg_write_to_socket: the whole buffer goes in one datagram, or sendto()
\* fails, which leaves everything as it was.
WriteStep(r) ==
  IF r.closing \/ r.queued = 0 THEN {r}
  ELSE {r, EvSend([r EXCEPT !.queued = 0, !.sent = TRUE])}

MgCloseConn(r) ==
  [EvClose([r EXCEPT !.sock = FALSE, !.ww = FALSE]) EXCEPT !.life = "freed"]

CloseIfDue(r) == IF r.closing THEN MgCloseConn(r) ELSE r

StopIfDrained_Slip(r) ==                  \* stops it whatever is left
  IF r.life = "live" THEN [r EXCEPT !.ww = FALSE] ELSE r

StopIfDrained(r) ==
  IF r.life = "live" /\ r.queued = 0 THEN [r EXCEPT !.ww = FALSE] ELSE r

EvWriteCb(r, now) ==
  {StopIfDrained(CloseIfDue(w)) : w \in WriteStep(ConnectStep(r, now))}

EvReadCb(r, now, reply) == CloseIfDue(ReadStep(ConnectStep(r, now), reply))

\* mg_connection_timer_cb: POLL, give up connecting, close.
GiveUpConnect(r, now) ==
  IF r.connecting /\ now - r.lastIo > ConnectTimeout
  THEN MgIfConnectCb(r, now, FALSE) ELSE r

MgConnectionTimerCb_Slip(r, now) ==  \* gives up before it polls
  CloseIfDue(EvPoll(GiveUpConnect(r, now), now))

MgConnectionTimerCb(r, now) == CloseIfDue(GiveUpConnect(EvPoll(r, now), now))

\* The poll that mg_mgr_free makes: read, write, both or (if socket() failed)
\* neither, in which case nc->err is reported.
LastPoll(r, now) ==
  IF ~r.sock
  THEN {IF r.connecting THEN MgIfConnectCb(r, now, FALSE) ELSE r}
  ELSE LET connected == ConnectStep(r, now)
           read == {ReadStep(connected, reply) : reply \in {x \in Replies : r.sent}}
       IN  {r, connected} \cup read
           \cup (UNION {WriteStep(p) : p \in {connected} \cup read})

-----------------------------------------------------------------------------
(* Steps                                                                   *)

Running == mgr = "running" /\ res.life = "live"

ResolveAsync == /\ mgr = "running" /\ res.life = "none"
                /\ res' \in MgResolveAsync(clock)
                /\ UNCHANGED <<clock, mgr>>

WriteCb == /\ Running /\ res.ww
           /\ res' \in EvWriteCb(res, clock)
           /\ UNCHANGED <<clock, mgr>>

\* A reply that comes late, twice or after another one is the same to the
\* reader: a datagram that is there once a query has been sent.
ReadCb == /\ Running /\ res.sock /\ res.sent
          /\ \E reply \in Replies : res' = EvReadCb(res, clock, reply)
          /\ UNCHANGED <<clock, mgr>>

TimerCb_Slip ==                 \* started only together with the watchers
  /\ Running /\ res.sock
  /\ \E d \in 1..Lag :
       clock' = clock + d /\ res' = MgConnectionTimerCb(res, clock + d)
  /\ UNCHANGED mgr

TimerCb == /\ Running
           /\ \E d \in 1..Lag :
                clock' = clock + d /\ res' = MgConnectionTimerCb(res, clock + d)
           /\ UNCHANGED mgr

MgrFree == /\ mgr = "running" /\ mgr' = "freed"
           /\ IF res.life = "live"
              THEN \E r \in LastPoll(res, clock) : res' = MgCloseConn(r)
              ELSE UNCHANGED res
           /\ UNCHANGED clock

Stopped == mgr = "freed" /\ UNCHANGED vars

Init == res = Idle /\ clock = 0 /\ mgr = "running"

Next == ResolveAsync \/ WriteCb \/ ReadCb \/ TimerCb \/ MgrFree \/ Stopped

Spec == Init /\ [][Next]_vars

\* The 1 s timer of the DNS connection is a repeating libev timer.
FairSpec == Spec /\ WF_vars(TimerCb)

-----------------------------------------------------------------------------
(* Properties                                                              *)

TypeOK == /\ res \in Resolution /\ clock \in Nat /\ mgr \in {"running", "freed"}

\* The callback runs exactly once, whichever of answer, error, timeout and
\* mg_mgr_free comes first: never for a request that is gone, and a client
\* never waits for a DNS connection that no longer exists.
CalledOnce == /\ res.calls <= 1
              /\ res.life = "freed" => res.calls = 1
              /\ res.client = "resolving" => Running /\ res.pending

\* At most MaxRetries queries follow the first one, although both CONNECT and
\* POLL send them.
RetriesBounded == res.retries <= MaxRetries + 1

\* A timeout is earned.  Each query after the first waits Timeout seconds for
\* the one before it, except that the query of CONNECT goes out at once even
\* if a POLL came first (after a loop that was busy for a second).
TimeoutIsEarned ==
  res.calls > 0 /\ res.got = "TIMEOUT" => clock >= (MaxRetries - 1) * Timeout

\* "OK" with no message (which resolve_cb takes for a plain failure, without
\* MG_EV_TIMER) is only ever given by mg_mgr_free: no request that runs out of
\* time on a working or on a failed socket ends so.
SilentOnlyAtFree ==
  res.calls > 0 /\ res.got = "OK" => mgr = "freed"

\* Every query that is queued on an open socket has a write watcher to send it.
QueryIsPushed == Running /\ res.sock /\ res.queued > 0 => res.ww

\* Every resolution ends, even if every query and every reply is lost.
ResolutionEnds == res.client = "resolving" ~> res.client # "resolving" \/ mgr = "freed"
=============================================================================
