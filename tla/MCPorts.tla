------------------------------- MODULE MCPorts ------------------------------
(***************************************************************************)
(* The interfaces other than the BSD sockets, the SSL contexts, the tunnel *)
(* and SNTP, which need the timers of those interfaces, and the Lua        *)
(* binding, each on small instances.  A program is built with one of the   *)
(* interfaces, and the bookkeeping modelled here is their own, so each     *)
(* runs by itself: system says which.  Variables of the same name serve    *)
(* all the components that have one.                                       *)
(***************************************************************************)
EXTENDS Ports, Integers

\* PSK settings: none, a good key, and one with a digit that is none.
Hex(n, wrong) == [i \in 1..n |-> IF i = wrong THEN 16 ELSE (7 * i) % 16]
PskSettings == {[identity |-> <<>>, key |-> <<>>], [identity |-> <<97>>, key |-> Hex(32, 0)],
                [identity |-> <<97>>, key |-> Hex(32, 5)]}

\* Files of the network processor: one by its name, one in a directory.
MCSlNames == {<<"f">>, <<"/", "d/", "g">>}
MCSlPaths == {<<"./", "/", "f">>, <<"/", "d/", "g">>}

\* lwIP: one plain connection with data, two that may be taken for each other, one
\* with SSL; a queue that data and ends fill.
MCBuilds ==
    LET B(conns, ssl, len, bytes) ==
            [conns |-> conns, ssl |-> ssl, queueLen |-> len, sendBuf |-> 1, maxBytes |-> bytes]
    IN  {B({"a"}, {}, 2, 2), B({"a", "b"}, {}, 2, 0), B({"a"}, {"a"}, 3, 1)}

\* SNTP: what is a reply and what just is none.
SntpDatagrams == [len : {47, 48}, version : {3, 4}, mode : {3, 4, 5}]
-----------------------------------------------------------------------------
\* What the variables of a component are that does not run.
Off == "off"

MCInit ==
    /\ Init
    /\ \/ /\ system = "lua"
          /\ conn = Off /\ queue = Off /\ hand = Off /\ turn = Off /\ todo = Off /\ dying = Off
          /\ lost = Off /\ raced = Off /\ build = Off /\ list = Off /\ pass = Off
          /\ ready = Off /\ open = Off /\ spilled = Off /\ restarts = Off /\ fds = Off
          /\ hints = Off /\ disk = Off /\ handles = Off /\ opened = Off /\ given = Off
          /\ reads = Off /\ library = Off /\ refs = Off /\ asked = Off /\ orphaned = Off
          /\ client = Off /\ suppress = Off /\ disps = Off /\ tunnels = Off /\ pipe = Off
          /\ sent = Off /\ frames = Off /\ timers = Off /\ life = Off /\ timer = Off
          /\ count = Off /\ failed = Off /\ requests = Off /\ replies = Off /\ heard = Off
          /\ outcomes = Off /\ quit = Off
       \/ /\ system = "lwip" /\ LW!Init
          /\ list = Off /\ pass = Off /\ ready = Off /\ open = Off /\ spilled = Off
          /\ restarts = Off /\ fds = Off /\ hints = Off /\ disk = Off /\ handles = Off
          /\ opened = Off /\ given = Off /\ reads = Off /\ library = Off /\ refs = Off
          /\ asked = Off /\ orphaned = Off /\ client = Off /\ suppress = Off /\ disps = Off
          /\ tunnels = Off /\ pipe = Off /\ sent = Off /\ frames = Off /\ timers = Off
          /\ life = Off /\ timer = Off /\ count = Off /\ failed = Off /\ requests = Off
          /\ replies = Off /\ heard = Off /\ outcomes = Off /\ quit = Off
       \/ /\ system = "simplelink" /\ SL!Init
          /\ queue = Off /\ hand = Off /\ turn = Off /\ dying = Off /\ lost = Off
          /\ raced = Off /\ build = Off /\ fds = Off /\ hints = Off /\ disk = Off
          /\ handles = Off /\ opened = Off /\ given = Off /\ reads = Off /\ library = Off
          /\ refs = Off /\ asked = Off /\ orphaned = Off /\ client = Off /\ suppress = Off
          /\ disps = Off /\ tunnels = Off /\ pipe = Off /\ sent = Off /\ frames = Off
          /\ timers = Off /\ life = Off /\ timer = Off /\ count = Off /\ failed = Off
          /\ requests = Off /\ replies = Off /\ heard = Off /\ outcomes = Off /\ quit = Off
       \/ /\ system = "slfs" /\ SF!Init
          /\ conn = Off /\ queue = Off /\ hand = Off /\ turn = Off /\ todo = Off /\ dying = Off
          /\ lost = Off /\ raced = Off /\ build = Off /\ list = Off /\ pass = Off
          /\ ready = Off /\ open = Off /\ spilled = Off /\ restarts = Off /\ library = Off
          /\ refs = Off /\ asked = Off /\ orphaned = Off /\ client = Off /\ suppress = Off
          /\ disps = Off /\ tunnels = Off /\ pipe = Off /\ sent = Off /\ frames = Off
          /\ timers = Off /\ life = Off /\ timer = Off /\ count = Off /\ failed = Off
          /\ requests = Off /\ replies = Off /\ heard = Off /\ outcomes = Off /\ quit = Off
       \/ /\ system = "ssl" /\ SC!Init
          /\ queue = Off /\ hand = Off /\ turn = Off /\ todo = Off /\ dying = Off /\ lost = Off
          /\ raced = Off /\ build = Off /\ list = Off /\ pass = Off /\ ready = Off
          /\ open = Off /\ spilled = Off /\ restarts = Off /\ fds = Off /\ hints = Off
          /\ disk = Off /\ handles = Off /\ opened = Off /\ given = Off /\ reads = Off
          /\ client = Off /\ suppress = Off /\ disps = Off /\ tunnels = Off /\ pipe = Off
          /\ sent = Off /\ frames = Off /\ timers = Off /\ life = Off /\ timer = Off
          /\ count = Off /\ failed = Off /\ requests = Off /\ replies = Off /\ heard = Off
          /\ outcomes = Off /\ quit = Off
       \/ /\ system = "tunnel" /\ TN!Init
          /\ conn = Off /\ queue = Off /\ hand = Off /\ turn = Off /\ todo = Off /\ dying = Off
          /\ lost = Off /\ raced = Off /\ build = Off /\ list = Off /\ pass = Off
          /\ ready = Off /\ open = Off /\ spilled = Off /\ restarts = Off /\ fds = Off
          /\ hints = Off /\ disk = Off /\ handles = Off /\ opened = Off /\ given = Off
          /\ reads = Off /\ library = Off /\ refs = Off /\ asked = Off /\ orphaned = Off
          /\ timers = Off /\ life = Off /\ timer = Off /\ count = Off /\ failed = Off
          /\ requests = Off /\ replies = Off /\ heard = Off /\ outcomes = Off /\ quit = Off
       \/ /\ system = "sntp" /\ SN!Init
          /\ conn = Off /\ queue = Off /\ hand = Off /\ turn = Off /\ todo = Off /\ dying = Off
          /\ lost = Off /\ raced = Off /\ build = Off /\ list = Off /\ pass = Off
          /\ ready = Off /\ open = Off /\ spilled = Off /\ restarts = Off /\ fds = Off
          /\ hints = Off /\ disk = Off /\ handles = Off /\ opened = Off /\ given = Off
          /\ reads = Off /\ library = Off /\ refs = Off /\ asked = Off /\ orphaned = Off
          /\ client = Off /\ suppress = Off /\ disps = Off /\ tunnels = Off /\ pipe = Off
          /\ sent = Off /\ frames = Off

LuaStep == /\ system = "lua" /\ Next
    /\ UNCHANGED <<system, conn, queue, hand, turn, todo, dying, lost, raced, build, list, pass,
                   ready, open, spilled, restarts, fds, hints, disk, handles, opened, given,
                   reads, library, refs, asked, orphaned, client, suppress, disps, tunnels,
                   pipe, sent, frames, timers, life, timer, count, failed, requests, replies,
                   heard, outcomes, quit>>

LwipStep ==
    /\ system = "lwip" /\ LW!Next
    /\ UNCHANGED <<system, obj, con, order, files, ending, leaked, spoiled, list, pass, ready,
                   open, spilled, restarts, fds, hints, disk, handles, opened, given, reads,
                   library, refs, asked, orphaned, client, suppress, disps, tunnels, pipe, sent,
                   frames, timers, life, timer, count, failed, requests, replies, heard,
                   outcomes, quit>>

SimpleLinkStep ==
    /\ system = "simplelink" /\ SL!Next
    /\ UNCHANGED <<system, obj, con, order, files, ending, leaked, spoiled, queue, hand, turn,
                   dying, lost, raced, build, fds, hints, disk, handles, opened, given, reads,
                   library, refs, asked, orphaned, client, suppress, disps, tunnels, pipe, sent,
                   frames, timers, life, timer, count, failed, requests, replies, heard,
                   outcomes, quit>>

SlFsStep ==
    /\ system = "slfs" /\ SF!Next
    /\ UNCHANGED <<system, obj, con, order, files, ending, leaked, spoiled, wild, conn, queue,
                   hand, turn, todo, dying, lost, raced, build, list, pass, ready, open,
                   spilled, restarts, library, refs, asked, orphaned, client, suppress, disps,
                   tunnels, pipe, sent, frames, timers, life, timer, count, failed, requests,
                   replies, heard, outcomes, quit>>

SslStep ==
    /\ system = "ssl" /\ SC!Next
    /\ UNCHANGED <<system, obj, con, order, files, ending, spoiled, queue, hand, turn, todo,
                   dying, lost, raced, build, list, pass, ready, open, spilled, restarts, fds,
                   hints, disk, handles, opened, given, reads, client, suppress, disps, tunnels,
                   pipe, sent, frames, timers, life, timer, count, failed, requests, replies,
                   heard, outcomes, quit>>

TunnelStep ==
    /\ system = "tunnel" /\ TN!Next
    /\ UNCHANGED <<system, obj, con, order, files, ending, leaked, spoiled, conn, queue, hand,
                   turn, todo, dying, lost, raced, build, list, pass, ready, open, spilled,
                   restarts, fds, hints, disk, handles, opened, given, reads, library, refs,
                   asked, orphaned, timers, life, timer, count, failed, requests, replies,
                   heard, outcomes, quit>>

SntpStep ==
    /\ system = "sntp" /\ SN!Next
    /\ UNCHANGED <<system, obj, con, order, files, ending, leaked, spoiled, wild, conn, queue,
                   hand, turn, todo, dying, lost, raced, build, list, pass, ready, open,
                   spilled, restarts, fds, hints, disk, handles, opened, given, reads, library,
                   refs, asked, orphaned, client, suppress, disps, tunnels, pipe, sent, frames>>

MCNext == \/ LuaStep \/ LwipStep \/ SimpleLinkStep \/ SlFsStep \/ SslStep \/ TunnelStep \/
             SntpStep

MCSpec == MCInit /\ [][MCNext]_<<system, obj, con, order, files, ending, leaked, spoiled, wild,
          conn, queue, hand, turn, todo, dying, lost, raced, build, list, pass, ready, open,
          spilled, restarts, fds, hints, disk, handles, opened, given, reads, library, refs,
          asked, orphaned, client, suppress, disps, tunnels, pipe, sent, frames, timers, life,
          timer, count, failed, requests, replies, heard, outcomes, quit>>
=============================================================================
