------------------------------ MODULE HttpFile ------------------------------
(***************************************************************************)
(* Files over HTTP (http.c, http_webdav.c): mg_http_serve_file with its    *)
(* ranges, mg_handle_put, and mg_http_transfer_file_data, which every      *)
(* event of the connection calls while a file is open and which moves the  *)
(* file a piece at a time, as send_mbuf allows.                            *)
(*                                                                         *)
(* A response head, and a byte of a file, is one element of send_mbuf.     *)
(***************************************************************************)
EXTENDS Integers, Sequences, SequencesExt, FiniteSetsExt

CONSTANTS Sizes,        \* lengths the file may have
          Ranges,       \* what "Range:" may say: <<>>, <<r1>> or <<r1, r2>>
          MaxRequests,  \* bounds the requests
          MaxSendMbuf   \* MG_MAX_HTTP_SEND_MBUF

VARIABLES
    size,      \* the length of the file on the disk; byte i of it is i
    stored,    \* what PUT has written
    conn,      \* fp (NULL or type), cl, sent, keepalive of pd->file, the offset of
               \* fp; out, send_mbuf; in, recv_mbuf; closing, MG_F_SEND_AND_CLOSE
    gone,      \* history: elements that have left send_mbuf
    asked,     \* history: the requests and the length of the file then
    eager,     \* history: a request came before the answer to the last was complete
    changed,   \* history: the file changed while it was open, or a write failed
    leaked,    \* history: files that can no longer be closed
    closed

vars == <<size, stored, conn, gone, asked, eager, changed, leaked, closed>>

NULL == "NULL"
DATA_FILE == "DATA_FILE"
DATA_PUT == "DATA_PUT"
NoFile == [fp |-> NULL, cl |-> 0, sent |-> 0, keepalive |-> FALSE, at |-> 0]

Status(code, cl) == [head |-> code, cl |-> cl]
Byte(i) == [byte |-> i]
Bytes(from, n) == [i \in 1..n |-> Byte(from + i - 1)]
-----------------------------------------------------------------------------
\* mg_http_free_proto_data_file, and the end of the connection without keep-alive.
Finished(c) ==
    [c EXCEPT !.file = NoFile, !.closing = @ \/ ~c.file.keepalive]

\* A slip in it: it reads as much as there is room for, past the range.
TransferFile_Slip(c, length) ==
    LET f == c.file
        room == IF Len(c.out) < MaxSendMbuf THEN MaxSendMbuf - Len(c.out) ELSE 0
        n == Min({room, IF length > f.at THEN length - f.at ELSE 0})
    IN  IF room = 0 THEN c
        ELSE IF f.sent < f.cl /\ n > 0
        THEN [c EXCEPT !.out = @ \o Bytes(f.at, n), !.file.sent = @ + n, !.file.at = @ + n]
        ELSE Finished(c)

\* The DATA_FILE half of mg_http_transfer_file_data: as much as send_mbuf has
\* room for and the response has left; nothing to read ends it.
TransferFile(c, length) ==
    LET f == c.file
        left == f.cl - f.sent
        room == IF Len(c.out) < MaxSendMbuf THEN MaxSendMbuf - Len(c.out) ELSE 0
        toRead == IF left > 0 /\ room > left THEN left ELSE room
        n == Min({toRead, IF length > f.at THEN length - f.at ELSE 0})
    IN  IF toRead = 0 THEN c
        ELSE IF f.sent < f.cl /\ n > 0
        THEN [c EXCEPT !.out = @ \o Bytes(f.at, n), !.file.sent = @ + n, !.file.at = @ + n]
        ELSE Finished(c)

\* The DATA_PUT half: n bytes of recv_mbuf were written.
TransferPut(c, n) ==
    LET d == [c EXCEPT !.in = SubSeq(@, n + 1, Len(@)), !.file.sent = @ + n, !.file.at = @ + n]
    IN  IF n = 0 \/ d.file.sent >= d.file.cl THEN Finished(d) ELSE d

PutSizes(c) == 0..Min({IF c.file.cl > c.file.sent THEN c.file.cl - c.file.sent ELSE 0, Len(c.in)})
\* old, the contents of the file, and n bytes of recv_mbuf written into it.
Written(old, c, n) ==
    [i \in 1..Max({Len(old), c.file.at + n}) |->
        IF i - c.file.at \in 1..n THEN c.in[i - c.file.at]
        ELSE IF i <= Len(old) THEN old[i] ELSE 0]

\* What an event does before the handler is called.
Transfer(c) == IF c.file.fp = DATA_FILE THEN TransferFile(c, size) ELSE c
-----------------------------------------------------------------------------
(* Requests *)

\* The range of a file of length cl: status, first byte, length.
RangeOf(range, cl) ==
    LET r1 == range[1]
        r2 == IF Len(range) = 1 THEN cl - 1 ELSE range[2]
    IN  IF range = <<>> \/ r1 < 0 \/ (Len(range) = 2 /\ range[2] < 0)
        THEN [status |-> 200, from |-> 0, cl |-> cl]
        ELSE IF r1 > r2 \/ r2 >= cl THEN [status |-> 416, from |-> 0, cl |-> 0]
        ELSE [status |-> 206, from |-> r1, cl |-> r2 - r1 + 1]

\* mg_http_serve_file once the file is open: sent is not reset.
Serve(c, range, keepalive) ==
    LET r == RangeOf(range, size)
    IN  TransferFile([c EXCEPT !.file = [fp |-> DATA_FILE, cl |-> r.cl, sent |-> c.file.sent,
                                         keepalive |-> keepalive, at |-> r.from],
                               !.out = Append(@, Status(r.status, r.cl))], size)

Busy(c) == c.file.fp = DATA_FILE /\ c.file.sent < c.file.cl

\* Bounds: no request arrives while a PUT waits for the disk, and the length of
\* a PUT is the one of its range.
Request(r) ==
    /\ ~closed /\ ~conn.closing /\ conn.file.fp # DATA_PUT
    /\ Len(asked) < MaxRequests
    /\ asked' = Append(asked, r)
    /\ eager' = (eager \/ conn.out # <<>> \/ Busy(conn))
    /\ UNCHANGED <<size, gone, closed>>

\* GET: a file that is still open is forgotten.
Get(range, keepalive) ==
    LET c == Transfer(conn)
    IN  /\ Request([op |-> "GET", range |-> range, size |-> size])
        /\ conn' = Serve(c, range, keepalive)
        /\ leaked' = leaked + (IF c.file.fp = NULL THEN 0 ELSE 1)
        /\ UNCHANGED <<stored, changed>>

\* GET of a file that is not there: mg_http_send_error.
GetMissing ==
    /\ Request([op |-> "MISSING", range |-> <<>>, size |-> size])
    /\ conn' = [Transfer(conn) EXCEPT !.out = @ \o <<Status(404, 1), Byte(0)>>, !.closing = TRUE]
    /\ UNCHANGED <<stored, leaked, changed>>

\* mg_handle_put: answers first, takes the header out of recv_mbuf and writes the
\* body that is behind it into the file, which is emptied first; n bytes are
\* written, all unless the write fails.
\* mg_http_handler then removes message.len bytes, if there are as many.
Put(body, range) ==
    LET r1 == range[1]
        r2 == IF Len(range) = 2 THEN range[2] ELSE 0
        cl == IF range = <<>> THEN Len(body)
              ELSE IF r2 > r1 THEN r2 - r1 + 1 ELSE Len(body) - r1
        c == [Transfer(conn) EXCEPT
                 !.file = [fp |-> DATA_PUT, cl |-> cl, sent |-> 0, keepalive |-> FALSE,
                           at |-> IF range = <<>> THEN 0 ELSE r1],
                 !.out = Append(@, Status(IF range = <<>> THEN 200 ELSE 206, 0)),
                 !.in = body]
    IN  /\ range = <<>> \/ (Len(range) = 2 /\ range[2] - range[1] + 1 = Len(body) /\ body # <<>>)
        /\ Request([op |-> "PUT", range |-> range, body |-> body])
        /\ \E n \in PutSizes(c) :
              /\ conn' = TransferPut(c, n)
              /\ stored' = Written(<<>>, c, n)
              /\ changed' = (changed \/ n < Max(PutSizes(c)))
        /\ UNCHANGED leaked
-----------------------------------------------------------------------------
(* Other events *)

\* MG_EV_POLL
Poll ==
    /\ ~closed /\ conn.file.fp # NULL
    /\ conn' = IF conn.file.fp = DATA_PUT THEN TransferPut(conn, Max(PutSizes(conn)))
               ELSE Transfer(conn)
    /\ stored' = IF conn.file.fp = DATA_PUT THEN Written(stored, conn, Max(PutSizes(conn))) ELSE stored
    /\ UNCHANGED <<size, gone, asked, eager, changed, leaked, closed>>

\* n elements leave; MG_EV_SEND.
Sent(n) ==
    /\ ~closed /\ n \in 1..Len(conn.out)
    /\ gone' = gone \o SubSeq(conn.out, 1, n)
    /\ conn' = Transfer([conn EXCEPT !.out = SubSeq(@, n + 1, Len(@))])
    /\ UNCHANGED <<size, stored, asked, eager, changed, leaked, closed>>

\* The connection closes once all is sent, or with the peer: the destructor
\* closes the file.
Close ==
    /\ ~closed /\ closed' = TRUE
    /\ conn' = [conn EXCEPT !.file = NoFile]
    /\ UNCHANGED <<size, stored, gone, asked, eager, changed, leaked>>

\* Somebody else writes the file.
Resize(n) ==
    /\ ~closed /\ size # n /\ size' = n
    /\ changed' = (changed \/ conn.file.fp # NULL)
    /\ UNCHANGED <<stored, conn, gone, asked, eager, leaked, closed>>
-----------------------------------------------------------------------------
Init ==
    /\ size \in Sizes /\ stored = <<>>
    /\ conn = [file |-> NoFile, out |-> <<>>, in |-> <<>>, closing |-> FALSE]
    /\ gone = <<>> /\ asked = <<>> /\ eager = FALSE /\ changed = FALSE
    /\ leaked = 0 /\ closed = FALSE

Next ==
    \/ \E range \in Ranges, keepalive \in BOOLEAN : Get(range, keepalive)
    \/ GetMissing
    \/ \E range \in Ranges, n \in 0..3 : Put([i \in 1..n |-> 10 + i], range)
    \/ Poll
    \/ \E n \in 1..MaxSendMbuf : Sent(n)
    \/ Close
    \/ \E n \in Sizes : Resize(n)

Spec == Init /\ [][Next]_vars
-----------------------------------------------------------------------------
(* Properties *)

TypeOK ==
    /\ conn.file.fp \in {NULL, DATA_FILE, DATA_PUT}
    /\ {conn.closing, conn.file.keepalive, eager, changed, closed} \subseteq BOOLEAN
    /\ leaked \in 0..MaxRequests

\* What the answer to a request must be.
Answer(r) ==
    CASE r.op = "GET" -> LET x == RangeOf(r.range, r.size)
                         IN  <<Status(x.status, x.cl)>> \o Bytes(x.from, x.cl)
      [] r.op = "PUT" -> <<Status(IF r.range = <<>> THEN 200 ELSE 206, 0)>>
      [] OTHER -> <<Status(404, 1), Byte(0)>>

\* The answers to some requests, one after the other.
Due(requests) ==
    LET first[i \in 0..Len(requests)] ==
            IF i = 0 THEN <<>> ELSE first[i - 1] \o Answer(requests[i])
    IN  first[Len(requests)]

\* A client that waits for its answers gets them one after the other, each with
\* as many bytes as its head says, the bytes of the range, in order, although
\* they are read at whatever events come; an answer that is not complete is
\* still being sent.
AnswersFramed ==
    ~eager /\ ~changed =>
        /\ IsPrefix(gone \o conn.out, Due(asked))
        /\ ~closed /\ ~Busy(conn) => gone \o conn.out = Due(asked)
        /\ leaked = 0

\* send_mbuf does not grow past MG_MAX_HTTP_SEND_MBUF by the bytes of a file.
SendMbufBounded ==
    ~eager => Len(conn.out) <= MaxSendMbuf \/ Len(conn.out) <= 2

\* A whole PUT that could be written is in the file when the connection is told
\* to close, although it has been answered before.
PutStored ==
    ~changed /\ ~eager =>
        \A i \in DOMAIN asked :
            asked[i].op = "PUT" /\ asked[i].range = <<>> /\ conn.closing
                => SubSeq(stored, 1, Len(asked[i].body)) = asked[i].body
=============================================================================
