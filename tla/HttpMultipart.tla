--------------------------- MODULE HttpMultipart ---------------------------
(***************************************************************************)
(* A multipart request (http.c with MG_ENABLE_HTTP_STREAMING_MULTIPART):   *)
(* mg_http_multipart_begin and the machine of mg_http_multipart_continue,  *)
(* one action for each of its states, which reports parts while they       *)
(* arrive; and the handler of example/big_upload.c that stores them.       *)
(*                                                                         *)
(* The body is modelled byte by byte, except that a header line is one     *)
(* symbol and its CR LF.                                                   *)
(***************************************************************************)
EXTENDS Integers, Sequences, SequencesExt

CONSTANTS Requests,    \* what a client may send: sequences of parts
          Boundary,    \* the boundary's bytes
          Chunks       \* how many bytes one read may deliver

VARIABLES
    request,     \* the parts the client sends
    wire, buf,   \* bytes on their way, and in recv_mbuf
    state,       \* mp_stream.state; NoBoundary while mp_stream.boundary is NULL
    running,     \* mg_http_multipart_continue is in its loop
    prevIoLen, processingPart, name,    \* of mp_stream; name 0 is NULL
    app,         \* the application: events, the history of what its handler was
                 \* called with; upload, the struct file_writer_data of the
                 \* example; crashed, once it has used a NULL pointer
    closed,      \* CLOSE has been delivered
    wild         \* the parser used bytes behind the buffer

vars == <<request, wire, buf, state, running, prevIoLen, processingPart, name,
          app, closed, wild>>

NULL == [null |-> TRUE]
CR == 13
LF == 10
CRLF == <<CR, LF>>
Dashes == <<45, 45>>
RequestHeader == 300          \* the header of the request, with its empty line
Disposition(n) == 200 + n     \* "Content-Disposition: form-data; name=n"
OtherHeader == 199
-----------------------------------------------------------------------------
(* The client *)

EncodedPart(p) ==
    Dashes \o Boundary \o CRLF \o <<Disposition(p.name)>> \o CRLF
      \o FlattenSeq([i \in 1..p.others |-> <<OtherHeader>> \o CRLF])
      \o CRLF \o p.data \o CRLF

Encoded(r) ==
    <<RequestHeader>> \o FlattenSeq([i \in DOMAIN r |-> EncodedPart(r[i])])
      \o Dashes \o Boundary \o Dashes \o CRLF
-----------------------------------------------------------------------------
(* big_upload.c: handle_upload.  tmpfile() and fwrite() may fail. *)

Event(ev, nm, status, data) == [ev |-> ev, name |-> nm, status |-> status, data |-> data]

Uploads(ev, upload, data) ==
    CASE ev = "PART_BEGIN" -> {[stored |-> <<>>], upload}
      [] ev = "PART_DATA" /\ upload # NULL ->
            {[upload EXCEPT !.stored = @ \o data], upload}
      [] ev = "PART_END" -> {NULL}
      [] OTHER -> {upload}

\* The states of the application after it was called with e in state a.
Called(a, e) ==
    {[events |-> Append(a.events, e),
      upload |-> u,
      crashed |-> a.crashed \/ (e.ev \in {"PART_DATA", "PART_END"} /\ a.upload = NULL)]
     : u \in Uploads(e.ev, a.upload, e.data)}

CalledTwice(a, e, f) == UNION {Called(b, f) : b \in Called(a, e)}
-----------------------------------------------------------------------------
(* The parser *)

\* A read: with boundary NULL the buffer must hold the header, which
\* mg_http_multipart_begin removes.
Receive(n) ==
    LET b == buf \o SubSeq(wire, 1, n)
    IN  /\ ~running /\ ~closed /\ ~app.crashed /\ ~wild
        /\ state # "FINISHED"
        /\ n <= Len(wire)
        /\ wire' = SubSeq(wire, n + 1, Len(wire))
        /\ running' = TRUE
        /\ IF state = "NoBoundary"
           THEN /\ buf' = Tail(b)
                /\ state' = "WAITING_FOR_BOUNDARY"
                /\ app' \in Called(app, Event("MULTIPART_REQUEST", 0, 0, <<>>))
           ELSE buf' = b /\ UNCHANGED <<state, app>>
        /\ UNCHANGED <<request, prevIoLen, processingPart, name, closed, wild>>

\* A turn of the loop in mg_http_multipart_continue.
Turn(s) == running /\ ~wild /\ state = s /\ UNCHANGED <<request, wire, closed>>

\* Where the boundary is, counted from 0, or -1.
BoundaryAt ==
    LET at == {i \in 0..(Len(buf) - Len(Boundary)) :
                  SubSeq(buf, i + 1, i + Len(Boundary)) = Boundary}
    IN  IF at = {} THEN -1 ELSE CHOOSE i \in at : \A j \in at : i <= j
Removed(n) == SubSeq(buf, n + 1, Len(buf))

\* mg_http_multipart_wait_for_boundary
WaitForBoundary ==
    LET end == BoundaryAt + Len(Boundary)
        whole == BoundaryAt >= 0 /\ Len(buf) - end >= 4
        final == SubSeq(buf, end + 1, end + 4) = Dashes \o CRLF
    IN  /\ Turn("WAITING_FOR_BOUNDARY")
        /\ running' = whole
        /\ state' = IF ~whole THEN state ELSE IF final THEN "FINALIZE" ELSE "GOT_BOUNDARY"
        /\ buf' = IF whole /\ final THEN Removed(end + 4) ELSE buf
        /\ UNCHANGED <<prevIoLen, processingPart, name, app, wild>>

\* The lines from the byte at on, which counts from 0.
LinesFrom(at) ==
    LET ends == SetToSortSeq({i \in (at + 1)..Len(buf) : buf[i] = LF}, <)
    IN  [k \in DOMAIN ends |-> LET from == IF k = 1 THEN at ELSE ends[k - 1]
                               IN  [start |-> from, length |-> ends[k] - from]]

\* mg_http_multipart_process_boundary: the header of a part, up to its empty
\* line.  Without one it starts again with the next read; but data_size does not
\* count the lines other than Content-Disposition, so mg_get_line_len may look
\* for the next one behind the buffer, and find something.  A part without
\* Content-Disposition gets the name that is on the stack.
ProcessBoundary ==
    LET lines == LinesFrom(BoundaryAt + Len(Boundary) + 2)
        empty == SelectInSeq(lines, LAMBDA l : l.length = 2)
        seen == IF empty = 0 THEN lines ELSE SubSeq(lines, 1, empty - 1)
        named == SelectSeq(seen, LAMBDA l : buf[l.start + 1] \in 201..209)
        begin == Event("PART_BEGIN", name', 0, <<>>)
    IN  /\ Turn("GOT_BOUNDARY")
        /\ UNCHANGED prevIoLen
        /\ IF empty = 0
           THEN /\ state' = "WAITING_FOR_BOUNDARY"
                /\ running' = FALSE
                /\ wild' \in {FALSE, Len(named) < Len(seen)}
                /\ UNCHANGED <<buf, processingPart, name, app>>
           ELSE /\ state' = "WAITING_FOR_CHUNK"
                /\ buf' = Removed(lines[empty].start + 2)
                /\ name' \in IF named = <<>> THEN 1..9 ELSE {buf[Last(named).start + 1] - 200}
                /\ app' \in IF processingPart > 0
                            THEN CalledTwice(app, Event("PART_END", name, 0, <<>>), begin)
                            ELSE Called(app, begin)
                /\ processingPart' = processingPart + 1
                /\ UNCHANGED <<running, wild>>

\* mg_http_multipart_continue_wait_for_chunk: all up to the line break before
\* the boundary is data; a boundary nearer to the start than that makes the size
\* negative.  Without a boundary the first prevIoLen bytes are data once more
\* than a boundary has arrived behind them.
WaitForChunk ==
    LET long == Len(buf) >= Len(Boundary) + 6
        size == BoundaryAt - 4
    IN  /\ Turn("WAITING_FOR_CHUNK")
        /\ UNCHANGED <<processingPart, name>>
        /\ IF ~long \/ BoundaryAt < 0
           THEN LET got == prevIoLen > 0 /\ Len(buf) > prevIoLen + Len(Boundary) + 4
                IN  /\ prevIoLen' = IF long /\ prevIoLen = 0 THEN Len(buf) ELSE prevIoLen
                    /\ running' = (long /\ got)
                    /\ state' = IF long /\ got THEN "GOT_CHUNK" ELSE state
                    /\ UNCHANGED <<buf, app, wild>>
           ELSE /\ wild' = (size < 0)
                /\ app' \in Called(app, Event("PART_DATA", name, 0, SubSeq(buf, 1, size)))
                /\ buf' = Removed(BoundaryAt)
                /\ prevIoLen' = 0
                /\ state' = "WAITING_FOR_BOUNDARY"
                /\ UNCHANGED running

\* A slip in it: what was delivered stays in the buffer.
GotChunk_Slip ==
    /\ Turn("GOT_CHUNK")
    /\ app' \in Called(app, Event("PART_DATA", name, 0, SubSeq(buf, 1, prevIoLen)))
    /\ prevIoLen' = 0
    /\ state' = "WAITING_FOR_CHUNK"
    /\ running' = FALSE
    /\ UNCHANGED <<buf, processingPart, name, wild>>

\* mg_http_multipart_got_chunk
GotChunk ==
    /\ Turn("GOT_CHUNK")
    /\ app' \in Called(app, Event("PART_DATA", name, 0, SubSeq(buf, 1, prevIoLen)))
    /\ buf' = Removed(prevIoLen)
    /\ prevIoLen' = 0
    /\ state' = "WAITING_FOR_CHUNK"
    /\ running' = FALSE
    /\ UNCHANGED <<processingPart, name, wild>>

\* mg_http_multipart_finalize, and FINISHED, which drops what is left.
Finalize ==
    /\ Turn("FINALIZE")
    /\ app' \in CalledTwice(app, Event("PART_END", name, 0, <<>>),
                            Event("MULTIPART_REQUEST_END", 0, 0, <<>>))
    /\ state' = "FINISHED"
    /\ buf' = <<>>
    /\ prevIoLen' = 0 /\ processingPart' = 0 /\ name' = 0
    /\ running' = FALSE
    /\ UNCHANGED wild

\* MG_EV_CLOSE, at any time, ends the part and the request with status -1 while
\* the request is in progress.
Close ==
    /\ ~running /\ ~closed /\ ~app.crashed /\ ~wild
    /\ closed' = TRUE
    /\ app' \in IF state \in {"NoBoundary", "FINISHED"} THEN {app}
                ELSE CalledTwice(app, Event("PART_END", name, -1, <<>>),
                                 Event("MULTIPART_REQUEST_END", 0, -1, <<>>))
    /\ UNCHANGED <<request, wire, buf, state, running, prevIoLen, processingPart, name, wild>>
-----------------------------------------------------------------------------
Init ==
    /\ request \in Requests
    /\ wire = Encoded(request) /\ buf = <<>>
    /\ state = "NoBoundary" /\ running = FALSE
    /\ prevIoLen = 0 /\ processingPart = 0 /\ name = 0
    /\ app = [events |-> <<>>, upload |-> NULL, crashed |-> FALSE]
    /\ closed = FALSE /\ wild = FALSE

Next ==
    \/ \E n \in Chunks : Receive(n)
    \/ WaitForBoundary \/ ProcessBoundary \/ WaitForChunk \/ GotChunk \/ Finalize
    \/ Close

Spec == Init /\ [][Next]_vars
-----------------------------------------------------------------------------
(* Properties *)

TypeOK ==
    /\ state \in {"NoBoundary", "WAITING_FOR_BOUNDARY", "GOT_BOUNDARY",
                  "WAITING_FOR_CHUNK", "GOT_CHUNK", "FINALIZE", "FINISHED"}
    /\ prevIoLen \in 0..Len(buf)
    /\ {running, closed, wild, app.crashed} \subseteq BOOLEAN

\* What an event adds to what the application knows of the parts; data in
\* pieces are one.
Seen(known, e) ==
    CASE e.ev = "PART_BEGIN" -> Append(known, [name |-> e.name, data |-> <<>>, ended |-> FALSE])
      [] e.ev = "PART_DATA" -> [known EXCEPT ![Len(known)].data = @ \o e.data]
      [] e.ev = "PART_END" /\ known # <<>> ->
            [known EXCEPT ![Len(known)].ended = (e.status = 0)]
      [] OTHER -> known
PartsSeen == FoldLeft(Seen, <<>>, app.events)

\* However the request is cut into reads, the application sees its parts in
\* order, with their names and, between BEGIN and an END with status 0, exactly
\* their data; every part has ended before the next begins; when all has arrived
\* and was handled, it has seen them all.
PartsWhole ==
    ~wild =>
        /\ Len(PartsSeen) <= Len(request)
        /\ \A i \in DOMAIN PartsSeen :
              LET seen == PartsSeen[i]
              IN  /\ seen.name = request[i].name
                  /\ IsPrefix(seen.data, request[i].data)
                  /\ seen.ended => seen.data = request[i].data
                  /\ i < Len(PartsSeen) => seen.ended
        /\ wire = <<>> /\ ~running /\ ~app.crashed =>
              state = "FINISHED" /\ Len(PartsSeen) = Len(request) /\ Last(PartsSeen).ended

\* A request that has been announced is ended exactly once: when its last
\* boundary has arrived, or with status -1 when the connection closes, and
\* nothing is reported after that.
RequestEndsOnce ==
    LET ends == {i \in DOMAIN app.events : app.events[i].ev = "MULTIPART_REQUEST_END"}
    IN  /\ ends \subseteq {Len(app.events)}
        /\ closed /\ app.events # <<>> => ends # {}

\* What mongoose.h says of MG_EV_HTTP_PART_END: the end of the current part.
EndsAPart ==
    \A i \in DOMAIN app.events : app.events[i].ev = "PART_END" =>
        \E j \in 1..(i - 1) : app.events[j].ev = "PART_BEGIN"
=============================================================================
