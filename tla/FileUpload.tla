----------------------------- MODULE FileUpload -----------------------------
(***************************************************************************)
(* mg_file_upload_handler (http.c), which stores the parts that            *)
(* HttpMultipart reports in files under /tmp, for several connections that *)
(* may name the same file.  A FILE keeps what was written to it in a       *)
(* buffer for a while, and opening, writing and closing it may fail.       *)
(***************************************************************************)
EXTENDS Integers, Sequences, SequencesExt, FiniteSetsExt

CONSTANTS Conns,
          Names,       \* local names that local_name_fn returns
          Refused,     \* what it returns to refuse a file: NULL, or an empty name
          Requests     \* sequences of parts: records [file, data]

VARIABLES
    posts,     \* the connections, each with its request and struct file_upload_state
    disk,      \* the file of each name (0: none), and the contents of every file
    stored     \* history: what each answer "200 OK" was given for

vars == <<posts, disk, stored>>

NULL == [null |-> TRUE]

Upload(c) == posts[c].request[posts[c].part]
Open(fus) == fus # NULL /\ fus.fp # 0
Writes(c) == ~posts[c].closed /\ Open(posts[c].fus)

\* What writing data at pos makes of a file's contents.
Written(contents, pos, data) ==
    [i \in 1..Max({Len(contents), pos + Len(data)}) |->
        IF i \in (pos + 1)..(pos + Len(data)) THEN data[i - pos]
        ELSE IF i <= Len(contents) THEN contents[i] ELSE 0]

\* The disk d after the buffer of fus and data were written, or the first n bytes.
Flushed(d, fus, data, n) ==
    [d EXCEPT !.contents[fus.fp] = Written(@, fus.pos, SubSeq(fus.buffer \o data, 1, n))]

\* The disk after fopen(name, "w"), which empties a file that is there.
Created(d, file) ==
    IF d.names[file] # 0 THEN [d EXCEPT !.contents[d.names[file]] = <<>>]
    ELSE [names |-> [d.names EXCEPT ![file] = Len(d.contents) + 1],
          contents |-> Append(d.contents, <<>>)]

\* A slip in the next: a refused file is not answered.
Answered_Slip(conn, status) ==
    IF status = 403 THEN conn ELSE [conn EXCEPT !.answers = Append(@, [part |-> conn.part, status |-> status])]

Answered(conn, status) == [conn EXCEPT !.answers = Append(@, [part |-> conn.part, status |-> status])]

\* cs with the uploads of file by others than c marked: their file is emptied
\* or has lost its name.
Disturbed(cs, c, file) ==
    [x \in Conns |-> IF x # c /\ cs[x].fus # NULL /\ cs[x].fus.lfn = file
                     THEN [cs[x] EXCEPT !.fus.shared = TRUE] ELSE cs[x]]
-----------------------------------------------------------------------------
\* MG_EV_HTTP_PART_BEGIN for the next part of c, whose record is conn by then.
\* The name is copied with strlen("/tmp/") bytes too many, past the end of its
\* memory: what that breaks is left out.
PartBegin(c, conn, d) ==
    LET next == [conn EXCEPT !.part = @ + 1, !.inPart = TRUE, !.received = 0]
        file == conn.request[next.part].file
        fus(fp) == [lfn |-> file, fp |-> fp, numRecd |-> 0, pos |-> 0, buffer |-> <<>>,
                    shared |-> \E x \in Conns \ {c} : Writes(x) /\ posts[x].fus.fp = fp]
    IN  IF file \in Refused
        THEN /\ posts' = [posts EXCEPT ![c] = [Answered(next, 403) EXCEPT !.sendAndClose = TRUE]]
             /\ disk' = d
        ELSE \/ /\ disk' = Created(d, file)
                /\ posts' = [Disturbed(posts, c, file) EXCEPT
                                ![c] = [next EXCEPT !.fus = fus(disk'.names[file])]]
             \/ /\ disk' = d
                /\ posts' = [posts EXCEPT ![c] = [Answered(next, 500) EXCEPT !.fus = fus(0)]]

\* The first part of a request.
Begin(c) ==
    /\ ~posts[c].closed /\ posts[c].part = 0
    /\ PartBegin(c, posts[c], disk)
    /\ UNCHANGED stored

\* A write that went well, as far as fwrite can tell: into the file, or just into
\* the buffer.
WriteData(c, data) ==
    LET fus == posts[c].fus
        more == fus.buffer \o data
        known == [fus EXCEPT !.numRecd = @ + Len(data)]
    IN  \/ /\ posts' = [posts EXCEPT ![c].fus = [known EXCEPT !.buffer = more],
                                     ![c].received = @ + Len(data)]
           /\ UNCHANGED disk
        \/ /\ posts' = [posts EXCEPT ![c].fus = [known EXCEPT !.buffer = <<>>, !.pos = @ + Len(more)],
                                     ![c].received = @ + Len(data)]
           /\ disk' = Flushed(disk, fus, data, Len(more))

\* One that failed: fclose and remove, and the rest of the part is discarded.
Lost(conn, status, n) == [Answered(conn, status) EXCEPT !.fus.fp = 0, !.received = @ + n]

FailWrite(c, data) ==
    LET fus == posts[c].fus
    IN  \E n \in 0..(Len(fus.buffer) + Len(data) - 1), status \in {413, 500} :
          /\ disk' = [Flushed(disk, fus, data, n) EXCEPT !.names[fus.lfn] = 0]
          /\ posts' = [Disturbed(posts, c, fus.lfn) EXCEPT ![c] = Lost(@, status, Len(data))]

\* MG_EV_HTTP_PART_DATA with the next n bytes.
PartData(c, n) ==
    LET data == SubSeq(Upload(c).data, posts[c].received + 1, posts[c].received + n)
    IN  /\ ~posts[c].closed /\ posts[c].inPart
        /\ posts[c].received + n <= Len(Upload(c).data)
        /\ IF Open(posts[c].fus) THEN WriteData(c, data) \/ FailWrite(c, data)
           ELSE /\ posts' = [posts EXCEPT ![c].received = @ + n]
                /\ UNCHANGED disk
        /\ UNCHANGED stored

\* MG_EV_HTTP_PART_END with status 0.  The answer is given before fclose, which
\* may find that what is in the buffer cannot be written.  The next part, if
\* there is one, begins in the same call.
PartEnd(c) ==
    LET conn == posts[c]
        fus == conn.fus
        ended == [(IF fus = NULL THEN conn ELSE [conn EXCEPT !.sendAndClose = TRUE])
                  EXCEPT !.fus = NULL, !.inPart = FALSE]
        told == IF Open(fus) THEN Answered(ended, 200) ELSE ended
    IN  /\ ~conn.closed /\ conn.inPart
        /\ conn.received = Len(Upload(c).data)
        /\ \E n \in IF Open(fus) THEN {0, Len(fus.buffer)} ELSE {0} :
             LET d == IF Open(fus) THEN Flushed(disk, fus, <<>>, n) ELSE disk
             IN  /\ stored' = IF ~Open(fus) THEN stored
                              ELSE stored \cup {[part |-> Upload(c), said |-> fus.numRecd,
                                                 contents |-> d.contents[fus.fp],
                                                 fp |-> fus.fp, named |-> d.names[fus.lfn] = fus.fp,
                                                 shared |-> fus.shared,
                                                 short |-> n < Len(fus.buffer)]}
                 /\ IF conn.part < Len(conn.request) THEN PartBegin(c, told, d)
                    ELSE posts' = [posts EXCEPT ![c] = told] /\ disk' = d

\* MG_EV_CLOSE.  mg_http_handler reports the end of a part in progress with
\* status -1 and without its user_data, so the handler does nothing: the state
\* of the upload and its open FILE are left behind.
Close(c) ==
    /\ ~posts[c].closed
    /\ posts' = [posts EXCEPT ![c].closed = TRUE, ![c].inPart = FALSE]
    /\ UNCHANGED <<disk, stored>>
-----------------------------------------------------------------------------
Init ==
    /\ posts \in [Conns -> {[request |-> r, part |-> 0, inPart |-> FALSE, received |-> 0,
                             fus |-> NULL, answers |-> <<>>, sendAndClose |-> FALSE,
                             closed |-> FALSE] : r \in Requests}]
    /\ disk = [names |-> [f \in Names |-> 0], contents |-> <<>>]
    /\ stored = {}

Next ==
    \E c \in Conns :
        \/ Begin(c)
        \/ \E n \in 1..2 : PartData(c, n)    \* in pieces of one or two bytes
        \/ PartEnd(c)
        \/ Close(c)

Spec == Init /\ [][Next]_vars
-----------------------------------------------------------------------------
(* Properties *)

TypeOK ==
    /\ \A c \in Conns :
          /\ posts[c].part \in 0..Len(posts[c].request) /\ posts[c].received \in Nat
          /\ {posts[c].inPart, posts[c].sendAndClose, posts[c].closed} \subseteq BOOLEAN
          /\ posts[c].inPart /\ ~posts[c].closed => posts[c].part > 0
    /\ \A f \in Names : disk.names[f] \in 0..Len(disk.contents)

\* An upload that was answered "200 OK" was received to its last byte, and if no
\* other connection stored a file of that name meanwhile, it is in that file,
\* whole, or cut where fclose failed to write the rest after the answer.
StoredWhole ==
    \A s \in stored :
        /\ s.said = Len(s.part.data)
        /\ ~s.shared => /\ s.named
                        /\ IsPrefix(s.contents, s.part.data)
                        /\ ~s.short => s.contents = s.part.data

\* Every part gets one answer, however many of its steps fail; only one that is
\* still arriving, or was cut off by the end of the connection, may have none.
AnsweredOnce ==
    \A c \in Conns : \A i \in 1..posts[c].part :
        LET answers == {k \in DOMAIN posts[c].answers : posts[c].answers[k].part = i}
        IN  \/ \E k \in answers : answers = {k}
            \/ answers = {} /\ i = posts[c].part /\ (posts[c].inPart \/ posts[c].closed)

\* A file under an upload's name is one that was answered with "200 OK", or there
\* is a FILE open for it: of a part that is arriving, or of a connection that
\* ended in one.
LeftBehind ==
    \A f \in Names : disk.names[f] # 0 =>
        \/ \E s \in stored : s.fp = disk.names[f]
        \/ \E c \in Conns : Open(posts[c].fus) /\ posts[c].fus.fp = disk.names[f]

UploadsStored == StoredWhole /\ AnsweredOnce /\ LeftBehind

\* That the FILE of an upload does not outlive its connection.  It does.
ClosedWithConnection == \A c \in Conns : posts[c].closed => ~Open(posts[c].fus)
=============================================================================
