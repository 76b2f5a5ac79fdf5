----------------------------- MODULE WebSocket -----------------------------
(***************************************************************************)
(* One direction of a WebSocket connection (http_websocket.c): the frames  *)
(* that mg_send_websocket_frame writes, and mg_deliver_websocket_data that *)
(* takes them out of recv_mbuf, puts fragmented messages together at its   *)
(* front and calls the handler.                                            *)
(*                                                                         *)
(* Both ends keep their place in a buffer by bytes, and the receiver looks *)
(* at bytes it has already removed, so the buffer is modelled byte by byte *)
(* (mem, len), including what lies behind its length.  wild is TRUE where  *)
(* the code uses memory it has given back; nothing is said about what      *)
(* follows.                                                                *)
(***************************************************************************)
EXTENDS Integers, Sequences, SequencesExt

CONSTANTS Payloads,      \* what a frame may carry: a set of sequences of bytes
          MaxFrames,     \* bounds the frames sent
          MemSize,       \* bounds the bytes in recv_mbuf
          Chunks,        \* how many bytes one read may deliver, at most
          Garbage        \* bytes fresh memory may hold

VARIABLES
    masked,     \* the sender is a client (nc->listener == NULL): it masks
    wire,       \* bytes sent and not yet received
    partial,    \* data of the message whose last fragment is not sent, or None
    owed,       \* history: the messages sent so far, as a reader expects them
    outOfBand,  \* history: a control frame was sent between two fragments
    mem, len,   \* recv_mbuf: its memory and its length
    again,      \* mg_ws_handler is in its loop
    events,     \* history: what the handler was called with
    closing,    \* MG_F_SEND_AND_CLOSE
    wild

vars == <<masked, wire, partial, owed, outOfBand, mem, len, again, events,
          closing, wild>>

None == [none |-> TRUE]
Fin == 128
Continue == 0
Text == 1
Close == 8
Ping == 9

\* What a reader is told: a control frame's opcode, or that it is data.
Message(op, data) == [op |-> IF op >= Close THEN op ELSE Text, data |-> data]
-----------------------------------------------------------------------------
(* The sender *)

\* The mask toggles the low bit of the bytes in even places: any key would do
\* that tells the places of a key apart.
Key == <<1, 0, 1, 0>>
\* A slip in it: the key is counted from the wrong byte of the frame.
Masked_Slip(b, i) == IF Key[((i + 1) % 4) + 1] = 0 THEN b ELSE IF b % 2 = 0 THEN b + 1 ELSE b - 1

Masked(b, i) == IF Key[(i % 4) + 1] = 0 THEN b ELSE IF b % 2 = 0 THEN b + 1 ELSE b - 1

\* v in n bytes, big-endian.
Bytes(v, n) == [i \in 1..n |-> IF n - i > 3 THEN 0 ELSE (v \div 256 ^ (n - i)) % 256]

\* mg_send_ws_header: the size in 7, 16 or 64 bits, then the mask.
Header(first, size, mask) ==
    LET m == IF mask THEN 128 ELSE 0
        sizes == IF size < 126 THEN <<size + m>>
                 ELSE IF size < 65535 THEN <<126 + m>> \o Bytes(size, 2)
                 ELSE <<127 + m>> \o Bytes(size, 8)
    IN  <<first>> \o sizes \o (IF mask THEN Key ELSE <<>>)

FrameBytes(fin, op, data, mask) ==
    Header((IF fin THEN Fin ELSE 0) + op, Len(data), mask)
      \o [i \in 1..Len(data) |-> IF mask THEN Masked(data[i], i - 1) ELSE data[i]]

\* mg_send_websocket_frame, by an application that keeps to RFC 6455: control
\* frames are whole, a fragmented message goes on with CONTINUE, and nothing
\* follows CLOSE.
SendFrame(fin, op, data) ==
    /\ Len(owed) + (IF partial = None THEN 0 ELSE Len(partial.parts)) < MaxFrames
    /\ \A i \in DOMAIN owed : owed[i].op # Close
    /\ op >= Close => fin
    /\ op < Close => (op = Continue <=> partial # None)
    /\ wire' = wire \o FrameBytes(fin, op, data, masked)
    /\ LET parts == IF op = Continue THEN Append(partial.parts, data) ELSE <<data>>
       IN  /\ partial' = IF op >= Close THEN partial
                         ELSE IF fin THEN None ELSE [parts |-> parts]
           /\ owed' = IF ~fin THEN owed ELSE Append(owed, Message(op, FlattenSeq(parts)))
    /\ outOfBand' = (outOfBand \/ (op >= Close /\ partial # None))
    /\ UNCHANGED <<masked, mem, len, again, events, closing, wild>>
-----------------------------------------------------------------------------
(* The receiver *)

Addresses == 0..(MemSize - 1)

\* mbuf_append: n bytes of the wire behind the contents; mg_ws_handler then
\* calls mg_deliver_websocket_data until there is no whole frame.
Receive(n) ==
    /\ ~again /\ ~wild
    /\ n <= Len(wire) /\ len + n <= MemSize
    /\ mem' = [i \in Addresses |-> IF i \in len..(len + n - 1) THEN wire[i - len + 1] ELSE mem[i]]
    /\ len' = len + n
    /\ wire' = SubSeq(wire, n + 1, Len(wire))
    /\ again' = TRUE
    /\ UNCHANGED <<masked, partial, owed, outOfBand, events, closing, wild>>

Opcode(b) == b % 16
IsFragment(b) == b < Fin \/ Opcode(b) = 0
IsFirstFragment(b) == b < Fin /\ Opcode(b) # 0

\* memmove of the n bytes at from to the address to.
Moved(m, to, from, n) ==
    [i \in Addresses |-> IF i \in to..(to + n - 1) THEN m[i - to + from] ELSE m[i]]

\* mbuf_remove takes nothing when n is more than there is.
Removed(m, l, n) == IF n \in 1..l THEN Moved(m, 0, n, l - n) ELSE m

\* *sizep, the unsigned at address 1: little-endian, "too big" from 2^16 on.
TooBig == 65536
SizeAt1(m) == IF m[3] > 0 \/ m[4] > 0 THEN TooBig ELSE m[1] + 256 * m[2]
WithSize(m, s) == [m EXCEPT ![1] = s % 256, ![2] = (s \div 256) % 256]

Word(m, at, n) == FoldLeft(LAMBDA v, i : v * 256 + m[at + i - 1], 0, [i \in 1..n |-> i])

\* The header at address at, with avail bytes from there on; no bytes are a
\* header that is not whole yet.
HeaderAt(m, at, avail) ==
    LET mask == IF m[at + 1] >= 128 THEN 4 ELSE 0
        size == m[at + 1] % 128
    IN  CASE avail < 2 -> [header |-> 0, mask |-> 0, data |-> 0]
          [] size < 126 /\ avail >= mask -> [header |-> 2 + mask, mask |-> mask, data |-> size]
          [] size = 126 /\ avail >= 4 + mask ->
               [header |-> 4 + mask, mask |-> mask, data |-> Word(m, at + 2, 2)]
          [] size = 127 /\ avail >= 10 + mask ->
               [header |-> 10 + mask, mask |-> mask, data |-> Word(m, at + 6, 4)]
          [] OTHER -> [header |-> 0, mask |-> mask, data |-> 0]

Unmasked(m, h, at) ==
    IF h.mask = 0 THEN m
    ELSE [i \in Addresses |-> LET k == i - at - h.header
                              IN  IF k \in 0..(h.data - 1)
                                  THEN LET key == m[(at + h.header - 4) + (k % 4)]
                                       IN  IF key = 0 THEN m[i]
                                           ELSE IF m[i] % 2 = 0 THEN m[i] + 1 ELSE m[i] - 1
                                  ELSE m[i]]

Call(flags, m, at, size) ==
    events' = Append(events, Message(Opcode(flags), [i \in 1..size |-> m[at + i - 1]]))

\* "If client closes, close too": looks at the place where the frame was.
CloseToo(m, at) == closing' = (closing \/ Opcode(m[at]) = Close)

\* A frame that is not part of a fragmented message.
DeliverWhole(m, h) ==
    LET after == Removed(m, len, h.header + h.data)
    IN  /\ Call(mem[0], m, h.header, h.data)
        /\ mem' = after
        /\ len' = len - (h.header + h.data)
        /\ CloseToo(after, 0)
        /\ UNCHANGED wild

\* A fragment: at is where the frame is, and where its data go unless it is
\* the first, which goes behind its flags and a size.  Growing the buffer for
\* that size may move it (moved) while the code holds on to the old one.
DeliverFragment(m, h, at) ==
    LET flags == mem[at]
        first == IsFirstFragment(flags)
        to == IF first THEN 5 ELSE at
        from == at + h.header
        marked == IF first
                  THEN [i \in Addresses |-> IF i = 0 THEN m[0] - Opcode(m[0])
                                            ELSE IF i \in 1..4 THEN 0 ELSE m[i]]
                  ELSE m
        joined == Moved(marked, to, from, len - from)
        size == SizeAt1(joined) + h.data
        total == len - (from - to)
        last == flags >= Fin
        after == IF last THEN Removed(WithSize(joined, size), total, 5 + size)
                 ELSE WithSize(joined, size)
    IN  \E moved \in BOOLEAN :
        LET lost == (first /\ moved) \/ (last /\ 5 + size > total)
                       \/ total > MemSize
        IN  /\ moved => first
            /\ wild' = lost
            /\ IF lost THEN UNCHANGED <<mem, len, events, closing>>
               ELSE /\ mem' = after
                    /\ len' = IF last THEN total - (5 + size) ELSE total
                    /\ IF last THEN Call(flags, joined, 5, size) ELSE UNCHANGED events
                    /\ CloseToo(after, to)

\* mg_deliver_websocket_data.
Deliver ==
    LET reass == len > 0 /\ IsFragment(mem[0])
        at == IF reass /\ ~IsFirstFragment(mem[0]) /\ len >= 5 /\ len >= 5 + SizeAt1(mem)
              THEN 5 + SizeAt1(mem) ELSE 0
        h == HeaderAt(mem, at, len - at)
        ok == h.header > 0 /\ h.header + h.data <= len - at
        m == Unmasked(mem, h, at)
    IN  /\ again /\ ~wild
        /\ again' = ok
        /\ UNCHANGED <<masked, wire, partial, owed, outOfBand>>
        /\ IF ~ok THEN UNCHANGED <<mem, len, events, closing, wild>>
           ELSE IF reass THEN DeliverFragment(m, h, at) ELSE DeliverWhole(m, h)
-----------------------------------------------------------------------------
Init ==
    /\ masked \in BOOLEAN
    /\ wire = <<>> /\ partial = None /\ owed = <<>> /\ outOfBand = FALSE
    /\ \E b \in Garbage : mem = [i \in Addresses |-> b]
    /\ len = 0 /\ again = FALSE /\ events = <<>> /\ closing = FALSE /\ wild = FALSE

Next ==
    \/ \E fin \in BOOLEAN, op \in {Continue, Text, Close, Ping}, data \in Payloads :
          SendFrame(fin, op, data)
    \/ \E n \in Chunks : Receive(n)
    \/ Deliver

Spec == Init /\ [][Next]_vars
-----------------------------------------------------------------------------
(* Properties *)

TypeOK ==
    /\ len \in 0..MemSize
    /\ mem \in [Addresses -> 0..255]
    /\ {masked, outOfBand, again, closing, wild} \subseteq BOOLEAN

\* However the stream is cut into reads, a server that gets masked frames, with
\* no control frame in the middle of a fragmented message, calls its handler
\* once for every message, in order, with all of its data, and has called it for
\* all of them when everything has arrived.
MessagesWhole ==
    masked /\ ~outOfBand /\ ~wild =>
        /\ IsPrefix(events, owed)
        /\ wire = <<>> /\ ~again => events = owed

\* On such a connection a CLOSE frame given to the handler also closes the
\* connection, although the code looks for it in the buffer after it has been
\* removed from it.
CloseIsAnswered ==
    masked /\ ~outOfBand => \A i \in DOMAIN events : events[i].op = Close => closing

\* A header is read as it was written, on both sides of each change of its form,
\* and not before it is there as a whole: of the 16-bit sizes the sender uses all
\* but the last, which the receiver must take in 64 bits.
LengthsRead ==
    \A size \in {0, 125, 126, 255, 256, 65534, 65535, 65536, 16777216}, mask \in BOOLEAN :
        LET h == Header(Fin + Text, size, mask)
            m == [i \in 0..13 |-> IF i < Len(h) THEN h[i + 1] ELSE 0]
        IN  /\ HeaderAt(m, 0, Len(h)) = [header |-> Len(h), mask |-> IF mask THEN 4 ELSE 0, data |-> size]
            /\ \A n \in 0..(Len(h) - 1) :
                  LET part == HeaderAt(m, 0, n) IN part.header = 0 \/ part.header + part.data > n

\* What the comment at the end of mg_deliver_websocket_data says: the
\* connection is closed if the client closes.
ClosesOnlyIfClientDoes ==
    closing => \E i \in DOMAIN owed : owed[i].op = Close

\* What mongoose.h says of WEBSOCKET_DONT_FIN: incoming messages are
\* defragmented.
Defragmented ==
    ~wild => IsPrefix(events, owed)
=============================================================================
