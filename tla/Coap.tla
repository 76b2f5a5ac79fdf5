-------------------------------- MODULE Coap --------------------------------
(***************************************************************************)
(* CoAP over UDP (coap.c): a message is put together option by option, in  *)
(* any order, composed and sent; a datagram may be lost, repeated, come    *)
(* late, and is cut when it is longer than the receive buffer; the         *)
(* receiver's coap_handler parses it and calls the application, which      *)
(* acknowledges what is confirmable.  Bytes are 0..255.                    *)
(***************************************************************************)
EXTENDS Integers, Sequences, SequencesExt, FiniteSetsExt

CONSTANTS Options,     \* what may be added: set of [number, value]
          Tokens, Payloads,
          MaxOptions,  \* bounds the options of a message
          MaxMessages, \* bounds the messages sent
          RecvBuffer   \* MG_UDP_RECV_BUFFER_SIZE

VARIABLES
    cm,        \* the message the client is putting together
    net,       \* datagrams on their way to the server: a set, as any may come again
    sent,      \* history: what was composed and sent
    events,    \* history: the messages the server's handler was called with
    acks       \* history: the acknowledgements the client was called with

vars == <<cm, net, sent, events, acks>>

CON == 0
NOC == 1
ACK == 2
RST == 3
Blank == [type |-> CON, class |-> 0, detail |-> 0, id |-> 0, token |-> <<>>, options |-> <<>>, payload |-> <<>>]
-----------------------------------------------------------------------------
(* mg_coap_add_option *)

\* An option goes behind those with the same number.
Position(options, number) ==
    Cardinality({i \in DOMAIN options : \A j \in 1..i : options[j].number <= number})

AddOption(options, opt) == InsertAt(options, Position(options, opt.number) + 1, opt)
-----------------------------------------------------------------------------
(* mg_coap_compose *)

U16(n) == <<n \div 256, n % 256>>

\* A slip in it: one byte is taken to hold what it cannot.
Base_Slip(n) == IF n < 13 THEN n ELSE IF n <= 255 THEN 13 ELSE 14

\* coap_split_opt, coap_add_opt_info: the four bits and the bytes that follow.
Base(n) == IF n < 13 THEN n ELSE IF n <= 255 + 13 THEN 13 ELSE 14
Ext(n) == IF n < 13 THEN <<>> ELSE IF n <= 255 + 13 THEN <<n - 13>> ELSE U16(n - 269)

Previous(options, i) == IF i = 1 THEN 0 ELSE options[i - 1].number

\* coap_calculate_packet_size
Composable(m) ==
    /\ m.type <= RST /\ Len(m.token) <= 8 /\ m.class <= 7 /\ m.detail <= 31
    /\ \A i \in DOMAIN m.options :
          LET opt == m.options[i]
          IN  /\ i < Len(m.options) => opt.number <= m.options[i + 1].number
              /\ Len(opt.value) <= 65535 + 269
              /\ opt.number - Previous(m.options, i) <= 65535 + 269

ComposedOption(opt, delta) ==
    <<16 * Base(delta) + Base(Len(opt.value))>> \o Ext(delta) \o Ext(Len(opt.value)) \o opt.value

Composed(m) ==
    <<64 + 16 * m.type + Len(m.token), 32 * m.class + m.detail>> \o U16(m.id) \o m.token
    \o FlattenSeq([i \in DOMAIN m.options |->
                      ComposedOption(m.options[i], m.options[i].number - Previous(m.options, i))])
    \o (IF m.payload = <<>> THEN <<>> ELSE <<255>> \o m.payload)
-----------------------------------------------------------------------------
(* mg_coap_parse; at is the index of the next byte *)

\* coap_get_ext_opt: [n, len], with len -1 when the bytes are not there.  The
\* number is a uint16_t.
GetExt(b, at, n) ==
    IF n < 13 THEN [n |-> n, len |-> 0]
    ELSE IF n = 13 THEN IF at <= Len(b) THEN [n |-> b[at] + 13, len |-> 1] ELSE [n |-> n, len |-> -1]
    ELSE IF at < Len(b) THEN [n |-> (256 * b[at] + b[at + 1] + 269) % 65536, len |-> 2]
    ELSE [n |-> n, len |-> -1]

\* One round of the loop in coap_get_options.
GetOption(b, s) ==
    LET fail == [s EXCEPT !.error = TRUE]
        delta == GetExt(b, s.at + 1, b[s.at] \div 16)
        length == GetExt(b, s.at + 1 + delta.len, b[s.at] % 16)
        start == s.at + 1 + delta.len + length.len
        number == (s.prev + delta.n) % 65536
    IN  IF b[s.at] \div 16 = 15 \/ b[s.at] % 16 = 15 THEN fail
        ELSE IF delta.len = -1 THEN fail
        ELSE IF length.len = -1 THEN fail
        ELSE IF start + length.n > Len(b) + 1 THEN fail
        ELSE [s EXCEPT !.at = start + length.n, !.prev = number,
                       !.options = AddOption(@, [number |-> number, value |-> SubSeq(b, start, start + length.n - 1)])]

\* No message here has more than MaxOptions of them.
GetOptions(b, at) ==
    FoldLeft(LAMBDA s, i : IF s.error \/ s.at > Len(b) THEN s
                           ELSE IF b[s.at] = 255 THEN s ELSE GetOption(b, s),
             [at |-> at, prev |-> 0, options |-> <<>>, error |-> FALSE], [i \in 1..(MaxOptions + 1) |-> i])

\* What mg_coap_parse makes of b: error is MG_COAP_ERROR, which NOT_ENOUGH_DATA,
\* FORMAT_ERROR and IGNORE all contain.
Parse(b) ==
    LET error == [error |-> TRUE, m |-> Blank]
        tkl == b[1] % 16
        m == [Blank EXCEPT !.type = (b[1] \div 16) % 4, !.class = b[2] \div 32, !.detail = b[2] % 32,
                           !.id = 256 * b[3] + b[4], !.token = SubSeq(b, 5, 4 + tkl)]
        s == GetOptions(b, 5 + tkl)
    IN  IF Len(b) < 4 THEN error
        ELSE IF b[1] \div 64 # 1 \/ tkl > 8 \/ 4 + tkl > Len(b) THEN error
        ELSE IF s.error THEN error
        ELSE [error |-> FALSE, m |-> [m EXCEPT !.options = s.options, !.payload = SubSeq(b, s.at + 1, Len(b))]]
-----------------------------------------------------------------------------
(* The client *)

Add(opt) == /\ Len(cm.options) < MaxOptions
            /\ cm' = [cm EXCEPT !.options = AddOption(@, opt)]
            /\ UNCHANGED <<net, sent, events, acks>>

\* mg_coap_send_message, with the rest of the message filled in.
SendMessage ==
    /\ Len(sent) < MaxMessages
    /\ \E type \in {CON, NOC}, token \in Tokens, payload \in Payloads :
        LET m == [cm EXCEPT !.type = type, !.class = 2, !.detail = 5, !.id = 256 + Len(sent),
                            !.token = token, !.payload = payload]
        IN  IF Composable(m) THEN net' = net \cup {Composed(m)} /\ sent' = Append(sent, m)
            ELSE UNCHANGED <<net, sent>>
    /\ cm' = Blank
    /\ UNCHANGED <<events, acks>>

\* The client's coap_handler, for an acknowledgement.
ClientRecv(d) == LET r == Parse(d) IN /\ ~r.error /\ r.m.type = ACK
                                      /\ acks' = acks \cup {r.m.id}
                                      /\ UNCHANGED <<cm, net, sent, events>>
-----------------------------------------------------------------------------
(* The server's coap_handler.  The error flags all overlap, so that a message  *)
(* with any error is as good as one to be ignored.  The handler acknowledges  *)
(* by mg_coap_send_ack.                                                       *)

ServerRecv(d) ==
    LET r == Parse(SubSeq(d, 1, Min({Len(d), RecvBuffer})))
    IN  IF r.error THEN UNCHANGED vars
        ELSE /\ r.m.type # ACK
             /\ events' = events \cup {r.m}
             /\ net' = IF r.m.type = CON THEN net \cup {Composed([Blank EXCEPT !.type = ACK, !.id = r.m.id])} ELSE net
             /\ UNCHANGED <<cm, sent, acks>>

Lose(d) == net' = net \ {d} /\ UNCHANGED <<cm, sent, events, acks>>

Init == cm = Blank /\ net = {} /\ sent = <<>> /\ events = {} /\ acks = {}

Next == \/ \E opt \in Options : Add(opt)
        \/ SendMessage
        \/ \E d \in net : ServerRecv(d) \/ ClientRecv(d) \/ Lose(d)

Spec == Init /\ [][Next]_vars
-----------------------------------------------------------------------------
(* Properties *)

TypeOK == Len(cm.options) <= MaxOptions /\ Len(sent) <= MaxMessages /\ \A d \in net : \A i \in DOMAIN d : d[i] \in 0..255

\* The options of a message are in ascending order, in whatever order they were
\* added, so that a message put together with mg_coap_add_option can be composed.
OptionsOrdered ==
    /\ \A i, j \in DOMAIN cm.options : i < j => cm.options[i].number <= cm.options[j].number
    /\ Composable(cm)

\* What the application is called with is what some peer composed, field by
\* field and byte by byte, however often the datagram came and in whatever order
\* (a datagram that was cut inside its payload loses its end, and one cut
\* anywhere else is dropped); and what is acknowledged is a message that came.
DeliveredAsSent ==
    /\ \A e \in events : \E i \in DOMAIN sent :
          LET cut == Len(Composed(sent[i])) - RecvBuffer
              kept == IF cut <= 0 THEN sent[i].payload ELSE SubSeq(sent[i].payload, 1, Len(sent[i].payload) - cut)
          IN  e = [sent[i] EXCEPT !.payload = kept]
    /\ acks \subseteq {e.id : e \in {x \in events : x.type = CON}}
=============================================================================
