------------------------------ MODULE MqttConn ------------------------------
(***************************************************************************)
(* One direction of an MQTT connection (mqtt.c): the functions that build  *)
(* packets in send_mbuf, and mqtt_handler, which takes packets out of      *)
(* recv_mbuf as they become whole, acknowledges PUBLISH and calls the      *)
(* handler.  Packets are bytes, since the remaining length, one to four    *)
(* bytes of seven bits, is read from a buffer that may end anywhere.       *)
(***************************************************************************)
EXTENDS Integers, Sequences, SequencesExt

CONSTANTS Topics, Payloads,   \* sets of sequences of bytes
          Ids,                \* message ids
          Clients,            \* what CONNECT may say: flags and strings, client id first
          MaxPackets,         \* bounds the packets sent
          Chunks,             \* how many bytes one read may deliver
          Garbage             \* the byte that may lie behind the contents of recv_mbuf

VARIABLES
    wire,      \* the sender's send_mbuf and what is on its way
    buf,       \* the receiver's recv_mbuf
    looping,   \* the receiver is between TRY and the end of mqtt_handler
    owed,      \* history: the packets sent, as their reader should see them
    events,    \* history: the packets the handler was called with
    acks       \* history: the acknowledgements parse_mqtt sent

vars == <<wire, buf, looping, owed, events, acks>>

CONNECT == 1
CONNACK == 2
PUBLISH == 3
PUBACK == 4
PUBREC == 5
PUBREL == 6
PUBCOMP == 7
SUBSCRIBE == 8
SUBACK == 9
UNSUBSCRIBE == 10
UNSUBACK == 11
PINGREQ == 12
PINGRESP == 13
DISCONNECT == 14

\* struct mg_mqtt_message, zeroed by memset before every packet.
Blank == [cmd |-> 0, qos |-> 0, id |-> 0, code |-> 0,
          topic |-> <<>>, payload |-> <<>>, strings |-> <<>>]
-----------------------------------------------------------------------------
(* The sender *)

U16(v) == <<v \div 256, v % 256>>
Counted(s) == U16(Len(s)) \o s
QosFlags(q) == 2 * q

\* Strings one behind the other, each with its length before it and extra behind it.
Strings(s, extra) == FlattenSeq([i \in DOMAIN s |-> Counted(s[i]) \o extra])

\* A slip in it: most significant first.
RemainingLength_Slip(n) ==
    LET size == CHOOSE k \in 1..4 : n < 128 ^ k /\ (k > 1 => n >= 128 ^ (k - 1))
    IN  [i \in 1..size |-> ((n \div 128 ^ (size - i)) % 128) + (IF i < size THEN 128 ELSE 0)]

\* The remaining length, seven bits to a byte, least significant first.
RemainingLength(n) ==
    LET size == CHOOSE k \in 1..4 : n < 128 ^ k /\ (k > 1 => n >= 128 ^ (k - 1))
    IN  [i \in 1..size |-> ((n \div 128 ^ (i - 1)) % 128) + (IF i < size THEN 128 ELSE 0)]

\* mg_mqtt_prepend_header: into the send buffer q, before its last n bytes.
PrependHeader(q, cmd, flags, n) ==
    LET off == Len(q) - n
    IN  SubSeq(q, 1, off) \o <<16 * cmd + flags>> \o RemainingLength(n)
          \o SubSeq(q, off + 1, Len(q))

Packet(cmd, flags, body) == PrependHeader(wire \o body, cmd, flags, Len(body))

Send(bytes, message) ==
    /\ Len(owed) < MaxPackets
    /\ wire' = bytes
    /\ owed' = Append(owed, message)
    /\ UNCHANGED <<buf, looping, events, acks>>

\* mg_send_mqtt_handshake_opt: the remaining length is one byte, a uint8_t.
MagicAndVersion == <<0, 6, 77, 81, 73, 115, 100, 112, 3>>
KeepAlive == 60
Handshake(client) ==
    LET body == MagicAndVersion \o <<client.flags>> \o U16(KeepAlive) \o Strings(client.strings, <<>>)
    IN  <<16 * CONNECT, Len(body) % 256>> \o body

SendHandshake(client) ==
    Send(wire \o Handshake(client), [Blank EXCEPT !.cmd = CONNECT, !.strings = client.strings])

\* mg_mqtt_publish
Publish(topic, id, q, payload) ==
    Send(Packet(PUBLISH, QosFlags(q),
                Counted(topic) \o (IF q > 0 THEN U16(id) ELSE <<>>) \o payload),
         [Blank EXCEPT !.cmd = PUBLISH, !.qos = q, !.topic = topic,
                       !.id = IF q > 0 THEN id ELSE 0, !.payload = payload])

\* mg_mqtt_subscribe, mg_mqtt_unsubscribe
TopicsAndQos(topics) == Strings(topics, <<0>>)
Subscribe(topics, id) ==
    Send(Packet(SUBSCRIBE, QosFlags(1), U16(id) \o TopicsAndQos(topics)),
         [Blank EXCEPT !.cmd = SUBSCRIBE, !.qos = 1, !.id = id, !.strings = topics,
                       !.payload = TopicsAndQos(topics)])

\* The parser leaves the id of UNSUBSCRIBE and UNSUBACK, which are not among the
\* events mongoose.h lists, where it is.
Unsubscribe(topics, id) ==
    Send(Packet(UNSUBSCRIBE, QosFlags(1), U16(id) \o Strings(topics, <<>>)),
         [Blank EXCEPT !.cmd = UNSUBSCRIBE, !.qos = 1])

\* mg_mqtt_connack, mg_mqtt_suback
ConnAck(code) ==
    Send(Packet(CONNACK, 0, <<0, code>>), [Blank EXCEPT !.cmd = CONNACK, !.code = code])
SubAck(qoss, id) ==
    Send(Packet(SUBACK, QosFlags(1), U16(id) \o qoss),
         [Blank EXCEPT !.cmd = SUBACK, !.qos = 1, !.id = id])

\* mg_send_mqtt_short_command
ShortCommand(cmd, id) ==
    Send(Packet(cmd, QosFlags(1), U16(id)),
         [Blank EXCEPT !.cmd = cmd, !.qos = 1, !.id = IF cmd = UNSUBACK THEN 0 ELSE id])

\* mg_mqtt_ping, mg_mqtt_pong, mg_mqtt_disconnect
Bare(cmd) == Send(Packet(cmd, 0, <<>>), [Blank EXCEPT !.cmd = cmd])
-----------------------------------------------------------------------------
(* The receiver; offsets count from 0, as the code's pointers do *)

At(b, p) == b[p + 1]
GetU16(b, p) == 256 * At(b, p) + At(b, p + 1)
\* scanto: the string at p, and what is behind it.
StringAt(b, p) == SubSeq(b, p + 3, p + 2 + GetU16(b, p))
Behind(b, p) == p + 2 + GetU16(b, p)

\* At most n strings between start and end, each with gap bytes behind it.
StringsFrom(b, start, end, n, gap) ==
    LET after[i \in 0..n] ==
            IF i = 0 THEN [p |-> start, strings |-> <<>>]
            ELSE IF after[i - 1].p < end
            THEN [p |-> Behind(b, after[i - 1].p) + gap,
                  strings |-> Append(after[i - 1].strings, StringAt(b, after[i - 1].p))]
            ELSE after[i - 1]
    IN  after[n].strings

HasFlag(flags, f) == (flags \div f) % 2 = 1
StringsExpected(flags) == 1 + (IF HasFlag(flags, 4) THEN 2 ELSE 0)
                            + (IF HasFlag(flags, 128) THEN 1 ELSE 0)
                            + (IF HasFlag(flags, 64) THEN 1 ELSE 0)

\* mg_mqtt_next_subscribe_topic, until it returns -1.
TopicsIn(payload) == StringsFrom(payload, 0, Len(payload), Len(payload), 1)

\* The length decoded, and the offset behind it.  The loop stops at the end of
\* the buffer only after it has read one byte there.
Decoded(b, size) ==
    LET last == CHOOSE k \in 1..size : (At(b, k) < 128 \/ k = size)
                                       /\ \A j \in 1..(k - 1) : At(b, j) >= 128
        value[k \in 0..last] == IF k = 0 THEN 0
                                ELSE value[k - 1] + (At(b, k) % 128) * 128 ^ (k - 1)
    IN  [p |-> last + 1, len |-> value[last]]

Incomplete == [end |-> -1, message |-> Blank]

\* The packet whose variable part is between p and end.
Message(b, p, end, cmd, qos) ==
    LET named == [Blank EXCEPT !.cmd = cmd, !.qos = qos]
        data(from) == SubSeq(b, from + 1, end)
    IN  CASE cmd = CONNECT ->
               LET q == Behind(b, p) + 1
               IN  [named EXCEPT !.strings = StringsFrom(b, q + 3, end, StringsExpected(At(b, q)), 0)]
          [] cmd = CONNACK -> [named EXCEPT !.code = At(b, p + 1)]
          [] cmd \in {PUBACK, PUBREC, PUBREL, PUBCOMP, SUBACK} ->
               [named EXCEPT !.id = GetU16(b, p)]
          [] cmd = PUBLISH ->
               LET q == Behind(b, p)
               IN  [named EXCEPT !.topic = StringAt(b, p),
                                 !.id = IF qos > 0 THEN GetU16(b, q) ELSE 0,
                                 !.payload = data(IF qos > 0 THEN q + 2 ELSE q)]
          [] cmd = SUBSCRIBE -> [named EXCEPT !.id = GetU16(b, p), !.payload = data(p + 2),
                                              !.strings = TopicsIn(data(p + 2))]
          [] OTHER -> named

\* What parse_mqtt makes of the size bytes of b; behind them is one byte more.
ParseMqtt(b, size) ==
    LET p == Decoded(b, size).p
        end == p + Decoded(b, size).len
        flags == At(b, 0) % 16
    IN  IF size < 2 \/ end > size THEN Incomplete
        ELSE [end |-> end, message |-> Message(b, p, end, At(b, 0) \div 16, (flags \div 2) % 4)]

\* The acknowledgement parse_mqtt sends for a PUBLISH.
Acks(m) ==
    IF m.cmd # PUBLISH \/ m.qos = 0 THEN <<>>
    ELSE <<[cmd |-> IF m.qos = 1 THEN PUBACK ELSE PUBREC, id |-> m.id]>>

\* A read appends to recv_mbuf and calls mqtt_handler with RECV.
Receive(n) ==
    /\ ~looping /\ n <= Len(wire)
    /\ buf' = buf \o SubSeq(wire, 1, n)
    /\ wire' = SubSeq(wire, n + 1, Len(wire))
    /\ looping' = TRUE
    /\ UNCHANGED <<owed, events, acks>>

\* One turn from TRY to goto TRY.
HandleRecv ==
    /\ looping
    /\ \E g \in Garbage :
        LET parsed == IF Len(buf) < 2 THEN Incomplete ELSE ParseMqtt(Append(buf, g), Len(buf))
            rest == SubSeq(buf, parsed.end + 1, Len(buf))
        IN  IF parsed = Incomplete
            THEN looping' = FALSE /\ UNCHANGED <<buf, events, acks>>
            ELSE /\ acks' = acks \o Acks(parsed.message)
                 /\ events' = Append(events, parsed.message)
                 /\ buf' = rest
                 /\ looping' = (Len(rest) >= 2)
    /\ UNCHANGED <<wire, owed>>
-----------------------------------------------------------------------------
Init ==
    /\ wire = <<>> /\ buf = <<>> /\ looping = FALSE
    /\ owed = <<>> /\ events = <<>> /\ acks = <<>>

SomePacket ==
    \/ \E client \in Clients : SendHandshake(client)
    \/ \E topic \in Topics, id \in Ids, q \in 0..2, payload \in Payloads :
          Publish(topic, id, q, payload)
    \/ \E topics \in SeqOf(Topics, 2) \ {<<>>}, id \in Ids :
          Subscribe(topics, id) \/ Unsubscribe(topics, id)
    \/ \E code \in {0, 5} : ConnAck(code)
    \/ \E qoss \in SeqOf({0, 1}, 2) \ {<<>>}, id \in Ids : SubAck(qoss, id)
    \/ \E cmd \in {PUBACK, PUBREC, PUBREL, PUBCOMP, UNSUBACK}, id \in Ids :
          ShortCommand(cmd, id)
    \/ \E cmd \in {PINGREQ, PINGRESP, DISCONNECT} : Bare(cmd)

Next == SomePacket \/ (\E n \in Chunks : Receive(n)) \/ HandleRecv

Spec == Init /\ [][Next]_vars
-----------------------------------------------------------------------------
(* Properties *)

\* However the stream is cut, and whatever lies behind the buffer when a length
\* is cut in two, the handler is called with every packet, once, in order and
\* with what was sent in it, provided CONNECT fits its one length byte.
PacketsWhole ==
    /\ IsPrefix(events, owed)
    /\ wire = <<>> /\ ~looping => events = owed

\* The acknowledgements that a receiver of these packets owes.
Due(messages) ==
    LET due[i \in 0..Len(messages)] ==
            IF i = 0 THEN <<>>
            ELSE LET m == messages[i]
                 IN  IF m.cmd = PUBLISH /\ m.qos > 0
                     THEN Append(due[i - 1], [cmd |-> <<PUBACK, PUBREC>>[m.qos], id |-> m.id])
                     ELSE due[i - 1]
    IN  due[Len(messages)]

\* Every PUBLISH that arrived is acknowledged once as its QoS asks, in order:
\* not again when the rest of a packet arrives, nor for a packet in part.
PublishAcknowledgedOnce ==
    IsPrefix(acks, Due(owed)) /\ (wire = <<>> /\ ~looping => acks = Due(owed))
=============================================================================
