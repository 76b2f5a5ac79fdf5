--------------------------------- MODULE Dns ---------------------------------
(***************************************************************************)
(* The DNS codec and server (dns.c, dns_server.c): queries, the server's   *)
(* application, which answers them record by record, and the reader of the *)
(* replies, over datagrams that may be lost, repeated and reordered, or    *)
(* over TCP, where one may come in two reads.  A name is the sequence of   *)
(* the labels between its dots; bytes are 0..255.  The client's side of    *)
(* retries and time-outs is Resolver.                                      *)
(***************************************************************************)
EXTENDS Integers, Sequences, SequencesExt, FiniteSetsExt

CONSTANTS Names,      \* the names that are asked for
          Targets,    \* the names a CNAME may give
          Tcp,        \* BOOLEAN: over TCP
          MaxQueries, \* bounds the queries
          MaxLabels,  \* bounds the labels of a name, with its end and a pointer;
                      \* WithinBounds says that no name here needs more
          MaxAnswers  \* MG_MAX_DNS_ANSWERS, and the size of both arrays of a message

VARIABLES
    asked,  \* history: the queries of the client, [id, name]
    net,    \* messages on their way: set of [to, b]
    rest,   \* TCP: what the server has not read yet, with the length before it
    msg,    \* the message the server's application has, and its reply so far
    served, \* history: what the application was called with, whole or half a message
    given,  \* history: the replies it sent, [id, answers]
    heard   \* history: what the client read

vars == <<asked, net, rest, msg, served, given, heard>>

A == 1
CNAME == 5
INET == 1
HeaderSize == 12
U16(n) == <<(n \div 256) % 256, n % 256>>
Get16(b, at) == 256 * b[at] + b[at + 1]
Address == <<10, 0, 0, 1>>
Dot == 46

\* What uncompressing gives: the labels with dots between them.
Joined(name) == FlattenSeq([i \in DOMAIN name |-> IF i = 1 THEN name[i] ELSE <<Dot>> \o name[i]])
\* The labels of a dotted name, the way mg_dns_encode_name cuts it.
Labels(text) ==
    LET cuts == SetToSortSeq({0, Len(text) + 1} \cup {i \in DOMAIN text : text[i] = Dot}, <)
    IN  [i \in 1..(Len(cuts) - 1) |-> SubSeq(text, cuts[i] + 1, cuts[i + 1] - 1)]
Proper(name) == \A i \in DOMAIN name : Len(name[i]) \in 1..63
-----------------------------------------------------------------------------
(* Writing *)

\* mg_dns_encode_name: a label over 127 stops it, with what was written before.
EncodedName(name) ==
    LET long == {i \in DOMAIN name : Len(name[i]) > 127}
        upto == IF long = {} THEN Len(name) ELSE Min(long) - 1
    IN  [ok |-> long = {},
         b |-> FlattenSeq([i \in 1..upto |-> <<Len(name[i])>> \o name[i]]) \o (IF long = {} THEN <<0>> ELSE <<>>)]

\* A slip in it: the id is converted as well.
Header_Slip(id, flags, questions, answers) ==
    <<id[2], id[1]>> \o U16(flags) \o U16(questions) \o U16(answers) \o U16(0) \o U16(0)

\* mg_dns_insert_header: the id stays as it is, everything else is converted.
Header(id, flags, questions, answers) ==
    id \o U16(flags) \o U16(questions) \o U16(answers) \o U16(0) \o U16(0)

\* mg_dns_encode_record
EncodedQuestion(name) ==
    LET n == EncodedName(name) IN [ok |-> n.ok, b |-> IF n.ok THEN n.b \o U16(A) \o U16(INET) ELSE n.b]

EncodedAnswer(name, r) ==
    LET n == EncodedName(name)
        target == EncodedName(r.target)
        rdata == IF r.type = CNAME THEN target.b ELSE Address
    IN  [ok |-> n.ok /\ (r.type = CNAME => target.ok),
         b |-> IF n.ok THEN n.b \o U16(r.type) \o U16(INET) \o <<0, 0, 0, r.ttl>> \o U16(Len(rdata)) \o rdata ELSE n.b]

\* Over TCP a length goes in front.
WithLength(n, b) == IF Tcp THEN U16(n) \o b ELSE b
Prefixed(b) == WithLength(Len(b), b)
-----------------------------------------------------------------------------
(* Reading *)

Rounds == [i \in 1..MaxLabels |-> i]

\* The loop at the start of mg_parse_dns_resource_record, up to the zero or the
\* second byte of a pointer.
NameWalk(b, at) ==
    FoldLeft(LAMBDA s, i : IF s.stop \/ s.at > Len(b) THEN s
                           ELSE IF b[s.at] = 0 THEN [s EXCEPT !.stop = TRUE]
                           ELSE IF b[s.at] >= 64 THEN [at |-> s.at + 1, stop |-> TRUE]
                           ELSE [s EXCEPT !.at = @ + b[@] + 1],
             [at |-> at, stop |-> FALSE], Rounds)
NameEnd(b, at) == NameWalk(b, at).at

NoRecord == [ok |-> FALSE, name |-> 0, type |-> 0, ttl |-> 0, rdata |-> 0, length |-> 0, next |-> 0]

\* mg_parse_dns_resource_record, with e where the name ends.  The end of rdata is
\* not looked at.
RecordTo(b, at, e, reply) ==
    LET question == [NoRecord EXCEPT !.ok = TRUE, !.name = at, !.type = Get16(b, e + 1), !.next = e + 5]
    IN  IF e > Len(b) - 4 THEN NoRecord
        ELSE IF ~reply THEN question
        ELSE IF e + 5 >= Len(b) - 5 THEN NoRecord
        ELSE [question EXCEPT !.ttl = b[e + 8], !.rdata = e + 11, !.length = Get16(b, e + 9),
                              !.next = e + 11 + Get16(b, e + 9)]

AllOk(rs) == rs = <<>> \/ Last(rs).ok
After(rs, at) == IF rs = <<>> THEN at ELSE Last(rs).next
Appended(b, rs, at, reply) == Append(rs, RecordTo(b, at, NameEnd(b, at), reply))
Records(b, at, n, reply) ==
    FoldLeft(LAMBDA rs, i : IF AllOk(rs) THEN Appended(b, rs, After(rs, at), reply) ELSE rs,
             <<>>, [i \in 1..n |-> i])

\* mg_parse_dns
Refused == [ok |-> FALSE, id |-> <<0, 0>>, flags |-> 0, questions |-> <<>>, answers |-> <<>>]
Count(b, at) == Min({Get16(b, at), MaxAnswers})
WithAnswers(b, questions, answers) ==
    IF ~AllOk(answers) THEN Refused
    ELSE [ok |-> TRUE, id |-> SubSeq(b, 1, 2), flags |-> Get16(b, 3), questions |-> questions, answers |-> answers]
WithQuestions(b, questions, behind) ==
    IF ~AllOk(questions) THEN Refused
    ELSE WithAnswers(b, questions, Records(b, After(questions, behind), Count(b, 7), TRUE))
Parsed(b) ==
    IF Len(b) < HeaderSize THEN Refused
    ELSE WithQuestions(b, Records(b, HeaderSize + 1, Count(b, 5), FALSE), HeaderSize + 1)

\* mg_dns_uncompress_name, into room bytes; 0 bytes come back from a name that
\* runs out of the packet.  Pointers that lead to each other are followed without
\* an end; no message here has them.
UncompressWalk(b, at, room) ==
    LET fail(s) == [s EXCEPT !.stop = TRUE, !.dst = <<>>]
        step(s) ==
            LET n == b[s.at]
                k == Min({n, room - Len(s.dst)})
            IN  IF n = 0 THEN [s EXCEPT !.stop = TRUE, !.dst = IF @ = <<>> THEN @ ELSE Front(@)]
                ELSE IF s.at + 1 > Len(b) THEN fail(s)
                ELSE IF n >= 64
                     THEN LET off == 256 * (n % 64) + b[s.at + 1]
                          IN  IF off >= Len(b) THEN fail(s) ELSE [s EXCEPT !.at = off + 1]
                ELSE IF s.at + 1 + k > Len(b) THEN fail(s)
                ELSE LET dst == s.dst \o SubSeq(b, s.at + 1, s.at + k)
                     IN  IF Len(dst) = room THEN [s EXCEPT !.stop = TRUE, !.dst = dst]
                         ELSE [s EXCEPT !.at = @ + k + 1, !.dst = Append(dst, Dot)]
    IN  FoldLeft(LAMBDA s, i : IF s.stop THEN s ELSE step(s),
                 [at |-> at, dst |-> <<>>, stop |-> at > Len(b)], Rounds)
Uncompressed(b, at, room) == UncompressWalk(b, at, room).dst

\* What the reader of a reply finds, mg_dns_next_record and mg_dns_parse_record_
\* data: an address that is not all in the packet is refused.
Data(b, r) ==
    IF r.type = CNAME THEN Uncompressed(b, r.rdata, 255)
    ELSE IF r.rdata + 4 > Len(b) + 1 THEN <<>> ELSE SubSeq(b, r.rdata, r.rdata + 3)

Answers(b, p) == [i \in DOMAIN p.answers |->
                    [name |-> Uncompressed(b, p.answers[i].name, 255), type |-> p.answers[i].type,
                     ttl |-> p.answers[i].ttl, data |-> Data(b, p.answers[i])]]
-----------------------------------------------------------------------------
(* The client *)

\* mg_send_dns_query: nothing is sent for a name that cannot be written.
Ask(name) ==
    LET id == <<160 + Len(asked) + 1, 0>>
        q == EncodedQuestion(name)
    IN  /\ Len(asked) < MaxQueries
        /\ asked' = Append(asked, [id |-> id, name |-> name])
        /\ net' = IF q.ok THEN net \cup {[to |-> "server", b |-> Prefixed(Header(id, 256, 1, 0) \o q.b)]} ELSE net
        /\ UNCHANGED <<rest, msg, served, given, heard>>

Body(m) == IF Tcp THEN SubSeq(m.b, 3, Len(m.b)) ELSE m.b
Told(b, p) == IF p.ok THEN {[id |-> p.id, answers |-> Answers(b, p)]} ELSE {}
Reply(m) ==
    /\ m.to = "client"
    /\ heard' = heard \cup Told(Body(m), Parsed(Body(m)))
    /\ net' = net \ {m}
    /\ UNCHANGED <<asked, rest, msg, served, given>>
-----------------------------------------------------------------------------
(* The server: dns_handler with an application that answers the questions it   *)
(* is given with mg_dns_reply_record.                                          *)

NoMsg == [b |-> <<>>, p |-> Refused, io |-> <<>>, answers |-> <<>>]
Idle == msg = NoMsg

\* mg_dns_create_reply copies the questions, from the end of the header to the end
\* of the last of them.
Handled(b, p, whole) ==
    IF p.ok
        THEN /\ msg' = [b |-> b, p |-> p, answers |-> <<>>,
                        io |-> SubSeq(b, HeaderSize + 1, After(p.questions, HeaderSize + 1) - 1)]
             /\ served' = served \cup {[id |-> p.id, whole |-> whole, names |-> [i \in DOMAIN p.questions |-> Uncompressed(b, p.questions[i].name, 511)],
                                        types |-> [i \in DOMAIN p.questions |-> p.questions[i].type]]}
             /\ UNCHANGED <<given>>
        ELSE UNCHANGED <<msg, served, given>>

\* A format error is answered with a header in front of what was received.
Errors(b, p) == IF p.ok THEN {}
                ELSE {[to |-> "client", b |-> Prefixed(Header(<<0, 0>>, 32897, 0, 0) \o b)]}

\* One read, of the first n bytes: all of a datagram; of TCP two bytes are
\* dropped, whatever they are.
Took(b, p, behind, left) ==
    /\ Idle
    /\ Handled(b, p, rest = <<>> /\ behind = <<>>)
    /\ rest' = behind
    /\ net' = left \cup Errors(b, p)
    /\ UNCHANGED <<asked, heard>>
Kept(all, n) == SubSeq(all, IF Tcp THEN 3 ELSE 1, n)
Read(all, n, left) == Took(Kept(all, n), Parsed(Kept(all, n)), SubSeq(all, n + 1, Len(all)), left)

Recv(m, n) ==
    /\ m.to = "server" /\ rest = <<>>
    /\ n = Len(m.b) \/ Tcp
    /\ Read(m.b, n, IF Tcp THEN net \ {m} ELSE net)

RecvRest == rest # <<>> /\ Read(rest, Len(rest), net)

\* mg_dns_reply_record, with the name of the question: what could be written of a
\* record that is refused stays in the buffer.
ReplyRecord(r) ==
    LET name == Uncompressed(msg.b, msg.p.questions[1].name, 511)
        e == EncodedAnswer(Labels(name), r)
    IN  /\ ~Idle /\ msg.p.questions # <<>>
        /\ Len(msg.answers) < MaxAnswers
        /\ msg' = [msg EXCEPT !.io = @ \o e.b,
                              !.answers = IF e.ok THEN Append(@, [name |-> name, type |-> r.type, ttl |-> r.ttl,
                                              data |-> IF r.type = CNAME THEN Joined(r.target) ELSE Address]) ELSE @]
        /\ UNCHANGED <<asked, net, rest, served, given, heard>>

\* mg_dns_send_reply: the header goes in front; the id is the query's.  The length
\* was taken before the header was there.
SendReply ==
    LET p == msg.p
    IN  /\ ~Idle
        /\ net' = net \cup {[to |-> "client", b |-> WithLength(Len(msg.io),
                         Header(p.id, p.flags + 32896, Len(p.questions), Len(msg.answers)) \o msg.io)]}
        /\ given' = given \cup {[id |-> p.id, answers |-> msg.answers]}
        /\ msg' = NoMsg
        /\ UNCHANGED <<asked, rest, served, heard>>

\* Another server (external), which points back to the name in the question.
OtherServer(m) ==
    LET b == Body(m)
        text == Uncompressed(b, HeaderSize + 1, 511)
    IN  /\ m.to = "server" /\ rest = <<>> /\ Parsed(b).ok
        /\ net' = (net \ {m}) \cup {[to |-> "client", b |-> Prefixed(
                     Header(SubSeq(b, 1, 2), 33152, 1, 1) \o SubSeq(b, HeaderSize + 1, Len(b))
                     \o <<192, HeaderSize>> \o U16(A) \o U16(INET) \o <<0, 0, 0, 9>> \o U16(4) \o Address)]}
        /\ given' = given \cup {[id |-> SubSeq(b, 1, 2),
                                 answers |-> <<[name |-> text, type |-> A, ttl |-> 9, data |-> Address]>>]}
        /\ UNCHANGED <<asked, rest, msg, served, heard>>

Lose(m) == ~Tcp /\ net' = net \ {m} /\ UNCHANGED <<asked, rest, msg, served, given, heard>>
-----------------------------------------------------------------------------
Init == /\ asked = <<>> /\ net = {} /\ rest = <<>> /\ msg = NoMsg
        /\ served = {} /\ given = {} /\ heard = {}

Next ==
    \/ \E name \in Names : Ask(name)
    \/ \E m \in net : Reply(m) \/ OtherServer(m) \/ Lose(m) \/ \E n \in 2..Len(m.b) : Recv(m, n)
    \/ RecvRest \/ SendReply
    \/ \E r \in [type : {A}, ttl : {7}, target : {<<>>}] \cup [type : {CNAME}, ttl : {8}, target : Targets] : ReplyRecord(r)

Spec == Init /\ [][Next]_vars
-----------------------------------------------------------------------------
(* Properties *)

TypeOK == /\ Len(asked) <= MaxQueries /\ Len(msg.answers) <= MaxAnswers
          /\ \A m \in net : \A i \in DOMAIN m.b : m.b[i] \in 0..255

\* The server's application is called with the queries that were made, and with
\* nothing else, if their names are proper and no message is read in two halves:
\* also when datagrams come again or out of order.
ServedAsAsked ==
    \A s \in served : s.whole => \E i \in DOMAIN asked :
        /\ asked[i].id = s.id
        /\ Proper(asked[i].name) => s.names = <<Joined(asked[i].name)>> /\ s.types = <<A>>

\* A client with the handler of this library, which drops the two bytes of the
\* length without a look at them, reads from a reply the records that were put
\* into it, in their order, with their names and what they stand for, compressed or not; a format
\* error has none.
HeardAsGiven ==
    \A h \in heard : h \in given \cup {[id |-> <<0, 0>>, answers |-> <<>>]}

\* Over TCP the length in front of a message is that of the message, but for the
\* replies of mg_dns_send_reply: these are longer by their header than it says, and
\* who reads by the length misses their last 12 bytes.
LengthsInFront ==
    Tcp => \A m \in net :
        LET behind == Len(m.b) - 2 - Get16(m.b, 1)
        IN  behind = 0 \/ (behind = HeaderSize /\ \E g \in given : g.id = SubSeq(m.b, 3, 4))

\* No name of a message on its way is cut off by the bound on its labels.
WithinBounds ==
    \A m \in net :
        LET b == Body(m)
            p == Parsed(b)
            records == ToSet(p.questions) \cup ToSet(p.answers)
            names == {r.name : r \in records} \cup {r.rdata : r \in {x \in ToSet(p.answers) : x.type = CNAME}}
        IN  \A at \in names : NameWalk(b, at).stop /\ UncompressWalk(b, at, 511).stop
=============================================================================
