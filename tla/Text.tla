--------------------------------- MODULE Text ---------------------------------
(***************************************************************************)
(* The text algorithms that the protocols share: base64, encoded piece by  *)
(* piece or at once and decoded (common/base64.c); mg_parse_uri (uri.c);   *)
(* mg_match_prefix_n (util.c); and the topics of the MQTT broker.  Text is *)
(* a sequence of characters, the bytes and codes of base64 are numbers.    *)
(***************************************************************************)
EXTENDS Integers, Sequences, SequencesExt, FiniteSetsExt

CONSTANTS Pieces,   \* what one cs_base64_update may be given: sequences of bytes
          MaxBytes, \* bounds the bytes that are encoded
          Uris,     \* the components of URIs
          Patterns, Strings, \* what mg_match_prefix_n is called with; a string, and what follows it in memory
          Expressions, Topics \* of subscriptions and messages; a topic, and what follows it in the packet

VARIABLES
    job,   \* what is worked on: base64, or a URI or a match and what came of it
    chunk, \* ctx->chunk, as far as it is filled
    out,   \* the codes that were given to b64_putc
    fed,   \* history: the bytes that were given to cs_base64_update
    ended  \* history: whether cs_base64_finish was called

vars == <<job, chunk, out, fed, ended>>
-----------------------------------------------------------------------------
(* base64 *)

EQUALS == 61

\* cs_base64_emit_code
Code(v) == IF v < 26 THEN v + 65 ELSE IF v < 52 THEN v - 26 + 97 ELSE IF v < 62 THEN v - 52 + 48
           ELSE IF v = 62 THEN 43 ELSE 47

\* cs_base64_emit_chunk, with zeros for what cs_base64_finish fills up.
Chunk(b) ==
    LET at(i) == IF i <= Len(b) THEN b[i] ELSE 0
    IN  <<Code(at(1) \div 4), Code(16 * (at(1) % 4) + (at(2) \div 16))>>
        \o (IF Len(b) > 1 THEN <<Code(4 * (at(2) % 16) + (at(3) \div 64))>> ELSE <<>>)
        \o (IF Len(b) > 2 THEN <<Code(at(3) % 64)>> ELSE <<>>)

\* cs_base64_update
Update(piece) ==
    LET put(s, b) == IF Len(s.chunk) < 2 THEN [s EXCEPT !.chunk = Append(@, b)]
                     ELSE [chunk |-> <<>>, out |-> s.out \o Chunk(Append(s.chunk, b))]
        s == FoldLeft(put, [chunk |-> chunk, out |-> out], piece)
    IN  /\ job.kind = "base64" /\ ~ended /\ Len(fed) + Len(piece) <= MaxBytes
        /\ chunk' = s.chunk /\ out' = s.out /\ fed' = fed \o piece
        /\ UNCHANGED <<job, ended>>

\* cs_base64_finish
Finish ==
    /\ job.kind = "base64" /\ ~ended
    /\ out' = IF chunk = <<>> THEN out ELSE out \o Chunk(chunk) \o [i \in 1..(3 - Len(chunk)) |-> EQUALS]
    /\ ended' = TRUE
    /\ UNCHANGED <<job, chunk, fed>>

\* cs_base64_encode: all at once, filled up to a multiple of four.
Encoded(b) ==
    LET codes == FlattenSeq([k \in 1..((Len(b) + 2) \div 3) |-> Chunk(SubSeq(b, 3 * k - 2, Min({3 * k, Len(b)})))])
    IN  codes \o [i \in 1..((4 - (Len(codes) % 4)) % 4) |-> EQUALS]

\* from_b64: 200 for '=', 255 for what is no code; the eighth bit is ignored.
FromCode(ch) ==
    LET c == ch % 128
        values == {v \in 0..63 : Code(v) = c}
    IN  IF c = EQUALS THEN 200 ELSE IF values = {} THEN 255 ELSE Min(values)

\* cs_base64_decode: how many codes were taken, and the bytes.
Decoded(codes) ==
    LET round(s, k) ==
            LET v == [i \in 1..4 |-> FromCode(codes[s.taken + i])]
                bytes == <<(4 * v[1] + (v[2] \div 16)) % 256, (16 * v[2] + (v[3] \div 4)) % 256, (64 * v[3] + v[4]) % 256>>
                n == IF v[1] = 200 \/ v[2] = 200 THEN 0 ELSE IF v[3] = 200 THEN 1 ELSE IF v[4] = 200 THEN 2 ELSE 3
            IN  IF s.stop \/ s.taken + 4 > Len(codes) THEN s
                ELSE IF \E i \in 1..4 : v[i] = 255 THEN [s EXCEPT !.stop = TRUE]
                ELSE [taken |-> s.taken + 4, out |-> s.out \o SubSeq(bytes, 1, n), stop |-> n < 3]
    IN  FoldLeft(round, [taken |-> 0, out |-> <<>>, stop |-> FALSE], [k \in 1..(Len(codes) \div 4) |-> k])
-----------------------------------------------------------------------------
(* mg_parse_uri *)

NoUri == [scheme |-> <<>>, user |-> <<>>, host |-> <<>>, port |-> <<>>, path |-> <<>>, query |-> <<>>, fragment |-> <<>>]

\* The first place from p on of one of chars, or that behind the end.
Find(s, p, chars) == Min({i \in p..Len(s) : s[i] \in chars} \cup {Len(s) + 1})
At(s, p) == IF p <= Len(s) THEN s[p] ELSE "end"

\* P_REST, from the separator on: parse_uri_component for path, query, fragment.
Rest(u, s, p) ==
    LET q == Find(s, p, {"?"})
        f == Find(s, q + 1, {"#"})
    IN  [u EXCEPT !.path = SubSeq(s, p, q - 1),
                  !.query = SubSeq(s, q + 1, f - 1), !.fragment = SubSeq(s, f + 1, Len(s))]

\* P_PORT, from the colon on: the digits (their value is not computed here).
Port(u, s, p) ==
    LET e == Find(s, p + 1, {"/"}) IN Rest([u EXCEPT !.port = SubSeq(s, p + 1, e - 1)], s, e)

\* P_HOST
Host(u, s, p) ==
    LET h == IF At(s, p) = "@" THEN p + 1 ELSE p
        e == Find(s, h, {":", "/"})
        v == [u EXCEPT !.host = SubSeq(s, h, e - 1)]
    IN  IF At(s, e) = ":" THEN Port(v, s, e) ELSE Rest(v, s, e)

\* P_USER_INFO, from the last of "://" on: without '@' it was the host.
UserInfo(u, s, p) ==
    LET e == Find(s, p + 1, {"@", "/"})
    IN  IF At(s, e) = "@" THEN Host([u EXCEPT !.user = SubSeq(s, p + 1, e - 1)], s, e) ELSE Host(u, s, p + 1)

\* P_START, P_SCHEME_OR_PORT
ParseUri(s) ==
    LET e == Find(s, 1, {":", "/"})
        first == SubSeq(s, 1, e - 1)
    IN  IF At(s, e) # ":" THEN Rest([NoUri EXCEPT !.host = first], s, e)
        ELSE IF At(s, e + 1) = "/" /\ At(s, e + 2) = "/" THEN UserInfo([NoUri EXCEPT !.scheme = first], s, e + 2)
        ELSE Port([NoUri EXCEPT !.host = first], s, e)
-----------------------------------------------------------------------------
(* mg_match_prefix_n, for a pattern without '|', from places i and j on: how   *)
(* much of the string matches, or -1.  Only '?' and '$' ask where the string   *)
(* ends: any other sign is compared with what is in memory there, and '*' goes *)
(* on to the next slash.  "**" behind the end goes back to it, and then takes  *)
(* less; what lies before the string, where it may arrive, matches nothing     *)
(* here, nor does what lies behind the memory given.                           *)

MatchOne(p, s, behind) ==
    LET mem == s \o behind
        last == Len(mem) + Len(p) + 1
        m[i \in 1..(Len(p) + 1), j \in 1..last] ==
            LET here == At(p, i)
                double == At(p, i + 1) = "*"
                next == IF double THEN i + 2 ELSE i + 1
                end == IF double THEN Len(s) + 1
                       ELSE IF j <= Len(s) + 1 THEN Find(s, j, {"/"}) ELSE Max({j, Find(mem, j, {"/"})})
                fitting == {k \in (IF j <= Len(s) + 1 THEN j ELSE 1)..end : m[next, k] # -1}
                tail == m[i + 1, j + 1]
            IN  IF i > Len(p) THEN j - 1
                ELSE IF here = "?" /\ j # Len(s) + 1 THEN tail
                ELSE IF here = "$" THEN IF j = Len(s) + 1 THEN j - 1 ELSE -1
                ELSE IF here = "*" THEN IF next > Len(p) THEN end - 1
                                        ELSE IF fitting = {} THEN -1 ELSE m[next, Max(fitting)]
                ELSE IF At(mem, j) = here THEN tail ELSE -1
    IN  m[1, 1]

\* An alternative that matches nothing but the empty prefix gives way to the next.
Match(p, s, behind) ==
    LET parts == {k \in 1..(Len(p) + 1) : At(p, k) \in {"|", "end"}}
        from(k) == Max({0} \cup {x \in parts : x < k}) + 1
        result(k) == MatchOne(SubSeq(p, from(k), k - 1), s, behind)
        good == {k \in parts : result(k) > 0}
    IN  IF good # {} THEN result(Min(good)) ELSE result(Len(p) + 1)
-----------------------------------------------------------------------------
(* mg_mqtt_match_topic_expression: a comparison of prefixes.  Of "#" alone the *)
(* length wraps around, and then the topic's decides.  The topic has no end    *)
(* mark: without a '#' the comparison may go on into the payload behind it.    *)

MatchTopic(exp, topic, behind) ==
    LET wild == "#" \in ToSet(exp)
        len == IF ~wild THEN Len(exp)
               ELSE IF Len(exp) < 2 THEN Len(topic) ELSE Min({Len(exp) - 2, Len(topic)})
        compared(s) == SubSeq(s \o <<"end">>, 1, Min({len, Len(s) + 1}))
    IN  compared(topic \o behind) = compared(exp)
-----------------------------------------------------------------------------
\* The URI of components u: a port, a query and a fragment with their separators.
Compose(u) ==
    (IF u.scheme = <<>> THEN <<>> ELSE u.scheme \o <<":", "/", "/">>)
    \o (IF u.user = <<>> THEN <<>> ELSE u.user \o <<"@">>) \o u.host
    \o (IF u.port = <<>> THEN <<>> ELSE <<":">> \o u.port) \o u.path
    \o (IF u.query = <<>> THEN <<>> ELSE <<"?">> \o u.query)
    \o (IF u.fragment = <<>> THEN <<>> ELSE <<"#">> \o u.fragment)

Init ==
    /\ chunk = <<>> /\ out = <<>> /\ fed = <<>> /\ ended = FALSE
    /\ \/ job = [kind |-> "base64"]
       \/ \E u \in Uris : job = [kind |-> "uri", given |-> u, parsed |-> NoUri]
       \/ \E p \in Patterns, s \in Strings :
            job = [kind |-> "match", pattern |-> p, string |-> s[1], behind |-> s[2], length |-> -2]
       \/ \E e \in Expressions, t \in Topics :
            job = [kind |-> "topic", expression |-> e, topic |-> t[1], behind |-> t[2], matches |-> FALSE]

Compute ==
    /\ \/ job.kind = "uri" /\ job' = [job EXCEPT !.parsed = ParseUri(Compose(job.given))]
       \/ job.kind = "match" /\ job' = [job EXCEPT !.length = Match(job.pattern, job.string, job.behind)]
       \/ job.kind = "topic" /\ job' = [job EXCEPT !.matches = MatchTopic(job.expression, job.topic, job.behind)]
    /\ ended' = TRUE
    /\ UNCHANGED <<chunk, out, fed>>

Next == (\E piece \in Pieces : Update(piece)) \/ Finish \/ (~ended /\ Compute)

Spec == Init /\ [][Next]_vars
-----------------------------------------------------------------------------
(* Properties *)

\* However the bytes were cut into pieces, the codes are their bits, six by six,
\* filled up with '='; encoding at once gives the same, and decoding the bytes.
Base64Sound ==
    LET bit(i) == IF i \div 8 < Len(fed) THEN (fed[(i \div 8) + 1] \div 2^(7 - (i % 8))) % 2 ELSE 0
        sextet(k) == FoldLeft(LAMBDA v, j : 2 * v + bit(6 * k + j - 1), 0, <<1, 2, 3, 4, 5, 6>>)
        codes == (8 * Len(fed) + 5) \div 6
        padding == [i \in 1..(4 * ((Len(fed) + 2) \div 3) - codes) |-> EQUALS]
    IN  job.kind = "base64" /\ ended =>
            /\ out = [k \in 1..codes |-> Code(sextet(k - 1))] \o padding
            /\ Encoded(fed) = out
            /\ Decoded(out).out = fed /\ Decoded(out).taken = Len(out)

\* A URI is taken apart into the components it was put together from.
UriParsed == job.kind = "uri" /\ ended => job.parsed = job.given

\* The length that matches is one the pattern allows, and there is none only if
\* no prefix fits: '*' stands for any characters but '/', "**" for any, '?' for
\* one, '$' for the end of string and pattern, '|' between alternatives; the empty prefix counts only
\* for the last of these.  Of a string that other bytes follow, and not the zero
\* that ends it, this much is true: what its prefixes would match is matched; the
\* length may be wrong, and there may be a match where no prefix fits.
MatchSound ==
    LET p == job.pattern
        s == job.string
        \* the lengths at which a pattern of single signs can stand, sign by sign
        step(lengths, sign) ==
            IF sign = "*" THEN UNION {n..(Find(s, n + 1, {"/"}) - 1) : n \in lengths}
            ELSE IF sign = "**" THEN UNION {n..Len(s) : n \in lengths}
            ELSE IF sign = "$" THEN lengths \cap {Len(s)}
            ELSE {n + 1 : n \in {x \in lengths : x < Len(s) /\ sign \in {"?", s[x + 1]}}}
        signs(q) == FoldLeft(LAMBDA r, c : IF c = "*" /\ r # <<>> /\ Last(r) = "*" THEN Front(r) \o <<"**">>
                                           ELSE Append(r, c), <<>>, q)
        lengths(q) == FoldLeft(step, {0}, signs(SubSeq(q, 1, Min({Find(q, 1, {"$"}), Len(q)}))))
        bars == {k \in 1..(Len(p) + 1) : At(p, k) \in {"|", "end"}}
        all == UNION {lengths(SubSeq(p, Max({0} \cup {x \in bars : x < k}) + 1, k - 1))
                        \ (IF k = Len(p) + 1 THEN {} ELSE {0}) : k \in bars}
    IN  job.kind = "match" /\ ended =>
            /\ job.length = -1 => all = {}
            /\ job.length = -1 \/ job.behind # <<>> \/ job.length \in all

\* Whoever subscribed to a topic, or with "/#" to all below it, gets what is
\* published there.  The expression "#" is not one of these, and '+' is a level
\* like any other; a match where the standard has none is not excluded, but for
\* topics that differ from the expression where both have characters.
TopicsReach ==
    LET e == job.expression
        t == job.topic
        below == Len(e) >= 2 /\ SubSeq(e, Len(e) - 1, Len(e)) = <<"/", "#">>
        stem == SubSeq(e, 1, Len(e) - 2)
        asked == \/ t = e
                 \/ below /\ (t = stem \/ IsPrefix(stem \o <<"/">>, t))
        differ == \E i \in 1..Min({Len(IF below THEN stem ELSE e), Len(t)}) : t[i] # e[i]
    IN  job.kind = "topic" /\ ended /\ (below \/ "#" \notin ToSet(e)) =>
            /\ asked => job.matches
            /\ job.matches => ~differ

\* What its comment says, that it tells whether a topic matches the expression:
\* nothing else matches.  "a/#" and "a" match the topic "ab" too.
TopicsOnlyAsAsked ==
    job.kind = "topic" /\ ended /\ job.matches =>
        \/ job.topic = job.expression
        \/ "#" \in ToSet(job.expression)
=============================================================================
