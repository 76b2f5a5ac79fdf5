----------------------------- MODULE SslContext -----------------------------
(***************************************************************************)
(* The SSL objects behind connections (ssl_if_openssl.c, ssl_if_mbedtls.c, *)
(* and the calls mg_bind_opt, mg_connect_opt, mg_accept_conn, mg_set_ssl,  *)
(* mg_ssl_begin and mg_destroy_conn make): a configuration (SSL_CTX, or    *)
(* mbedtls_ssl_config with its certificates) per listener or client, and a *)
(* session per client or accepted connection, which uses the configuration *)
(* of the listener.  The listener may be closed before its connections.    *)
(*                                                                         *)
(* What the libraries find in certificates, keys and cipher lists is their *)
(* choice.  wild: a freed configuration, a missing session or a freed      *)
(* connection has been used.                                               *)
(***************************************************************************)
EXTENDS Integers, Sequences, SequencesExt, FiniteSets

CONSTANTS Conn,       \* connections
          Settings    \* ssl options: psk_identity and psk_key, sequences that are
                      \* empty for NULL; a key is one of digits, 16 if not hexadecimal

VARIABLES
    library,  \* MG_SSL_IF: "OPENSSL" or "MBEDTLS"
    conn,     \* life; kind; lc, nc->listener; flags; ctx, ssl_if_data: conf (whose
              \* configuration), ssl (there is a session) and psk (<<>> if none)
    refs,     \* refs[c]: references to the configuration made for c
    asked,    \* history: the settings each connection was given last
    leaked,   \* history: configurations whose context mg_set_ssl overwrote
    orphaned, \* history: a listener was closed before a connection of it
    wild

vars == <<library, conn, refs, asked, leaked, orphaned, wild>>

NULL == "NULL"
OpenSsl == library = "OPENSSL"
Context(conf, ssl, psk) == [conf |-> conf, ssl |-> ssl, psk |-> psk]
NoContext == Context(NULL, FALSE, <<>>)
Unused == [life |-> "none", kind |-> "client", lc |-> NULL, flags |-> {}, ctx |-> NoContext]
Live(c) == conn[c].life = "live" /\ ~wild
-----------------------------------------------------------------------------
(* mg_ssl_if_ossl_set_psk, mg_ssl_if_mbed_set_psk *)

NoKey == [identity |-> <<>>, key |-> <<>>]

\* after[i]: the key when i digits have been read.
KeyOf(digits) ==
    LET after[i \in 0..Len(digits)] ==
            IF i = 0 THEN [j \in 1..(Len(digits) \div 2) |-> 0]
            ELSE [after[i - 1] EXCEPT ![(i + 1) \div 2] = @ * 16 + digits[i]]
    IN  after[Len(digits)]

\* What is kept; PskFails: MG_SSL_ERROR.
Psk(s) == IF s = NoKey THEN <<>> ELSE <<s.identity, KeyOf(s.key)>>
PskFails(s) ==
    \/ (s.identity = <<>>) # (s.key = <<>>)
    \/ s.key # <<>> /\ (Len(s.key) \notin {32, 64} \/ \E i \in DOMAIN s.key : s.key[i] > 15)

\* mg_ssl_if_ossl_psk_cb: what it copies for the library, <<>> if it does not fit.
PskCb(psk, maxIdentity, maxKey) ==
    IF Len(psk[1]) + 1 > maxIdentity \/ Len(psk[2]) > maxKey THEN <<>> ELSE psk
-----------------------------------------------------------------------------
(* mg_ssl_if_conn_init and mg_ssl_if_conn_free *)

\* What conn_init leaves behind, and whether all went well.  It fails without a
\* configuration, in one of the settings, or with the session, which only a
\* client gets (mbedTLS then has one half made).
ConnInit(c, kind, s) ==
    LET Fail(ctx) == [ok |-> FALSE, ctx |-> ctx]
        begun == {Fail(NoContext), Fail(Context(c, FALSE, <<>>))}
        nearly == {Fail(Context(c, ~OpenSsl, Psk(s)))}
        done == {[ok |-> TRUE, ctx |-> Context(c, kind = "client", Psk(s))]}
    IN  begun \cup (IF PskFails(s) THEN {} ELSE IF kind = "client" THEN nearly \cup done ELSE done)

\* An OpenSSL session holds a reference to its configuration, an mbedTLS one
\* only a pointer.
SessionRef(ctx) == IF OpenSsl /\ ctx.ssl THEN 1 ELSE 0
HasConf(ctx) == ctx.conf # NULL

Referenced(r, c, ctx) ==
    IF HasConf(ctx) THEN [r EXCEPT ![c] = 1 + SessionRef(ctx)] ELSE r

\* A slip in it: an accepted connection gives up its listener's reference.
ConnFree_Slip(r, ctx, lc) ==
    IF HasConf(ctx) THEN [r EXCEPT ![ctx.conf] = @ - SessionRef(ctx) - 1] ELSE r

\* nc->listener stays what it was when the listener is gone.
ConnFree(r, ctx, lc) ==
    LET own == IF lc = NULL \/ ~OpenSsl THEN 1 ELSE 0
    IN  IF HasConf(ctx) THEN [r EXCEPT ![ctx.conf] = @ - SessionRef(ctx) - own] ELSE r

\* The configuration a session works with, as long as there is one.
ConfOf(c) == IF conn[c].kind = "accepted" THEN conn[c].lc ELSE c
Usable(c) == conn[c].ctx.ssl /\ refs[ConfOf(c)] > 0
-----------------------------------------------------------------------------
(* The calls *)

\* mg_bind_opt, mg_connect_opt with SSL options: a failure destroys the
\* connection.  Without them mg_set_ssl may follow.  There is no PSK for a listener.
Open(c, kind) ==
    /\ ~wild /\ conn[c].life = "none"
    /\ \E s \in Settings : \E r \in ConnInit(c, kind, s) :
        LET new == [Unused EXCEPT !.life = "live", !.kind = kind]
            counted == Referenced(refs, c, r.ctx)
        IN  /\ kind = "listener" => s = NoKey
            /\ \/ /\ conn' = [conn EXCEPT ![c] = new]
                  /\ UNCHANGED <<refs, asked>>
               \/ /\ r.ok /\ asked' = [asked EXCEPT ![c] = s] /\ refs' = counted
                  /\ conn' = [conn EXCEPT ![c] = [new EXCEPT !.ctx = r.ctx, !.flags = {"SSL"}]]
               \/ /\ ~r.ok /\ asked' = [asked EXCEPT ![c] = s] /\ refs' = ConnFree(counted, r.ctx, NULL)
                  /\ conn' = [conn EXCEPT ![c] = [new EXCEPT !.life = "closed"]]
    /\ UNCHANGED <<leaked, orphaned, wild>>

\* mg_set_ssl.  A context that is there from a call that failed is overwritten.
\* Bound: it is not called again once it has succeeded.
SetSsl(c) ==
    /\ Live(c) /\ conn[c].kind # "accepted" /\ "SSL" \notin conn[c].flags
    /\ \E s \in {NoKey} : \E r \in ConnInit(c, conn[c].kind, s) :
        /\ asked' = [asked EXCEPT ![c] = s]
        /\ refs' = Referenced(IF r.ctx = NoContext THEN refs ELSE [refs EXCEPT ![c] = 0], c, r.ctx)
        /\ leaked' = IF r.ctx # NoContext /\ HasConf(conn[c].ctx) THEN leaked \cup {c} ELSE leaked
        /\ conn' = [conn EXCEPT ![c].ctx = IF r.ctx = NoContext THEN @ ELSE r.ctx,
                                ![c].flags = IF r.ok THEN @ \cup {"SSL"} ELSE @]
    /\ UNCHANGED <<orphaned, wild>>

\* mg_accept_conn, mg_ssl_if_conn_accept.  When the session cannot be made the
\* connection is closed, and then given its watchers all the same.
Accept(c, l) ==
    /\ Live(l) /\ conn[l].kind = "listener" /\ "SSL" \in conn[l].flags /\ conn[c].life = "none"
    /\ LET new == [Unused EXCEPT !.life = "live", !.kind = "accepted", !.lc = l, !.flags = {"SSL"},
                                 !.ctx = Context(IF OpenSsl THEN conn[l].ctx.conf ELSE NULL, TRUE, <<>>)]
       IN  \/ /\ conn' = [conn EXCEPT ![c] = new]
              /\ refs' = IF OpenSsl THEN [refs EXCEPT ![l] = @ + 1] ELSE refs
              /\ UNCHANGED wild
           \/ /\ conn' = [conn EXCEPT ![c] = [new EXCEPT !.life = "closed", !.ctx = NoContext]]
              /\ wild' = TRUE /\ UNCHANGED refs
    /\ UNCHANGED <<asked, leaked, orphaned>>

\* mg_ssl_begin: done, not yet (nothing changes), or failed.
Handshake(c) ==
    /\ Live(c) /\ conn[c].kind # "listener" /\ "SSL" \in conn[c].flags
    /\ conn[c].flags \cap {"HANDSHAKE_DONE", "CLOSE_IMMEDIATELY"} = {}
    /\ \E f \in {"HANDSHAKE_DONE", "CLOSE_IMMEDIATELY"} : conn' = [conn EXCEPT ![c].flags = @ \cup {f}]
    /\ wild' = ~Usable(c)
    /\ UNCHANGED <<refs, asked, leaked, orphaned>>

\* mg_ssl_if_read and mg_ssl_if_write, with what their callers do with an error
\* or an end: data (nothing changes here) or a close.
ReadWrite(c) ==
    /\ Live(c) /\ "HANDSHAKE_DONE" \in conn[c].flags /\ "CLOSE_IMMEDIATELY" \notin conn[c].flags
    /\ conn' \in {conn, [conn EXCEPT ![c].flags = @ \cup {"CLOSE_IMMEDIATELY"}]}
    /\ wild' = ~Usable(c)
    /\ UNCHANGED <<refs, asked, leaked, orphaned>>

\* mg_close_conn: for a flag of the above, or of the application, at any time.
Close(c) ==
    /\ Live(c)
    /\ conn' = [conn EXCEPT ![c].life = "closed", ![c].ctx = NoContext]
    /\ refs' = ConnFree(refs, conn[c].ctx, conn[c].lc)
    /\ orphaned' = (orphaned \/ \E d \in Conn : Live(d) /\ conn[d].lc = c)
    /\ UNCHANGED <<asked, leaked, wild>>
-----------------------------------------------------------------------------
Init ==
    /\ library \in {"OPENSSL", "MBEDTLS"}
    /\ conn = [c \in Conn |-> Unused] /\ refs = [c \in Conn |-> 0] /\ asked = [c \in Conn |-> NoKey]
    /\ leaked = {} /\ orphaned = FALSE /\ wild = FALSE

Next ==
    /\ UNCHANGED library
    /\ \E c \in Conn : \/ Open(c, "listener") \/ Open(c, "client") \/ SetSsl(c) \/ Handshake(c)
                       \/ ReadWrite(c) \/ Close(c) \/ \E l \in Conn : Accept(c, l)

Spec == Init /\ [][Next]_vars
-----------------------------------------------------------------------------
(* Properties *)

TypeOK ==
    /\ \A c \in Conn : conn[c].life \in {"none", "live", "closed"} /\ refs[c] \in 0..(1 + Cardinality(Conn))
    /\ leaked \subseteq Conn /\ wild \in BOOLEAN /\ library \in {"OPENSSL", "MBEDTLS"}

\* A session that is still used has its configuration, in whatever order the
\* listener and its connections go (with mbedTLS only if the listener goes last),
\* and a configuration nobody can reach any more has been freed, unless
\* mg_set_ssl has overwritten the context of a call that failed.
ConfigurationsLive ==
    ~wild => \A c \in Conn :
        /\ Live(c) /\ "SSL" \in conn[c].flags /\ conn[c].kind # "listener" /\ (OpenSsl \/ ~orphaned) => Usable(c)
        /\ refs[c] > 0 => \E d \in Conn : Live(d) /\ (c = d \/ conn[d].lc = c)

\* A connection that has SSL uses the key and the identity it was given, byte
\* for byte, unless the identity is longer than the library takes, and never a
\* key that was not 16 or 32 bytes in hexadecimal.
KeyAsAsked ==
    \A c \in Conn : Live(c) /\ conn[c].kind = "client" /\ "SSL" \in conn[c].flags =>
        LET s == asked[c]
            psk == conn[c].ctx.psk
            key == [j \in 1..(Len(s.key) \div 2) |-> 16 * s.key[2 * j - 1] + s.key[2 * j]]
        IN  IF s.key = <<>> THEN psk = <<>>
            ELSE /\ Len(s.key) \in {32, 64} /\ \A i \in DOMAIN s.key : s.key[i] \in 0..15
                 /\ PskCb(psk, 128, 32) = IF Len(s.identity) < 128 THEN <<s.identity, key>> ELSE <<>>
=============================================================================
