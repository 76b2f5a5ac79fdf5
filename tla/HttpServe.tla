------------------------------ MODULE HttpServe ------------------------------
(***************************************************************************)
(* What mg_serve_http does with a request (http.c, uri.c): the address     *)
(* list, the rewrites, the path of the URI and the file it names, password *)
(* files, CGI, hidden files, listings.  Built without WebDAV.              *)
(*                                                                         *)
(* A URI is the sequence of what is between its slashes: names, "", "."    *)
(* and "..", and by how they decode, "%." and "%.." for encoded dots, "%/" *)
(* for an encoded slash or NUL and "%" for a bad escape; <<>> has no slash.*)
(* Paths on the disk are sequences of names.  Where the code compares the  *)
(* bytes of a URI, in a rewrite, so does the model.                        *)
(***************************************************************************)
EXTENDS Integers, Sequences, SequencesExt, FiniteSets

CONSTANTS Files, Dirs,   \* paths of the files and directories there are
          CgiNames,      \* names that match cgi_file_pattern
          Spelling,      \* the characters of what is between two slashes
          Options,       \* what the application may pass in mg_serve_http_opts
          Requests       \* what a client may ask: method, uri, host, fresh (the file
                         \* is the one If-None-Match names), login (the password
                         \* files whose entry the digest response matches), allowed
                         \* (by ip_acl)

VARIABLES opts, request, response

vars == <<opts, request, response>>

None == [none |-> TRUE]
PasswordFile == ".htpasswd"   \* per_directory_auth_file
GlobalFile == <<"passwords">> \* global_auth_file
Exists(path) == path \in Files \cup Dirs
Name(path) == IF path = <<>> THEN "" ELSE Last(path)
Dir(path) == IF path \in Dirs \/ path = <<>> THEN path ELSE Front(path)
-----------------------------------------------------------------------------
(* URIs: tokens [c, sep], a component and whether a slash follows it *)

Tokens(uri) ==
    LET tokens == [i \in DOMAIN uri |-> [c |-> uri[i], sep |-> i < Len(uri)]]
    IN  IF Last(uri) = "" THEN Front(tokens) ELSE tokens   \* nothing behind the last slash

\* The characters of a path: the first slash, and each token with its own.
Chars(tokens) ==
    <<"/">> \o FlattenSeq([i \in DOMAIN tokens |->
                   Spelling[tokens[i].c] \o (IF tokens[i].sep THEN <<"/">> ELSE <<>>)])

\* A slip in it: ".." is only dropped.
Normalized_Slip(uri) ==
    LET kept == SelectSeq(Tokens(uri), LAMBDA t : t.c \notin {".", ".."})
    IN  [tokens |-> kept, mem |-> Chars(kept)]

\* mg_normalize_uri_path: ".." takes away the last token.  It works in place: what
\* is put behind the tokens overwrites the bytes there, and what is taken away
\* stays in memory behind the new end, as does the rest of the old path.
Normalized(uri) ==
    LET Put(n, t) ==
            LET tokens == Append(n.tokens, t)
            IN  [tokens |-> tokens,
                 mem |-> Chars(tokens) \o SubSeq(n.mem, Len(Chars(tokens)) + 1, Len(n.mem))]
        Resolve(n, t) ==
            IF t.c = "." THEN n
            ELSE IF t.c = ".." THEN [n EXCEPT !.tokens = IF @ = <<>> THEN <<>> ELSE Front(@)]
            ELSE Put(n, t)
    IN  FoldLeft(Resolve, [tokens |-> <<>>, mem |-> Chars(Tokens(uri))], Tokens(uri))
-----------------------------------------------------------------------------
(* mg_uri_to_local_path *)

HostRewrite(r, req) == r.kind = "host" /\ r.from = req.host

\* mg_match_prefix_n, of a rule without pattern signs: it compares on behind the
\* end of the URI.
Pattern(r) == Chars([i \in DOMAIN r.from |-> [c |-> r.from[i], sep |-> i < Len(r.from)]])
Matches(r, n) == r.kind \in {"uri", "proxy"} /\ IsPrefix(Pattern(r), n.mem)

\* Whether the match ends where a component does, at file_uri_start; that may be
\* behind the URI's end too.
AtSlash(r, n) ==
    LET len == Len(Pattern(r))
    IN  len = Len(Chars(n.tokens)) \/ (len < Len(n.mem) /\ n.mem[len + 1] = "/")
UriRewrite(r, n) == Matches(r, n) /\ (AtSlash(r, n) \/ Last(Pattern(r)) = "/")

\* Step 1: the root, and the tokens that are left, those from file_uri_start + 1
\* on.  The first rewrite that matches is used.  With whole nothing is left, not
\* even the slash before nothing.
RootOf(req, n) ==
    LET rules == SelectSeq(opts.rewrites, LAMBDA r : HostRewrite(r, req) \/ UriRewrite(r, n))
        used == IF rules = <<>> \/ HostRewrite(rules[1], req) THEN 1
                ELSE Len(Pattern(rules[1])) + (IF AtSlash(rules[1], n) THEN 1 ELSE 0)
        at(i) == Len(Chars(SubSeq(n.tokens, 1, i - 1)))   \* where token i begins
        left == Cardinality({i \in DOMAIN n.tokens : at(i) >= used})
    IN  [root |-> IF rules = <<>> THEN opts.document_root ELSE rules[1].to,
         rest |-> SubSeq(n.tokens, Len(n.tokens) - left + 1, Len(n.tokens)),
         whole |-> used > Len(Chars(n.tokens))]

\* A path that was not there is not looked for again; at a file the walk ends.
Looked(w) ==
    IF w.done \/ ~w.ok \/ ~w.exists THEN w
    ELSE [w EXCEPT !.exists = Exists(w.path), !.done = w.path \in Files]

\* Step 2, one component.
Walked(root, w0, t) ==
    LET w == Looked(w0)
    IN  IF w.done \/ ~w.ok THEN w
        ELSE LET s == [w EXCEPT !.left = @ - 1, !.sep = t.sep]
             IN  CASE t.c \in {"", "%."} -> s
                   [] t.c = "%.." -> IF Len(s.path) > Len(root) THEN [s EXCEPT !.path = Front(@)] ELSE s
                   [] t.c \in {"%", "%/"} -> [s EXCEPT !.ok = FALSE]
                   [] OTHER -> [s EXCEPT !.path = Append(@, t.c)]

\* ok, the local path, and whether something is left of the URI behind it: a
\* slash at least.
LocalPath(req, n) ==
    LET r == RootOf(req, n)
        start == [path |-> r.root, exists |-> TRUE, done |-> FALSE, ok |-> TRUE,
                  left |-> Len(r.rest), sep |-> TRUE]
        w == Looked(FoldLeft(LAMBDA s, t : Walked(r.root, s, t), start, r.rest))
    IN  IF r.whole THEN [ok |-> TRUE, path |-> r.root, info |-> FALSE]
        ELSE [ok |-> w.ok, path |-> w.path, info |-> w.done /\ w.sep]
-----------------------------------------------------------------------------
(* mg_send_http_file *)

IndexFile(path) ==
    LET there == SelectSeq(opts.index_files, LAMBDA n : Append(path, n) \in Files)
    IN  IF path \in Dirs /\ there # <<>> THEN Append(path, there[1]) ELSE path

Hidden(path) == Name(path) \in opts.hidden \cup {PasswordFile}

\* mg_is_authorized, for the global and then the file of the directory: a file
\* that cannot be opened protects nothing.
Authorized(req, path) ==
    opts.auth_domain =>
        \A f \in {GlobalFile, Append(Dir(path), PasswordFile)} : f \in Files => f \in req.login

Reply(status) == [status |-> status, path |-> <<>>, how |-> "error"]
Serving(path, how) == [status |-> 200, path |-> path, how |-> how]

\* For a PUT of what is not there the comparison with the file's date and size
\* reads what stat() has not written.
Fresh(req, path) == IF Exists(path) THEN {req.fresh} ELSE {FALSE, req.fresh}

SendHttpFile(req, tokens, path, info) ==
    LET target == IndexFile(path)
        isCgi == Name(target) \in CgiNames
        trailing == tokens = <<>> \/ Last(tokens).sep
    IN  IF path \in Dirs /\ ~trailing THEN {Reply(301)}
        ELSE IF info /\ ~isCgi THEN {Reply(501)}
        ELSE IF ~Authorized(req, path) THEN {Reply(401)}
        ELSE IF isCgi THEN {Serving(target, "cgi")}
        ELSE IF (~Exists(path) \/ Hidden(path)) /\ req.method # "PUT" THEN {Reply(404)}
        ELSE IF req.method = "OPTIONS" THEN {Reply(200)}
        ELSE IF path \in Dirs /\ target = path
        THEN {IF opts.enable_directory_listing THEN Serving(path, "listing") ELSE Reply(403)}
        ELSE {IF fresh THEN Reply(304)
              ELSE IF Exists(target) THEN Serving(target, "file") ELSE Reply(404) : fresh \in Fresh(req, target)}

\* mg_http_handle_forwarding looks at the URI as it came.
Forwarded(req) ==
    SelectSeq(opts.rewrites, LAMBDA r : r.kind = "proxy" /\ req.uri # <<>> /\ IsPrefix(r.from, req.uri))
Redirected == SelectSeq(opts.rewrites, LAMBDA r : r.kind = "port")

\* mg_serve_http: what it may answer.
ServeHttp(req) ==
    IF ~req.allowed THEN {Reply(403)}
    ELSE IF Forwarded(req) # <<>> THEN {[status |-> 200, path |-> Forwarded(req)[1].to, how |-> "proxy"]}
    ELSE IF Redirected # <<>> THEN {Reply(301)}
    ELSE IF req.uri = <<>> THEN {Reply(400)}
    ELSE LET n == Normalized(req.uri)
             l == LocalPath(req, n)
         IN  IF ~l.ok THEN {Reply(404)} ELSE SendHttpFile(req, n.tokens, l.path, l.info)
-----------------------------------------------------------------------------
Serve(r) ==
    /\ request = None
    /\ request' = r /\ response' \in ServeHttp(r) /\ UNCHANGED opts

Init == opts \in Options /\ request = None /\ response = None

Next == \E r \in Requests : Serve(r)

Spec == Init /\ [][Next]_vars
-----------------------------------------------------------------------------
(* Properties *)

Served(kinds) == request # None /\ response.how \in kinds

\* What RFC 3986 leaves of a path: the segments that no later ".." takes away.
Remaining(uri) ==
    LET Up(i, j) == {k \in i..j : uri[k] = ".."}
        Down(i, j) == {k \in i..j : uri[k] \notin {".", ".."}}
        Kept(i) == /\ uri[i] \notin {".", ".."}
                   /\ \A j \in (i + 1)..Len(uri) : Cardinality(Up(i + 1, j)) <= Cardinality(Down(i + 1, j))
        kept == SelectSeq([i \in DOMAIN uri |-> i], Kept)
    IN  [i \in DOMAIN kept |-> uri[kept[i]]]

\* A rule that matches only with what the normalisation left in memory behind the
\* path: "/d" for "/d/..".
MatchesBehind(r, n) == UriRewrite(r, n) /\ Len(Pattern(r)) > Len(Chars(n.tokens))

\* What a request gets is under the root its URI calls for; and with no encoded
\* dots in the URI, it is what is there under the name that RFC 3986 resolves it
\* to, an index file of it, or for CGI a program on the way.  The root is that of
\* the first rewrite for the host or for a directory the resolved path goes
\* through.  The code has one exception: a rule that the old path behind the
\* resolved one completes counts too, and its root itself is served then.
ServedAsNamed ==
    Served({"file", "listing", "cgi"}) =>
        LET left == Remaining(request.uri)
            calls(r) == \/ HostRewrite(r, request)
                        \/ r.kind \in {"uri", "proxy"} /\ IsPrefix(r.from, left)
                        \/ MatchesBehind(r, Normalized(request.uri))
            rules == SelectSeq(opts.rewrites, calls)
            root == IF rules = <<>> THEN opts.document_root ELSE rules[1].to
            skipped == IF rules = <<>> \/ rules[1].kind = "host" THEN 0 ELSE Len(rules[1].from)
            named == root \o SelectSeq(SubSeq(left, skipped + 1, Len(left)), LAMBDA c : c # "")
        IN  /\ IsPrefix(root, response.path)
            /\ Range(request.uri) \cap {"%.", "%.."} = {} =>
                  \/ response.path = named
                  \/ named \in Dirs /\ response.path = IndexFile(named)
                  \/ response.how = "cgi" /\ IsPrefix(response.path, named)

\* Without the right login nothing that a password file protects is read, run or
\* listed, however its URI is written; and a hidden file is sent only as
\* the index file of a directory.
Guarded ==
    /\ Served({"file", "listing", "cgi"}) /\ opts.auth_domain =>
          \A f \in {GlobalFile, Append(Dir(response.path), PasswordFile)} :
              f \in Files => f \in request.login
    /\ Served({"file"}) /\ request.method = "GET" /\ Hidden(response.path) =>
          response.path = IndexFile(Front(response.path))
=============================================================================
