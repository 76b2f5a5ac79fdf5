----------------------------- MODULE LuaBinding -----------------------------
(***************************************************************************)
(* The Lua binding (lua_mongoose.c): the userdata a script gets for a      *)
(* client connection, a listener or a resolve, the registry table that     *)
(* keeps it from the garbage collector, and the event handler, which finds *)
(* the script's callback through connection, userdata and registry and     *)
(* stores uploaded files itself.  Reading freed or uninitialised memory    *)
(* ends a behaviour (wild).  Values on the Lua stack are left out.         *)
(***************************************************************************)
EXTENDS Sequences, SequencesExt

CONSTANTS Objs,    \* userdata: struct lua_mg_connection, struct lua_mg_dns_ctx
          Conns,   \* struct mg_connection
          Names,   \* the file names of uploads
          Nil      \* NULL

ASSUME LuaBindingAssumption ==
    /\ Nil \notin Objs \cup Conns \cup Names
    /\ "uninitialised" \notin Objs \cup Conns \cup {Nil}

VARIABLES
    obj,     \* Objs -> the userdata, NoObj when there is none
    con,     \* Conns -> the connection, NoCon when it was not made yet
    order,   \* mgr->active_connections: the newest first
    files,   \* what the binding stored in /tmp
    ending,  \* lua_close: the manager's __gc runs mg_mgr_free
    leaked,  \* history: userdata of calls that failed, or whose CLOSE callback did
    spoiled, \* history: the files of uploads whose PART_END callback failed
    wild     \* memory was used that is not there

vars == <<obj, con, order, files, ending, leaked, spoiled, wild>>

NoObj == [kind |-> "none", registered |-> FALSE, held |-> FALSE, string |-> "none", con |-> Nil, con2 |-> Nil]

\* A slip in it: the object is not put into the registry.
NewObj_Slip(kind) == {[kind |-> kind, registered |-> FALSE, held |-> TRUE, string |-> "none", con |-> Nil, con2 |-> "uninitialised"]}

\* string is document_root or domain: a pointer into a Lua string, which is
\* there while the script or the running function holds it.
NewObj(kind) == {[kind |-> kind, registered |-> TRUE, held |-> h, string |-> s, con |-> Nil, con2 |-> "uninitialised"] :
                    h \in BOOLEAN, s \in IF kind = "client" THEN {"none"} ELSE {"held", "loose"}}

\* struct file_upload_state: fp is "open", "null" or "closed" (a stale FILE).
NoUpload == [name |-> Nil, fp |-> "none"]
NoCon == [life |-> "none", listener |-> Nil, user |-> Nil, upload |-> NoUpload, inPart |-> FALSE]

Running == ~wild /\ ~ending
Live(c) == con[c].life = "live"

\* The connection a method acts on, lcon->con2 ? lcon->con2 : lcon->con.
Target(o) == IF obj[o].con2 = Nil THEN obj[o].con ELSE obj[o].con2
-----------------------------------------------------------------------------
(* What a script calls on the manager.  Each makes the userdata, puts it into  *)
(* the registry, and only then tries.                                          *)

\* lua_mg_connect, lua_mg_connect_http, lua_mg_listen
Made(o, c, kind) ==
    /\ Running
    /\ obj[o].kind = "none" /\ con[c].life = "none"
    /\ \E n \in NewObj(kind) : obj' = [obj EXCEPT ![o] = [n EXCEPT !.con = c]]
    /\ con' = [con EXCEPT ![c] = [NoCon EXCEPT !.life = "live", !.user = o]]
    /\ order' = <<c>> \o order
    /\ UNCHANGED <<files, ending, leaked, spoiled, wild>>

Connect(o, c) == Made(o, c, "client")
Listen(o, c) == Made(o, c, "listener")

\* The address is refused: luaL_error; or mg_resolve_async_opt returns -1, which
\* nobody looks at.
Fails(o, kind) ==
    /\ Running
    /\ obj[o].kind = "none"
    /\ \E n \in NewObj(kind) : obj' = [obj EXCEPT ![o] = [n EXCEPT !.held = FALSE]]
    /\ leaked' = leaked \cup {o}
    /\ UNCHANGED <<con, order, files, ending, spoiled, wild>>

\* lua_mg_resolve_async: the request holds the context.
Resolve(o) ==
    /\ Running
    /\ obj[o].kind = "none"
    /\ \E n \in NewObj("dns") : obj' = [obj EXCEPT ![o] = [n EXCEPT !.held = FALSE]]
    /\ UNCHANGED <<con, order, files, ending, leaked, spoiled, wild>>

\* dns_resolve_cb: once, with an answer or an error; the callback is given the
\* domain's name.  An error in the callback changes nothing.
Resolved(o) ==
    /\ ~wild
    /\ obj[o].kind = "dns" /\ o \notin leaked
    /\ obj[o].registered
    /\ wild' = (obj[o].string = "collected")
    /\ obj' = [obj EXCEPT ![o].registered = FALSE]
    /\ UNCHANGED <<con, order, files, ending, leaked, spoiled>>
-----------------------------------------------------------------------------
(* The methods of a connection, called from elsewhere than a callback: from a  *)
(* timer of lua-ev, say.  They read con2 and the connection it stands for.     *)

UseLater(o) ==
    /\ Running
    /\ obj[o].held /\ obj[o].kind # "dns"
    /\ wild' = (Target(o) = "uninitialised" \/ (Target(o) \in Conns /\ ~Live(Target(o))))
    /\ UNCHANGED <<obj, con, order, files, ending, leaked, spoiled>>

\* The script forgets the object, or the strings of its options.
Forget(o) ==
    /\ ~wild
    /\ \/ obj[o].held /\ obj' = [obj EXCEPT ![o].held = FALSE]
       \/ obj[o].string = "held" /\ obj' = [obj EXCEPT ![o].string = "loose"]
    /\ UNCHANGED <<con, order, files, ending, leaked, spoiled, wild>>

Collect(o) ==
    /\ ~wild
    /\ \/ obj[o].string = "loose" /\ obj' = [obj EXCEPT ![o].string = "collected"]
       \/ /\ obj[o].kind # "none" /\ ~obj[o].registered /\ ~obj[o].held
          /\ obj' = [obj EXCEPT ![o] = NoObj]
    /\ UNCHANGED <<con, order, files, ending, leaked, spoiled, wild>>
-----------------------------------------------------------------------------
(* lua_mg_ev_handler.  A child of a listener is served by the listener's       *)
(* object.  The callback may fail, and may keep the object it is called with.  *)

Verdicts == {"true", "false", "error"}
Owner(c) == IF con[c].listener = Nil THEN con[c].user ELSE con[con[c].listener].user

\* The object's memory, the listener's and the registry's entry are all there.
Found(c) == /\ con[c].listener # Nil => Live(con[c].listener)
            /\ obj[Owner(c)].kind # "none" /\ obj[Owner(c)].registered

\* Up to lua_pcall: con2 is the child of the event; kept by the script or not.
Called(c, kept) ==
    [obj EXCEPT ![Owner(c)].con2 = IF con[c].listener = Nil THEN Nil ELSE c,
                ![Owner(c)].held = @ \/ kept]

Event(c) == ~wild /\ Live(c) /\ ~ending

Lost(c) == ~Found(c) /\ wild' = TRUE /\ UNCHANGED <<obj, con, order, files, ending, leaked, spoiled>>

\* mg_if_accept_new_conn: the child gets the listener's user_data.
Accept(l, c) ==
    /\ Event(l) /\ con[l].listener = Nil /\ obj[con[l].user].kind = "listener"
    /\ con[c].life = "none"
    /\ con' = [con EXCEPT ![c] = [NoCon EXCEPT !.life = "live", !.listener = l, !.user = con[l].user]]
    /\ order' = <<c>> \o order
    /\ \E kept \in BOOLEAN :
          obj' = [obj EXCEPT ![con[l].user].con2 = c, ![con[l].user].held = @ \/ kept]
    /\ UNCHANGED <<files, ending, leaked, spoiled, wild>>

\* An event the binding itself does nothing about; or an HTTP request that it
\* serves with the options of the listener when the callback returns false.
Plain(c) ==
    /\ Event(c)
    /\ \/ Lost(c)
       \/ \E kept \in BOOLEAN, verdict \in Verdicts :
            /\ Found(c)
            /\ obj' = Called(c, kept)
            /\ wild' = (verdict = "false" /\ con[c].listener # Nil /\ obj[Owner(c)].string = "collected")
            /\ UNCHANGED <<con, order, files, ending, leaked, spoiled>>

\* MG_EV_HTTP_PART_BEGIN: unless the callback takes it, the file is opened,
\* under the name the client gave.
PartBegin(c, name, opened) ==
    /\ Event(c) /\ con[c].listener # Nil /\ ~con[c].inPart /\ Found(c)
    /\ \E kept \in BOOLEAN, verdict \in Verdicts :
         /\ obj' = Called(c, kept)
         /\ con' = [con EXCEPT ![c].inPart = TRUE,
                               ![c].upload = IF verdict # "false" THEN @
                                             ELSE [name |-> name, fp |-> IF opened THEN "open" ELSE "null"]]
         /\ files' = IF verdict = "false" /\ opened THEN files \cup {name} ELSE files
    /\ UNCHANGED <<order, ending, leaked, spoiled, wild>>

\* MG_EV_HTTP_PART_DATA: a write that fails ends the file.
PartData(c, written) ==
    LET up == con[c].upload
    IN  /\ Event(c) /\ con[c].inPart /\ Found(c)
        /\ \E kept \in BOOLEAN, verdict \in Verdicts :
             LET broken == verdict # "error" /\ up.fp = "open" /\ ~written
             IN  /\ obj' = Called(c, kept)
                 /\ wild' = (verdict # "error" /\ up.fp = "closed")
                 /\ con' = [con EXCEPT ![c].upload.fp = IF broken THEN "null" ELSE @]
                 /\ files' = IF broken THEN files \ {up.name} ELSE files
        /\ UNCHANGED <<order, ending, leaked, spoiled>>

\* MG_EV_HTTP_PART_END, also with no part, also for a connection that is closing:
\* the file is closed before the callback and removed after it.
PartEnd(c) ==
    LET up == con[c].upload
    IN  /\ Event(c) /\ con[c].listener # Nil /\ Found(c)
        /\ \E kept \in BOOLEAN, verdict \in Verdicts :
             /\ obj' = Called(c, kept)
             /\ wild' = (up.fp = "closed")
             /\ con' = [con EXCEPT ![c].inPart = FALSE,
                                   ![c].upload = IF verdict # "error" THEN NoUpload
                                                 ELSE IF up.fp = "open" THEN [up EXCEPT !.fp = "closed"] ELSE up]
             /\ files' = IF verdict # "error" /\ up.fp # "null" THEN files \ {up.name} ELSE files
             /\ spoiled' = IF verdict = "error" /\ up.fp = "open" THEN spoiled \cup {up.name} ELSE spoiled
        /\ UNCHANGED <<order, ending, leaked>>

\* MG_EV_CLOSE, after the PART_END of a part in progress: only an object that is
\* the connection's own leaves the registry.
Close(c) ==
    /\ ~wild /\ Live(c) /\ ~con[c].inPart
    /\ ending => c = Head(order)
    /\ \/ Lost(c)
       \/ \E kept \in BOOLEAN, verdict \in Verdicts :
            LET own == con[c].listener = Nil
            IN  /\ Found(c)
                /\ obj' = [Called(c, kept) EXCEPT ![Owner(c)].registered = @ /\ (verdict = "error" \/ ~own)]
                /\ leaked' = IF own /\ verdict = "error" THEN leaked \cup {Owner(c)} ELSE leaked
                /\ con' = [con EXCEPT ![c].life = "freed"]
                /\ order' = Remove(order, c)
                /\ UNCHANGED <<files, ending, spoiled, wild>>

\* lua_mg_mgr_free: mg_mgr_free closes what there is, from the head of the list.
\* A part in progress is ended by its connection's close.
MgrFree ==
    /\ Running
    /\ \A c \in Conns : ~con[c].inPart
    /\ ending' = TRUE
    /\ UNCHANGED <<obj, con, order, files, leaked, spoiled, wild>>
-----------------------------------------------------------------------------
Init ==
    /\ obj = [o \in Objs |-> NoObj]
    /\ con = [c \in Conns |-> NoCon]
    /\ order = <<>> /\ files = {} /\ ending = FALSE
    /\ leaked = {} /\ spoiled = {} /\ wild = FALSE

Next ==
    \/ \E o \in Objs :
          \/ Resolve(o) \/ Resolved(o) \/ UseLater(o) \/ Forget(o) \/ Collect(o)
          \/ \E kind \in {"client", "listener", "dns"} : Fails(o, kind)
          \/ \E c \in Conns : Connect(o, c) \/ Listen(o, c)
    \/ \E c \in Conns :
          \/ Plain(c) \/ PartEnd(c) \/ Close(c)
          \/ \E name \in Names, opened \in BOOLEAN : PartBegin(c, name, opened)
          \/ \E written \in BOOLEAN : PartData(c, written)
          \/ \E l \in Conns : Accept(l, c)
    \/ MgrFree

Spec == Init /\ [][Next]_vars
-----------------------------------------------------------------------------
(* Properties *)

TypeOK ==
    /\ \A o \in Objs : obj[o].kind \in {"none", "client", "listener", "dns"} /\ Target(o) \in Conns \cup {Nil, "uninitialised"}
    /\ \A c \in Conns : con[c].life \in {"none", "live", "freed"} /\ con[c].user \in Objs \cup {Nil}
    /\ files \subseteq Names /\ leaked \subseteq Objs /\ wild \in BOOLEAN

\* An event finds its callback: while a connection lives, and its listener with
\* it, the userdata the handler reads is registered, not collected, and knows
\* the connection.
CallbackReachable ==
    \A c \in Conns : Live(c) /\ (con[c].listener # Nil => Live(con[c].listener))
                        => Found(c) /\ (con[c].listener = Nil => obj[Owner(c)].con = c)

\* The registry keeps nothing longer than it is needed: what is in it belongs to
\* a live connection or to a pending resolve, or to a call that failed.
RegistryIsExact ==
    \A o \in Objs : obj[o].registered =>
        \/ o \in leaked \/ obj[o].kind = "dns"
        \/ \E c \in Conns : Live(c) /\ con[c].user = o /\ con[c].listener = Nil

\* No stored upload outlives the request it came with, and none has an open
\* FILE without its part: whatever fails in between, except the callback that is
\* told of its end.
UploadsCleanUp ==
    /\ \A f \in files \ spoiled : \E c \in Conns : con[c].inPart /\ con[c].upload.name = f
    /\ \A c \in Conns : con[c].upload.fp = "open" => con[c].inPart /\ Live(c)

\* Whatever a script forgets, closes or lets fail, objects, registry and files
\* belong to something that is there.
ObjectsKept == CallbackReachable /\ RegistryIsExact /\ UploadsCleanUp
=============================================================================
