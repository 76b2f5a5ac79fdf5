--------------------------- MODULE Protocols_proofs --------------------------
(***************************************************************************)
(* Theorems about the reverse proxy, CGI, stored uploads and files: what   *)
(* the two sides of a reverse proxy owe a client that waits for its        *)
(* answers, what such a client gets of what a program writes and of the    *)
(* files it asks for, and that uploads are stored as they came.            *)
(***************************************************************************)
EXTENDS Protocols, TLAPS, FiniteSetTheorems, FunctionTheorems, SequenceTheorems

\* Linked connections point to each other and live.
Paired ==
    \A x, y \in Conns : conns[x].linked = y =>
        Alive(conns, x) /\ Alive(conns, y) /\ conns[y].linked = x

\* A client that has asked for nothing is linked to nothing, which is why the
\* link that the first request makes takes the place of no other.
NothingAsked ==
    Alive(conns, Client) /\ waiting = 0 => \A x \in Conns : conns[x].linked = NULL

Orderly == ~usedFreed /\ Paired /\ NothingAsked /\ NeverLeftWaiting

Inductive == TypeOK /\ (~late => Orderly)

Connection == [life : Life, linked : Conns \cup {NULL},
               sendAndClose : BOOLEAN, closeNow : BOOLEAN]
-----------------------------------------------------------------------------
LEMMA UnusedType == Unused \in Connection /\ Unused.linked = NULL /\ Unused.life = "unused"
BY DEF Unused, Connection, Life

LEMMA InitInductive == Init => Inductive
<1> SUFFICES ASSUME Init PROVE Inductive
  OBVIOUS
<1>1. \A x \in Conns : conns[x] = IF x = Client THEN [Unused EXCEPT !.life = "open"] ELSE Unused
  BY DEF Init
<1>2. [Unused EXCEPT !.life = "open"] \in Connection  BY DEF Unused, Connection, Life
<1>3. conns \in [Conns -> Connection]  BY <1>2, UnusedType DEF Init
<1>4. TypeOK  BY <1>3 DEF Init, TypeOK, Connection
<1>5. \A x \in Conns : conns[x].linked = NULL  BY <1>1 DEF Unused
<1>6. waiting = 0 /\ ~usedFreed  BY DEF Init
<1>7. Paired /\ NothingAsked  BY <1>5, HttpProxyAssumption DEF Paired, NothingAsked
<1>8. NeverLeftWaiting  BY <1>6 DEF NeverLeftWaiting
<1> QED  BY <1>4, <1>6, <1>7, <1>8 DEF Inductive, Orderly

\* Each field of a connection can be set to a value of its type.
LEMMA SetField ==
  ASSUME NEW cs \in [Conns -> Connection], NEW x \in Conns
  PROVE  /\ \A v \in Life : [cs EXCEPT ![x].life = v] \in [Conns -> Connection]
         /\ \A v \in Conns \cup {NULL} : [cs EXCEPT ![x].linked = v] \in [Conns -> Connection]
         /\ \A v \in BOOLEAN : [cs EXCEPT ![x].sendAndClose = v] \in [Conns -> Connection]
         /\ \A v \in BOOLEAN : [cs EXCEPT ![x].closeNow = v] \in [Conns -> Connection]
BY DEF Connection

\* The functions of the code keep the type of the connections.
LEMMA DestroyedType ==
  ASSUME NEW cs \in [Conns -> Connection], NEW x \in Conns
  PROVE  Destroyed(cs, x) \in [Conns -> Connection]
<1> DEFINE y == cs[x].linked
           z == IF y = NULL THEN NULL ELSE cs[y].linked
           unlinked == IF z = NULL THEN cs
                       ELSE [cs EXCEPT ![z].sendAndClose = TRUE, ![y].linked = NULL]
           freed == [unlinked EXCEPT ![x].life = "freed"]
<1>1. y \in Conns \cup {NULL} /\ z \in Conns \cup {NULL}  BY DEF Connection
<1>2. unlinked \in [Conns -> Connection]
  <2>1. CASE z = NULL  BY <2>1
  <2>2. CASE z # NULL
    <3>1. z \in Conns /\ y \in Conns  BY <1>1, <2>2
    <3> DEFINE one == [cs EXCEPT ![z].sendAndClose = TRUE]
    <3>2. one \in [Conns -> Connection]  BY <3>1, SetField
    <3>3. unlinked = [one EXCEPT ![y].linked = NULL]  BY <2>2
    <3> HIDE DEF one
    <3>4. [one EXCEPT ![y].linked = NULL] \in [Conns -> Connection]  BY <3>1, <3>2, SetField
    <3> QED  BY <3>3, <3>4
  <2> QED  BY <2>1, <2>2
<1>3. Destroyed(cs, x) = [freed EXCEPT ![x].linked = NULL]  BY DEF Destroyed
<1> HIDE DEF unlinked
<1>4. freed \in [Conns -> Connection]  BY <1>2, SetField DEF Life
<1> HIDE DEF freed
<1>5. [freed EXCEPT ![x].linked = NULL] \in [Conns -> Connection]  BY <1>4, SetField
<1> QED  BY <1>3, <1>5

LEMMA AnsweredType ==
  ASSUME NEW cs \in [Conns -> Connection], NEW b \in Conns
  PROVE  Answered(cs, b) \in [Conns -> Connection]
BY DEF Answered, Connection

LEMMA LinkedType ==
  ASSUME NEW cs \in [Conns -> Connection], NEW b \in Backends
  PROVE  Linked(cs, b) \in [Conns -> Connection]
<1>1. b \in Conns /\ Client \in Conns  BY DEF Conns
<1> DEFINE fresh == [Unused EXCEPT !.life = "connecting", !.linked = Client]
           one == [cs EXCEPT ![b] = fresh]
<1>2. fresh \in Connection  BY <1>1 DEF Unused, Connection, Life
<1>3. one \in [Conns -> Connection]  BY <1>1, <1>2
<1>4. [one EXCEPT ![Client].linked = b] \in [Conns -> Connection]  BY <1>1, <1>3 DEF Connection
<1> QED  BY <1>4 DEF Linked
-----------------------------------------------------------------------------
(* The handlers write to linked connections only, and destroy them in pairs.  *)

LEMMA AnsweredKeeps ==
  ASSUME NEW cs \in [Conns -> Connection], NEW b \in Conns
  PROVE  \A x \in Conns : /\ Answered(cs, b)[x].life = cs[x].life
                          /\ Answered(cs, b)[x].linked = cs[x].linked
                          /\ Answered(cs, b)[x].closeNow = cs[x].closeNow
                          /\ cs[x].sendAndClose => Answered(cs, b)[x].sendAndClose
                          /\ cs[b].linked = x => Answered(cs, b)[x].sendAndClose
<1> DEFINE y == cs[b].linked
<1>1. NULL \notin Conns /\ y \in Conns \cup {NULL}  BY HttpProxyAssumption DEF Connection
<1>2. CASE y = NULL  BY <1>1, <1>2 DEF Answered
<1>3. CASE y # NULL
  <2>1. y \in Conns /\ Answered(cs, b) = [cs EXCEPT ![y].sendAndClose = TRUE]
    BY <1>1, <1>3 DEF Answered
  <2> HIDE DEF y
  <2>2. \A x \in Conns : /\ Answered(cs, b)[x].life = cs[x].life
                         /\ Answered(cs, b)[x].linked = cs[x].linked
                         /\ Answered(cs, b)[x].closeNow = cs[x].closeNow
                         /\ cs[x].sendAndClose => Answered(cs, b)[x].sendAndClose
                         /\ y = x => Answered(cs, b)[x].sendAndClose
    BY <2>1 DEF Connection
  <2> QED  BY <2>2 DEF y
<1> QED  BY <1>2, <1>3

PairedIn(cs) ==
    \A x, y \in Conns : cs[x].linked = y =>
        Alive(cs, x) /\ Alive(cs, y) /\ cs[y].linked = x

LEMMA SetTwo ==
  ASSUME NEW cs \in [Conns -> Connection], NEW x \in Conns, NEW y \in Conns
  PROVE  LET one == [cs EXCEPT ![x].sendAndClose = TRUE, ![y].linked = NULL]
         IN  one \in [Conns -> Connection] /\ \A w \in Conns :
               /\ one[w].life = cs[w].life
               /\ one[w].linked = IF w = y THEN NULL ELSE cs[w].linked
               /\ cs[w].sendAndClose => one[w].sendAndClose
<1> DEFINE half == [cs EXCEPT ![x].sendAndClose = TRUE]
           one == [half EXCEPT ![y].linked = NULL]
<1>1. half \in [Conns -> Connection]  BY SetField
<1>2. \A w \in Conns : /\ half[w].life = cs[w].life /\ half[w].linked = cs[w].linked
                       /\ cs[w].sendAndClose => half[w].sendAndClose
  BY DEF Connection
<1> HIDE DEF half
<1>3. one \in [Conns -> Connection]  BY <1>1, SetField
<1>4. \A w \in Conns : /\ one[w].life = half[w].life
                       /\ one[w].linked = IF w = y THEN NULL ELSE half[w].linked
                       /\ one[w].sendAndClose = half[w].sendAndClose
  BY <1>1 DEF Connection
<1>5. one = [cs EXCEPT ![x].sendAndClose = TRUE, ![y].linked = NULL]  BY DEF half
<1> HIDE DEF one
<1>6. \A w \in Conns : /\ one[w].life = cs[w].life
                       /\ one[w].linked = IF w = y THEN NULL ELSE cs[w].linked
                       /\ cs[w].sendAndClose => one[w].sendAndClose
  BY <1>2, <1>4
<1> QED  BY <1>3, <1>5, <1>6, Zenon

LEMMA FreedFields ==
  ASSUME NEW cs \in [Conns -> Connection], NEW x \in Conns
  PROVE  LET freed == [cs EXCEPT ![x].life = "freed", ![x].linked = NULL]
         IN  \A w \in Conns : /\ freed[w].life = IF w = x THEN "freed" ELSE cs[w].life
                              /\ freed[w].linked = IF w = x THEN NULL ELSE cs[w].linked
                              /\ freed[w].sendAndClose = cs[w].sendAndClose
BY DEF Connection

LEMMA DestroyedKeeps ==
  ASSUME NEW cs \in [Conns -> Connection], NEW x \in Conns, PairedIn(cs)
  PROVE  /\ PairedIn(Destroyed(cs, x))
         /\ \A w \in Conns : /\ Destroyed(cs, x)[w].life = IF w = x THEN "freed" ELSE cs[w].life
                             /\ Destroyed(cs, x)[w].linked =
                                   IF w = x \/ w = cs[x].linked THEN NULL ELSE cs[w].linked
                             /\ cs[w].sendAndClose => Destroyed(cs, x)[w].sendAndClose
<1> DEFINE y == cs[x].linked
           d == Destroyed(cs, x)
<1>1. NULL \notin Conns /\ y \in Conns \cup {NULL}  BY HttpProxyAssumption DEF Connection
<1>2. \A w \in Conns : /\ d[w].life = IF w = x THEN "freed" ELSE cs[w].life
                       /\ d[w].linked = IF w = x \/ w = y THEN NULL ELSE cs[w].linked
                       /\ cs[w].sendAndClose => d[w].sendAndClose
  <2>1. CASE y = NULL
    <3>1. d = [cs EXCEPT ![x].life = "freed", ![x].linked = NULL]  BY <2>1 DEF Destroyed
    <3> QED  BY <2>1, <3>1, <1>1, FreedFields
  <2>2. CASE y # NULL
    <3>1. y \in Conns /\ cs[y].linked = x /\ x # NULL  BY <2>2, <1>1 DEF PairedIn
    <3> DEFINE one == [cs EXCEPT ![x].sendAndClose = TRUE, ![y].linked = NULL]
    <3>2. d = [one EXCEPT ![x].life = "freed", ![x].linked = NULL]
      BY <2>2, <3>1 DEF Destroyed
    <3>3. one \in [Conns -> Connection] /\ \A w \in Conns :
             /\ one[w].life = cs[w].life
             /\ one[w].linked = IF w = y THEN NULL ELSE cs[w].linked
             /\ cs[w].sendAndClose => one[w].sendAndClose
      BY <3>1, SetTwo
    <3> HIDE DEF one, y
    <3>4. \A w \in Conns : /\ d[w].life = IF w = x THEN "freed" ELSE one[w].life
                           /\ d[w].linked = IF w = x THEN NULL ELSE one[w].linked
                           /\ d[w].sendAndClose = one[w].sendAndClose
      BY <3>2, <3>3, FreedFields DEF y
    <3> QED  BY <3>3, <3>4 DEF y
  <2> QED  BY <2>1, <2>2
<1>3. PairedIn(d)
  <2> SUFFICES ASSUME NEW v \in Conns, NEW w \in Conns, d[v].linked = w
               PROVE  Alive(d, v) /\ Alive(d, w) /\ d[w].linked = v
    BY DEF PairedIn
  <2>1. v # x /\ v # y /\ cs[v].linked = w  BY <1>1, <1>2
  <2>2. Alive(cs, v) /\ Alive(cs, w) /\ cs[w].linked = v  BY <2>1 DEF PairedIn
  <2>3. w # x  BY <2>1, <2>2
  <2>4. w # y
    <3> SUFFICES ASSUME w = y PROVE FALSE  OBVIOUS
    <3>1. cs[y].linked = x  BY <1>1 DEF PairedIn
    <3> QED  BY <3>1, <2>1, <2>2
  <2> QED  BY <1>2, <2>1, <2>2, <2>3, <2>4 DEF Alive
<1> QED  BY <1>2, <1>3
-----------------------------------------------------------------------------
(* One lemma per action.  A step that leaves the client late leaves nothing    *)
(* but types to be shown.                                                      *)

LEMMA TypedConns == TypeOK => conns \in [Conns -> Connection]
BY DEF TypeOK, Connection

\* A backend that is made for a client without links.
LEMMA LinkedKeeps ==
  ASSUME NEW cs \in [Conns -> Connection], NEW b \in Backends, PairedIn(cs),
         Alive(cs, Client), cs[b].life = "unused",
         \A x \in Conns : cs[x].linked = NULL
  PROVE  PairedIn(Linked(cs, b)) /\ Linked(cs, b)[Client].linked = b
<1>1. b \in Conns /\ Client \in Conns /\ b # Client /\ NULL \notin Conns
  BY HttpProxyAssumption DEF Conns
<1> DEFINE fresh == [Unused EXCEPT !.life = "connecting", !.linked = Client]
           one == [cs EXCEPT ![b] = fresh]
           ls == [one EXCEPT ![Client].linked = b]
<1>2. fresh \in Connection /\ fresh.life = "connecting" /\ fresh.linked = Client
  BY <1>1 DEF Unused, Connection, Life
<1> HIDE DEF fresh
<1>3. one \in [Conns -> Connection] /\ one[b] = fresh /\ \A w \in Conns : w # b => one[w] = cs[w]
  BY <1>1, <1>2
<1> HIDE DEF one
<1>4. \A w \in Conns : /\ ls[w].life = one[w].life
                       /\ ls[w].linked = IF w = Client THEN b ELSE one[w].linked
  BY <1>1, <1>3 DEF Connection
<1>5. Linked(cs, b) = ls  BY DEF Linked, ls, one, fresh
<1> HIDE DEF ls
<1>6. ls[Client].linked = b /\ ls[b].linked = Client  BY <1>1, <1>2, <1>3, <1>4
<1>7. Alive(ls, Client) /\ Alive(ls, b)  BY <1>1, <1>2, <1>3, <1>4 DEF Alive
<1>8. \A w \in Conns : w \notin {b, Client} => ls[w].linked = NULL
  BY <1>3, <1>4
<1>9. PairedIn(ls)  BY <1>1, <1>6, <1>7, <1>8 DEF PairedIn
<1> QED  BY <1>5, <1>6, <1>9

LEMMA RequestKeeps ==
  ASSUME Inductive, Request
  PROVE  Inductive'
<1>1. conns \in [Conns -> Connection] /\ Client \in Conns /\ waiting \in Nat
  BY TypedConns DEF Inductive, TypeOK, Conns
<1>2. conns' \in [Conns -> Connection]
  <2>1. ASSUME NEW b \in Backends, conns' = Linked(conns, b)
        PROVE  conns' \in [Conns -> Connection]
    BY <1>1, <2>1, LinkedType
  <2>2. CASE conns' = [conns EXCEPT ![Client].sendAndClose = TRUE]
    BY <1>1, <2>2, SetField
  <2> QED  BY <2>1, <2>2 DEF Request
<1>3. TypeOK'
  <2>1. waiting' \in Nat /\ late' \in BOOLEAN /\ usedFreed' = usedFreed
    BY <1>1 DEF Request
  <2> QED  BY <1>2, <2>1 DEF Inductive, TypeOK, Connection
<1>4. ASSUME ~late'  PROVE Orderly'
  <2>1. /\ ~late /\ waiting = 0 /\ ~conns[Client].sendAndClose
        /\ waiting' = 1 /\ ~usedFreed'
    <3>1. /\ late' = (late \/ waiting > 0 \/ conns[Client].sendAndClose)
          /\ waiting' = waiting + 1 /\ ~usedFreed /\ usedFreed' = usedFreed
      BY DEF Request
    <3>2. ~late /\ ~(waiting > 0) /\ ~conns[Client].sendAndClose  BY <1>4, <3>1, Zenon
    <3> QED  BY <1>1, <3>1, <3>2
  <2>2. Alive(conns, Client) /\ PairedIn(conns) /\ \A x \in Conns : conns[x].linked = NULL
    BY <2>1 DEF Request, Inductive, Orderly, Paired, PairedIn, NothingAsked
  <2>3. PairedIn(conns') /\ (conns'[Client].sendAndClose \/ conns'[Client].linked # NULL)
    <3>1. ASSUME NEW b \in Backends, conns[b].life = "unused", conns' = Linked(conns, b)
          PROVE  PairedIn(conns') /\ conns'[Client].linked # NULL
      BY <1>1, <2>2, <3>1, LinkedKeeps, HttpProxyAssumption DEF Conns
    <3>2. CASE conns' = [conns EXCEPT ![Client].sendAndClose = TRUE]
      <4>1. \A x \in Conns : conns'[x].linked = NULL  BY <1>1, <2>2, <3>2 DEF Connection
      <4>2. conns'[Client].sendAndClose  BY <1>1, <3>2 DEF Connection
      <4> QED  BY <4>1, <4>2, HttpProxyAssumption DEF PairedIn
    <3> QED  BY <3>1, <3>2 DEF Request
  <2>4. NothingAsked' /\ NeverLeftWaiting'  BY <2>1, <2>3 DEF NothingAsked, NeverLeftWaiting
  <2> QED  BY <2>1, <2>3, <2>4 DEF Orderly, Paired, PairedIn
<1> QED  BY <1>3, <1>4 DEF Inductive

\* What a step that neither asks nor ends the client has to show.
LEMMA BackendStep ==
  ASSUME Inductive, conns' \in [Conns -> Connection],
         UNCHANGED <<waiting, late>>, usedFreed' \in BOOLEAN,
         ~late => /\ ~usedFreed' /\ PairedIn(conns')
                  /\ Alive(conns', Client) => Alive(conns, Client)
                  /\ \A x \in Conns : conns[x].linked = NULL => conns'[x].linked = NULL
                  /\ conns[Client].sendAndClose => conns'[Client].sendAndClose
                  /\ conns[Client].linked # NULL =>
                        conns'[Client].linked # NULL \/ conns'[Client].sendAndClose
  PROVE  Inductive'
<1>1. TypeOK'  BY DEF Inductive, TypeOK, Connection
<1>2. ASSUME ~late'  PROVE Orderly'
  <2>1. ~late /\ Orderly  BY <1>2 DEF Inductive
  <2>2. NothingAsked' /\ NeverLeftWaiting'  BY <2>1 DEF Orderly, NothingAsked, NeverLeftWaiting
  <2> QED  BY <2>1, <2>2 DEF Orderly, Paired, PairedIn
<1> QED  BY <1>1, <1>2 DEF Inductive

LEMMA ConnectedKeeps ==
  ASSUME Inductive, NEW b \in Backends, Connected(b)
  PROVE  Inductive'
<1>1. conns \in [Conns -> Connection] /\ b \in Conns
  BY TypedConns DEF Inductive, Conns
<1>2. conns' = [conns EXCEPT ![b].life = "open"] /\ conns[b].life = "connecting"
  BY DEF Connected
<1>3. conns' \in [Conns -> Connection]  BY <1>1, <1>2, SetField DEF Life
<1>4. \A x \in Conns : /\ conns'[x].linked = conns[x].linked
                       /\ conns'[x].sendAndClose = conns[x].sendAndClose
                       /\ conns'[x].life = IF x = b THEN "open" ELSE conns[x].life
  BY <1>1, <1>2 DEF Connection
<1>5. \A x \in Conns : Alive(conns', x) <=> Alive(conns, x)  BY <1>2, <1>4 DEF Alive
<1>6. ~late => ~usedFreed /\ PairedIn(conns)  BY DEF Inductive, Orderly, Paired, PairedIn
<1>7. ~late => PairedIn(conns')  BY <1>4, <1>5, <1>6 DEF PairedIn
<1>8. Client \in Conns  BY DEF Conns
<1>9. UNCHANGED <<waiting, late, usedFreed>> /\ usedFreed \in BOOLEAN
  BY DEF Connected, Inductive, TypeOK
<1> QED  BY <1>3, <1>4, <1>5, <1>6, <1>7, <1>8, <1>9, BackendStep

\* An orderly handler of a backend finds its client, if it has one, alive.
LEMMA FindsAlive ==
  ASSUME Inductive, NEW b \in Backends, ~late
  PROVE  PairedIn(conns) /\ ~UsesFreed(conns, b)
<1>1. PairedIn(conns)  BY DEF Inductive, Orderly, Paired, PairedIn
<1>2. conns[b].linked \in Conns \cup {NULL} /\ b \in Conns
  BY TypedConns DEF Inductive, Connection, Conns
<1> QED  BY <1>1, <1>2 DEF UsesFreed, PairedIn

\* ConnectFails and Reply: the client is answered, the backend marked.
LEMMA AnswerStep ==
  ASSUME Inductive, NEW b \in Backends, UNCHANGED <<waiting, late>>,
         usedFreed' = UsesFreed(conns, b),
         conns' = conns \/ conns' = [Answered(conns, b) EXCEPT ![b].closeNow = TRUE]
                        \/ conns' = Answered(conns, b)
  PROVE  Inductive'
<1> DEFINE a == Answered(conns, b)
<1>1. conns \in [Conns -> Connection] /\ b \in Conns /\ Client \in Conns
  BY TypedConns DEF Inductive, Conns
<1>2. /\ a \in [Conns -> Connection]
      /\ \A x \in Conns : /\ a[x].life = conns[x].life /\ a[x].linked = conns[x].linked
                          /\ conns[x].sendAndClose => a[x].sendAndClose
  BY <1>1, AnsweredType, AnsweredKeeps
<1> HIDE DEF a
<1>3. /\ conns' \in [Conns -> Connection]
      /\ \A x \in Conns : /\ conns'[x].life = conns[x].life /\ conns'[x].linked = conns[x].linked
                          /\ conns[x].sendAndClose => conns'[x].sendAndClose
  <2>1. CASE conns' = conns  BY <1>1, <2>1
  <2>2. CASE conns' = a  BY <1>2, <2>2
  <2>3. CASE conns' = [a EXCEPT ![b].closeNow = TRUE]
    <3>1. conns' \in [Conns -> Connection]  BY <1>1, <1>2, <2>3, SetField
    <3>2. \A x \in Conns : /\ conns'[x].life = a[x].life /\ conns'[x].linked = a[x].linked
                           /\ conns'[x].sendAndClose = a[x].sendAndClose
      BY <1>1, <1>2, <2>3 DEF Connection
    <3> QED  BY <1>2, <3>1, <3>2
  <2> QED  BY <2>1, <2>2, <2>3 DEF a
<1>4. \A x \in Conns : Alive(conns', x) <=> Alive(conns, x)  BY <1>3 DEF Alive
<1>5. ~late => ~usedFreed' /\ PairedIn(conns')
  BY <1>3, <1>4, FindsAlive DEF PairedIn
<1>6. usedFreed' \in BOOLEAN  BY DEF UsesFreed
<1> QED  BY <1>1, <1>3, <1>4, <1>5, <1>6, BackendStep

LEMMA ConnectFailsKeeps ==
  ASSUME Inductive, NEW b \in Backends, ConnectFails(b)
  PROVE  Inductive'
<1>1. /\ UNCHANGED <<waiting, late>> /\ usedFreed' = UsesFreed(conns, b)
      /\ conns' = conns \/ conns' = [Answered(conns, b) EXCEPT ![b].closeNow = TRUE]
  BY DEF ConnectFails
<1> QED  BY <1>1, AnswerStep

LEMMA ReplyKeeps ==
  ASSUME Inductive, NEW b \in Backends, Reply(b)
  PROVE  Inductive'
<1>1. /\ UNCHANGED <<waiting, late>> /\ usedFreed' = UsesFreed(conns, b)
      /\ conns' = conns \/ conns' = [Answered(conns, b) EXCEPT ![b].closeNow = TRUE]
  BY DEF Reply, Replied
<1> QED  BY <1>1, AnswerStep

LEMMA CloseBackendKeeps ==
  ASSUME Inductive, NEW b \in Backends, CloseBackend(b)
  PROVE  Inductive'
<1> DEFINE a == Answered(conns, b)
           d == Destroyed(a, b)
<1>1. conns \in [Conns -> Connection] /\ b \in Conns /\ Client \in Conns /\ b # Client
  BY TypedConns, HttpProxyAssumption DEF Inductive, Conns
<1>2. /\ a \in [Conns -> Connection]
      /\ \A x \in Conns : /\ a[x].life = conns[x].life /\ a[x].linked = conns[x].linked
                          /\ conns[x].sendAndClose => a[x].sendAndClose
                          /\ conns[b].linked = x => a[x].sendAndClose
  BY <1>1, AnsweredType, AnsweredKeeps
<1>3. UNCHANGED <<waiting, late>> /\ usedFreed' = UsesFreed(conns, b) /\ usedFreed' \in BOOLEAN
  BY DEF CloseBackend, UsesFreed
<1>4. conns' = IF UsesFreed(conns, b) THEN conns ELSE d  BY <1>3 DEF CloseBackend
<1> HIDE DEF a
<1>5. d \in [Conns -> Connection]  BY <1>1, <1>2, DestroyedType
<1>6. conns' \in [Conns -> Connection]  BY <1>1, <1>4, <1>5
<1>7. ASSUME ~late
      PROVE  /\ ~usedFreed' /\ PairedIn(conns')
             /\ Alive(conns', Client) => Alive(conns, Client)
             /\ \A x \in Conns : conns[x].linked = NULL => conns'[x].linked = NULL
             /\ conns[Client].sendAndClose => conns'[Client].sendAndClose
             /\ conns[Client].linked # NULL =>
                   conns'[Client].linked # NULL \/ conns'[Client].sendAndClose
  <2>1. PairedIn(conns) /\ ~UsesFreed(conns, b)  BY <1>7, FindsAlive
  <2>2. PairedIn(a)
    <3>1. \A x \in Conns : Alive(a, x) <=> Alive(conns, x)  BY <1>2 DEF Alive
    <3> QED  BY <1>2, <2>1, <3>1 DEF PairedIn
  <2>3. /\ PairedIn(d)
        /\ \A w \in Conns : /\ d[w].life = IF w = b THEN "freed" ELSE a[w].life
                            /\ d[w].linked = IF w = b \/ w = a[b].linked THEN NULL ELSE a[w].linked
                            /\ a[w].sendAndClose => d[w].sendAndClose
    BY <1>1, <1>2, <2>2, DestroyedKeeps
  <2>4. conns' = d  BY <1>4, <2>1
  <2> HIDE DEF d
  <2>5. Alive(d, Client) => Alive(conns, Client)  BY <1>1, <1>2, <2>3 DEF Alive
  <2>6. \A x \in Conns : conns[x].linked = NULL => d[x].linked = NULL  BY <1>2, <2>3
  <2>7. conns[Client].sendAndClose => d[Client].sendAndClose  BY <1>1, <1>2, <2>3
  <2>8. conns[Client].linked # NULL => d[Client].linked # NULL \/ d[Client].sendAndClose
    <3>1. CASE conns[b].linked = Client  BY <1>1, <1>2, <2>3, <3>1
    <3>2. CASE conns[b].linked # Client
      <4>1. a[b].linked # Client  BY <1>1, <1>2, <3>2
      <4>2. d[Client].linked = conns[Client].linked  BY <1>1, <1>2, <2>3, <4>1
      <4> QED  BY <4>2
    <3> QED  BY <3>1, <3>2
  <2> QED  BY <1>3, <2>1, <2>3, <2>4, <2>5, <2>6, <2>7, <2>8
<1> QED  BY <1>3, <1>6, <1>7, BackendStep

LEMMA CloseClientKeeps ==
  ASSUME Inductive, CloseClient
  PROVE  Inductive'
<1>1. conns \in [Conns -> Connection] /\ Client \in Conns
  BY TypedConns DEF Inductive, Conns
<1>2. waiting' = 0 /\ usedFreed' = usedFreed /\ ~usedFreed /\ {late, usedFreed} \subseteq BOOLEAN
  BY DEF CloseClient, Inductive, TypeOK
<1>3. CASE conns' = Destroyed(conns, Client) /\ late' = late
  <2>1. conns' \in [Conns -> Connection]  BY <1>1, <1>3, DestroyedType
  <2>2. TypeOK'
    <3>1. waiting' \in Nat  BY <1>2
    <3>2. {late', usedFreed'} \subseteq BOOLEAN  BY <1>2, <1>3
    <3> QED  BY <2>1, <3>1, <3>2 DEF TypeOK, Connection
  <2>3. ASSUME ~late'  PROVE Orderly'
    <3>1. PairedIn(conns)  BY <1>3, <2>3 DEF Inductive, Orderly, Paired, PairedIn
    <3>2. PairedIn(conns') /\ conns'[Client].life = "freed"
      BY <1>1, <1>3, <3>1, DestroyedKeeps
    <3> QED  BY <1>2, <3>2 DEF Orderly, Paired, PairedIn, NothingAsked, NeverLeftWaiting, Alive
  <2> QED  BY <2>2, <2>3 DEF Inductive
<1>4. ASSUME NEW b \in Backends, late' = TRUE, conns' = Destroyed(Linked(conns, b), Client)
      PROVE  Inductive'
  <2>1. Linked(conns, b) \in [Conns -> Connection]  BY <1>1, LinkedType
  <2>2. conns' \in [Conns -> Connection]  BY <1>1, <1>4, <2>1, DestroyedType
  <2> QED  BY <1>2, <1>4, <2>2 DEF Inductive, TypeOK, Connection
<1> QED  BY <1>3, <1>4 DEF CloseClient

LEMMA StepKeeps == Inductive /\ [Next]_vars => Inductive'
<1> SUFFICES ASSUME Inductive, [Next]_vars PROVE Inductive'
  OBVIOUS
<1>1. CASE Request  BY <1>1, RequestKeeps
<1>2. CASE CloseClient  BY <1>2, CloseClientKeeps
<1>3. ASSUME NEW b \in Backends,
             Connected(b) \/ ConnectFails(b) \/ Reply(b) \/ CloseBackend(b)
      PROVE  Inductive'
  BY <1>3, ConnectedKeeps, ConnectFailsKeeps, ReplyKeeps, CloseBackendKeeps
<1>4. CASE UNCHANGED vars
  BY <1>4 DEF vars, Inductive, TypeOK, Orderly, Paired, NothingAsked, NeverLeftWaiting, Alive
<1> QED  BY <1>1, <1>2, <1>3, <1>4 DEF Next

LEMMA InductiveIsSound == Inductive => ProxySound
<1>1. ASSUME Inductive, ~late  PROVE LinkedPairs /\ NeverLeftWaiting
  BY <1>1 DEF Inductive, Orderly, Paired, LinkedPairs
<1>2. ASSUME late  PROVE LinkedPairs /\ NeverLeftWaiting
  BY <1>2 DEF LinkedPairs, NeverLeftWaiting
<1> QED  BY <1>1, <1>2 DEF ProxySound
-----------------------------------------------------------------------------
\* The connections keep their types (struct mg_http_proto_data).
THEOREM ProxyTypes == Spec => []TypeOK
<1>1. Inductive => TypeOK  BY DEF Inductive
<1> QED  BY <1>1, InitInductive, StepKeeps, PTL DEF Spec

\* For a client that waits for its answers the two sides point to each other as
\* long as both live, neither uses the other after it was freed, and the client is
\* never left waiting (mg_reverse_proxy_handler, mg_http_free_reverse_proxy_data).
THEOREM ProxyPaired == Spec => []ProxySound
BY InitInductive, StepKeeps, InductiveIsSound, PTL DEF Spec
-----------------------------------------------------------------------------
(* HttpCgi: the types, each process serves one request, and how far the answer *)
(* to the request of a client that waits has come.                             *)

CgPart == [head : Nat] \cup [request : Nat, byte : Nat]
CgLine == {"field", "status", "location", "empty", "bad", "body", "500", "302", "as told", "200"}
CgClient == [open : BOOLEAN, user1 : BOOLEAN, cgi : Scripts \cup {"NULL"}, buf : Seq(CgPart),
             out : Seq(CgLine), sendAndClose : BOOLEAN]
CgProcess == [life : {"unused", "running", "freed"}, told : BOOLEAN, fed : Seq(CgPart),
              left : Seq(CgLine), buf : Seq(CgLine), closeNow : BOOLEAN]
CgService == [script : Scripts, output : Seq(CgLine)]

CgTyped ==
    /\ nc \in CgClient /\ cgi \in [Scripts -> CgProcess]
    /\ wire \in Seq(CgPart) /\ asked \in Seq(Nat) /\ served \in Seq(CgService)
    /\ eager \in BOOLEAN /\ wild \in BOOLEAN

CgDistinct ==
    /\ \A i, j \in 1..Len(served) : served[i].script = served[j].script => i = j
    /\ \A i \in 1..Len(served) : cgi[served[i].script].life # "unused"

\* The request r as it comes from the client.
CgRequest(r) == <<CG!Header(asked[r])>> \o CG!RequestBody(r)

\* No request is complete: what has come and what is on its way are the one
\* request, if there is one.
CgNotServed ==
    /\ nc.cgi = "NULL" /\ nc.out = <<>> /\ ~nc.user1
    /\ \A s \in Scripts : cgi[s].life = "unused"
    /\ nc.open => nc.buf \o wire = IF asked = <<>> THEN <<>> ELSE CgRequest(1)

\* The process s works for the client, or has ended and told it so, or was told
\* that the client has gone.
CgLinked(s) ==
    /\ cgi[s].life \in {"running", "freed"}
    /\ nc.open /\ cgi[s].life = "running" => nc.cgi = s /\ cgi[s].told
    /\ nc.open /\ cgi[s].life = "freed" => nc.cgi = "NULL" /\ nc.sendAndClose
    /\ ~nc.open /\ cgi[s].life = "running" => ~cgi[s].told /\ cgi[s].closeNow

\* Of the output o the headers are not complete, or the reply line and all that
\* has been received are in the answer.
CgHeaders(s, o) ==
    nc.user1 /\ nc.out = <<>> /\ CG!HeaderLen(cgi[s].buf) = 0 /\ cgi[s].buf \o cgi[s].left = o
CgAnswer(s, o) ==
    /\ ~nc.user1 /\ cgi[s].buf = <<>> /\ CG!HeaderLen(o) # 0
    /\ nc.out \o cgi[s].left = <<CG!StatusLine(o)>> \o o

CgServed ==
    /\ Len(served) = 1 /\ Len(asked) = 1 /\ nc.buf = <<>> /\ wire = <<>>
    /\ LET s == served[1].script
           o == served[1].output
       IN  /\ \A x \in Scripts : x # s => cgi[x].life = "unused"
           /\ CgLinked(s)
           /\ cgi[s].fed = CG!RequestBody(1)
           /\ ~CG!BadHeaders(o) => CgHeaders(s, o) \/ CgAnswer(s, o)

CgOrderly ==
    ~eager => /\ ~wild /\ Len(asked) <= 1
              /\ IF served = <<>> THEN CgNotServed ELSE CgServed

CgInductive == CgTyped /\ CgDistinct /\ CgOrderly

-----------------------------------------------------------------------------
\* The least of a set of numbers is one of them.
LEMMA CgLeast ==
  ASSUME NEW S \in SUBSET Nat, S # {}
  PROVE  /\ CG!Min(S) \in S
         /\ \A y \in S : CG!Min(S) <= y
<1> DEFINE R == {p \in Nat \X Nat : p[1] < p[2]}
<1>a. R = OpToRel(<, Nat)  BY DEF OpToRel
<1>b. IsWellFoundedOn(R, Nat)  BY <1>a, NatLessThanWellFounded
<1> HIDE DEF R
<1>2. PICK x \in S : \A y \in S : ~ (<<y, x>> \in R)
  BY <1>b, WFMin
<1>3. ASSUME NEW y \in S  PROVE x <= y
  <2>1. x \in Nat /\ y \in Nat  OBVIOUS
  <2>2. y < x => <<y, x>> \in R  BY <2>1 DEF R
  <2>3. <<y, x>> \notin R  BY <1>2
  <2> QED  BY <2>1, <2>2, <2>3
<1>4. \E z \in S : \A y \in S : z <= y  BY <1>3
<1> QED  BY <1>4, Zenon DEF CG!Min

\* mg_http_get_request_len: up to the first empty line, unless there is something
\* bad before it, or there is none yet.
CgOpen(b) == \A i \in 1..Len(b) : b[i] # "empty" /\ b[i] # "bad"
CgBad(b) == \E i \in 1..Len(b) : b[i] = "bad" /\ \A j \in 1..i : b[j] # "empty"
CgEnds(b, k) == k \in 1..Len(b) /\ b[k] = "empty" /\ \A j \in 1..(k - 1) : b[j] # "empty" /\ b[j] # "bad"

LEMMA CgHeaderLen ==
  ASSUME NEW b \in Seq(CgLine)
  PROVE  \/ CgOpen(b) /\ CG!HeaderLen(b) = 0
         \/ CgBad(b) /\ CG!HeaderLen(b) = -1
         \/ \E k \in 1..Len(b) : CgEnds(b, k) /\ CG!HeaderLen(b) = k
<1> DEFINE ends == {i \in 1..Len(b) : b[i] = "empty"}
           head == IF ends = {} THEN b ELSE SubSeq(b, 1, CG!Min(ends))
<1>0. Len(b) \in Nat /\ DOMAIN b = 1..Len(b)  BY LenProperties
<1>1. CG!HeaderLen(b) = IF CG!Contains(head, "bad") THEN -1 ELSE IF ends = {} THEN 0 ELSE CG!Min(ends)
  BY <1>0, Zenon DEF CG!HeaderLen
<1>2. CASE ends = {}
  <2>1. CG!Contains(head, "bad") <=> \E i \in 1..Len(b) : b[i] = "bad"
    BY <1>2, Zenon DEF CG!Contains
  <2>2. \A i \in 1..Len(b) : b[i] # "empty"  BY <1>2
  <2>3. CASE CG!Contains(head, "bad")
    <3>1. CgBad(b)
      <4>1. PICK i \in 1..Len(b) : b[i] = "bad"  BY <2>1, <2>3
      <4>2. \A j \in 1..i : j \in 1..Len(b)  BY <1>0
      <4> QED  BY <4>1, <4>2, <2>2 DEF CgBad
    <3> QED  BY <3>1, <1>1, <2>3
  <2>4. CASE ~CG!Contains(head, "bad")
    <3>1. CgOpen(b)  BY <2>1, <2>2, <2>4 DEF CgOpen
    <3> QED  BY <3>1, <1>1, <1>2, <2>4
  <2> QED  BY <2>3, <2>4
<1>3. CASE ends # {}
  <2> DEFINE k == CG!Min(ends)
  <2>1. k \in ends /\ \A y \in ends : k <= y
    <3>1. ends \in SUBSET Nat  BY <1>0
    <3> QED  BY <3>1, <1>3, CgLeast
  <2> HIDE DEF k
  <2>2. k \in 1..Len(b) /\ k \in Nat /\ b[k] = "empty"  BY <1>0, <2>1
  <2>3. \A j \in 1..(k - 1) : b[j] # "empty"
    <3> TAKE j \in 1..(k - 1)
    <3>1. j \in 1..Len(b) /\ ~(k <= j)  BY <1>0, <2>2
    <3> QED  BY <2>1, <3>1
  <2>4. Len(SubSeq(b, 1, k)) = k /\ \A i \in 1..k : SubSeq(b, 1, k)[i] = b[i]
    BY <1>0, <2>2
  <2>5. CG!Contains(head, "bad") <=> \E i \in 1..k : b[i] = "bad"
    <3>1. head = SubSeq(b, 1, k)  BY <1>3 DEF k
    <3>2. CG!Contains(head, "bad") <=> \E i \in 1..Len(head) : head[i] = "bad"  BY Zenon DEF CG!Contains
    <3> HIDE DEF head
    <3> QED  BY <3>1, <3>2, <2>4
  <2>6. CASE CG!Contains(head, "bad")
    <3>1. PICK i \in 1..k : b[i] = "bad"  BY <2>5, <2>6
    <3>2. i # k  BY <3>1, <2>2
    <3>3. i \in 1..Len(b) /\ \A j \in 1..i : j \in 1..(k - 1)  BY <1>0, <2>2, <3>2
    <3>4. CgBad(b)  BY <3>1, <3>3, <2>3 DEF CgBad
    <3> QED  BY <3>4, <1>1, <2>6
  <2>7. CASE ~CG!Contains(head, "bad")
    <3>1. \A j \in 1..(k - 1) : b[j] # "bad"
      <4> TAKE j \in 1..(k - 1)
      <4>1. j \in 1..k  BY <2>2
      <4> QED  BY <4>1, <2>5, <2>7
    <3>2. CgEnds(b, k)  BY <3>1, <2>2, <2>3 DEF CgEnds
    <3>3. CG!HeaderLen(b) = k  BY <1>1, <1>3, <2>7 DEF k
    <3> QED  BY <3>2, <3>3, <2>2
  <2> QED  BY <2>6, <2>7
<1> QED  BY <1>2, <1>3

\* What is known of the headers when b has been received does not change when
\* more comes.
LEMMA CgMore ==
  ASSUME NEW b \in Seq(CgLine), NEW t \in Seq(CgLine), CG!HeaderLen(b) # 0
  PROVE  /\ CG!HeaderLen(b \o t) = CG!HeaderLen(b)
         /\ CG!HeaderLen(b) > 0 => CG!StatusLine(b \o t) = CG!StatusLine(b)
         /\ CG!BadHeaders(b) => CG!BadHeaders(b \o t)
<1> DEFINE o == b \o t
<1>0. /\ o \in Seq(CgLine) /\ Len(b) \in Nat /\ Len(t) \in Nat /\ Len(o) = Len(b) + Len(t)
      /\ \A i \in 1..Len(b) : o[i] = b[i]
  BY ConcatProperties, LenProperties
<1> HIDE DEF o
<1>1. CG!HeaderLen(o) = CG!HeaderLen(b)
  <2>1. CASE CgBad(b) /\ CG!HeaderLen(b) = -1
    <3>1. PICK i \in 1..Len(b) : b[i] = "bad" /\ \A j \in 1..i : b[j] # "empty"  BY <2>1 DEF CgBad
    <3>2. i \in 1..Len(o) /\ o[i] = "bad" /\ \A j \in 1..i : o[j] # "empty"  BY <3>1, <1>0
    <3>3. ~CgOpen(o)  BY <3>2 DEF CgOpen
    <3>4. ASSUME NEW k \in 1..Len(o), CgEnds(o, k)  PROVE FALSE
      <4>1. o[k] = "empty" /\ \A j \in 1..(k - 1) : o[j] # "bad"  BY <3>4 DEF CgEnds
      <4>2. k \notin 1..i  BY <3>2, <4>1
      <4>3. i \in 1..(k - 1)  BY <4>2, <1>0
      <4> QED  BY <4>1, <4>3, <3>2
    <3> QED  BY <3>3, <3>4, <2>1, <1>0, CgHeaderLen
  <2>2. ASSUME NEW k \in 1..Len(b), CgEnds(b, k), CG!HeaderLen(b) = k  PROVE CG!HeaderLen(o) = k
    <3>1. b[k] = "empty" /\ \A j \in 1..(k - 1) : b[j] # "empty" /\ b[j] # "bad"  BY <2>2 DEF CgEnds
    <3>2. k \in 1..Len(o) /\ o[k] = "empty" /\ \A j \in 1..(k - 1) : o[j] # "empty" /\ o[j] # "bad"
      BY <3>1, <1>0, SMTT(30)
    <3>3. ~CgOpen(o)  BY <3>2 DEF CgOpen
    <3>4. ~CgBad(o)
      <4> SUFFICES ASSUME NEW i \in 1..Len(o), o[i] = "bad", \A j \in 1..i : o[j] # "empty"
                   PROVE  FALSE
        BY DEF CgBad
      <4>1. k \notin 1..i  BY <3>2
      <4>2. i \in 1..(k - 1)  BY <4>1, <1>0
      <4> QED  BY <4>2, <3>2
    <3>5. ASSUME NEW n \in 1..Len(o), CgEnds(o, n)  PROVE n = k
      <4>1. o[n] = "empty" /\ \A j \in 1..(n - 1) : o[j] # "empty"  BY <3>5 DEF CgEnds
      <4>2. n \notin 1..(k - 1) /\ k \notin 1..(n - 1)  BY <4>1, <3>2
      <4> QED  BY <4>2, <1>0
    <3> QED  BY <3>3, <3>4, <3>5, <1>0, CgHeaderLen
  <2> QED  BY <2>1, <2>2, CgHeaderLen
<1>2. CG!HeaderLen(b) > 0 => CG!StatusLine(o) = CG!StatusLine(b)
  <2> SUFFICES ASSUME CG!HeaderLen(b) > 0 PROVE CG!StatusLine(o) = CG!StatusLine(b)
    OBVIOUS
  <2>1. CG!HeaderLen(b) \in 1..Len(b)  BY CgHeaderLen
  <2> DEFINE k == CG!HeaderLen(b)
  <2>2. SubSeq(o, 1, k) = SubSeq(b, 1, k)
    <3> HIDE DEF k
    <3>1. k \in 1..Len(b)  BY <2>1 DEF k
    <3>2. 1 \in 1..Len(b)  BY <3>1, <1>0
    <3> QED  BY <3>1, <3>2, SubSeqOfConcat1 DEF o
  <2> QED  BY <1>1, <2>2, Zenon DEF CG!StatusLine
<1>3. CG!BadHeaders(b) => CG!BadHeaders(o)
  <2>1. CG!HeaderLen(b) \in Int  BY CgHeaderLen, <1>0
  <2> QED  BY <1>0, <1>1, <2>1, ProtocolsAssumption DEF CG!BadHeaders
<1> QED  BY <1>1, <1>2, <1>3 DEF o

-----------------------------------------------------------------------------
(* Types *)

LEMMA CgClientField ==
  ASSUME NEW c \in CgClient
  PROVE  /\ \A v \in BOOLEAN : [c EXCEPT !.open = v] \in CgClient
         /\ \A v \in BOOLEAN : [c EXCEPT !.user1 = v] \in CgClient
         /\ \A v \in BOOLEAN : [c EXCEPT !.sendAndClose = v] \in CgClient
         /\ \A v \in Scripts \cup {"NULL"} : [c EXCEPT !.cgi = v] \in CgClient
         /\ \A v \in Seq(CgPart) : [c EXCEPT !.buf = v] \in CgClient
         /\ \A v \in Seq(CgLine) : [c EXCEPT !.out = v] \in CgClient
BY DEF CgClient

LEMMA CgProcessField ==
  ASSUME NEW cs \in [Scripts -> CgProcess], NEW s \in Scripts
  PROVE  /\ \A v \in {"unused", "running", "freed"} : [cs EXCEPT ![s].life = v] \in [Scripts -> CgProcess]
         /\ \A v \in BOOLEAN : [cs EXCEPT ![s].told = v] \in [Scripts -> CgProcess]
         /\ \A v \in BOOLEAN : [cs EXCEPT ![s].closeNow = v] \in [Scripts -> CgProcess]
         /\ \A v \in Seq(CgLine) : [cs EXCEPT ![s].left = v] \in [Scripts -> CgProcess]
         /\ \A v \in Seq(CgLine) : [cs EXCEPT ![s].buf = v] \in [Scripts -> CgProcess]
         /\ \A v \in CgProcess : [cs EXCEPT ![s] = v] \in [Scripts -> CgProcess]
BY ZenonT(40) DEF CgProcess

LEMMA CgNull == CG!NULL = "NULL"
BY DEF CG!NULL

\* Cutting a sequence in two, and putting the parts behind another.
LEMMA CgCut ==
  ASSUME NEW T, NEW s \in Seq(T), NEW w \in Seq(T), NEW n \in Nat, n <= Len(w)
  PROVE  (s \o SubSeq(w, 1, n)) \o SubSeq(w, n + 1, Len(w)) = s \o w
<1>0. Len(w) \in Nat /\ Len(s) \in Nat  BY LenProperties
<1> DEFINE a == SubSeq(w, 1, n)
           z == SubSeq(w, n + 1, Len(w))
<1>1. a \in Seq(T) /\ Len(a) = n /\ \A i \in 1..n : a[i] = w[i]  BY <1>0
<1>2. z \in Seq(T) /\ Len(z) = Len(w) - n /\ \A i \in 1..(Len(w) - n) : z[i] = w[n + i]  BY <1>0
<1> HIDE DEF a, z
<1>3. /\ s \o a \in Seq(T) /\ Len(s \o a) = Len(s) + n
      /\ \A i \in 1..(Len(s) + n) : (s \o a)[i] = IF i <= Len(s) THEN s[i] ELSE a[i - Len(s)]
  BY <1>1, ConcatProperties
<1> DEFINE sa == s \o a
<1> HIDE DEF sa
<1>4. /\ sa \o z \in Seq(T) /\ Len(sa \o z) = Len(s) + Len(w)
      /\ \A i \in 1..(Len(s) + Len(w)) : (sa \o z)[i] = IF i <= Len(s) + n THEN sa[i] ELSE z[i - (Len(s) + n)]
  <2>1. sa \in Seq(T) /\ Len(sa) = Len(s) + n  BY <1>3 DEF sa
  <2>2. /\ sa \o z \in Seq(T) /\ Len(sa \o z) = Len(sa) + Len(z)
        /\ \A i \in 1..(Len(sa) + Len(z)) : (sa \o z)[i] = IF i <= Len(sa) THEN sa[i] ELSE z[i - Len(sa)]
    BY <2>1, <1>2, ConcatProperties
  <2>3. Len(sa) + Len(z) = Len(s) + Len(w)  BY <2>1, <1>2, <1>0
  <2> QED  BY <2>1, <2>2, <2>3
<1>5. /\ s \o w \in Seq(T) /\ Len(s \o w) = Len(s) + Len(w)
      /\ \A i \in 1..(Len(s) + Len(w)) : (s \o w)[i] = IF i <= Len(s) THEN s[i] ELSE w[i - Len(s)]
  BY ConcatProperties
<1>6. \A i \in 1..(Len(s) + Len(w)) : (sa \o z)[i] = (s \o w)[i]
  <2> TAKE i \in 1..(Len(s) + Len(w))
  <2>1. CASE i <= Len(s)
    <3>1. i \in 1..(Len(s) + n) /\ i <= Len(s) + n  BY <2>1, <1>0
    <3>2. (sa \o z)[i] = sa[i] /\ (s \o w)[i] = s[i]  BY <2>1, <3>1, <1>4, <1>5
    <3>3. sa[i] = s[i]  BY <2>1, <3>1, <1>3 DEF sa
    <3> QED  BY <3>2, <3>3
  <2>2. CASE Len(s) < i /\ i <= Len(s) + n
    <3>1. (sa \o z)[i] = sa[i] /\ (s \o w)[i] = w[i - Len(s)]  BY <2>2, <1>0, <1>4, <1>5
    <3>2. i \in 1..(Len(s) + n) /\ ~(i <= Len(s)) /\ i - Len(s) \in 1..n  BY <2>2, <1>0
    <3>3. sa[i] = a[i - Len(s)]  BY <3>2, <1>3 DEF sa
    <3> QED  BY <3>1, <3>2, <3>3, <1>1
  <2>3. CASE Len(s) + n < i
    <3>1. i - (Len(s) + n) \in 1..(Len(w) - n) /\ ~(i <= Len(s) + n) /\ ~(i <= Len(s))  BY <2>3, <1>0
    <3>2. (sa \o z)[i] = z[i - (Len(s) + n)] /\ (s \o w)[i] = w[i - Len(s)]  BY <3>1, <1>4, <1>5
    <3>3. n + (i - (Len(s) + n)) = i - Len(s)  BY <1>0
    <3> QED  BY <3>1, <3>2, <3>3, <1>2
  <2>4. i <= Len(s) \/ (Len(s) < i /\ i <= Len(s) + n) \/ Len(s) + n < i  BY <1>0
  <2> QED  BY <2>1, <2>2, <2>3, <2>4
<1>7. sa \o z = s \o w  BY <1>4, <1>5, <1>6, SeqEqual
<1> QED  BY <1>7 DEF sa, a, z

LEMMA CgPieces ==
  ASSUME NEW T, NEW s \in Seq(T), NEW w \in Seq(T), NEW n \in Nat, n <= Len(w)
  PROVE  /\ SubSeq(w, 1, n) \in Seq(T) /\ SubSeq(w, n + 1, Len(w)) \in Seq(T)
         /\ s \o SubSeq(w, 1, n) \in Seq(T)
<1>0. Len(w) \in Nat  BY LenProperties
<1> DEFINE a == SubSeq(w, 1, n)
           z == SubSeq(w, n + 1, Len(w))
<1>1. a \in Seq(T) /\ z \in Seq(T)  BY <1>0
<1> HIDE DEF a, z
<1>2. s \o a \in Seq(T)  BY <1>1, ConcatProperties
<1> QED  BY <1>1, <1>2 DEF a, z

LEMMA CgUnused ==
  /\ CG!Unused \in CgProcess /\ CG!Unused.life = "unused"
BY DEF CG!Unused, CgProcess

LEMMA CgOutputs ==
  ASSUME NEW o \in Outputs \cup {<<>>}
  PROVE  o \in Seq(CgLine)
<1> DEFINE T == {"field", "status", "location", "empty", "bad", "body"}
<1>1. o \in Seq(T)
  <2>1. Outputs \subseteq Seq(T)  BY Zenon, ProtocolsAssumption
  <2>2. <<>> \in Seq(T)  OBVIOUS
  <2> HIDE DEF T
  <2> QED  BY <2>1, <2>2
<1>2. T \subseteq CgLine  BY DEF CgLine
<1> HIDE DEF T
<1>3. Len(o) \in Nat /\ o \in [1..Len(o) -> T]  BY <1>1, LenProperties
<1>4. o \in [1..Len(o) -> CgLine]  BY <1>2, <1>3
<1> QED  BY <1>3, <1>4

\* What mg_handle_cgi makes of the connection and of the process.
LEMMA CgStart ==
  ASSUME NEW c \in CgClient, CG!HasHeader(c.buf), NEW s \in Scripts, NEW o \in Outputs \cup {<<>>}
  PROVE  /\ CG!Started(c, s) \in CgClient
         /\ CG!Started(c, s).user1 /\ CG!Started(c, s).cgi = s /\ CG!Started(c, s).buf = <<>>
         /\ CG!Started(c, s).out = c.out /\ CG!Started(c, s).open = c.open
         /\ CG!Process(c, o) \in CgProcess
         /\ CG!Process(c, o).life = "running" /\ CG!Process(c, o).told
         /\ CG!Process(c, o).fed = Tail(c.buf) /\ CG!Process(c, o).left = o
         /\ CG!Process(c, o).buf = <<>>
<1>1. o \in Seq(CgLine)  BY CgOutputs
<1>2. c.buf \in Seq(CgPart) /\ c.buf # <<>>  BY DEF CgClient, CG!HasHeader
<1>3. Tail(c.buf) \in Seq(CgPart)  BY <1>2, HeadTailProperties
<1>4. CG!Started(c, s) = [c EXCEPT !.user1 = TRUE, !.cgi = s, !.buf = <<>>]  BY DEF CG!Started
<1>5. CG!Process(c, o) = [life |-> "running", told |-> TRUE, fed |-> Tail(c.buf), left |-> o,
                          buf |-> <<>>, closeNow |-> FALSE]
  BY DEF CG!Process
<1>6. CG!Process(c, o) \in CgProcess  BY <1>1, <1>3, <1>5 DEF CgProcess
<1>7. CG!Started(c, s) \in CgClient
  <2> DEFINE one == [c EXCEPT !.user1 = TRUE]
             two == [one EXCEPT !.cgi = s]
  <2>1. one \in CgClient  BY CgClientField
  <2> HIDE DEF one
  <2>2. two \in CgClient  BY <2>1, CgClientField
  <2>3. CG!Started(c, s) = [two EXCEPT !.buf = <<>>]  BY <1>4 DEF one
  <2> HIDE DEF two
  <2>4. <<>> \in Seq(CgPart)  OBVIOUS
  <2> QED  BY <2>2, <2>3, <2>4, CgClientField
<1>8. /\ CG!Process(c, o).life = "running" /\ CG!Process(c, o).fed = Tail(c.buf)
      /\ CG!Process(c, o).left = o /\ CG!Process(c, o).buf = <<>>
  BY DEF CG!Process
<1>9. CG!Process(c, o).told  BY DEF CG!Process
<1>10. /\ CG!Started(c, s).cgi = s /\ CG!Started(c, s).buf = <<>>
       /\ CG!Started(c, s).out = c.out /\ CG!Started(c, s).open = c.open
  BY <1>4 DEF CgClient
<1>11. CG!Started(c, s).user1  BY <1>4 DEF CgClient
<1> QED  BY <1>6, <1>7, <1>8, <1>9, <1>10, <1>11

\* A process that was not used is the one that serves the next request.
LEMMA CgServesNext ==
  ASSUME CgTyped, CgDistinct, NEW s \in Scripts, NEW o \in Seq(CgLine), cgi[s].life = "unused",
         served' = Append(served, [script |-> s, output |-> o]),
         \A x \in Scripts : x = s \/ cgi[x].life # "unused" => cgi'[x].life # "unused"
  PROVE  served' \in Seq(CgService) /\ CgDistinct'
<1>0. served \in Seq(CgService) /\ Len(served) \in Nat  BY LenProperties DEF CgTyped
<1> DEFINE e == [script |-> s, output |-> o]
<1>1. e \in CgService /\ e.script = s  BY DEF CgService
<1> HIDE DEF e
<1>2. served' = Append(served, e)  BY DEF e
<1>3. /\ served' \in Seq(CgService) /\ Len(served') = Len(served) + 1
      /\ served'[Len(served) + 1] = e
      /\ \A i \in 1..Len(served) : served'[i] = served[i]
  BY <1>0, <1>1, <1>2, AppendProperties
<1>4. \A i \in 1..Len(served) : served[i].script \in Scripts /\ served[i].script # s
  <2> TAKE i \in 1..Len(served)
  <2>1. served[i] \in CgService  BY <1>0, ElementOfSeq
  <2>2. cgi[served[i].script].life # "unused"  BY DEF CgDistinct
  <2> QED  BY <2>1, <2>2 DEF CgService
<1>5. \A i \in 1..Len(served') : i \in 1..Len(served) \/ i = Len(served) + 1  BY <1>0, <1>3
<1>6. \A i, j \in 1..Len(served') : served'[i].script = served'[j].script => i = j
  BY <1>1, <1>3, <1>4, <1>5 DEF CgDistinct
<1>7. \A i \in 1..Len(served') : cgi'[served'[i].script].life # "unused"
  <2> TAKE i \in 1..Len(served')
  <2>1. CASE i = Len(served) + 1  BY <2>1, <1>1, <1>3
  <2>2. CASE i \in 1..Len(served)
    <3>1. served'[i] = served[i] /\ cgi[served[i].script].life # "unused"  BY <2>2, <1>3 DEF CgDistinct
    <3> QED  BY <2>2, <3>1, <1>4
  <2> QED  BY <2>1, <2>2, <1>5
<1> QED  BY <1>3, <1>6, <1>7 DEF CgDistinct

\* Processes that are in use stay so.
LEMMA CgStillDistinct ==
  ASSUME CgTyped, CgDistinct, served' = served,
         \A x \in Scripts : cgi[x].life # "unused" => cgi'[x].life # "unused"
  PROVE  CgDistinct'
<1>1. \A i \in 1..Len(served) : served[i].script \in Scripts
  <2> TAKE i \in 1..Len(served)
  <2>1. served[i] \in CgService  BY ElementOfSeq DEF CgTyped
  <2> QED  BY <2>1 DEF CgService
<1> QED  BY <1>1 DEF CgDistinct

-----------------------------------------------------------------------------
(* The client *)

LEMMA CgInit == CG!Init => CgInductive
<1> SUFFICES ASSUME CG!Init PROVE CgInductive
  OBVIOUS
<1>1. \A s \in Scripts : cgi[s] = CG!Unused  BY DEF CG!Init
<1>2. CgTyped
  <2>1. <<>> \in Seq(CgPart) /\ <<>> \in Seq(CgLine) /\ <<>> \in Seq(Nat) /\ <<>> \in Seq(CgService)  OBVIOUS
  <2>2. nc \in CgClient  BY <2>1, CgNull DEF CG!Init, CgClient
  <2>3. cgi \in [Scripts -> CgProcess]  BY CgUnused DEF CG!Init
  <2> QED  BY <2>1, <2>2, <2>3 DEF CG!Init, CgTyped
<1>3. CgDistinct  BY DEF CG!Init, CgDistinct
<1>4. CgNotServed
  <2>1. nc.cgi = "NULL" /\ nc.out = <<>> /\ ~nc.user1 /\ nc.buf = <<>>  BY CgNull DEF CG!Init
  <2>2. wire = <<>> /\ asked = <<>>  BY DEF CG!Init
  <2>3. nc.buf \o wire = <<>>  BY <2>1, <2>2
  <2>4. \A s \in Scripts : cgi[s].life = "unused"  BY <1>1, CgUnused
  <2> QED  BY <2>1, <2>2, <2>3, <2>4 DEF CgNotServed
<1>5. CgOrderly  BY <1>4 DEF CG!Init, CgOrderly
<1> QED  BY <1>2, <1>3, <1>5 DEF CgInductive

\* The request as a sequence: its header, and as many bytes as that says.
LEMMA CgRequestIs ==
  ASSUME asked \in Seq(Nat), Len(asked) = 1
  PROVE  /\ CG!RequestBody(1) \in Seq(CgPart) /\ Len(CG!RequestBody(1)) = asked[1]
         /\ CgRequest(1) \in Seq(CgPart) /\ Len(CgRequest(1)) = asked[1] + 1
         /\ CgRequest(1)[1] = [head |-> asked[1]] /\ Tail(CgRequest(1)) = CG!RequestBody(1)
<1>1. asked[1] \in Nat  BY ElementOfSeq
<1> DEFINE body == CG!RequestBody(1)
           h == [head |-> asked[1]]
<1>2. \A i \in 1..asked[1] : CG!Byte(1, i) \in CgPart  BY <1>1 DEF CG!Byte, CgPart
<1>3. body \in Seq(CgPart) /\ Len(body) = asked[1]  BY <1>1, <1>2 DEF CG!RequestBody
<1>4. h \in CgPart  BY <1>1 DEF CgPart
<1>5. CgRequest(1) = <<h>> \o body  BY DEF CgRequest, CG!Header
<1> HIDE DEF body, h
<1>6. /\ <<h>> \o body \in Seq(CgPart) /\ Len(<<h>> \o body) = asked[1] + 1
      /\ (<<h>> \o body)[1] = h /\ Tail(<<h>> \o body) = body
  <2>0. <<h>> \in Seq(CgPart) /\ Len(<<h>>) = 1 /\ <<h>>[1] = h  BY <1>4
  <2>1. /\ <<h>> \o body \in Seq(CgPart) /\ Len(<<h>> \o body) = asked[1] + 1
        /\ \A i \in 1..(1 + asked[1]) : (<<h>> \o body)[i] = IF i <= 1 THEN <<h>>[i] ELSE body[i - 1]
    BY <2>0, <1>1, <1>3, ConcatProperties
  <2> DEFINE r == <<h>> \o body
  <2>2. r[1] = h  BY <2>0, <2>1, <1>1
  <2>3. r # <<>>  BY <2>1, <1>1
  <2>4. Tail(r) \in Seq(CgPart) /\ Len(Tail(r)) = asked[1] /\ \A i \in 1..asked[1] : Tail(r)[i] = body[i]
    <3>1. r \in Seq(CgPart) /\ Len(r) = asked[1] + 1 /\ \A i \in 1..asked[1] : r[i + 1] = body[i]
      BY <2>1, <1>1
    <3> HIDE DEF r
    <3>2. Tail(r) \in Seq(CgPart) /\ Len(Tail(r)) = asked[1] /\ \A i \in 1..asked[1] : Tail(r)[i] = r[i + 1]
      BY <3>1, <2>3, <1>1, HeadTailProperties
    <3> QED  BY <3>1, <3>2
  <2> HIDE DEF r
  <2>5. Tail(r) = body  BY <2>4, <1>3, SeqEqual
  <2> QED  BY <2>1, <2>2, <2>5 DEF r
<1> QED  BY <1>3, <1>5, <1>6 DEF body, h

LEMMA CgAsk ==
  ASSUME CgInductive, NEW n \in Bodies, CG!Ask(n)
  PROVE  CgInductive'
<1>0. /\ n \in Nat /\ asked \in Seq(Nat) /\ wire \in Seq(CgPart) /\ Len(asked) \in Nat
      /\ asked' = Append(asked, n) /\ nc.open /\ UNCHANGED <<nc, cgi, served, wild>>
      /\ wire' = wire \o <<CG!Header(n)>> \o [i \in 1..n |-> CG!Byte(Len(asked'), i)]
      /\ eager' = (eager \/ asked # <<>>)
  BY ProtocolsAssumption, LenProperties DEF CG!Ask, CgInductive, CgTyped
<1>1. asked' \in Seq(Nat) /\ Len(asked') = Len(asked) + 1  BY <1>0, AppendProperties
<1> DEFINE body == [i \in 1..n |-> CG!Byte(Len(asked'), i)]
           h == CG!Header(n)
<1>2. \A i \in 1..n : CG!Byte(Len(asked'), i) \in CgPart  BY <1>0, <1>1 DEF CG!Byte, CgPart
<1>3. body \in Seq(CgPart)  BY <1>0, <1>2
<1>4. h \in CgPart  BY <1>0 DEF CG!Header, CgPart
<1>5. wire' \in Seq(CgPart)
  <2>1. wire' = (wire \o <<h>>) \o body  BY <1>0
  <2> HIDE DEF body, h
  <2>2. <<h>> \in Seq(CgPart)  BY <1>4
  <2> QED  BY <2>1, <2>2, <1>0, <1>3, ConcatProperties
<1>6. CgTyped'  BY <1>0, <1>1, <1>5 DEF CgInductive, CgTyped
<1>7. CgDistinct'  BY <1>0 DEF CgInductive, CgDistinct
<1>8. CgOrderly'
  <2> SUFFICES ASSUME ~eager, asked = <<>>
               PROVE  ~wild' /\ Len(asked') <= 1 /\ served' = <<>> /\ CgNotServed'
    BY <1>0 DEF CgOrderly
  <2>1. served = <<>> /\ CgNotServed /\ ~wild  BY DEF CgInductive, CgOrderly, CgServed
  <2>2. Len(asked') = 1 /\ asked'[1] = n /\ asked' # <<>>  BY <1>0
  <2>3. nc.buf = <<>> /\ wire = <<>>
    <3>1. nc.buf \o wire = <<>> /\ nc.buf \in Seq(CgPart)  BY <1>0, <2>1 DEF CgNotServed, CgInductive, CgTyped, CgClient
    <3> DEFINE b == nc.buf
    <3> HIDE DEF b
    <3>2. b \in Seq(CgPart) /\ b \o wire = <<>>  BY <3>1 DEF b
    <3>3. Len(b) + Len(wire) = 0 /\ Len(b) \in Nat /\ Len(wire) \in Nat  BY <1>0, <3>2, ConcatProperties, LenProperties
    <3>4. b = <<>> /\ wire = <<>>  BY <3>2, <3>3, <1>0
    <3> QED  BY <3>4 DEF b
  <2>4. wire' = <<h>> \o body
    <3> HIDE DEF body, h
    <3>1. <<>> \o <<h>> = <<h>>  OBVIOUS
    <3> QED  BY <1>0, <2>3, <3>1 DEF body, h
  <2>5. CgRequest(1)' = <<h>> \o body
    <3>1. asked'[1] = n /\ Len(asked') = 1  BY <2>2
    <3> QED  BY <3>1 DEF CgRequest, CG!RequestBody
  <2>6. nc'.buf \o wire' = CgRequest(1)'
    <3>1. wire' \in Seq(CgPart) /\ nc'.buf = <<>>  BY <1>0, <1>5, <2>3
    <3>2. <<>> \o wire' = wire'  BY <3>1, ConcatEmptySeq
    <3> QED  BY <3>1, <3>2, <2>4, <2>5
  <2>7. UNCHANGED <<nc, cgi, served, wild>>  BY <1>0
  <2>8. nc'.cgi = "NULL" /\ nc'.out = <<>> /\ ~nc'.user1 /\ \A s \in Scripts : cgi'[s].life = "unused"
    BY <2>1, <2>7 DEF CgNotServed
  <2>9. CgNotServed'  BY <2>2, <2>6, <2>8, Zenon DEF CgNotServed
  <2> QED  BY <2>1, <2>2, <2>7, <2>9
<1> QED  BY <1>6, <1>7, <1>8 DEF CgInductive


\* What is in recv_mbuf and on its way is still the request when a part comes.
LEMMA CgReceived ==
  ASSUME CgTyped, NEW n \in Nat, n <= Len(wire)
  PROVE  /\ nc.buf \o SubSeq(wire, 1, n) \in Seq(CgPart)
         /\ SubSeq(wire, n + 1, Len(wire)) \in Seq(CgPart)
         /\ (nc.buf \o SubSeq(wire, 1, n)) \o SubSeq(wire, n + 1, Len(wire)) = nc.buf \o wire
<1>1. nc.buf \in Seq(CgPart) /\ wire \in Seq(CgPart)  BY DEF CgTyped, CgClient
<1> DEFINE b == nc.buf
<1> HIDE DEF b
<1>2. b \in Seq(CgPart)  BY <1>1 DEF b
<1>3. b \o SubSeq(wire, 1, n) \in Seq(CgPart) /\ SubSeq(wire, n + 1, Len(wire)) \in Seq(CgPart)
  BY <1>1, <1>2, CgPieces
<1>4. (b \o SubSeq(wire, 1, n)) \o SubSeq(wire, n + 1, Len(wire)) = b \o wire
  BY <1>1, <1>2, CgCut
<1> QED  BY <1>3, <1>4 DEF b

\* A part of the request that is complete is all of it.
LEMMA CgComplete ==
  ASSUME asked \in Seq(Nat), Len(asked) = 1, NEW b \in Seq(CgPart), NEW w \in Seq(CgPart),
         b \o w = CgRequest(1), CG!Whole(b)
  PROVE  w = <<>> /\ Tail(b) = CG!RequestBody(1)
<1>0. asked[1] \in Nat /\ Len(b) \in Nat /\ Len(w) \in Nat
  <2>0. 1 \in 1..Len(asked)  OBVIOUS
  <2>1. asked[1] \in Nat  BY <2>0, ElementOfSeq, Zenon
  <2> QED  BY <2>1, LenProperties
<1>1. b # <<>> /\ Len(b) >= 1 + b[1].head  BY DEF CG!Whole, CG!HasHeader
<1>2. Len(b) # 0  BY <1>1
<1>3. Len(b \o w) = Len(b) + Len(w) /\ (b \o w)[1] = b[1]
  <2>1. 1 \in 1..(Len(b) + Len(w)) /\ 1 <= Len(b)  BY <1>0, <1>2
  <2> QED  BY <2>1, ConcatProperties
<1>4. b[1] = [head |-> asked[1]]  BY <1>3, CgRequestIs
<1>5. b[1].head = asked[1]  BY <1>4
<1>6. Len(b) + Len(w) = asked[1] + 1  BY <1>3, CgRequestIs
<1>7. Len(w) = 0  BY <1>0, <1>1, <1>5, <1>6
<1>8. w = <<>>  BY <1>7
<1>9. b = CgRequest(1)  BY <1>8, ConcatEmptySeq
<1> QED  BY <1>8, <1>9, CgRequestIs

\* The request of a client that waits for the answer gets a process.
LEMMA CgServe ==
  ASSUME CgTyped, CgNotServed, Len(asked) = 1, served = <<>>, UNCHANGED asked, ~wild,
         NEW c \in CgClient, CG!Whole(c.buf), c.out = nc.out, c.open, wire' \in Seq(CgPart),
         c.buf \o wire' = CgRequest(1),
         NEW s \in Scripts, NEW o \in Outputs \cup {<<>>},
         nc' = CG!Started(c, s), cgi' = [cgi EXCEPT ![s] = CG!Process(c, o)],
         served' = Append(served, [script |-> s, output |-> o])
  PROVE  CgServed'
<1>1. c.buf \in Seq(CgPart) /\ asked \in Seq(Nat)  BY DEF CgTyped, CgClient
<1>2. wire' = <<>> /\ Tail(c.buf) = CG!RequestBody(1)
  <2> DEFINE b == c.buf
  <2> HIDE DEF b
  <2>1. b \in Seq(CgPart) /\ b \o wire' = CgRequest(1) /\ CG!Whole(b)  BY <1>1 DEF b
  <2>2. wire' = <<>> /\ Tail(b) = CG!RequestBody(1)  BY <1>1, <2>1, CgComplete
  <2> QED  BY <2>2 DEF b
<1>3. CG!HasHeader(c.buf)  BY DEF CG!Whole
<1>4. /\ nc'.user1 /\ nc'.cgi = s /\ nc'.buf = <<>> /\ nc'.out = <<>> /\ nc'.open
      /\ CG!Process(c, o).life = "running" /\ CG!Process(c, o).told
      /\ CG!Process(c, o).fed = Tail(c.buf) /\ CG!Process(c, o).left = o /\ CG!Process(c, o).buf = <<>>
  BY <1>3, CgStart DEF CgNotServed
<1>5. cgi'[s] = CG!Process(c, o) /\ \A x \in Scripts : x # s => cgi'[x] = cgi[x]  BY DEF CgTyped
<1>6. /\ cgi'[s].life = "running" /\ cgi'[s].told /\ cgi'[s].fed = Tail(c.buf)
      /\ cgi'[s].left = o /\ cgi'[s].buf = <<>>
  BY <1>4, <1>5
<1>7. Len(served') = 1 /\ served'[1].script = s /\ served'[1].output = o
  <2> DEFINE e == [script |-> s, output |-> o]
  <2>0. e.script = s /\ e.output = o  OBVIOUS
  <2> HIDE DEF e
  <2>1. served' = <<e>>  BY DEF e
  <2> QED  BY <2>0, <2>1
<1>8. CgLinked(s)'  BY <1>4, <1>6 DEF CgLinked
<1>9. CgHeaders(s, o)'
  <2>1. o \in Seq(CgLine)  BY CgOutputs
  <2>2. <<>> \o o = o  BY <2>1, ConcatEmptySeq
  <2>3. CG!HeaderLen(<<>>) = 0
    <3>1. <<>> \in Seq(CgLine) /\ Len(<<>>) = 0  OBVIOUS
    <3>2. ~CgBad(<<>>) /\ \A k \in 1..Len(<<>>) : FALSE  BY <3>1 DEF CgBad
    <3> QED  BY <3>1, <3>2, CgHeaderLen
  <2> QED  BY <1>4, <1>6, <2>2, <2>3, Zenon DEF CgHeaders
<1>10. CG!RequestBody(1)' = CG!RequestBody(1)  BY DEF CG!RequestBody
<1>11. Len(asked') = 1 /\ \A x \in Scripts : x # s => cgi'[x].life = "unused"  BY <1>5 DEF CgNotServed
<1> QED
  <2>1. cgi'[s].fed = CG!RequestBody(1)'  BY <1>2, <1>6, <1>10
  <2> QED  BY <1>2, <1>4, <1>7, <1>8, <1>9, <1>11, <2>1, Zenon DEF CgServed

LEMMA CgReceive ==
  ASSUME CgInductive, NEW n \in Chunks, CG!Receive(n)
  PROVE  CgInductive'
<1> DEFINE c == [nc EXCEPT !.buf = @ \o SubSeq(wire, 1, n)]
<1>0. /\ n \in Nat \ {0} /\ n <= Len(wire) /\ nc.open /\ ~wild /\ CgTyped /\ CgDistinct
      /\ wire' = SubSeq(wire, n + 1, Len(wire)) /\ UNCHANGED <<asked, eager, wild>>
  BY ProtocolsAssumption DEF CG!Receive, CgInductive
<1>1. /\ nc.buf \o SubSeq(wire, 1, n) \in Seq(CgPart) /\ wire' \in Seq(CgPart)
      /\ (nc.buf \o SubSeq(wire, 1, n)) \o wire' = nc.buf \o wire
  BY <1>0, CgReceived
<1>2. /\ c \in CgClient /\ c.buf = nc.buf \o SubSeq(wire, 1, n) /\ c.out = nc.out /\ c.open = nc.open
      /\ c.user1 = nc.user1 /\ c.cgi = nc.cgi
  <2> DEFINE b == nc.buf \o SubSeq(wire, 1, n)
  <2>1. c = [nc EXCEPT !.buf = b]  OBVIOUS
  <2>2. b \in Seq(CgPart)  BY <1>1
  <2> HIDE DEF b
  <2>3. /\ [nc EXCEPT !.buf = b] \in CgClient /\ [nc EXCEPT !.buf = b].buf = b
        /\ [nc EXCEPT !.buf = b].out = nc.out /\ [nc EXCEPT !.buf = b].open = nc.open
        /\ [nc EXCEPT !.buf = b].user1 = nc.user1 /\ [nc EXCEPT !.buf = b].cgi = nc.cgi
    BY <1>0, <2>2, CgClientField DEF CgTyped, CgClient
  <2> QED  BY <2>1, <2>3 DEF b
<1>3. \/ ~CG!Whole(c.buf) /\ nc' = [c EXCEPT !.sendAndClose = @ \/ ~CG!HasHeader(c.buf)] /\ UNCHANGED <<cgi, served>>
      \/ /\ CG!Whole(c.buf)
         /\ \E s \in Scripts, output \in Outputs \cup {<<>>} :
               /\ cgi[s].life = "unused"
               /\ nc' = CG!Started(c, s)
               /\ cgi' = [cgi EXCEPT ![s] = CG!Process(c, output)]
               /\ served' = Append(served, [script |-> s, output |-> output])
  BY Zenon DEF CG!Receive
<1>4. ASSUME ~eager
      PROVE  /\ served = <<>> /\ CgNotServed /\ Len(asked) <= 1
             /\ c.buf \o wire' = IF asked = <<>> THEN <<>> ELSE CgRequest(1)
  <2>1. wire # <<>>  BY <1>0
  <2>2. served = <<>> /\ CgNotServed /\ Len(asked) <= 1  BY <1>4, <2>1 DEF CgInductive, CgOrderly, CgServed
  <2> QED  BY <2>2, <1>0, <1>1, <1>2 DEF CgNotServed
<1> HIDE DEF c
<1>5. CASE ~CG!Whole(c.buf) /\ nc' = [c EXCEPT !.sendAndClose = @ \/ ~CG!HasHeader(c.buf)] /\ UNCHANGED <<cgi, served>>
  <2> DEFINE v == c.sendAndClose \/ ~CG!HasHeader(c.buf)
  <2>1. nc' = [c EXCEPT !.sendAndClose = v]  BY <1>5
  <2>2. v \in BOOLEAN  OBVIOUS
  <2> HIDE DEF v
  <2>3. nc' \in CgClient  BY <1>2, <2>1, <2>2, CgClientField
  <2>4. /\ nc'.buf = c.buf /\ nc'.out = nc.out /\ nc'.open = nc.open /\ nc'.user1 = nc.user1 /\ nc'.cgi = nc.cgi
    BY <1>2, <2>1 DEF CgClient
  <2>5. CgTyped'  BY <1>0, <1>1, <1>5, <2>3 DEF CgTyped
  <2>6. CgDistinct'  BY <1>0, <1>5, CgStillDistinct
  <2>7. CgOrderly'
    <3> SUFFICES ASSUME ~eager PROVE ~wild' /\ Len(asked') <= 1 /\ served' = <<>> /\ CgNotServed'
      BY <1>0 DEF CgOrderly
    <3>1. CgRequest(1)' = CgRequest(1)  BY <1>0 DEF CgRequest, CG!RequestBody
    <3>2. nc'.buf \o wire' = IF asked' = <<>> THEN <<>> ELSE CgRequest(1)'  BY <1>0, <1>4, <2>4, <3>1
    <3>3. CgNotServed'  BY <1>4, <1>5, <2>4, <3>2 DEF CgNotServed
    <3> QED  BY <1>0, <1>4, <1>5, <3>3
  <2> QED  BY <2>5, <2>6, <2>7 DEF CgInductive
<1>6. CASE /\ CG!Whole(c.buf)
           /\ \E s \in Scripts, output \in Outputs \cup {<<>>} :
               /\ cgi[s].life = "unused"
               /\ nc' = CG!Started(c, s)
               /\ cgi' = [cgi EXCEPT ![s] = CG!Process(c, output)]
               /\ served' = Append(served, [script |-> s, output |-> output])
  <2>1. PICK s \in Scripts, o \in Outputs \cup {<<>>} :
               /\ cgi[s].life = "unused"
               /\ nc' = CG!Started(c, s)
               /\ cgi' = [cgi EXCEPT ![s] = CG!Process(c, o)]
               /\ served' = Append(served, [script |-> s, output |-> o])
    BY <1>6
  <2>2. CG!HasHeader(c.buf)  BY <1>6 DEF CG!Whole
  <2>3. nc' \in CgClient /\ CG!Process(c, o) \in CgProcess /\ CG!Process(c, o).life = "running"
    BY <1>2, <2>1, <2>2, CgStart
  <2>4. cgi' \in [Scripts -> CgProcess]  BY <1>0, <2>1, <2>3 DEF CgTyped
  <2>5. \A x \in Scripts : x = s \/ cgi[x].life # "unused" => cgi'[x].life # "unused"
    BY <1>0, <2>1, <2>3 DEF CgTyped
  <2>6. o \in Seq(CgLine)  BY CgOutputs
  <2>7. served' \in Seq(CgService) /\ CgDistinct'  BY <1>0, <2>1, <2>5, <2>6, CgServesNext
  <2>8. CgTyped'  BY <1>0, <1>1, <2>3, <2>4, <2>7 DEF CgTyped
  <2>9. CgOrderly'
    <3> SUFFICES ASSUME ~eager PROVE ~wild' /\ Len(asked') <= 1 /\ served' # <<>> /\ CgServed'
      BY <1>0 DEF CgOrderly
    <3>1. asked # <<>>
      <4> SUFFICES ASSUME asked = <<>> PROVE FALSE
        OBVIOUS
      <4>1. c.buf \o wire' = <<>>  BY <1>4
      <4> DEFINE b == c.buf
      <4>2. b \in Seq(CgPart)  BY <1>2 DEF CgClient
      <4>3. b # <<>>  BY <2>2 DEF CG!HasHeader
      <4>4. b \o wire' = <<>>  BY <4>1
      <4> HIDE DEF b
      <4>5. Len(b) + Len(wire') = 0 /\ Len(b) \in Nat /\ Len(wire') \in Nat
        BY <1>1, <4>2, <4>4, ConcatProperties, LenProperties
      <4> QED  BY <4>2, <4>3, <4>5
    <3>2. Len(asked) = 1
      <4>1. asked \in Seq(Nat)  BY <1>0 DEF CgTyped
      <4>2. Len(asked) \in Nat /\ Len(asked) # 0  BY <3>1, <4>1, EmptySeq, LenProperties
      <4>3. Len(asked) <= 1  BY <1>4
      <4> QED  BY <4>2, <4>3
    <3>3. c.buf \o wire' = CgRequest(1)  BY <1>4, <3>1
    <3>4. served = <<>> /\ CgNotServed  BY <1>4
    <3>5. CgServed'  BY <1>0, <1>1, <1>2, <1>6, <2>1, <3>2, <3>3, <3>4, CgServe
    <3>6. served' # <<>>
      <4>1. Len(served') = 1  BY <3>5 DEF CgServed
      <4> QED  BY <4>1
    <3> QED  BY <1>0, <3>2, <3>5, <3>6
  <2> QED  BY <2>7, <2>8, <2>9 DEF CgInductive
<1> QED  BY <1>3, <1>5, <1>6


\* The connection of the client goes, and tells its process.
CgTells == IF nc.cgi = CG!NULL THEN cgi
           ELSE [cgi EXCEPT ![nc.cgi].told = FALSE, ![nc.cgi].closeNow = TRUE]

LEMMA CgTold ==
  ASSUME CgTyped, NEW cs, cs = CgTells
  PROVE  /\ cs \in [Scripts -> CgProcess]
         /\ \A x \in Scripts : cs[x].life = cgi[x].life /\ cs[x].fed = cgi[x].fed
                               /\ cs[x].left = cgi[x].left /\ cs[x].buf = cgi[x].buf
         /\ \A x \in Scripts : nc.cgi = x => ~cs[x].told /\ cs[x].closeNow
<1>1. CASE nc.cgi = CG!NULL
  <2>1. cs = cgi  BY <1>1 DEF CgTells
  <2>2. nc.cgi \notin Scripts  BY <1>1, CgNull, ProtocolsAssumption DEF NULL
  <2> QED  BY <2>1, <2>2 DEF CgTyped
<1>2. CASE nc.cgi # CG!NULL
  <2> DEFINE y == nc.cgi
             one == [cgi EXCEPT ![y].told = FALSE]
  <2>1. y \in Scripts  BY <1>2, CgNull DEF CgTyped, CgClient
  <2> HIDE DEF y
  <2>2. one \in [Scripts -> CgProcess]  BY <2>1, CgProcessField DEF CgTyped
  <2>3. cs = [one EXCEPT ![y].closeNow = TRUE]  BY <1>2 DEF y, CgTells
  <2>4. /\ \A x \in Scripts : one[x].life = cgi[x].life /\ one[x].fed = cgi[x].fed
                              /\ one[x].left = cgi[x].left /\ one[x].buf = cgi[x].buf
        /\ ~one[y].told
    BY <2>1 DEF CgTyped, CgProcess
  <2> HIDE DEF one
  <2>5. cs \in [Scripts -> CgProcess]
    <3>1. [one EXCEPT ![y].closeNow = TRUE] \in [Scripts -> CgProcess]  BY <2>1, <2>2, CgProcessField
    <3> QED  BY <2>3, <3>1
  <2>6. /\ \A x \in Scripts : cs[x].life = one[x].life /\ cs[x].fed = one[x].fed
                              /\ cs[x].left = one[x].left /\ cs[x].buf = one[x].buf
        /\ ~cs[y].told /\ cs[y].closeNow
    BY <2>1, <2>2, <2>3, <2>4 DEF CgProcess
  <2> QED  BY <2>4, <2>5, <2>6 DEF y
<1> QED  BY <1>1, <1>2

LEMMA CgFree ==
  ASSUME NEW cs \in [Scripts -> CgProcess], NEW c \in CgClient
  PROVE  /\ CG!FreeCgi(c, cs) \in [Scripts -> CgProcess]
         /\ \A x \in Scripts : /\ CG!FreeCgi(c, cs)[x].life = cs[x].life /\ CG!FreeCgi(c, cs)[x].fed = cs[x].fed
                               /\ CG!FreeCgi(c, cs)[x].left = cs[x].left /\ CG!FreeCgi(c, cs)[x].buf = cs[x].buf
                               /\ (CG!FreeCgi(c, cs)[x].told <=> cs[x].told)
                               /\ cs[x].closeNow => CG!FreeCgi(c, cs)[x].closeNow
<1>1. CASE c.cgi = CG!NULL  BY <1>1 DEF CG!FreeCgi
<1>2. CASE c.cgi # CG!NULL
  <2> DEFINE y == c.cgi
  <2>1. y \in Scripts  BY <1>2, CgNull DEF CgClient
  <2> HIDE DEF y
  <2> DEFINE f == [cs EXCEPT ![y].closeNow = TRUE]
  <2>2. f \in [Scripts -> CgProcess]  BY <2>1, CgProcessField
  <2>3. \A x \in Scripts : /\ f[x].life = cs[x].life /\ f[x].fed = cs[x].fed
                           /\ f[x].left = cs[x].left /\ f[x].buf = cs[x].buf
    BY <2>1 DEF CgProcess
  <2>4. \A x \in Scripts : (f[x].told <=> cs[x].told) /\ (cs[x].closeNow => f[x].closeNow)
    BY <2>1 DEF CgProcess
  <2>5. CG!FreeCgi(c, cs) = f  BY <1>2 DEF CG!FreeCgi, y
  <2> HIDE DEF f
  <2> QED  BY <2>2, <2>3, <2>4, <2>5
<1> QED  BY <1>1, <1>2

LEMMA CgCloseClient ==
  ASSUME CgInductive, CG!CloseClient
  PROVE  CgInductive'
<1> DEFINE cs == IF nc.cgi = CG!NULL THEN cgi
                 ELSE [cgi EXCEPT ![nc.cgi].told = FALSE, ![nc.cgi].closeNow = TRUE]
<1>0. /\ nc.open /\ ~wild /\ CgTyped /\ CgDistinct /\ UNCHANGED <<wire, asked, wild>>
      /\ eager' = (eager \/ nc.buf # <<>>) /\ nc \in CgClient
  BY DEF CG!CloseClient, CgInductive, CgTyped
<1>1. \/ /\ ~CG!HasHeader(nc.buf)
         /\ nc' = [nc EXCEPT !.open = FALSE] /\ cgi' = CG!FreeCgi(nc, cs) /\ UNCHANGED served
      \/ /\ CG!HasHeader(nc.buf)
         /\ \E s \in Scripts, output \in Outputs \cup {<<>>} :
               /\ cgi[s].life = "unused"
               /\ nc' = [CG!Started(nc, s) EXCEPT !.open = FALSE]
               /\ cgi' = CG!FreeCgi(CG!Started(nc, s), [cs EXCEPT ![s] = CG!Process(nc, output)])
               /\ served' = Append(served, [script |-> s, output |-> output])
  BY Zenon DEF CG!CloseClient
<1>2. /\ cs \in [Scripts -> CgProcess]
      /\ \A x \in Scripts : cs[x].life = cgi[x].life /\ cs[x].fed = cgi[x].fed
                            /\ cs[x].left = cgi[x].left /\ cs[x].buf = cgi[x].buf
      /\ \A x \in Scripts : nc.cgi = x => ~cs[x].told /\ cs[x].closeNow
  <2>1. cs = CgTells  BY DEF CgTells
  <2> HIDE DEF cs
  <2> QED  BY <1>0, <2>1, CgTold
<1> HIDE DEF cs
<1>3. CASE /\ ~CG!HasHeader(nc.buf)
           /\ nc' = [nc EXCEPT !.open = FALSE] /\ cgi' = CG!FreeCgi(nc, cs) /\ UNCHANGED served
  <2>1. /\ cgi' \in [Scripts -> CgProcess]
        /\ \A x \in Scripts : /\ cgi'[x].life = cgi[x].life /\ cgi'[x].fed = cgi[x].fed
                              /\ cgi'[x].left = cgi[x].left /\ cgi'[x].buf = cgi[x].buf
                              /\ nc.cgi = x => ~cgi'[x].told /\ cgi'[x].closeNow
    BY <1>0, <1>2, <1>3, CgFree
  <2>2. nc' \in CgClient  BY <1>0, <1>3, CgClientField
  <2>3. nc'.cgi = nc.cgi /\ nc'.buf = nc.buf /\ nc'.out = nc.out  BY <1>0, <1>3 DEF CgClient
  <2>4. ~nc'.open /\ (nc'.user1 <=> nc.user1)  BY <1>0, <1>3 DEF CgClient
  <2>5. CgTyped'  BY <1>0, <1>3, <2>1, <2>2 DEF CgTyped
  <2>6. CgDistinct'  BY <1>0, <1>3, <2>1, CgStillDistinct
  <2>7. CgOrderly'
    <3> SUFFICES ASSUME ~eager, nc.buf = <<>>
                 PROVE  ~wild' /\ Len(asked') <= 1 /\ IF served' = <<>> THEN CgNotServed' ELSE CgServed'
      BY <1>0 DEF CgOrderly
    <3>1. ~wild /\ Len(asked) <= 1 /\ IF served = <<>> THEN CgNotServed ELSE CgServed
      BY DEF CgInductive, CgOrderly
    <3>2. CASE served = <<>>
      <4>1. CgNotServed'  BY <3>1, <3>2, <2>1, <2>3, <2>4 DEF CgNotServed
      <4> QED  BY <1>0, <1>3, <3>1, <3>2, <4>1
    <3>3. CASE served # <<>>
      <4>0. PICK s, o : s = served[1].script /\ o = served[1].output  OBVIOUS
      <4>1. /\ Len(served) = 1 /\ Len(asked) = 1 /\ wire = <<>>
            /\ \A x \in Scripts : x # s => cgi[x].life = "unused"
            /\ CgLinked(s) /\ cgi[s].fed = CG!RequestBody(1)
            /\ ~CG!BadHeaders(o) => CgHeaders(s, o) \/ CgAnswer(s, o)
        BY <3>1, <3>3, <4>0 DEF CgServed
      <4>2. s \in Scripts
        <5>1. 1 \in 1..Len(served) /\ served \in Seq(CgService)  BY <1>0, <4>1 DEF CgTyped
        <5>2. served[1] \in CgService  BY <5>1, ElementOfSeq, Zenon
        <5> QED  BY <4>0, <5>2 DEF CgService
      <4>3. served'[1].script = s /\ served'[1].output = o  BY <1>3, <4>0
      <4>4. CgLinked(s)'  BY <1>0, <2>1, <2>3, <2>4, <4>1, <4>2 DEF CgLinked
      <4>5. ~CG!BadHeaders(o) => CgHeaders(s, o)' \/ CgAnswer(s, o)'
        BY <2>1, <2>3, <2>4, <4>1, <4>2 DEF CgHeaders, CgAnswer
      <4>6. cgi'[s].fed = CG!RequestBody(1)' /\ \A x \in Scripts : x # s => cgi'[x].life = "unused"
        BY <1>0, <2>1, <4>1, <4>2 DEF CG!RequestBody
      <4>7. Len(served') = 1 /\ Len(asked') = 1 /\ nc'.buf = <<>> /\ wire' = <<>>
        BY <1>0, <1>3, <2>3, <4>1
      <4>8. CgServed'  BY <4>3, <4>4, <4>5, <4>6, <4>7, Zenon DEF CgServed
      <4> QED  BY <1>0, <1>3, <3>1, <3>3, <4>8
    <3> QED  BY <3>2, <3>3
  <2> QED  BY <2>5, <2>6, <2>7 DEF CgInductive
<1>4. CASE /\ CG!HasHeader(nc.buf)
           /\ \E s \in Scripts, output \in Outputs \cup {<<>>} :
               /\ cgi[s].life = "unused"
               /\ nc' = [CG!Started(nc, s) EXCEPT !.open = FALSE]
               /\ cgi' = CG!FreeCgi(CG!Started(nc, s), [cs EXCEPT ![s] = CG!Process(nc, output)])
               /\ served' = Append(served, [script |-> s, output |-> output])
  <2>1. PICK s \in Scripts, o \in Outputs \cup {<<>>} :
               /\ cgi[s].life = "unused"
               /\ nc' = [CG!Started(nc, s) EXCEPT !.open = FALSE]
               /\ cgi' = CG!FreeCgi(CG!Started(nc, s), [cs EXCEPT ![s] = CG!Process(nc, o)])
               /\ served' = Append(served, [script |-> s, output |-> o])
    BY <1>4
  <2> DEFINE c == CG!Started(nc, s)
             p == CG!Process(nc, o)
             ps == [cs EXCEPT ![s] = p]
  <2>2. c \in CgClient /\ p \in CgProcess /\ p.life = "running"  BY <1>0, <1>4, <2>1, CgStart
  <2> HIDE DEF c, p
  <2>3. ps \in [Scripts -> CgProcess]  BY <1>2, <2>1, <2>2
  <2>4. \A x \in Scripts : x = s \/ cgi[x].life # "unused" => ps[x].life # "unused"  BY <1>2, <2>1, <2>2
  <2> HIDE DEF ps
  <2>5. cgi' = CG!FreeCgi(c, ps) /\ nc' = [c EXCEPT !.open = FALSE]  BY <2>1 DEF c, ps, p
  <2>6. cgi' \in [Scripts -> CgProcess] /\ \A x \in Scripts : cgi'[x].life = ps[x].life
    BY <2>2, <2>3, <2>5, CgFree
  <2>7. nc' \in CgClient  BY <2>2, <2>5, CgClientField
  <2>8. o \in Seq(CgLine)  BY CgOutputs
  <2>9. \A x \in Scripts : x = s \/ cgi[x].life # "unused" => cgi'[x].life # "unused"  BY <2>4, <2>6
  <2>10. served' \in Seq(CgService) /\ CgDistinct'  BY <1>0, <2>1, <2>8, <2>9, CgServesNext
  <2>11. CgTyped'  BY <1>0, <2>6, <2>7, <2>10 DEF CgTyped
  <2>12. eager'  BY <1>0, <1>4 DEF CG!HasHeader
  <2> QED  BY <2>10, <2>11, <2>12 DEF CgInductive, CgOrderly
<1> QED  BY <1>1, <1>3, <1>4

-----------------------------------------------------------------------------
(* The processes *)

LEMMA CgSingle == ASSUME NEW T, NEW x \in T PROVE <<x>> \in Seq(T)
OBVIOUS

LEMMA CgBehindLine ==
  ASSUME NEW l \in CgLine, NEW b \in Seq(CgLine), NEW rest \in Seq(CgLine)
  PROVE  (<<l>> \o b) \o rest = <<l>> \o (b \o rest)
<1> DEFINE h == <<l>>
<1>1. h \in Seq(CgLine)  BY CgSingle
<1> HIDE DEF h
<1>2. (h \o b) \o rest = h \o (b \o rest)  BY <1>1, ConcatAssociative
<1> QED  BY <1>2 DEF h

LEMMA CgHeaderInt ==
  ASSUME NEW b \in Seq(CgLine)
  PROVE  CG!HeaderLen(b) \in Int
<1>1. Len(b) \in Nat  BY LenProperties
<1>2. \A k \in 1..Len(b) : k \in Int  BY <1>1
<1> QED  BY <1>2, CgHeaderLen

LEMMA CgResponseType ==
  ASSUME NEW b \in Seq(CgLine), NEW u \in BOOLEAN
  PROVE  CG!Response(u, b) \in Seq(CgLine)
<1>1. \A x \in {"500", "302", "as told", "200"} : <<x>> \o b \in Seq(CgLine)
  <2> TAKE x \in {"500", "302", "as told", "200"}
  <2>1. x \in CgLine  BY DEF CgLine
  <2>2. <<x>> \in Seq(CgLine)  BY <2>1, CgSingle
  <2> QED  BY <2>2, ConcatProperties
<1>2. CG!StatusLine(b) \in {"302", "as told", "200"}  BY DEF CG!StatusLine
<1>3. CG!Response(u, b) \in {b, <<>>, <<"500">> \o b, <<CG!StatusLine(b)>> \o b}  BY Zenon DEF CG!Response
<1> DEFINE r == CG!Response(u, b)
           l == CG!StatusLine(b)
<1>4. r = b \/ r = <<>> \/ r = <<"500">> \o b \/ r = <<l>> \o b  BY <1>3
<1>5. l \in {"500", "302", "as told", "200"} /\ "500" \in {"500", "302", "as told", "200"}  BY <1>2
<1> HIDE DEF r, l
<1>6. <<l>> \o b \in Seq(CgLine) /\ <<"500">> \o b \in Seq(CgLine)  BY <1>1, <1>5
<1>7. <<>> \in Seq(CgLine)  OBVIOUS
<1>8. r \in Seq(CgLine)  BY <1>4, <1>6, <1>7, Zenon
<1> QED  BY <1>8 DEF r

\* One process is changed.
LEMMA CgOneProcess ==
  ASSUME CgTyped, NEW s \in Scripts, NEW l \in Seq(CgLine), NEW b \in Seq(CgLine), NEW v \in BOOLEAN,
         cgi' = [cgi EXCEPT ![s].left = l, ![s].buf = b, ![s].closeNow = v]
  PROVE  /\ cgi' \in [Scripts -> CgProcess]
         /\ \A x \in Scripts : x # s => cgi'[x] = cgi[x]
         /\ cgi'[s].left = l /\ cgi'[s].buf = b
         /\ cgi'[s].life = cgi[s].life /\ cgi'[s].fed = cgi[s].fed
         /\ cgi'[s].told <=> cgi[s].told
<1> DEFINE one == [cgi EXCEPT ![s].left = l]
           two == [one EXCEPT ![s].buf = b]
           three == [two EXCEPT ![s].closeNow = v]
<1>1. cgi' = three  OBVIOUS
<1>2. one \in [Scripts -> CgProcess]  BY CgProcessField DEF CgTyped
<1>3. /\ \A x \in Scripts : x # s => one[x] = cgi[x]
      /\ one[s].left = l /\ one[s].life = cgi[s].life /\ one[s].fed = cgi[s].fed
      /\ one[s].told = cgi[s].told
  BY DEF CgTyped, CgProcess
<1> HIDE DEF one
<1>4. two \in [Scripts -> CgProcess]  BY <1>2, CgProcessField
<1>5. /\ \A x \in Scripts : x # s => two[x] = cgi[x]
      /\ two[s].left = l /\ two[s].buf = b /\ two[s].life = cgi[s].life /\ two[s].fed = cgi[s].fed
      /\ two[s].told = cgi[s].told
  BY <1>2, <1>3 DEF CgProcess
<1> HIDE DEF two
<1>6. three \in [Scripts -> CgProcess]  BY <1>4, CgProcessField
<1>7. /\ \A x \in Scripts : x # s => three[x] = cgi[x]
      /\ three[s].left = l /\ three[s].buf = b /\ three[s].life = cgi[s].life /\ three[s].fed = cgi[s].fed
      /\ three[s].told = cgi[s].told
  BY <1>4, <1>5 DEF CgProcess
<1> HIDE DEF three
<1> QED  BY <1>1, <1>6, <1>7

\* The process of a client that waits is the one that was started for its request.
LEMMA CgTheOne ==
  ASSUME CgInductive, ~eager, NEW s \in Scripts, cgi[s].life = "running"
  PROVE  /\ ~wild /\ Len(asked) = 1 /\ served # <<>> /\ s = served[1].script /\ CgServed
         /\ served[1].output \in Seq(CgLine)
<1>1. ~wild /\ IF served = <<>> THEN CgNotServed ELSE CgServed  BY DEF CgInductive, CgOrderly
<1>2. served # <<>>  BY <1>1 DEF CgNotServed
<1>3. CgServed  BY <1>1, <1>2
<1>4. Len(served) = 1 /\ Len(asked) = 1 /\ s = served[1].script  BY <1>3 DEF CgServed
<1>5. served[1] \in CgService
  <2>1. 1 \in 1..Len(served) /\ served \in Seq(CgService)  BY <1>4 DEF CgInductive, CgTyped
  <2> QED  BY <2>1, ElementOfSeq, Zenon
<1>6. served[1].output \in Seq(CgLine)  BY <1>5 DEF CgService
<1> QED  BY <1>1, <1>2, <1>3, <1>4, <1>6

\* How far the answer to the output o has come, and a read of n symbols of it.
CgSoFar(o, out, user1, inbuf, left) ==
    \/ user1 /\ out = <<>> /\ CG!HeaderLen(inbuf) = 0 /\ inbuf \o left = o
    \/ ~user1 /\ inbuf = <<>> /\ CG!HeaderLen(o) # 0 /\ out \o left = <<CG!StatusLine(o)>> \o o
CgRead(inbuf, left, n, b, rest) ==
    b = inbuf \o SubSeq(left, 1, n) /\ rest = SubSeq(left, n + 1, Len(left))

\* How the answer grows when n more symbols of the output o are received.
LEMMA CgGrows ==
  ASSUME NEW o \in Seq(CgLine), ~CG!BadHeaders(o), NEW out \in Seq(CgLine), NEW user1 \in BOOLEAN,
         NEW inbuf \in Seq(CgLine), NEW left \in Seq(CgLine), NEW n \in Nat, n <= Len(left),
         NEW b, NEW rest, CgSoFar(o, out, user1, inbuf, left), CgRead(inbuf, left, n, b, rest)
  PROVE  CgSoFar(o, out \o CG!Response(user1, b), user1 /\ CG!HeaderLen(b) = 0,
                 IF user1 /\ CG!HeaderLen(b) = 0 THEN b ELSE <<>>, rest)
<1>0. /\ b = inbuf \o SubSeq(left, 1, n) /\ rest = SubSeq(left, n + 1, Len(left))
      /\ \/ user1 /\ out = <<>> /\ CG!HeaderLen(inbuf) = 0 /\ inbuf \o left = o
         \/ ~user1 /\ inbuf = <<>> /\ CG!HeaderLen(o) # 0 /\ out \o left = <<CG!StatusLine(o)>> \o o
  BY DEF CgSoFar, CgRead
<1>1. b \in Seq(CgLine) /\ rest \in Seq(CgLine)  BY <1>0, CgPieces
<1>2. b \o rest = inbuf \o left  BY <1>0, CgCut
<1>3. ASSUME user1
      PROVE  /\ ~(user1 /\ CG!BadHeaders(b))
             /\ IF user1 /\ CG!HeaderLen(b) = 0
                THEN out \o CG!Response(user1, b) = <<>> /\ b \o rest = o
                ELSE /\ CG!HeaderLen(o) # 0
                     /\ (out \o CG!Response(user1, b)) \o rest = <<CG!StatusLine(o)>> \o o
  <2>1. out = <<>> /\ b \o rest = o  BY <1>0, <1>2, <1>3
  <2>2. CASE CG!HeaderLen(b) = 0
    <3>1. CG!Response(user1, b) = <<>> /\ ~CG!BadHeaders(b)  BY <1>3, <2>2 DEF CG!Response, CG!BadHeaders
    <3>2. <<>> \o <<>> = <<>>  OBVIOUS
    <3> QED  BY <1>3, <2>1, <2>2, <3>1, <3>2
  <2>3. CASE CG!HeaderLen(b) # 0
    <3>1. /\ CG!HeaderLen(o) = CG!HeaderLen(b)
          /\ CG!HeaderLen(b) > 0 => CG!StatusLine(o) = CG!StatusLine(b)
          /\ CG!BadHeaders(b) => CG!BadHeaders(o)
      <4>1. /\ CG!HeaderLen(b \o rest) = CG!HeaderLen(b)
            /\ CG!HeaderLen(b) > 0 => CG!StatusLine(b \o rest) = CG!StatusLine(b)
            /\ CG!BadHeaders(b) => CG!BadHeaders(b \o rest)
        BY <1>1, <2>3, CgMore
      <4> QED  BY <4>1, <2>1
    <3>2. ~CG!BadHeaders(b)  BY <3>1
    <3>3. CG!HeaderLen(b) > 0
      <4>1. CG!HeaderLen(b) \in Int /\ ~(CG!HeaderLen(b) < 0)
        <5>2. CG!HeaderLen(b) \in Int  BY <1>1, CgHeaderInt
        <5> QED  BY <3>2, <5>2 DEF CG!BadHeaders
      <4> QED  BY <2>3, <4>1
    <3>4. CG!Response(user1, b) = <<CG!StatusLine(o)>> \o b  BY <1>3, <2>3, <3>1, <3>2, <3>3 DEF CG!Response
    <3> DEFINE l == CG!StatusLine(o)
    <3>5. l \in CgLine  BY DEF CG!StatusLine, CgLine
    <3> HIDE DEF l
    <3>6. (<<l>> \o b) \o rest = <<l>> \o (b \o rest)  BY <1>1, <3>5, CgBehindLine
    <3>7. out \o CG!Response(user1, b) = <<l>> \o b
      <4>1. <<l>> \o b \in Seq(CgLine)  BY <1>1, <3>5, ConcatProperties
      <4>2. <<>> \o (<<l>> \o b) = <<l>> \o b  BY <4>1, ConcatEmptySeq
      <4> QED  BY <2>1, <3>4, <4>2 DEF l
    <3>8. (out \o CG!Response(user1, b)) \o rest = <<l>> \o o
      <4> DEFINE r == out \o CG!Response(user1, b)
                 q == <<l>> \o b
      <4>1. r = q  BY <3>7
      <4>2. q \o rest = <<l>> \o o  BY <3>6, <2>1
      <4> HIDE DEF r, q
      <4>3. r \o rest = <<l>> \o o  BY <4>1, <4>2
      <4> QED  BY <4>3 DEF r
    <3>9. CG!HeaderLen(o) # 0  BY <2>3, <3>1
    <3> QED  BY <2>3, <3>2, <3>8, <3>9 DEF l
  <2> QED  BY <2>2, <2>3
<1>4. ASSUME ~user1
      PROVE  /\ ~(user1 /\ CG!BadHeaders(b))
             /\ IF user1 /\ CG!HeaderLen(b) = 0
                THEN out \o CG!Response(user1, b) = <<>> /\ b \o rest = o
                ELSE /\ CG!HeaderLen(o) # 0
                     /\ (out \o CG!Response(user1, b)) \o rest = <<CG!StatusLine(o)>> \o o
  <2>1. inbuf = <<>> /\ CG!HeaderLen(o) # 0 /\ out \o left = <<CG!StatusLine(o)>> \o o  BY <1>0, <1>4
  <2>2. CG!Response(user1, b) = b  BY <1>4 DEF CG!Response
  <2>3. b = SubSeq(left, 1, n)
    <3> DEFINE a == SubSeq(left, 1, n)
    <3>1. a \in Seq(CgLine)  BY CgPieces
    <3>2. b = inbuf \o a  BY <1>0
    <3> HIDE DEF a
    <3>3. b = a  BY <2>1, <3>1, <3>2, ConcatEmptySeq
    <3> QED  BY <3>3 DEF a
  <2>4. (out \o b) \o rest = out \o left  BY <1>0, <2>3, CgCut
  <2> QED  BY <1>4, <2>1, <2>2, <2>4
<1> DEFINE r == out \o CG!Response(user1, b)
           waits == user1 /\ CG!HeaderLen(b) = 0
<1>5. /\ ~(user1 /\ CG!BadHeaders(b))
      /\ IF waits THEN r = <<>> /\ b \o rest = o
         ELSE CG!HeaderLen(o) # 0 /\ r \o rest = <<CG!StatusLine(o)>> \o o
  BY <1>3, <1>4
<1>6. waits => CG!HeaderLen(b) = 0  OBVIOUS
<1> HIDE DEF r, waits
<1>7. CgSoFar(o, r, waits, IF waits THEN b ELSE <<>>, rest)  BY <1>5, <1>6 DEF CgSoFar
<1> QED  BY <1>7 DEF r, waits


\* What the client's connection is after a read: more in the answer.
CgTakes(c, r, u, v) == [c EXCEPT !.out = r, !.user1 = u, !.sendAndClose = v]

LEMMA CgAnswered ==
  ASSUME NEW c \in CgClient, NEW r \in Seq(CgLine), NEW u \in BOOLEAN, NEW v \in BOOLEAN
  PROVE  /\ CgTakes(c, r, u, v) \in CgClient
         /\ CgTakes(c, r, u, v).out = r /\ CgTakes(c, r, u, v).cgi = c.cgi
         /\ CgTakes(c, r, u, v).buf = c.buf /\ CgTakes(c, r, u, v).open = c.open
         /\ CgTakes(c, r, u, v).user1 <=> u
<1> DEFINE one == [c EXCEPT !.out = r]
           two == [one EXCEPT !.user1 = u]
           three == [two EXCEPT !.sendAndClose = v]
<1>1. CgTakes(c, r, u, v) = three  BY DEF CgTakes
<1>2. one \in CgClient  BY CgClientField
<1>3. one.out = r /\ one.cgi = c.cgi /\ one.buf = c.buf /\ one.open = c.open  BY DEF CgClient
<1> HIDE DEF one
<1>4. two \in CgClient  BY <1>2, CgClientField
<1>5. two.out = r /\ two.cgi = c.cgi /\ two.buf = c.buf /\ two.open = c.open /\ two.user1 = u
  BY <1>2, <1>3 DEF CgClient
<1> HIDE DEF two
<1>6. three \in CgClient  BY <1>4, CgClientField
<1>7. three.out = r /\ three.cgi = c.cgi /\ three.buf = c.buf /\ three.open = c.open /\ three.user1 = u
  BY <1>4, <1>5 DEF CgClient
<1> HIDE DEF three
<1> QED  BY <1>1, <1>6, <1>7

LEMMA CgOutput ==
  ASSUME CgInductive, NEW s \in Scripts, NEW n \in Chunks, CG!Output(s, n)
  PROVE  CgInductive'
<1> DEFINE b == cgi[s].buf \o SubSeq(cgi[s].left, 1, n)
           rest == SubSeq(cgi[s].left, n + 1, Len(cgi[s].left))
           waits == nc.user1 /\ CG!HeaderLen(b) = 0
           bad == nc.user1 /\ CG!BadHeaders(b)
           keep == IF waits \/ ~cgi[s].told THEN b ELSE <<>>
           close == bad \/ ~cgi[s].told
           r == nc.out \o CG!Response(nc.user1, b)
           v == nc.sendAndClose \/ bad
<1>0. /\ n \in Nat \ {0} /\ cgi[s].life = "running" /\ ~cgi[s].closeNow /\ ~wild /\ n <= Len(cgi[s].left)
      /\ wild' = (cgi[s].told /\ ~nc.open)
      /\ cgi' = [cgi EXCEPT ![s].left = rest, ![s].buf = keep, ![s].closeNow = close]
      /\ nc' = IF ~cgi[s].told \/ wild' THEN nc
               ELSE [nc EXCEPT !.out = r, !.user1 = waits, !.sendAndClose = v]
      /\ UNCHANGED <<wire, asked, served, eager>>
  BY ProtocolsAssumption, Zenon DEF CG!Output
<1>1. /\ CgTyped /\ CgDistinct /\ nc \in CgClient /\ nc.out \in Seq(CgLine) /\ nc.user1 \in BOOLEAN
      /\ cgi[s].buf \in Seq(CgLine) /\ cgi[s].left \in Seq(CgLine)
  BY DEF CgInductive, CgTyped, CgClient, CgProcess
<1>2. b \in Seq(CgLine) /\ rest \in Seq(CgLine)
  <2> DEFINE u == cgi[s].buf
             l == cgi[s].left
  <2>1. u \in Seq(CgLine) /\ l \in Seq(CgLine) /\ n \in Nat /\ n <= Len(l)  BY <1>0, <1>1
  <2> HIDE DEF u, l
  <2>2. u \o SubSeq(l, 1, n) \in Seq(CgLine) /\ SubSeq(l, n + 1, Len(l)) \in Seq(CgLine)  BY <2>1, CgPieces
  <2> QED  BY <2>2 DEF u, l
<1> HIDE DEF b, rest
<1>3. keep \in Seq(CgLine) /\ close \in BOOLEAN /\ waits \in BOOLEAN /\ v \in BOOLEAN
  <2>1. <<>> \in Seq(CgLine)  OBVIOUS
  <2> QED  BY <1>2, <2>1
<1>4. r \in Seq(CgLine)
  <2> DEFINE t == CG!Response(nc.user1, b)
             w == nc.out
  <2>1. t \in Seq(CgLine) /\ w \in Seq(CgLine)  BY <1>1, <1>2, CgResponseType
  <2> HIDE DEF t, w
  <2>2. w \o t \in Seq(CgLine)  BY <2>1, ConcatProperties
  <2> QED  BY <2>2 DEF t, w
<1> HIDE DEF keep, close, waits, r, v
<1>5. /\ cgi' \in [Scripts -> CgProcess]
      /\ \A x \in Scripts : x # s => cgi'[x] = cgi[x]
      /\ cgi'[s].left = rest /\ cgi'[s].buf = keep
      /\ cgi'[s].life = cgi[s].life /\ cgi'[s].fed = cgi[s].fed
      /\ cgi'[s].told <=> cgi[s].told
  BY <1>0, <1>1, <1>2, <1>3, CgOneProcess
<1> DEFINE d == [nc EXCEPT !.out = r, !.user1 = waits, !.sendAndClose = v]
<1>6. /\ d \in CgClient
      /\ d.out = r /\ d.cgi = nc.cgi /\ d.buf = nc.buf /\ d.open = nc.open /\ (d.user1 <=> waits)
  <2>1. d = CgTakes(nc, r, waits, v)  BY DEF CgTakes
  <2> HIDE DEF d
  <2>2. PICK u \in BOOLEAN, a \in BOOLEAN : u = waits /\ a = v  BY <1>3
  <2>3. d = CgTakes(nc, r, u, a)  BY <2>1, <2>2
  <2>4. /\ CgTakes(nc, r, u, a) \in CgClient
        /\ CgTakes(nc, r, u, a).out = r /\ CgTakes(nc, r, u, a).cgi = nc.cgi
        /\ CgTakes(nc, r, u, a).buf = nc.buf /\ CgTakes(nc, r, u, a).open = nc.open
        /\ CgTakes(nc, r, u, a).user1 <=> u
    BY <1>1, <1>4, CgAnswered
  <2> QED  BY <2>2, <2>3, <2>4
<1>7. nc' = IF ~cgi[s].told \/ wild' THEN nc ELSE d  BY <1>0
<1> HIDE DEF d
<1>8. CgTyped'
  <2>1. nc' \in CgClient  BY <1>1, <1>6, <1>7
  <2>2. wild' \in BOOLEAN  BY <1>0
  <2> QED  BY <1>0, <1>1, <1>5, <2>1, <2>2 DEF CgTyped
<1>9. CgDistinct'
  <2>1. \A x \in Scripts : cgi[x].life # "unused" => cgi'[x].life # "unused"  BY <1>5
  <2> QED  BY <1>0, <1>1, <2>1, CgStillDistinct
<1>10. CgOrderly'
  <2> SUFFICES ASSUME ~eager PROVE ~wild' /\ Len(asked') <= 1 /\ served' # <<>> /\ CgServed'
    BY <1>0 DEF CgOrderly
  <2>1. /\ Len(asked) = 1 /\ served # <<>> /\ s = served[1].script /\ CgServed
        /\ served[1].output \in Seq(CgLine)
    BY <1>0, CgTheOne
  <2>2. PICK o \in Seq(CgLine) : o = served[1].output  BY <2>1
  <2>3. /\ Len(served) = 1 /\ nc.buf = <<>> /\ wire = <<>>
        /\ \A x \in Scripts : x # s => cgi[x].life = "unused"
        /\ CgLinked(s) /\ cgi[s].fed = CG!RequestBody(1)
        /\ ~CG!BadHeaders(o) => CgHeaders(s, o) \/ CgAnswer(s, o)
    BY <2>1, <2>2 DEF CgServed
  <2>4. nc.open /\ nc.cgi = s /\ cgi[s].told  BY <1>0, <2>3 DEF CgLinked
  <2>5. ~wild' /\ nc' = d  BY <1>0, <1>7, <2>4
  <2>6. CgLinked(s)'
    <3>1. nc'.open /\ nc'.cgi = s /\ cgi'[s].life = "running" /\ cgi'[s].told  BY <1>0, <1>5, <1>6, <2>4, <2>5
    <3> QED  BY <3>1 DEF CgLinked
  <2>7. ~CG!BadHeaders(o) => CgHeaders(s, o)' \/ CgAnswer(s, o)'
    <3> SUFFICES ASSUME ~CG!BadHeaders(o) PROVE CgHeaders(s, o)' \/ CgAnswer(s, o)'
      OBVIOUS
    <3>1. \/ nc.user1 /\ nc.out = <<>> /\ CG!HeaderLen(cgi[s].buf) = 0 /\ cgi[s].buf \o cgi[s].left = o
          \/ ~nc.user1 /\ cgi[s].buf = <<>> /\ CG!HeaderLen(o) # 0
             /\ nc.out \o cgi[s].left = <<CG!StatusLine(o)>> \o o
      BY <2>3 DEF CgHeaders, CgAnswer
    <3>2. PICK out \in Seq(CgLine), user1 \in BOOLEAN, inbuf \in Seq(CgLine), left \in Seq(CgLine) :
                out = nc.out /\ user1 = nc.user1 /\ inbuf = cgi[s].buf /\ left = cgi[s].left
      BY <1>1
    <3>2a. CgSoFar(o, out, user1, inbuf, left)  BY <3>1, <3>2 DEF CgSoFar
    <3>2b. n \in Nat /\ n <= Len(left) /\ CgRead(inbuf, left, n, b, rest)  BY <1>0, <3>2 DEF b, rest, CgRead
    <3>2c. CgSoFar(o, out \o CG!Response(user1, b), user1 /\ CG!HeaderLen(b) = 0,
                   IF user1 /\ CG!HeaderLen(b) = 0 THEN b ELSE <<>>, rest)
      BY <3>2a, <3>2b, CgGrows
    <3>2d. CgSoFar(o, r, waits, IF waits THEN b ELSE <<>>, rest)  BY <3>2, <3>2c DEF r, waits
    <3>4. keep = IF waits THEN b ELSE <<>>  BY <2>4 DEF keep
    <3>5. nc'.out = r /\ (nc'.user1 <=> waits) /\ cgi'[s].buf = keep /\ cgi'[s].left = rest
      BY <1>5, <1>6, <2>5
    <3>6. CgSoFar(o, r, waits, keep, rest)  BY <3>2d, <3>4
    <3>7. /\ \/ /\ waits /\ r = <<>> /\ CG!HeaderLen(keep) = 0 /\ keep \o rest = o
             \/ /\ ~waits /\ keep = <<>> /\ CG!HeaderLen(o) # 0
                /\ r \o rest = <<CG!StatusLine(o)>> \o o
      BY <3>6 DEF CgSoFar
    <3>8. CASE waits /\ r = <<>> /\ CG!HeaderLen(keep) = 0 /\ keep \o rest = o
      <4>1. /\ nc'.user1 /\ nc'.out = <<>> /\ CG!HeaderLen(cgi'[s].buf) = 0
            /\ cgi'[s].buf \o cgi'[s].left = o
        BY <3>5, <3>8
      <4> QED  BY <4>1 DEF CgHeaders
    <3>9. CASE ~waits /\ keep = <<>> /\ CG!HeaderLen(o) # 0 /\ r \o rest = <<CG!StatusLine(o)>> \o o
      <4>1. /\ ~nc'.user1 /\ cgi'[s].buf = <<>> /\ CG!HeaderLen(o) # 0
            /\ nc'.out \o cgi'[s].left = <<CG!StatusLine(o)>> \o o
        BY <3>5, <3>9
      <4> QED  BY <4>1 DEF CgAnswer
    <3> QED  BY <3>7, <3>8, <3>9
  <2>8. /\ served'[1].script = s /\ served'[1].output = o /\ Len(served') = 1 /\ Len(asked') = 1
        /\ nc'.buf = <<>> /\ wire' = <<>>
        /\ \A x \in Scripts : x # s => cgi'[x].life = "unused"
    BY <1>0, <1>5, <1>6, <2>1, <2>2, <2>3, <2>5
  <2>9. cgi'[s].fed = CG!RequestBody(1)'  BY <1>0, <1>5, <2>3 DEF CG!RequestBody
  <2>10. CgServed'  BY <2>6, <2>7, <2>8, <2>9, Zenon DEF CgServed
  <2> QED  BY <1>0, <2>1, <2>5, <2>8, <2>10
<1> QED  BY <1>8, <1>9, <1>10 DEF CgInductive

LEMMA CgCloseCgi ==
  ASSUME CgInductive, NEW s \in Scripts, CG!CloseCgi(s)
  PROVE  CgInductive'
<1> DEFINE ended == [cgi EXCEPT ![s].life = "freed"]
<1>0. /\ cgi[s].life = "running" /\ ~wild /\ wild' = (cgi[s].told /\ ~nc.open)
      /\ IF cgi[s].told /\ ~wild'
         THEN cgi' = CG!FreeCgi(nc, ended) /\ nc' = [nc EXCEPT !.cgi = CG!NULL, !.sendAndClose = TRUE]
         ELSE cgi' = ended /\ nc' = nc
      /\ UNCHANGED <<wire, asked, served, eager>>
  BY Zenon DEF CG!CloseCgi
<1>1. CgTyped /\ CgDistinct /\ nc \in CgClient  BY DEF CgInductive, CgTyped
<1>2. /\ ended \in [Scripts -> CgProcess] /\ ended[s].life = "freed"
      /\ \A x \in Scripts : x # s => ended[x] = cgi[x]
      /\ ended[s].fed = cgi[s].fed /\ ended[s].left = cgi[s].left /\ ended[s].buf = cgi[s].buf
  <2>1. cgi \in [Scripts -> CgProcess]  BY <1>1 DEF CgTyped
  <2>2. ended \in [Scripts -> CgProcess]  BY <2>1, CgProcessField
  <2>3. /\ ended[s].life = "freed" /\ \A x \in Scripts : x # s => ended[x] = cgi[x]
        /\ ended[s].fed = cgi[s].fed /\ ended[s].left = cgi[s].left /\ ended[s].buf = cgi[s].buf
    BY <2>1 DEF CgProcess
  <2> QED  BY <2>2, <2>3
<1> HIDE DEF ended
<1>3. /\ cgi' \in [Scripts -> CgProcess]
      /\ \A x \in Scripts : cgi'[x].life = ended[x].life /\ cgi'[x].fed = ended[x].fed
                            /\ cgi'[x].left = ended[x].left /\ cgi'[x].buf = ended[x].buf
  BY <1>0, <1>1, <1>2, CgFree
<1> DEFINE one == [nc EXCEPT !.cgi = "NULL"]
           two == [one EXCEPT !.sendAndClose = TRUE]
<1>4. /\ two \in CgClient /\ two.cgi = "NULL" /\ two.buf = nc.buf /\ two.out = nc.out
      /\ two.open = nc.open /\ (two.user1 <=> nc.user1) /\ two.sendAndClose
  <2>1. one \in CgClient  BY <1>1, CgClientField
  <2>2. one.cgi = "NULL" /\ one.buf = nc.buf /\ one.out = nc.out /\ one.open = nc.open /\ one.user1 = nc.user1
    BY <1>1 DEF CgClient
  <2> HIDE DEF one
  <2>3. two \in CgClient  BY <2>1, CgClientField
  <2>4. /\ two.cgi = "NULL" /\ two.buf = nc.buf /\ two.out = nc.out /\ two.open = nc.open
        /\ two.user1 = nc.user1 /\ two.sendAndClose
    BY <2>1, <2>2 DEF CgClient
  <2> HIDE DEF two
  <2> QED  BY <2>3, <2>4
<1>5. nc' = IF cgi[s].told /\ ~wild' THEN two ELSE nc  BY <1>0, CgNull
<1> HIDE DEF one, two
<1>6. CgTyped'
  <2>1. nc' \in CgClient  BY <1>1, <1>4, <1>5
  <2>2. wild' \in BOOLEAN  BY <1>0
  <2> QED  BY <1>0, <1>1, <1>3, <2>1, <2>2 DEF CgTyped
<1>7. CgDistinct'
  <2>1. \A x \in Scripts : cgi[x].life # "unused" => cgi'[x].life # "unused"  BY <1>2, <1>3
  <2> QED  BY <1>0, <1>1, <2>1, CgStillDistinct
<1>8. CgOrderly'
  <2> SUFFICES ASSUME ~eager PROVE ~wild' /\ Len(asked') <= 1 /\ served' # <<>> /\ CgServed'
    BY <1>0 DEF CgOrderly
  <2>1. /\ Len(asked) = 1 /\ served # <<>> /\ s = served[1].script /\ CgServed
        /\ served[1].output \in Seq(CgLine)
    BY <1>0, CgTheOne
  <2>2. PICK o \in Seq(CgLine) : o = served[1].output  BY <2>1
  <2>3. /\ Len(served) = 1 /\ nc.buf = <<>> /\ wire = <<>>
        /\ \A x \in Scripts : x # s => cgi[x].life = "unused"
        /\ CgLinked(s) /\ cgi[s].fed = CG!RequestBody(1)
        /\ ~CG!BadHeaders(o) => CgHeaders(s, o) \/ CgAnswer(s, o)
    BY <2>1, <2>2 DEF CgServed
  <2>4. ~wild' /\ IF nc.open THEN nc' = two ELSE nc' = nc
    BY <1>0, <1>5, <2>3 DEF CgLinked
  <2>5. nc'.out = nc.out /\ nc'.buf = nc.buf /\ (nc'.user1 <=> nc.user1) /\ nc'.open = nc.open
    BY <1>4, <2>4
  <2>6. /\ cgi'[s].life = "freed" /\ cgi'[s].fed = cgi[s].fed /\ cgi'[s].left = cgi[s].left
        /\ cgi'[s].buf = cgi[s].buf
    BY <1>2, <1>3
  <2>7. CgLinked(s)'  BY <1>4, <2>4, <2>6 DEF CgLinked
  <2>8. ~CG!BadHeaders(o) => CgHeaders(s, o)' \/ CgAnswer(s, o)'
    BY <2>3, <2>5, <2>6 DEF CgHeaders, CgAnswer
  <2>9. /\ served'[1].script = s /\ served'[1].output = o /\ Len(served') = 1 /\ Len(asked') = 1
        /\ nc'.buf = <<>> /\ wire' = <<>>
        /\ \A x \in Scripts : x # s => cgi'[x].life = "unused"
    BY <1>0, <1>2, <1>3, <2>1, <2>2, <2>3, <2>5
  <2>10. cgi'[s].fed = CG!RequestBody(1)'  BY <1>0, <2>3, <2>6 DEF CG!RequestBody
  <2>11. CgServed'  BY <2>7, <2>8, <2>9, <2>10, Zenon DEF CgServed
  <2> QED  BY <1>0, <2>1, <2>4, <2>9, <2>11
<1> QED  BY <1>6, <1>7, <1>8 DEF CgInductive

LEMMA CgStep == CgInductive /\ [CG!Next]_(CG!vars) => CgInductive'
<1> SUFFICES ASSUME CgInductive, [CG!Next]_(CG!vars) PROVE CgInductive'
  OBVIOUS
<1>1. ASSUME NEW n \in Bodies, CG!Ask(n)  PROVE CgInductive'
  BY <1>1, CgAsk
<1>2. ASSUME NEW n \in Chunks, CG!Receive(n)  PROVE CgInductive'
  BY <1>2, CgReceive
<1>3. ASSUME NEW s \in Scripts, NEW n \in Chunks, CG!Output(s, n)  PROVE CgInductive'
  BY <1>3, CgOutput
<1>4. CASE CG!CloseClient
  BY <1>4, CgCloseClient
<1>5. ASSUME NEW s \in Scripts, CG!CloseCgi(s)  PROVE CgInductive'
  BY <1>5, CgCloseCgi
<1>6. CASE UNCHANGED CG!vars
  <2>1. UNCHANGED <<nc, wire, cgi, asked, served, eager, wild>>  BY <1>6 DEF CG!vars
  <2>2. CgTyped' /\ CgDistinct'  BY <2>1 DEF CgInductive, CgTyped, CgDistinct
  <2>3. CgNotServed <=> CgNotServed'
    BY <2>1 DEF CgNotServed, CgRequest, CG!RequestBody
  <2>4. CgServed <=> CgServed'
    BY <2>1 DEF CgServed, CgLinked, CgHeaders, CgAnswer, CG!RequestBody
  <2> QED  BY <2>1, <2>2, <2>3, <2>4 DEF CgInductive, CgOrderly
<1> QED  BY <1>1, <1>2, <1>3, <1>4, <1>5, <1>6, Zenon DEF CG!Next


LEMMA CgPrefix ==
  ASSUME NEW T, NEW a \in Seq(T), NEW z \in Seq(T)
  PROVE  CG!IsPrefix(a, a \o z)
<1>1. a \o z \in Seq(T) /\ Len(a \o z) = Len(a) + Len(z) /\ Len(a) \in Nat /\ Len(z) \in Nat
  BY ConcatProperties, LenProperties
<1>2. SubSeq(a, 1, Len(a)) = SubSeq(a \o z, 1, Len(a))
  <2>1. CASE Len(a) = 0
    <3>1. \A s \in Seq(T) : SubSeq(s, 1, 0) = <<>>  OBVIOUS
    <3> QED  BY <2>1, <3>1, <1>1
  <2>2. CASE Len(a) # 0
    <3>1. 1 \in 1..Len(a) /\ Len(a) \in 1..Len(a)  BY <1>1, <2>2
    <3> QED  BY <3>1, SubSeqOfConcat1
  <2> QED  BY <2>1, <2>2
<1>3. Len(a) <= Len(a \o z)  BY <1>1
<1> QED  BY <1>2, <1>3, Zenon DEF CG!IsPrefix

LEMMA CgScriptServed ==
  ASSUME CgInductive
  PROVE  CG!ScriptServed
<1> SUFFICES ASSUME ~eager, served # <<>>, ~CG!BadHeaders(served[1].output)
             PROVE  LET s == served[1].script
                        output == served[1].output
                        due == CG!Response(TRUE, output)
                    IN  /\ cgi[s].fed = CG!RequestBody(1)
                        /\ CG!IsPrefix(nc.out, due)
                        /\ nc.open /\ cgi[s].left = <<>> => nc.out = due
  BY Zenon DEF CG!ScriptServed
<1>1. CgServed /\ CgTyped  BY DEF CgInductive, CgOrderly
<1>2. served[1] \in CgService
  <2>1. 1 \in 1..Len(served) /\ served \in Seq(CgService)  BY <1>1 DEF CgTyped, CgServed
  <2> QED  BY <2>1, ElementOfSeq, Zenon
<1>3. PICK s \in Scripts, o \in Seq(CgLine) : s = served[1].script /\ o = served[1].output
  BY <1>2 DEF CgService
<1>4. cgi[s].fed = CG!RequestBody(1) /\ (CgHeaders(s, o) \/ CgAnswer(s, o))
  BY <1>1, <1>3 DEF CgServed
<1>5. PICK out \in Seq(CgLine), left \in Seq(CgLine), inbuf \in Seq(CgLine), due \in Seq(CgLine) :
         out = nc.out /\ left = cgi[s].left /\ inbuf = cgi[s].buf /\ due = CG!Response(TRUE, o)
  <2>1. nc.out \in Seq(CgLine) /\ cgi[s].left \in Seq(CgLine) /\ cgi[s].buf \in Seq(CgLine)
    BY <1>1 DEF CgTyped, CgClient, CgProcess
  <2>2. CG!Response(TRUE, o) \in Seq(CgLine)  BY CgResponseType
  <2> QED  BY <2>1, <2>2
<1>6. CASE CgHeaders(s, o)
  <2>1. out = <<>> /\ CG!HeaderLen(inbuf) = 0 /\ inbuf \o left = o  BY <1>5, <1>6 DEF CgHeaders
  <2>2. CG!IsPrefix(out, due)
    <3>1. <<>> \in Seq(CgLine)  OBVIOUS
    <3>2. CG!IsPrefix(<<>>, <<>> \o due)  BY <3>1, CgPrefix
    <3>3. <<>> \o due = due  BY ConcatEmptySeq
    <3> QED  BY <2>1, <3>2, <3>3
  <2>3. ASSUME left = <<>>  PROVE out = due
    <3>1. inbuf = o  BY <2>1, <2>3, ConcatEmptySeq
    <3>2. CG!HeaderLen(o) = 0  BY <2>1, <3>1
    <3> QED  BY <1>5, <2>1, <3>2 DEF CG!Response
  <2> QED  BY <1>3, <1>4, <1>5, <2>2, <2>3
<1>7. CASE CgAnswer(s, o)
  <2>1. CG!HeaderLen(o) # 0 /\ out \o left = <<CG!StatusLine(o)>> \o o  BY <1>5, <1>7 DEF CgAnswer
  <2>2. due = <<CG!StatusLine(o)>> \o o  BY <1>3, <1>5, <2>1 DEF CG!Response
  <2>3. out \o left = due  BY <2>1, <2>2
  <2>4. CG!IsPrefix(out, due)
    <3>1. CG!IsPrefix(out, out \o left)  BY CgPrefix
    <3> QED  BY <2>3, <3>1
  <2>5. left = <<>> => out = due  BY <2>3, ConcatEmptySeq
  <2> QED  BY <1>3, <1>4, <1>5, <2>4, <2>5
<1> QED  BY <1>4, <1>6, <1>7

LEMMA CgSound == CgInductive => CG!TypeOK /\ CG!ScriptServed /\ CG!CgiPaired
<1> SUFFICES ASSUME CgInductive PROVE CG!TypeOK /\ CG!ScriptServed /\ CG!CgiPaired
  OBVIOUS
<1>1. CgTyped /\ CgDistinct /\ CgOrderly  BY DEF CgInductive
<1>2. \A i \in 1..Len(served) : served[i].script \in Scripts
  <2> TAKE i \in 1..Len(served)
  <2>1. served[i] \in CgService  BY <1>1, ElementOfSeq DEF CgTyped
  <2> QED  BY <2>1 DEF CgService
<1>3. CG!TypeOK
  <2>1. Len(served) <= CG!Cardinality(Scripts)
    <3> DEFINE f == [i \in 1..Len(served) |-> served[i].script]
    <3>0. Len(served) \in Nat  BY <1>1, LenProperties DEF CgTyped
    <3>1. f \in Injection(1..Len(served), Scripts)
      BY <1>1, <1>2 DEF CgDistinct, Injection, IsInjective
    <3> HIDE DEF f
    <3>2. Cardinality(1..Len(served)) <= Cardinality(Scripts)
      BY <3>1, FS_Injection, ProtocolsAssumption
    <3>3. Cardinality(1..Len(served)) = Len(served)
      <4>1. 1 \in Int /\ Len(served) \in Int  BY <3>0
      <4>2. Cardinality(1..Len(served)) = IF 1 > Len(served) THEN 0 ELSE Len(served) - 1 + 1
        BY <4>1, FS_Interval
      <4> QED  BY <3>0, <4>2
    <3>4. CG!Cardinality(Scripts) = Cardinality(Scripts)
      BY Zenon DEF CG!Cardinality, Cardinality
    <3> QED  BY <3>2, <3>3, <3>4
  <2>2. nc.cgi \in Scripts \cup {CG!NULL} /\ {nc.open, nc.user1, nc.sendAndClose, eager, wild} \subseteq BOOLEAN
    BY <1>1, CgNull DEF CgTyped, CgClient
  <2>3. \A s \in Scripts : cgi[s].life \in {"unused", "running", "freed"} /\ {cgi[s].told, cgi[s].closeNow} \subseteq BOOLEAN
    BY <1>1 DEF CgTyped, CgProcess
  <2> QED  BY <2>1, <2>2, <2>3 DEF CG!TypeOK
<1>4. CG!CgiPaired
  <2>0. "NULL" \notin Scripts  BY ProtocolsAssumption DEF NULL
  <2> SUFFICES ASSUME ~eager
               PROVE  /\ ~wild
                      /\ nc.open /\ served # <<>> /\ ~nc.sendAndClose => nc.cgi # "NULL"
                      /\ \A s \in Scripts : nc.cgi = s /\ nc.open => cgi[s].life = "running" /\ cgi[s].told
                      /\ \A s \in Scripts : cgi[s].life = "running" /\ cgi[s].told => nc.open
    BY CgNull DEF CG!CgiPaired
  <2>1. ~wild /\ IF served = <<>> THEN CgNotServed ELSE CgServed  BY <1>1 DEF CgOrderly
  <2>2. CASE served = <<>>
    <3>1. CgNotServed  BY <2>1, <2>2
    <3> QED  BY <2>0, <2>1, <2>2, <3>1 DEF CgNotServed
  <2>3. CASE served # <<>>
    <3>1. CgServed  BY <2>1, <2>3
    <3>2. served[1].script \in Scripts  BY <1>2, <3>1 DEF CgServed
    <3>3. PICK s \in Scripts : s = served[1].script  BY <3>2
    <3>4. CgLinked(s) /\ \A x \in Scripts : x # s => cgi[x].life = "unused"  BY <3>1, <3>3 DEF CgServed
    <3> QED  BY <2>0, <2>1, <3>4 DEF CgLinked
  <2> QED  BY <2>2, <2>3
<1> QED  BY <1>3, <1>4, CgScriptServed
-----------------------------------------------------------------------------
\* For any scripts, outputs, bodies and ways to cut what is read, a client that
\* waits for its answer gets what the headers of the output call for and the
\* output in order, the script gets the body, and of the two connections neither
\* uses the other after its end (mg_handle_cgi, mg_cgi_ev_handler).
THEOREM ScriptsAnswered == CG!Spec => []CgiScripts
<1>1. CgInductive => CgiScripts  BY CgSound DEF CgiScripts
<1> QED  BY <1>1, CgInit, CgStep, PTL DEF CG!Spec
-----------------------------------------------------------------------------
(* FileUpload: the connections and the disk, as parameters: the end of a part  *)
(* and the begin of the next are one step of the code and two of the proof.    *)

UpPart == [file : Names \cup RefusedNames, data : Seq(Nat)]
UpFus == [lfn : Names, fp : Nat, numRecd : Nat, pos : Nat, buffer : Seq(Nat), shared : BOOLEAN]
UpAnswer == [part : Nat, status : {200, 403, 413, 500}]
UpPost == [request : UploadRequests, part : Nat, inPart : BOOLEAN, received : Nat, fus : UpFus \cup {UP!NULL},
           answers : Seq(UpAnswer), sendAndClose : BOOLEAN, closed : BOOLEAN]
UpDisk == [names : [Names -> Nat], contents : Seq(Seq(Nat))]

UpNow(p) == p.request[p.part]
UpWrites(p) == ~p.closed /\ UP!Open(p.fus)

\* How often part i was answered.
UpNone(p, i) == \A k \in 1..Len(p.answers) : p.answers[k].part # i
UpOne(p, i) ==
    \E k \in 1..Len(p.answers) :
        p.answers[k].part = i /\ \A j \in 1..Len(p.answers) : p.answers[j].part = i => j = k

\* Each part before this one was answered once, and this one unless its file is open.
UpTold(p) ==
    /\ \A k \in 1..Len(p.answers) : p.answers[k].part \in 1..p.part
    /\ \A i \in 1..p.part : UpOne(p, i) \/ (i = p.part /\ UpNone(p, i))
    /\ p.part > 0 /\ ~p.closed => IF UP!Open(p.fus) THEN UpNone(p, p.part) ELSE UpOne(p, p.part)

\* An open file is there, under no name but the upload's.
UpOpened(p, d) ==
    UP!Open(p.fus) => /\ p.fus.fp \in 1..Len(d.contents)
                      /\ \A f \in Names : d.names[f] = p.fus.fp => f = p.fus.lfn

UpConn(p) ==
    /\ p \in UpPost /\ p.part <= Len(p.request)
    /\ p.inPart /\ ~p.closed => p.part > 0 /\ p.received <= Len(UpNow(p).data)
    /\ ~p.inPart /\ ~p.closed => p.fus = UP!NULL
    /\ UpWrites(p) => p.fus.numRecd = p.received /\ p.fus.lfn = UpNow(p).file
    /\ UpTold(p)

\* The file of an upload that shares it with none holds what was written, and its
\* buffer the rest of what was received.
UpKept(p, d) ==
    /\ d.names[p.fus.lfn] = p.fus.fp
    /\ p.fus.pos <= p.received
    /\ d.contents[p.fus.fp] = SubSeq(UpNow(p).data, 1, p.fus.pos)
    /\ p.fus.buffer = SubSeq(UpNow(p).data, p.fus.pos + 1, p.received)
UpAlone(ps, d, c) ==
    UpWrites(ps[c]) /\ ~ps[c].fus.shared =>
        /\ UpKept(ps[c], d)
        /\ \A x \in Uploaders \ {c} : UpWrites(ps[x]) => ps[x].fus.fp # ps[c].fus.fp

\* No two names are of the same file.
UpNamed(d) ==
    /\ d \in UpDisk
    /\ \A f \in Names : d.names[f] <= Len(d.contents)
    /\ \A f, g \in Names : d.names[f] = d.names[g] /\ d.names[f] # 0 => f = g

UpFound(ps, d, st) ==
    \A f \in Names : d.names[f] # 0 =>
        \/ \E s \in st : s.fp = d.names[f]
        \/ \E c \in Uploaders : UP!Open(ps[c].fus) /\ ps[c].fus.fp = d.names[f]

\* What a record of an answer "200 OK" must say.
UpWhole(s) ==
    /\ s.said = Len(s.part.data)
    /\ ~s.shared => /\ s.named
                    /\ UP!IsPrefix(s.contents, s.part.data)
                    /\ ~s.short => s.contents = s.part.data

UpHolds(ps, d, st) ==
    /\ DOMAIN ps = Uploaders /\ UpNamed(d)
    /\ \A c \in Uploaders : UpConn(ps[c]) /\ UpOpened(ps[c], d) /\ UpAlone(ps, d, c)
    /\ \A s \in st : UpWhole(s)
    /\ UpFound(ps, d, st)

UpInductive == UpHolds(posts, disk, stored)

-----------------------------------------------------------------------------
(* What is written to a file *)

LEMMA UpMax ==
  ASSUME NEW a \in Nat, NEW b \in Nat
  PROVE  UP!Max({a, b}) \in Nat /\ UP!Max({a, b}) = IF a < b THEN b ELSE a
<1>1. \E x \in {a, b} : \A y \in {a, b} : x >= y  OBVIOUS
<1>2. UP!Max({a, b}) \in {a, b} /\ \A y \in {a, b} : UP!Max({a, b}) >= y  BY <1>1, Zenon DEF UP!Max
<1> QED  BY <1>2

LEMMA UpPiece ==
  ASSUME NEW D \in Seq(Nat), NEW a \in Nat, NEW b \in Nat, a <= b, b <= Len(D)
  PROVE  /\ SubSeq(D, a + 1, b) \in Seq(Nat) /\ Len(SubSeq(D, a + 1, b)) = b - a
         /\ \A i \in 1..(b - a) : SubSeq(D, a + 1, b)[i] = D[a + i]
<1>1. Len(D) \in Nat  BY LenProperties
<1>2. a + 1 \in Int /\ b \in Int  OBVIOUS
<1>3. \A i \in (a + 1)..b : D[i] \in Nat
  <2> TAKE i \in (a + 1)..b
  <2>1. i \in 1..Len(D)  BY <1>1
  <2> QED  BY <2>1, ElementOfSeq
<1> DEFINE m == a + 1
           s == SubSeq(D, m, b)
<1>4. m \in Int /\ m = a + 1  OBVIOUS
<1>5. \A i \in m..b : D[i] \in Nat  BY <1>3
<1> HIDE DEF m
<1>6. /\ s \in Seq(Nat) /\ Len(s) = (IF m <= b THEN b - m + 1 ELSE 0)
      /\ \A i \in 1..(b - m + 1) : s[i] = D[m + i - 1]
  BY <1>2, <1>4, <1>5, SubSeqProperties
<1> HIDE DEF s
<1>7. Len(s) = b - a  BY <1>4, <1>6
<1>8. \A i \in 1..(b - a) : s[i] = D[a + i]
  <2> TAKE i \in 1..(b - a)
  <2>1. i \in 1..(b - m + 1) /\ m + i - 1 = a + i  BY <1>4
  <2>2. s[i] = D[m + i - 1]  BY <1>6, <2>1
  <2> QED  BY <2>1, <2>2
<1> QED  BY <1>6, <1>7, <1>8 DEF s, m

LEMMA UpFirst ==
  ASSUME NEW D \in Seq(Nat), NEW b \in Nat, b <= Len(D)
  PROVE  /\ SubSeq(D, 1, b) \in Seq(Nat) /\ Len(SubSeq(D, 1, b)) = b
         /\ \A i \in 1..b : SubSeq(D, 1, b)[i] = D[i]
<1>1. Len(D) \in Nat  BY LenProperties
<1> QED  BY <1>1

LEMMA UpWrittenType ==
  ASSUME NEW old \in Seq(Nat), NEW pos \in Nat, NEW data \in Seq(Nat)
  PROVE  UP!Written(old, pos, data) \in Seq(Nat)
<1>1. Len(old) \in Nat /\ Len(data) \in Nat /\ pos + Len(data) \in Nat  BY LenProperties
<1> DEFINE len == UP!Max({Len(old), pos + Len(data)})
           at(i) == IF i \in (pos + 1)..(pos + Len(data)) THEN data[i - pos]
                    ELSE IF i <= Len(old) THEN old[i] ELSE 0
<1>2. len \in Nat  BY <1>1, UpMax
<1>3. UP!Written(old, pos, data) = [i \in 1..len |-> at(i)]  BY DEF UP!Written
<1> HIDE DEF len
<1>4. \A i \in 1..len : at(i) \in Nat
  <2> TAKE i \in 1..len
  <2>1. i \in Nat /\ i >= 1  BY <1>2
  <2>2. CASE i \in (pos + 1)..(pos + Len(data))
    <3>1. i - pos \in 1..Len(data)  BY <1>1, <2>1, <2>2
    <3>2. data[i - pos] \in Nat  BY <3>1, ElementOfSeq
    <3> QED  BY <2>2, <3>2
  <2>3. CASE ~(i \in (pos + 1)..(pos + Len(data))) /\ i <= Len(old)
    <3>1. i \in 1..Len(old)  BY <1>1, <2>1, <2>3
    <3>2. old[i] \in Nat  BY <3>1, ElementOfSeq
    <3> QED  BY <2>3, <3>2
  <2> QED  BY <2>2, <2>3
<1> HIDE DEF at
<1> QED  BY <1>2, <1>3, <1>4

\* What comes next of D, behind the first a bytes of it.
LEMMA UpWrittenNext ==
  ASSUME NEW D \in Seq(Nat), NEW a \in Nat, NEW b \in Nat, a <= b, b <= Len(D)
  PROVE  UP!Written(SubSeq(D, 1, a), a, SubSeq(D, a + 1, b)) = SubSeq(D, 1, b)
<1> DEFINE old == SubSeq(D, 1, a)
           data == SubSeq(D, a + 1, b)
           new == SubSeq(D, 1, b)
           w == UP!Written(old, a, data)
<1>1. Len(D) \in Nat  BY LenProperties
<1>2. old \in Seq(Nat) /\ Len(old) = a /\ \A i \in 1..a : old[i] = D[i]  BY <1>1, UpFirst
<1>3. data \in Seq(Nat) /\ Len(data) = b - a /\ \A i \in 1..(b - a) : data[i] = D[a + i]  BY UpPiece
<1>4. new \in Seq(Nat) /\ Len(new) = b /\ \A i \in 1..b : new[i] = D[i]  BY UpFirst
<1> HIDE DEF old, data, new
<1>5. UP!Max({Len(old), a + Len(data)}) = b
  <2>1. Len(old) = a /\ a + Len(data) = b  BY <1>2, <1>3
  <2>2. UP!Max({a, b}) = b  BY UpMax
  <2> QED  BY <2>1, <2>2
<1>6. w = [i \in 1..b |-> IF i \in (a + 1)..(a + Len(data)) THEN data[i - a]
                          ELSE IF i <= Len(old) THEN old[i] ELSE 0]
  BY <1>5 DEF UP!Written
<1>7. \A i \in 1..b : w[i] = D[i]
  <2> TAKE i \in 1..b
  <2>1. a + Len(data) = b  BY <1>3
  <2>2. w[i] = IF i \in (a + 1)..b THEN data[i - a] ELSE IF i <= a THEN old[i] ELSE 0
    BY <1>2, <1>6, <2>1
  <2>3. CASE i \in (a + 1)..b
    <3>1. i - a \in 1..(b - a) /\ a + (i - a) = i  BY <2>3
    <3> QED  BY <1>3, <2>2, <2>3, <3>1
  <2>4. CASE i \notin (a + 1)..b
    <3>1. i \in 1..a /\ i <= a  BY <2>4
    <3> QED  BY <1>2, <2>2, <2>4, <3>1
  <2> QED  BY <2>3, <2>4
<1>8. w \in Seq(Nat) /\ Len(w) = b
  <2>1. w \in Seq(Nat)  BY <1>2, <1>3, UpWrittenType
  <2>2. DOMAIN w = 1..b  BY <1>6
  <2> HIDE DEF w
  <2> QED  BY <2>1, <2>2, LenProperties
<1> HIDE DEF w
<1>9. w = new  BY <1>4, <1>7, <1>8, SeqEqual
<1> QED  BY <1>9 DEF w, old, data, new

LEMMA UpJoined ==
  ASSUME NEW D \in Seq(Nat), NEW a \in Nat, NEW b \in Nat, NEW e \in Nat, a <= b, b <= e, e <= Len(D)
  PROVE  SubSeq(D, a + 1, b) \o SubSeq(D, b + 1, e) = SubSeq(D, a + 1, e)
<1> DEFINE u == SubSeq(D, a + 1, b)
           v == SubSeq(D, b + 1, e)
           w == SubSeq(D, a + 1, e)
<1>0. Len(D) \in Nat  BY LenProperties
<1>1. u \in Seq(Nat) /\ Len(u) = b - a /\ \A i \in 1..(b - a) : u[i] = D[a + i]  BY <1>0, UpPiece
<1>2. v \in Seq(Nat) /\ Len(v) = e - b /\ \A i \in 1..(e - b) : v[i] = D[b + i]  BY <1>0, UpPiece
<1>3. w \in Seq(Nat) /\ Len(w) = e - a /\ \A i \in 1..(e - a) : w[i] = D[a + i]  BY <1>0, UpPiece
<1> HIDE DEF u, v, w
<1>4. /\ u \o v \in Seq(Nat) /\ Len(u \o v) = e - a
      /\ \A i \in 1..(e - a) : (u \o v)[i] = IF i <= b - a THEN u[i] ELSE v[i - (b - a)]
  <2>1. Len(u) + Len(v) = e - a  BY <1>1, <1>2
  <2>2. /\ u \o v \in Seq(Nat) /\ Len(u \o v) = Len(u) + Len(v)
        /\ \A i \in 1..(Len(u) + Len(v)) : (u \o v)[i] = IF i <= Len(u) THEN u[i] ELSE v[i - Len(u)]
    BY <1>1, <1>2, ConcatProperties
  <2>3. Len(u) = b - a  BY <1>1
  <2> QED  BY <2>1, <2>2, <2>3
<1>5. \A i \in 1..(e - a) : (u \o v)[i] = w[i]
  <2> TAKE i \in 1..(e - a)
  <2>1. CASE i <= b - a
    <3>1. i \in 1..(b - a)  BY <2>1
    <3> QED  BY <1>1, <1>3, <1>4, <2>1, <3>1
  <2>2. CASE ~(i <= b - a)
    <3>1. i - (b - a) \in 1..(e - b) /\ b + (i - (b - a)) = a + i  BY <2>2
    <3> QED  BY <1>2, <1>3, <1>4, <2>2, <3>1
  <2> QED  BY <2>1, <2>2
<1>6. u \o v = w  BY <1>3, <1>4, <1>5, SeqEqual
<1> QED  BY <1>6 DEF u, v, w

LEMMA UpSub ==
  ASSUME NEW s \in Seq(Nat)
  PROVE  /\ SubSeq(s, 1, Len(s)) = s /\ SubSeq(s, 1, 0) = <<>>
         /\ \A n \in 0..Len(s) : SubSeq(s, 1, n) \in Seq(Nat)
<1>1. Len(s) \in Nat  BY LenProperties
<1>2. SubSeq(s, 1, 0) = <<>>  OBVIOUS
<1>3. \A n \in 0..Len(s) : SubSeq(s, 1, n) \in Seq(Nat)  BY <1>1
<1>4. SubSeq(s, 1, Len(s)) = s
  <2> DEFINE w == SubSeq(s, 1, Len(s))
  <2>1. w \in Seq(Nat) /\ Len(w) = Len(s) /\ \A i \in 1..Len(s) : w[i] = s[i]  BY <1>1, UpFirst
  <2> HIDE DEF w
  <2>2. w = s  BY <2>1, <1>1, SeqEqual
  <2> QED  BY <2>2 DEF w
<1> QED  BY <1>2, <1>3, <1>4

-----------------------------------------------------------------------------
(* What each part was answered *)

LEMMA UpNotNull ==
  ASSUME NEW f \in UpFus
  PROVE  f # UP!NULL
<1>1. DOMAIN f = {"lfn", "fp", "numRecd", "pos", "buffer", "shared"}  BY DEF UpFus
<1>2. DOMAIN UP!NULL = {"null"}  BY DEF UP!NULL
<1>3. "lfn" \notin {"null"}  OBVIOUS
<1> QED  BY <1>1, <1>2, <1>3

LEMMA UpOpen ==
  ASSUME NEW f \in UpFus \cup {UP!NULL}
  PROVE  UP!Open(f) <=> f \in UpFus /\ f.fp # 0
<1>1. f # UP!NULL <=> f \in UpFus  BY UpNotNull
<1> QED  BY <1>1, Zenon DEF UP!Open

UpAdds(p, q, a) ==
    /\ q.answers \in Seq(UpAnswer)
    /\ \A i : a.part # i /\ UpOne(p, i) => UpOne(q, i)
    /\ \A i : a.part # i /\ UpNone(p, i) => UpNone(q, i)
    /\ UpNone(p, a.part) => UpOne(q, a.part)
    /\ \A k \in 1..Len(q.answers) :
          q.answers[k] = a \/ (k \in 1..Len(p.answers) /\ q.answers[k] = p.answers[k])

LEMMA UpAppended ==
  ASSUME NEW p, NEW q, NEW a \in UpAnswer, p.answers \in Seq(UpAnswer), q.answers = Append(p.answers, a)
  PROVE  UpAdds(p, q, a)
<1> DEFINE s == p.answers
           t == q.answers
<1>1. /\ Len(s) \in Nat /\ t \in Seq(UpAnswer) /\ Len(t) = Len(s) + 1
      /\ \A k \in 1..Len(s) : t[k] = s[k]
      /\ t[Len(s) + 1] = a
  BY LenProperties, AppendProperties
<1> HIDE DEF s, t
<1>2. \A k \in 1..Len(t) : (k = Len(t) /\ t[k] = a) \/ (k \in 1..Len(s) /\ t[k] = s[k])
  BY <1>1
<1>3. \A k \in 1..Len(s) : k \in 1..Len(t) /\ k # Len(t) /\ t[k] = s[k]  BY <1>1
<1>4. Len(t) \in 1..Len(t) /\ t[Len(t)] = a  BY <1>1
<1>5. ASSUME NEW i, a.part # i, UpOne(p, i)  PROVE UpOne(q, i)
  <2>1. PICK k \in 1..Len(s) : s[k].part = i /\ \A j \in 1..Len(s) : s[j].part = i => j = k
    BY <1>5, Zenon DEF UpOne, s
  <2>2. k \in 1..Len(t) /\ t[k].part = i  BY <1>3, <2>1
  <2>3. \A j \in 1..Len(t) : t[j].part = i => j = k
    <3> TAKE j \in 1..Len(t)
    <3> HAVE t[j].part = i
    <3> QED  BY <1>2, <1>5, <2>1
  <2> QED  BY <2>2, <2>3, Zenon DEF UpOne, t
<1>6. ASSUME NEW i, a.part # i, UpNone(p, i)  PROVE UpNone(q, i)
  <2>1. \A k \in 1..Len(s) : s[k].part # i  BY <1>6, Zenon DEF UpNone, s
  <2>2. \A k \in 1..Len(t) : t[k].part # i  BY <1>2, <1>6, <2>1
  <2> QED  BY <2>2, Zenon DEF UpNone, t
<1>7. ASSUME UpNone(p, a.part)  PROVE UpOne(q, a.part)
  <2>1. \A k \in 1..Len(s) : s[k].part # a.part  BY <1>7, Zenon DEF UpNone, s
  <2>2. \A j \in 1..Len(t) : t[j].part = a.part => j = Len(t)  BY <1>2, <2>1
  <2> QED  BY <1>4, <2>2, Zenon DEF UpOne, t
<1> QED  BY <1>1, <1>2, <1>5, <1>6, <1>7 DEF UpAdds, s, t

\* A part that begins, answered at once or open.
LEMMA UpToldNext ==
  ASSUME NEW p \in UpPost, NEW q \in UpPost, UpTold(p), ~UP!Open(p.fus), ~p.closed,
         q.part = p.part + 1,
         \/ UP!Open(q.fus) /\ q.answers = p.answers
         \/ /\ ~UP!Open(q.fus)
            /\ \E a \in UpAnswer : a.part = p.part + 1 /\ q.answers = Append(p.answers, a)
  PROVE  UpTold(q)
<1> DEFINE P == p.part
<1>0. P \in Nat /\ q.part = P + 1 /\ p.answers \in Seq(UpAnswer)  BY DEF UpPost
<1>1. \A k \in 1..Len(p.answers) : p.answers[k].part \in 1..P  BY DEF UpTold
<1>2. \A i \in 1..P : UpOne(p, i)
  <2> TAKE i \in 1..P
  <2>1. CASE i = P
    <3>1. P > 0  BY <1>0, <2>1
    <3> QED  BY <2>1, <3>1, Zenon DEF UpTold
  <2>2. CASE i # P  BY <2>2, Zenon DEF UpTold
  <2> QED  BY <2>1, <2>2
<1>3. UpNone(p, P + 1)  BY <1>0, <1>1 DEF UpNone
<1> HIDE DEF P
<1>4. \A i \in 1..(P + 1) : (i \in 1..P /\ i # P + 1) \/ i = P + 1  BY <1>0
<1>5. CASE UP!Open(q.fus) /\ q.answers = p.answers
  <2>1. \A i : (UpOne(q, i) <=> UpOne(p, i)) /\ (UpNone(q, i) <=> UpNone(p, i))
    BY <1>5, Zenon DEF UpOne, UpNone
  <2>2. \A k \in 1..Len(q.answers) : q.answers[k].part \in 1..(P + 1)
    <3>1. \A n \in 1..P : n \in 1..(P + 1)  BY <1>0
    <3> QED  BY <1>1, <1>5, <3>1 DEF P
  <2> QED  BY <1>0, <1>2, <1>3, <1>4, <1>5, <2>1, <2>2, Zenon DEF UpTold
<1>6. CASE ~UP!Open(q.fus) /\ \E a \in UpAnswer : a.part = p.part + 1 /\ q.answers = Append(p.answers, a)
  <2>1. PICK a \in UpAnswer : a.part = P + 1 /\ q.answers = Append(p.answers, a)  BY <1>6 DEF P
  <2>2. /\ \A i : a.part # i /\ UpOne(p, i) => UpOne(q, i)
        /\ UpNone(p, a.part) => UpOne(q, a.part)
        /\ \A k \in 1..Len(q.answers) :
               q.answers[k] = a \/ (k \in 1..Len(p.answers) /\ q.answers[k] = p.answers[k])
    BY <1>0, <2>1, UpAppended DEF UpAdds
  <2>3. \A i \in 1..(P + 1) : UpOne(q, i)  BY <1>2, <1>3, <1>4, <2>1, <2>2, Zenon
  <2>4. \A k \in 1..Len(q.answers) : q.answers[k].part \in 1..(P + 1)
    <3>1. P + 1 \in 1..(P + 1) /\ \A n \in 1..P : n \in 1..(P + 1)  BY <1>0
    <3> QED  BY <1>1, <2>1, <2>2, <3>1 DEF P
  <2>5. P + 1 \in 1..(P + 1)  BY <1>0
  <2> QED  BY <1>0, <1>6, <2>3, <2>4, <2>5, Zenon DEF UpTold
<1> QED  BY <1>5, <1>6, Zenon

\* A part whose file was open, and that is answered.
LEMMA UpToldNow ==
  ASSUME NEW p \in UpPost, NEW q \in UpPost, NEW a \in UpAnswer, UpTold(p), UP!Open(p.fus), ~p.closed, ~UP!Open(q.fus),
         p.part > 0, q.part = p.part,
         a.part = p.part, q.answers = Append(p.answers, a)
  PROVE  UpTold(q)
<1> DEFINE P == p.part
<1>0. P \in Nat /\ q.part = P /\ P > 0 /\ p.answers \in Seq(UpAnswer) /\ P \in 1..P  BY DEF UpPost
<1>1. /\ \A k \in 1..Len(p.answers) : p.answers[k].part \in 1..P
      /\ UpNone(p, P) /\ \A i \in 1..P : UpOne(p, i) \/ i = P
  BY <1>0, Zenon DEF UpTold
<1> HIDE DEF P
<1>2. a.part = P  BY DEF P
<1>3. /\ \A i : a.part # i /\ UpOne(p, i) => UpOne(q, i)
      /\ UpNone(p, a.part) => UpOne(q, a.part)
      /\ \A k \in 1..Len(q.answers) :
             q.answers[k] = a \/ (k \in 1..Len(p.answers) /\ q.answers[k] = p.answers[k])
  <2>1. p.answers \in Seq(UpAnswer) /\ q.answers = Append(p.answers, a) /\ a \in UpAnswer  BY <1>0
  <2> QED  BY <2>1, UpAppended DEF UpAdds
<1>4. \A i \in 1..P : UpOne(q, i)  BY <1>1, <1>2, <1>3, Zenon
<1>5. \A k \in 1..Len(q.answers) : q.answers[k].part \in 1..P  BY <1>0, <1>1, <1>2, <1>3
<1> QED  BY <1>0, <1>4, <1>5, Zenon DEF UpTold

\* Nothing is answered, and the part is not open and closed at once.
LEMMA UpToldStill ==
  ASSUME NEW p, NEW q, UpTold(p), q.part = p.part, q.answers = p.answers,
         ~q.closed => ~p.closed /\ (UP!Open(q.fus) <=> UP!Open(p.fus))
  PROVE  UpTold(q)
<1>1. \A i : (UpOne(q, i) <=> UpOne(p, i)) /\ (UpNone(q, i) <=> UpNone(p, i))
  BY Zenon DEF UpOne, UpNone
<1> QED  BY <1>1, Zenon DEF UpTold

-----------------------------------------------------------------------------
(* What a step of one connection leaves to the others *)

UpLike(p, q) ==
    /\ q \in UpPost /\ q.request = p.request /\ q.part = p.part /\ q.inPart = p.inPart
    /\ q.received = p.received /\ q.answers = p.answers /\ q.closed = p.closed
    /\ \/ q.fus = p.fus
       \/ /\ p.fus \in UpFus /\ q.fus \in UpFus /\ q.fus.shared
          /\ q.fus.lfn = p.fus.lfn /\ q.fus.fp = p.fus.fp /\ q.fus.numRecd = p.fus.numRecd

UpMore(d, d1) ==
    /\ Len(d.contents) <= Len(d1.contents)
    /\ \A f \in Names : d1.names[f] = d.names[f] \/ d1.names[f] = 0 \/ d1.names[f] > Len(d.contents)

\* An upload in progress that may be found whole in the end has its file for itself.
UpUntouched(p, d, d1, q) ==
    UpWrites(p) /\ ~p.fus.shared =>
        /\ d1.names[p.fus.lfn] = d.names[p.fus.lfn]
        /\ d1.contents[p.fus.fp] = d.contents[p.fus.fp]
        /\ UpWrites(q) => q.fus.fp # p.fus.fp

\* A name's file is the one it had, or the one that was opened.
UpRenamed(p, q, d, d1, st1) ==
    /\ \A f \in Names : d1.names[f] # 0 =>
          d1.names[f] = d.names[f] \/ (UP!Open(q.fus) /\ q.fus.fp = d1.names[f])
    /\ UP!Open(p.fus) => \/ UP!Open(q.fus) /\ q.fus.fp = p.fus.fp
                         \/ \E s \in st1 : s.fp = p.fus.fp
                         \/ \A f \in Names : d1.names[f] # p.fus.fp

\* A step of c.
UpMoves(c, ps, d, st, ps1, d1, st1) ==
    /\ DOMAIN ps1 = Uploaders
    /\ \A x \in Uploaders \ {c} : UpLike(ps[x], ps1[x]) /\ UpUntouched(ps1[x], d, d1, ps1[c])
    /\ UpNamed(d1) /\ UpMore(d, d1) /\ UpRenamed(ps[c], ps1[c], d, d1, st1)
    /\ UpConn(ps1[c]) /\ UpOpened(ps1[c], d1)
    /\ UpWrites(ps1[c]) /\ ~ps1[c].fus.shared => UpKept(ps1[c], d1)
    /\ UpWrites(ps1[c]) /\ ~ps1[c].fus.shared =>
          \A x \in Uploaders \ {c} : UpWrites(ps[x]) => ps[x].fus.fp # ps1[c].fus.fp
    /\ st \subseteq st1 /\ \A s \in st1 : UpWhole(s)

LEMMA UpLikeSelf ==
  ASSUME NEW p \in UpPost
  PROVE  UpLike(p, p)
BY DEF UpLike

LEMMA UpMarked ==
  ASSUME NEW p \in UpPost, p.fus # UP!NULL
  PROVE  UpLike(p, [p EXCEPT !.fus.shared = TRUE]) /\ [p EXCEPT !.fus.shared = TRUE].fus.shared
<1> DEFINE f == [p.fus EXCEPT !.shared = TRUE]
           q == [p EXCEPT !.fus = f]
<1>1. p.fus \in UpFus  BY DEF UpPost
<1>2. /\ f \in UpFus /\ f.shared /\ f.lfn = p.fus.lfn /\ f.fp = p.fus.fp /\ f.numRecd = p.fus.numRecd
  BY <1>1 DEF UpFus
<1> HIDE DEF f
<1>3. /\ q \in UpPost /\ q.request = p.request /\ q.part = p.part /\ q.inPart = p.inPart
      /\ q.received = p.received /\ q.answers = p.answers /\ q.closed = p.closed /\ q.fus = f
  BY <1>2 DEF UpPost
<1>4. q = [p EXCEPT !.fus.shared = TRUE]  BY DEF f
<1> HIDE DEF q
<1>5. UpLike(p, q) /\ q.fus.shared  BY <1>1, <1>2, <1>3, Zenon DEF UpLike
<1> QED  BY <1>4, <1>5

LEMMA UpLikeFus ==
  ASSUME NEW p \in UpPost, NEW q, UpLike(p, q)
  PROVE  /\ UP!Open(q.fus) <=> UP!Open(p.fus)
         /\ UpWrites(q) <=> UpWrites(p)
         /\ q.fus = UP!NULL <=> p.fus = UP!NULL
         /\ UP!Open(p.fus) => q.fus.fp = p.fus.fp /\ q.fus.lfn = p.fus.lfn /\ q.fus.numRecd = p.fus.numRecd
         /\ UpWrites(q) /\ ~q.fus.shared => q.fus = p.fus
<1>1. p.fus \in UpFus \cup {UP!NULL} /\ q.fus \in UpFus \cup {UP!NULL}  BY DEF UpLike, UpPost
<1>2. CASE q.fus = p.fus  BY <1>2, Zenon DEF UpLike, UpWrites
<1>3. CASE /\ p.fus \in UpFus /\ q.fus \in UpFus /\ q.fus.shared
           /\ q.fus.lfn = p.fus.lfn /\ q.fus.fp = p.fus.fp /\ q.fus.numRecd = p.fus.numRecd
  <2>1. q.fus # UP!NULL /\ p.fus # UP!NULL  BY <1>3, UpNotNull
  <2>2. UP!Open(q.fus) <=> UP!Open(p.fus)  BY <1>3, <2>1, Zenon DEF UP!Open
  <2> QED  BY <1>3, <2>1, <2>2, Zenon DEF UpLike, UpWrites
<1> QED  BY <1>2, <1>3, Zenon DEF UpLike

LEMMA UpLikeConn ==
  ASSUME NEW p \in UpPost, NEW q, UpLike(p, q), UpConn(p)
  PROVE  UpConn(q)
<1>1. /\ q \in UpPost /\ q.request = p.request /\ q.part = p.part /\ q.inPart = p.inPart
      /\ q.received = p.received /\ q.answers = p.answers /\ q.closed = p.closed
  BY DEF UpLike
<1>2. UpTold(q)  BY <1>1, UpLikeFus, UpToldStill, Zenon DEF UpConn
<1>3. UpNow(q) = UpNow(p)  BY <1>1, Zenon DEF UpNow
<1>4. UpWrites(q) => UpWrites(p) /\ UP!Open(p.fus)  BY UpLikeFus, Zenon DEF UpWrites
<1>5. UpWrites(q) => q.fus.numRecd = q.received /\ q.fus.lfn = UpNow(q).file
  BY <1>1, <1>3, <1>4, UpLikeFus, Zenon DEF UpConn
<1>6. ~q.inPart /\ ~q.closed => q.fus = UP!NULL  BY <1>1, UpLikeFus, Zenon DEF UpConn
<1>7. q.inPart /\ ~q.closed => q.part > 0 /\ q.received <= Len(UpNow(q).data)
  BY <1>1, <1>3, Zenon DEF UpConn
<1>8. q.part <= Len(q.request)  BY <1>1, Zenon DEF UpConn
<1> QED  BY <1>1, <1>2, <1>5, <1>6, <1>7, <1>8, Zenon DEF UpConn

LEMMA UpLikeOpened ==
  ASSUME NEW p \in UpPost, NEW q, UpLike(p, q), NEW d \in UpDisk, NEW d1 \in UpDisk,
         UpOpened(p, d), UpMore(d, d1)
  PROVE  UpOpened(q, d1)
<1> SUFFICES ASSUME UP!Open(q.fus)
             PROVE  /\ q.fus.fp \in 1..Len(d1.contents)
                    /\ \A f \in Names : d1.names[f] = q.fus.fp => f = q.fus.lfn
  BY Zenon DEF UpOpened
<1>1. UP!Open(p.fus) /\ q.fus.fp = p.fus.fp /\ q.fus.lfn = p.fus.lfn  BY UpLikeFus, Zenon
<1> DEFINE n == p.fus.fp
<1>2. n \in 1..Len(d.contents) /\ \A f \in Names : d.names[f] = n => f = p.fus.lfn
  BY <1>1, Zenon DEF UpOpened
<1>3. Len(d.contents) \in Nat /\ Len(d1.contents) \in Nat  BY LenProperties DEF UpDisk
<1> HIDE DEF n
<1>4. /\ Len(d.contents) <= Len(d1.contents)
      /\ \A f \in Names : d1.names[f] = d.names[f] \/ d1.names[f] = 0 \/ d1.names[f] > Len(d.contents)
  BY Zenon DEF UpMore
<1>5. n \in 1..Len(d1.contents)  BY <1>2, <1>3, <1>4
<1>6. \A f \in Names : d1.names[f] = n => f = p.fus.lfn
  <2> TAKE f \in Names
  <2> HAVE d1.names[f] = n
  <2>1. d1.names[f] = d.names[f]  BY <1>2, <1>3, <1>4
  <2> QED  BY <1>2, <2>1
<1> QED  BY <1>1, <1>5, <1>6, Zenon DEF n

LEMMA UpFrame ==
  ASSUME NEW ps, NEW d, NEW st, NEW ps1, NEW d1, NEW st1, NEW c \in Uploaders,
         UpHolds(ps, d, st), UpMoves(c, ps, d, st, ps1, d1, st1)
  PROVE  UpHolds(ps1, d1, st1)
<1>1. d \in UpDisk /\ d1 \in UpDisk /\ UpNamed(d1) /\ UpMore(d, d1)
  BY Zenon DEF UpHolds, UpMoves, UpNamed
<1>2. \A x \in Uploaders : ps[x] \in UpPost /\ UpConn(ps[x]) /\ UpOpened(ps[x], d) /\ UpAlone(ps, d, x)
  BY Zenon DEF UpHolds, UpConn
<1>3. \A x \in Uploaders \ {c} : UpLike(ps[x], ps1[x])  BY Zenon DEF UpMoves
<1>4. \A x \in Uploaders : UpConn(ps1[x])
  <2>1. UpConn(ps1[c])  BY Zenon DEF UpMoves
  <2>2. ASSUME NEW x \in Uploaders \ {c}  PROVE UpConn(ps1[x])
    BY <1>2, <1>3, UpLikeConn, Zenon
  <2> QED  BY <2>1, <2>2, Zenon
<1>5. \A x \in Uploaders : UpOpened(ps1[x], d1)
  <2>1. UpOpened(ps1[c], d1)  BY Zenon DEF UpMoves
  <2>2. ASSUME NEW x \in Uploaders \ {c}  PROVE UpOpened(ps1[x], d1)
    BY <1>1, <1>2, <1>3, UpLikeOpened, Zenon
  <2> QED  BY <2>1, <2>2, Zenon
<1>6. \A x \in Uploaders \ {c} : /\ UpWrites(ps1[x]) <=> UpWrites(ps[x])
                                 /\ UpWrites(ps1[x]) => ps1[x].fus.fp = ps[x].fus.fp
                                 /\ UpWrites(ps1[x]) /\ ~ps1[x].fus.shared => ps1[x].fus = ps[x].fus
  BY <1>2, <1>3, UpLikeFus, Zenon DEF UpWrites
<1>7. \A x \in Uploaders : UpAlone(ps1, d1, x)
  <2>1. UpAlone(ps1, d1, c)
    <3> SUFFICES ASSUME UpWrites(ps1[c]) /\ ~ps1[c].fus.shared
                 PROVE  /\ UpKept(ps1[c], d1)
                        /\ \A x \in Uploaders \ {c} : UpWrites(ps1[x]) => ps1[x].fus.fp # ps1[c].fus.fp
      BY Zenon DEF UpAlone
    <3>1. /\ UpKept(ps1[c], d1)
          /\ \A x \in Uploaders \ {c} : UpWrites(ps[x]) => ps[x].fus.fp # ps1[c].fus.fp
      BY Zenon DEF UpMoves
    <3> QED  BY <3>1, <1>6, Zenon
  <2>2. ASSUME NEW x \in Uploaders \ {c}  PROVE UpAlone(ps1, d1, x)
    <3> DEFINE p == ps[x]
               q == ps1[x]
    <3> SUFFICES ASSUME UpWrites(q), ~q.fus.shared
                 PROVE  /\ UpKept(q, d1)
                        /\ \A y \in Uploaders \ {x} : UpWrites(ps1[y]) => ps1[y].fus.fp # q.fus.fp
      BY Zenon DEF UpAlone
    <3>1. x \in Uploaders /\ UpWrites(p) /\ q.fus = p.fus /\ ~p.fus.shared  BY <1>6, <2>2, Zenon
    <3>2. UpKept(p, d) /\ \A y \in Uploaders \ {x} : UpWrites(ps[y]) => ps[y].fus.fp # p.fus.fp
      BY <1>2, <3>1, Zenon DEF UpAlone
    <3>3. UpUntouched(q, d, d1, ps1[c])  BY <2>2, Zenon DEF UpMoves
    <3>4. /\ d1.names[p.fus.lfn] = d.names[p.fus.lfn]
          /\ d1.contents[p.fus.fp] = d.contents[p.fus.fp]
          /\ UpWrites(ps1[c]) => ps1[c].fus.fp # p.fus.fp
      BY <3>1, <3>3, Zenon DEF UpUntouched
    <3>5. UpLike(p, q)  BY <1>3, <2>2, Zenon
    <3> HIDE DEF p, q
    <3>6. q.received = p.received /\ UpNow(q) = UpNow(p)  BY <3>5, Zenon DEF UpLike, UpNow
    <3>7. UpKept(q, d1)  BY <3>1, <3>2, <3>4, <3>6, Zenon DEF UpKept
    <3>8. \A y \in Uploaders \ {x} : UpWrites(ps1[y]) => ps1[y].fus.fp # q.fus.fp
      <4> TAKE y \in Uploaders \ {x}
      <4> HAVE UpWrites(ps1[y])
      <4>1. CASE y = c  BY <3>1, <3>4, <4>1, Zenon
      <4>2. CASE y # c
        <5>1. UpWrites(ps[y]) /\ ps1[y].fus.fp = ps[y].fus.fp  BY <1>6, <4>2, Zenon
        <5> QED  BY <3>1, <3>2, <5>1, Zenon
      <4> QED  BY <4>1, <4>2, Zenon
    <3> QED  BY <3>7, <3>8, Zenon
  <2> QED  BY <2>1, <2>2, Zenon
<1>8. UpFound(ps1, d1, st1)
  <2> SUFFICES ASSUME NEW f \in Names, d1.names[f] # 0
               PROVE  \/ \E s \in st1 : s.fp = d1.names[f]
                      \/ \E x \in Uploaders : UP!Open(ps1[x].fus) /\ ps1[x].fus.fp = d1.names[f]
    BY Zenon DEF UpFound
  <2>1. UpRenamed(ps[c], ps1[c], d, d1, st1) /\ st \subseteq st1 /\ UpFound(ps, d, st)
    BY Zenon DEF UpMoves, UpHolds
  <2>2. CASE UP!Open(ps1[c].fus) /\ ps1[c].fus.fp = d1.names[f]  BY <2>2, Zenon
  <2>3. CASE d1.names[f] = d.names[f]
    <3>1. \/ \E s \in st : s.fp = d.names[f]
          \/ \E x \in Uploaders : UP!Open(ps[x].fus) /\ ps[x].fus.fp = d.names[f]
      BY <2>1, <2>3, Zenon DEF UpFound
    <3>2. CASE \E s \in st : s.fp = d.names[f]  BY <2>1, <2>3, <3>2, Zenon
    <3>3. ASSUME NEW x \in Uploaders, UP!Open(ps[x].fus), ps[x].fus.fp = d.names[f]
          PROVE  \/ \E s \in st1 : s.fp = d1.names[f]
                 \/ \E y \in Uploaders : UP!Open(ps1[y].fus) /\ ps1[y].fus.fp = d1.names[f]
      <4>1. CASE x # c
        <5>1. UP!Open(ps1[x].fus) /\ ps1[x].fus.fp = ps[x].fus.fp  BY <1>2, <1>3, <3>3, <4>1, UpLikeFus, Zenon
        <5> QED  BY <2>3, <3>3, <5>1, Zenon
      <4>2. CASE x = c
        <5>1. \/ UP!Open(ps1[c].fus) /\ ps1[c].fus.fp = ps[c].fus.fp
              \/ \E s \in st1 : s.fp = ps[c].fus.fp
          BY <2>1, <2>3, <3>3, <4>2, Zenon DEF UpRenamed
        <5> QED  BY <2>3, <3>3, <4>2, <5>1, Zenon
      <4> QED  BY <4>1, <4>2, Zenon
    <3> QED  BY <3>1, <3>2, <3>3, Zenon
  <2> QED  BY <2>1, <2>2, <2>3, Zenon DEF UpRenamed
<1>9. \A s \in st1 : UpWhole(s)  BY Zenon DEF UpMoves
<1>10. DOMAIN ps1 = Uploaders  BY Zenon DEF UpMoves
<1> QED  BY <1>1, <1>4, <1>5, <1>7, <1>8, <1>9, <1>10, Zenon DEF UpHolds

-----------------------------------------------------------------------------
(* The steps of one connection *)

LEMMA UpReplaced ==
  ASSUME NEW ps, NEW c \in Uploaders, NEW q, DOMAIN ps = Uploaders,
         \A x \in Uploaders : ps[x] \in UpPost
  PROVE  /\ DOMAIN [ps EXCEPT ![c] = q] = Uploaders /\ [ps EXCEPT ![c] = q][c] = q
         /\ \A x \in Uploaders \ {c} : /\ [ps EXCEPT ![c] = q][x] = ps[x]
                                       /\ UpLike(ps[x], [ps EXCEPT ![c] = q][x])
<1>1. /\ DOMAIN [ps EXCEPT ![c] = q] = Uploaders /\ [ps EXCEPT ![c] = q][c] = q
      /\ \A x \in Uploaders \ {c} : [ps EXCEPT ![c] = q][x] = ps[x]
  OBVIOUS
<1>2. \A x \in Uploaders \ {c} : UpLike(ps[x], ps[x])  BY UpLikeSelf, Zenon
<1> QED  BY <1>1, <1>2

\* The record of c is q, and the uploads of file are marked.
UpShakes(ps, c, file, q, ps1) ==
    /\ DOMAIN ps1 = Uploaders /\ ps1[c] = q
    /\ \A x \in Uploaders \ {c} : /\ UpLike(ps[x], ps1[x])
                                  /\ ps[x].fus # UP!NULL /\ ps[x].fus.lfn = file => ps1[x].fus.shared

LEMMA UpShaken ==
  ASSUME NEW ps, NEW c \in Uploaders, NEW q, NEW file, DOMAIN ps = Uploaders,
         \A x \in Uploaders : ps[x] \in UpPost
  PROVE  UpShakes(ps, c, file, q, [UP!Disturbed(ps, c, file) EXCEPT ![c] = q])
<1> DEFINE cs == UP!Disturbed(ps, c, file)
           ps1 == [cs EXCEPT ![c] = q]
<1>1. /\ DOMAIN cs = Uploaders
      /\ \A x \in Uploaders \ {c} : cs[x] = IF ps[x].fus # UP!NULL /\ ps[x].fus.lfn = file
                                            THEN [ps[x] EXCEPT !.fus.shared = TRUE] ELSE ps[x]
  BY DEF UP!Disturbed
<1> HIDE DEF cs
<1>2. DOMAIN ps1 = Uploaders /\ ps1[c] = q /\ \A x \in Uploaders \ {c} : ps1[x] = cs[x]
  BY <1>1
<1> HIDE DEF ps1
<1>3. ASSUME NEW x \in Uploaders \ {c}
      PROVE  /\ UpLike(ps[x], ps1[x])
             /\ ps[x].fus # UP!NULL /\ ps[x].fus.lfn = file => ps1[x].fus.shared
  <2>1. CASE ps[x].fus # UP!NULL /\ ps[x].fus.lfn = file
    <3>1. ps1[x] = [ps[x] EXCEPT !.fus.shared = TRUE]  BY <1>1, <1>2, <2>1
    <3> QED  BY <2>1, <3>1, UpMarked
  <2>2. CASE ~(ps[x].fus # UP!NULL /\ ps[x].fus.lfn = file)
    <3>1. ps1[x] = ps[x]  BY <1>1, <1>2, <2>2
    <3> QED  BY <2>2, <3>1, UpLikeSelf
  <2> QED  BY <2>1, <2>2
<1>4. UpShakes(ps, c, file, q, ps1)  BY <1>2, <1>3, Zenon DEF UpShakes
<1> QED  BY <1>4 DEF ps1, cs

\* The files stay as they are, and c does not write.
LEMMA UpQuiet ==
  ASSUME NEW ps, NEW d, NEW st, NEW c \in Uploaders, NEW q, UpHolds(ps, d, st),
         UpConn(q), ~UpWrites(q),
         UP!Open(ps[c].fus) \/ UP!Open(q.fus) => q.fus = ps[c].fus
  PROVE  UpHolds([ps EXCEPT ![c] = q], d, st)
<1> DEFINE ps1 == [ps EXCEPT ![c] = q]
<1>1. DOMAIN ps = Uploaders /\ \A x \in Uploaders : ps[x] \in UpPost /\ UpOpened(ps[x], d)
  BY Zenon DEF UpHolds, UpConn
<1>2. /\ DOMAIN ps1 = Uploaders /\ ps1[c] = q
      /\ \A x \in Uploaders \ {c} : ps1[x] = ps[x] /\ UpLike(ps[x], ps1[x])
  BY <1>1, UpReplaced
<1> HIDE DEF ps1
<1>3. UpNamed(d) /\ d \in UpDisk  BY Zenon DEF UpHolds, UpNamed
<1>4. UpMore(d, d)
  <2>1. Len(d.contents) \in Nat  BY <1>3, LenProperties DEF UpDisk
  <2> QED  BY <2>1 DEF UpMore
<1>5. UpOpened(q, d)
  <2>1. CASE UP!Open(q.fus)
    <3>1. q.fus = ps[c].fus  BY <2>1
    <3> QED  BY <1>1, <3>1, Zenon DEF UpOpened
  <2>2. CASE ~UP!Open(q.fus)  BY <2>2, Zenon DEF UpOpened
  <2> QED  BY <2>1, <2>2
<1>6. UpRenamed(ps[c], q, d, d, st)
  <2>1. UP!Open(ps[c].fus) => UP!Open(q.fus) /\ q.fus.fp = ps[c].fus.fp  BY Zenon
  <2> QED  BY <2>1, Zenon DEF UpRenamed
<1>7. \A x \in Uploaders \ {c} : UpUntouched(ps1[x], d, d, q)  BY Zenon DEF UpUntouched
<1>8. \A s \in st : UpWhole(s)  BY Zenon DEF UpHolds
<1>9. UpMoves(c, ps, d, st, ps1, d, st)
  BY <1>2, <1>3, <1>4, <1>5, <1>6, <1>7, <1>8, Zenon DEF UpMoves
<1>10. UpHolds(ps1, d, st)  BY <1>9, UpFrame, Zenon
<1> QED  BY <1>10 DEF ps1

LEMMA UpNowType ==
  ASSUME NEW p, UpConn(p), p.part > 0
  PROVE  /\ p.part \in 1..Len(p.request) /\ UpNow(p) \in UpPart
         /\ UpNow(p).data \in Seq(Nat) /\ Len(UpNow(p).data) \in Nat
<1>1. p.part \in Nat /\ p.request \in UploadRequests /\ p.part <= Len(p.request)
  BY DEF UpConn, UpPost
<1>2. p.request \in Seq(UpPart)  BY <1>1, ProtocolsAssumption DEF UpPart
<1>3. Len(p.request) \in Nat  BY <1>2, LenProperties
<1>4. p.part \in 1..Len(p.request)  BY <1>1, <1>3
<1>5. UpNow(p) \in UpPart  BY <1>2, <1>4, ElementOfSeq DEF UpNow
<1>6. UpNow(p).data \in Seq(Nat)  BY <1>5 DEF UpPart
<1> QED  BY <1>4, <1>5, <1>6, LenProperties

\* The first n bytes of the buffer of fus and data went to the file.
UpAfter(d, fus, data, n, d1) ==
    /\ UpNamed(d1) /\ UpMore(d, d1) /\ d1.names = d.names /\ Len(d1.contents) = Len(d.contents)
    /\ d1.contents[fus.fp] = UP!Written(d.contents[fus.fp], fus.pos, SubSeq(fus.buffer \o data, 1, n))
    /\ \A m \in 1..Len(d.contents) : m # fus.fp => d1.contents[m] = d.contents[m]

LEMMA UpFlush ==
  ASSUME NEW d, UpNamed(d), NEW fus \in UpFus, fus.fp \in 1..Len(d.contents),
         NEW data \in Seq(Nat), NEW n \in 0..Len(fus.buffer \o data)
  PROVE  UpAfter(d, fus, data, n, UP!Flushed(d, fus, data, n))
<1> DEFINE d1 == UP!Flushed(d, fus, data, n)
           more == fus.buffer \o data
           w == UP!Written(d.contents[fus.fp], fus.pos, SubSeq(more, 1, n))
           fp == fus.fp
<1>1. d \in UpDisk /\ d.names \in [Names -> Nat] /\ d.contents \in Seq(Seq(Nat))  BY DEF UpNamed, UpDisk
<1>2. more \in Seq(Nat) /\ fus.pos \in Nat
  <2>1. fus.buffer \in Seq(Nat) /\ fus.pos \in Nat  BY DEF UpFus
  <2> QED  BY <2>1, ConcatProperties
<1>3. SubSeq(more, 1, n) \in Seq(Nat)
  <2> HIDE DEF more
  <2>1. n \in 0..Len(more)  BY DEF more
  <2> QED  BY <1>2, <2>1, UpSub
<1>4. d.contents[fp] \in Seq(Nat)  BY <1>1, ElementOfSeq
<1>5. w \in Seq(Nat)
  <2> HIDE DEF more, fp
  <2>1. d.contents[fus.fp] \in Seq(Nat)  BY <1>4 DEF fp
  <2> QED  BY <1>2, <1>3, <2>1, UpWrittenType
<1>6. d1 = [d EXCEPT !.contents = [d.contents EXCEPT ![fp] = w]]  BY DEF UP!Flushed
<1> HIDE DEF d1
<1> HIDE DEF w
<1>7. /\ [d.contents EXCEPT ![fp] = w] \in Seq(Seq(Nat))
      /\ Len([d.contents EXCEPT ![fp] = w]) = Len(d.contents)
      /\ [d.contents EXCEPT ![fp] = w][fp] = w
      /\ \A m \in 1..Len(d.contents) : m # fp => [d.contents EXCEPT ![fp] = w][m] = d.contents[m]
  <2> DEFINE s == d.contents
             t == [s EXCEPT ![fp] = w]
  <2>1. s \in Seq(Seq(Nat)) /\ fp \in 1..Len(s)  BY <1>1
  <2> HIDE DEF s, fp
  <2>2. t \in Seq(Seq(Nat)) /\ Len(t) = Len(s) /\ t[fp] = w /\ \A m \in 1..Len(s) : m # fp => t[m] = s[m]
    BY <1>5, <2>1, ExceptSeq
  <2> QED  BY <2>2 DEF s
<1> DEFINE t == [d.contents EXCEPT ![fp] = w]
<1>8. d1 = [d EXCEPT !.contents = t]  BY <1>6
<1> HIDE DEF t
<1>9. d1.names = d.names /\ d1.contents = t /\ (t \in Seq(Seq(Nat)) => d1 \in UpDisk)  BY <1>1, <1>8 DEF UpDisk
<1>10. d1 \in UpDisk /\ Len(d1.contents) = Len(d.contents)  BY <1>7, <1>9 DEF t
<1>11. UpNamed(d1)  BY <1>9, <1>10 DEF UpNamed
<1>12. UpMore(d, d1)
  <2>1. Len(d.contents) \in Nat  BY <1>1, LenProperties
  <2> QED  BY <1>9, <1>10, <2>1 DEF UpMore
<1>13. d1.contents[fp] = w /\ \A m \in 1..Len(d.contents) : m # fp => d1.contents[m] = d.contents[m]  BY <1>7, <1>9 DEF t
<1>14. UpAfter(d, fus, data, n, d1)  BY <1>9, <1>10, <1>11, <1>12, <1>13, Zenon DEF w, more, fp, UpAfter
<1> QED  BY <1>14 DEF d1

\* D written to a, received to r, and then to e.
UpOnward(D, a, r, e) ==
    /\ SubSeq(D, a + 1, r) \o SubSeq(D, r + 1, e) = SubSeq(D, a + 1, e)
    /\ a + Len(SubSeq(D, a + 1, e)) = e
    /\ UP!Written(SubSeq(D, 1, a), a, SubSeq(D, a + 1, e)) = SubSeq(D, 1, e)
    /\ SubSeq(D, e + 1, e) = <<>>

LEMMA UpGoesOn ==
  ASSUME NEW D \in Seq(Nat), NEW a \in Nat, NEW r \in Nat, NEW e \in Nat, a <= r, r <= e, e <= Len(D)
  PROVE  UpOnward(D, a, r, e)
<1>1. a <= e /\ Len(D) \in Nat  BY LenProperties
<1>3. SubSeq(D, a + 1, r) \o SubSeq(D, r + 1, e) = SubSeq(D, a + 1, e)  BY UpJoined
<1>4. Len(SubSeq(D, a + 1, e)) = e - a  BY <1>1, UpPiece
<1>5. a + (e - a) = e  OBVIOUS
<1>6. UP!Written(SubSeq(D, 1, a), a, SubSeq(D, a + 1, e)) = SubSeq(D, 1, e)  BY <1>1, UpWrittenNext
<1>7. e + 1 \in Int /\ e \in Int /\ e < e + 1  OBVIOUS
<1>8. SubSeq(D, e + 1, e) = <<>>  BY <1>7, SubSeqEmpty
<1>9. a + Len(SubSeq(D, a + 1, e)) = e  BY <1>4, <1>5
<1> QED  BY <1>3, <1>6, <1>8, <1>9, Zenon DEF UpOnward

\* The record of an upload p after data came in, and the disk, with all of it in
\* the buffer, or in the file.
UpWrote(p, q, e, data, d, d1) ==
    /\ q \in UpPost /\ q.request = p.request /\ q.part = p.part /\ q.inPart = p.inPart
    /\ q.received = e /\ q.answers = p.answers /\ q.closed = p.closed
    /\ q.fus \in UpFus /\ q.fus.lfn = p.fus.lfn /\ q.fus.fp = p.fus.fp
    /\ q.fus.shared = p.fus.shared /\ (p.fus.numRecd = p.received => q.fus.numRecd = e)
    /\ \/ d1 = d /\ q.fus.pos = p.fus.pos /\ q.fus.buffer = p.fus.buffer \o data
       \/ /\ d1 = UP!Flushed(d, p.fus, data, Len(p.fus.buffer \o data))
          /\ q.fus.buffer = <<>> /\ q.fus.pos = p.fus.pos + Len(p.fus.buffer \o data)

\* What comes in for a part whose file is open, and is written.
LEMMA UpWriting ==
  ASSUME NEW ps, NEW d, NEW st, NEW c \in Uploaders, UpHolds(ps, d, st),
         ~ps[c].closed, ps[c].inPart, UP!Open(ps[c].fus),
         NEW e \in Nat, ps[c].received <= e, e <= Len(UpNow(ps[c]).data),
         NEW q, NEW d1,
         UpWrote(ps[c], q, e, SubSeq(UpNow(ps[c]).data, ps[c].received + 1, e), d, d1)
  PROVE  UpHolds([ps EXCEPT ![c] = q], d1, st)
<1>0. PICK p : p = ps[c]  OBVIOUS
<1> DEFINE D == UpNow(p).data
           r == p.received
           data == SubSeq(D, r + 1, e)
           more == p.fus.buffer \o data
<1>1. /\ DOMAIN ps = Uploaders /\ UpNamed(d)
      /\ \A x \in Uploaders : ps[x] \in UpPost /\ UpOpened(ps[x], d) /\ UpAlone(ps, d, x)
  BY Zenon DEF UpHolds, UpConn
<1>w. UpWrote(p, q, e, data, d, d1)  BY <1>0
<1>2. UpConn(p) /\ p \in UpPost /\ UpOpened(p, d) /\ UpWrites(p) /\ UpWrites(q) /\ UP!Open(q.fus)
  <2>1. UpConn(p) /\ p \in UpPost /\ UpOpened(p, d)  BY <1>0, Zenon DEF UpHolds, UpConn
  <2>2. UP!Open(p.fus) /\ ~p.closed  BY <1>0
  <2>3. q.closed = p.closed /\ q.fus \in UpFus /\ q.fus.fp = p.fus.fp  BY <1>w, Zenon DEF UpWrote
  <2>4. UP!Open(q.fus)  BY <2>2, <2>3, UpNotNull, Zenon DEF UP!Open
  <2> QED  BY <2>1, <2>2, <2>3, <2>4, Zenon DEF UpWrites
<1>q. /\ q \in UpPost /\ q.request = p.request /\ q.part = p.part /\ q.inPart = p.inPart
      /\ q.received = e /\ q.answers = p.answers /\ q.closed = p.closed
      /\ q.fus \in UpFus /\ q.fus.lfn = p.fus.lfn /\ q.fus.fp = p.fus.fp
      /\ q.fus.shared = p.fus.shared /\ (p.fus.numRecd = p.received => q.fus.numRecd = e)
  BY <1>w, Zenon DEF UpWrote
<1>d. \/ d1 = d /\ q.fus.pos = p.fus.pos /\ q.fus.buffer = more
      \/ /\ d1 = UP!Flushed(d, p.fus, data, Len(more))
         /\ q.fus.buffer = <<>> /\ q.fus.pos = p.fus.pos + Len(more)
  BY <1>w, Zenon DEF UpWrote
<1>p. p.inPart /\ ~p.closed /\ r <= e /\ e <= Len(D)  BY <1>0
<1>3. p.part > 0  BY <1>2, <1>p, Zenon DEF UpConn
<1>4. UpNow(p) \in UpPart /\ D \in Seq(Nat) /\ Len(D) \in Nat  BY <1>2, <1>3, UpNowType
<1>5. p.fus \in UpFus  BY <1>2, UpOpen DEF UpPost, UpWrites
<1>6. r \in Nat  BY <1>2 DEF UpPost
<1>8. p.fus.buffer \in Seq(Nat) /\ p.fus.pos \in Nat /\ p.fus.shared \in BOOLEAN  BY <1>5 DEF UpFus
<1> HIDE DEF D, r
<1>7. data \in Seq(Nat)  BY <1>4, <1>6, <1>p, UpPiece
<1> HIDE DEF data
<1>9. more \in Seq(Nat) /\ Len(more) \in Nat  BY <1>7, <1>8, ConcatProperties, LenProperties
<1> HIDE DEF more
<1>9a. Len(more) \in 0..Len(more) /\ SubSeq(more, 1, Len(more)) = more
  BY <1>9, UpSub
<1>10. p.fus.fp \in 1..Len(d.contents) /\ \A f \in Names : d.names[f] = p.fus.fp => f = p.fus.lfn
  BY <1>2, Zenon DEF UpOpened, UpWrites
<1>11. UpNow(q) = UpNow(p)  BY <1>q, Zenon DEF UpNow
<1>f. ASSUME d1 = UP!Flushed(d, p.fus, data, Len(more))
      PROVE  /\ UpNamed(d1) /\ UpMore(d, d1) /\ d1.names = d.names /\ Len(d1.contents) = Len(d.contents)
             /\ \A m \in 1..Len(d.contents) : m # p.fus.fp => d1.contents[m] = d.contents[m]
             /\ d1.contents[p.fus.fp] = UP!Written(d.contents[p.fus.fp], p.fus.pos, more)
  <2>1. Len(more) \in 0..Len(p.fus.buffer \o data)  BY <1>9a DEF more
  <2>2. UpAfter(d, p.fus, data, Len(more), d1)
    BY <1>1, <1>5, <1>7, <1>10, <1>f, <2>1, UpFlush
  <2>3. SubSeq(p.fus.buffer \o data, 1, Len(more)) = more  BY <1>9a DEF more
  <2> QED  BY <2>2, <2>3, Zenon DEF UpAfter
<1>12. /\ UpNamed(d1) /\ UpMore(d, d1) /\ d1.names = d.names /\ Len(d1.contents) = Len(d.contents)
       /\ \A m \in 1..Len(d.contents) : m # p.fus.fp => d1.contents[m] = d.contents[m]
  <2>1. CASE d1 = d
    <3>1. Len(d.contents) \in Nat  BY <1>1, LenProperties DEF UpNamed, UpDisk
    <3> QED  BY <1>1, <2>1, <3>1 DEF UpMore
  <2> QED  BY <1>d, <1>f, <2>1, Zenon
<1>13. ASSUME ~p.fus.shared
       PROVE  UpKept(q, d1) /\ \A x \in Uploaders \ {c} : UpWrites(ps[x]) => ps[x].fus.fp # q.fus.fp
  <2>1. UpKept(p, d) /\ \A x \in Uploaders \ {c} : UpWrites(ps[x]) => ps[x].fus.fp # p.fus.fp
    BY <1>0, <1>1, <1>2, <1>13, Zenon DEF UpAlone
  <2>2. PICK a : a = p.fus.pos  OBVIOUS
  <2>3. /\ d.names[p.fus.lfn] = p.fus.fp /\ a \in Nat /\ a <= r
        /\ d.contents[p.fus.fp] = SubSeq(D, 1, a)
        /\ p.fus.buffer = SubSeq(D, a + 1, r)
    BY <1>8, <2>1, <2>2 DEF UpKept, D, r
  <2>4. UpOnward(D, a, r, e)  BY <1>4, <1>6, <1>p, <2>3, UpGoesOn
  <2>5. more = SubSeq(D, a + 1, e)  BY <2>3, <2>4, Zenon DEF more, data, UpOnward
  <2>6. d1.names[q.fus.lfn] = q.fus.fp  BY <1>12, <1>q, <2>3, Zenon
  <2>7. \A x \in Uploaders \ {c} : UpWrites(ps[x]) => ps[x].fus.fp # q.fus.fp  BY <1>q, <2>1, Zenon
  <2>8. UpNow(q).data = D  BY <1>11 DEF D
  <2>9. CASE d1 = d /\ q.fus.pos = p.fus.pos /\ q.fus.buffer = more
    <3>1. q.fus.pos = a /\ q.received = e  BY <1>q, <2>2, <2>9
    <3>2. a <= e  BY <1>6, <1>p, <2>3
    <3>3. d1.contents[q.fus.fp] = SubSeq(D, 1, a)  BY <1>q, <2>3, <2>9, Zenon
    <3> QED  BY <2>5, <2>6, <2>7, <2>8, <2>9, <3>1, <3>2, <3>3, Zenon DEF UpKept
  <2>10. CASE /\ d1.contents[p.fus.fp] = UP!Written(d.contents[p.fus.fp], p.fus.pos, more)
              /\ q.fus.buffer = <<>> /\ q.fus.pos = p.fus.pos + Len(more)
    <3>1. q.fus.pos = e /\ q.received = e  BY <1>q, <2>2, <2>4, <2>5, <2>10, Zenon DEF UpOnward
    <3>2. d1.contents[q.fus.fp] = SubSeq(D, 1, e)  BY <1>q, <2>2, <2>3, <2>4, <2>5, <2>10, Zenon DEF UpOnward
    <3>3. e <= e  OBVIOUS
    <3>4. q.fus.buffer = SubSeq(D, e + 1, e)  BY <2>4, <2>10, Zenon DEF UpOnward
    <3> QED  BY <2>6, <2>7, <2>8, <3>1, <3>2, <3>3, <3>4, Zenon DEF UpKept
  <2>11. \/ d1 = d /\ q.fus.pos = p.fus.pos /\ q.fus.buffer = more
         \/ /\ d1.contents[p.fus.fp] = UP!Written(d.contents[p.fus.fp], p.fus.pos, more)
            /\ q.fus.buffer = <<>> /\ q.fus.pos = p.fus.pos + Len(more)
    BY <1>d, <1>f, Zenon
  <2> QED  BY <2>9, <2>10, <2>11, Zenon
<1> DEFINE ps1 == [ps EXCEPT ![c] = q]
<1>14. /\ DOMAIN ps1 = Uploaders /\ ps1[c] = q
       /\ \A x \in Uploaders \ {c} : ps1[x] = ps[x] /\ UpLike(ps[x], ps1[x])
  BY <1>1, UpReplaced
<1> HIDE DEF ps1
<1>15. ASSUME NEW x \in Uploaders \ {c}  PROVE UpUntouched(ps[x], d, d1, q)
  <2> SUFFICES ASSUME UpWrites(ps[x]), ~ps[x].fus.shared
               PROVE  /\ d1.names[ps[x].fus.lfn] = d.names[ps[x].fus.lfn]
                      /\ d1.contents[ps[x].fus.fp] = d.contents[ps[x].fus.fp]
                      /\ q.fus.fp # ps[x].fus.fp
    BY Zenon DEF UpUntouched
  <2>1. x \in Uploaders /\ c \in Uploaders \ {x} /\ UP!Open(ps[x].fus)  BY <1>15, Zenon DEF UpWrites
  <2>2. p.fus.fp # ps[x].fus.fp  BY <1>0, <1>1, <1>2, <2>1, Zenon DEF UpAlone
  <2>3. ps[x].fus.fp \in 1..Len(d.contents)  BY <1>1, <2>1, Zenon DEF UpOpened
  <2> QED  BY <1>12, <1>q, <2>2, <2>3, Zenon
<1>16. UpConn(q)
  <2>1. UpTold(q)  BY <1>2, <1>q, UpToldStill, Zenon DEF UpConn, UpWrites
  <2>2. q.fus.numRecd = q.received /\ q.fus.lfn = UpNow(q).file
    BY <1>2, <1>11, <1>q, Zenon DEF UpConn
  <2>3. q.part <= Len(q.request)  BY <1>2, <1>q, Zenon DEF UpConn
  <2>4. q.part > 0 /\ q.received <= Len(UpNow(q).data)  BY <1>3, <1>11, <1>p, <1>q DEF D
  <2>5. q.inPart  BY <1>p, <1>q
  <2> QED  BY <1>q, <2>1, <2>2, <2>3, <2>4, <2>5, Zenon DEF UpConn
<1>17. UpOpened(q, d1)  BY <1>10, <1>12, <1>q, Zenon DEF UpOpened
<1>18. UpRenamed(ps[c], q, d, d1, st)  BY <1>0, <1>2, <1>12, <1>q, Zenon DEF UpRenamed
<1>19. \A s \in st : UpWhole(s)  BY Zenon DEF UpHolds
<1>20. UpMoves(c, ps, d, st, ps1, d1, st)
  BY <1>q, <1>12, <1>13, <1>14, <1>15, <1>16, <1>17, <1>18, <1>19, Zenon DEF UpMoves
<1>21. UpHolds(ps1, d1, st)  BY <1>20, UpFrame, Zenon
<1> QED  BY <1>21 DEF ps1

UpUnnames(d, d0, file, d1) ==
    /\ UpNamed(d1) /\ UpMore(d, d1) /\ d1.contents = d0.contents
    /\ d1.names[file] = 0 /\ \A f \in Names : f # file => d1.names[f] = d.names[f]

LEMMA UpUnnamed ==
  ASSUME NEW d, NEW d0, NEW file \in Names, UpNamed(d0), UpMore(d, d0), d0.names = d.names
  PROVE  UpUnnames(d, d0, file, [d0 EXCEPT !.names[file] = 0])
<1> DEFINE d1 == [d0 EXCEPT !.names[file] = 0]
           n == [d0.names EXCEPT ![file] = 0]
<1>1. d0.names \in [Names -> Nat] /\ d0.contents \in Seq(Seq(Nat)) /\ d0 \in UpDisk  BY DEF UpNamed, UpDisk
<1>2. n \in [Names -> Nat] /\ n[file] = 0 /\ \A f \in Names : f # file => n[f] = d0.names[f]  BY <1>1
<1>3. d1 = [d0 EXCEPT !.names = n]  OBVIOUS
<1> HIDE DEF n, d1
<1>4. d1.names = n /\ d1.contents = d0.contents /\ d1 \in UpDisk  BY <1>1, <1>2, <1>3 DEF UpDisk
<1>5. Len(d0.contents) \in Nat  BY <1>1, LenProperties
<1>6. \A f \in Names : d1.names[f] = 0 \/ d1.names[f] = d0.names[f]  BY <1>2, <1>4
<1>7. /\ \A f \in Names : d0.names[f] <= Len(d0.contents)
      /\ \A f, g \in Names : d0.names[f] = d0.names[g] /\ d0.names[f] # 0 => f = g
  BY Zenon DEF UpNamed
<1>8. \A f \in Names : d1.names[f] <= Len(d1.contents)
  <2> TAKE f \in Names
  <2>1. CASE d1.names[f] = 0  BY <1>4, <1>5, <2>1
  <2>2. CASE d1.names[f] = d0.names[f]  BY <1>4, <1>7, <2>2
  <2> QED  BY <1>6, <2>1, <2>2
<1>9. \A f, g \in Names : d1.names[f] = d1.names[g] /\ d1.names[f] # 0 => f = g  BY <1>6, <1>7, Zenon
<1>10. UpNamed(d1)  BY <1>4, <1>8, <1>9, Zenon DEF UpNamed
<1>11. UpMore(d, d1)  BY <1>4, <1>6, Zenon DEF UpMore
<1>12. \A f \in Names : f # file => d1.names[f] = d.names[f]  BY <1>2, <1>4
<1>13. d1.names[file] = 0  BY <1>2, <1>4
<1>14. UpUnnames(d, d0, file, d1)  BY <1>4, <1>10, <1>11, <1>12, <1>13, Zenon DEF UpUnnames
<1> QED  BY <1>14 DEF d1

\* No two files of uploads in progress are the same one, if one of them is alone.
LEMMA UpApart ==
  ASSUME NEW ps, NEW d, NEW c \in Uploaders, NEW x \in Uploaders, x # c,
         UpAlone(ps, d, x), UpWrites(ps[c]), UpWrites(ps[x]), ~ps[x].fus.shared
  PROVE  ps[c].fus.fp # ps[x].fus.fp
<1>1. c \in Uploaders \ {x}  OBVIOUS
<1> QED  BY <1>1, Zenon DEF UpAlone

\* The record of an upload whose write failed.
UpFailed(p, q, e) ==
    /\ q \in UpPost /\ q.request = p.request /\ q.part = p.part /\ q.inPart = p.inPart
    /\ q.received = e /\ q.closed = p.closed /\ q.fus \in UpFus /\ q.fus.fp = 0
    /\ \E a \in UpAnswer : a.part = p.part /\ q.answers = Append(p.answers, a)

\* The connections and the disk after it.
UpFailsBy(p, ps, d, c, ps1, d1, e, data, n, q) ==
    /\ e <= Len(UpNow(p).data) /\ UpFailed(p, q, e)
    /\ ps1 = [UP!Disturbed(ps, c, p.fus.lfn) EXCEPT ![c] = q]
    /\ d1 = [UP!Flushed(d, p.fus, data, n) EXCEPT !.names[p.fus.lfn] = 0]
UpFails(p, ps, d, c, ps1, d1) ==
    \E e \in Nat, data \in Seq(Nat) : \E n \in 0..Len(p.fus.buffer \o data), q \in UpPost :
        UpFailsBy(p, ps, d, c, ps1, d1, e, data, n, q)

UpFailure(ps, d, st, c, ps1, d1) ==
    /\ UpHolds(ps, d, st) /\ ~ps[c].closed /\ ps[c].inPart /\ UP!Open(ps[c].fus)
    /\ UpFails(ps[c], ps, d, c, ps1, d1)

LEMMA UpFailing ==
  ASSUME NEW ps, NEW d, NEW st, NEW c \in Uploaders, NEW ps1, NEW d1, UpFailure(ps, d, st, c, ps1, d1)
  PROVE  UpHolds(ps1, d1, st)
<1>h. /\ UpHolds(ps, d, st) /\ ~ps[c].closed /\ ps[c].inPart /\ UP!Open(ps[c].fus)
      /\ UpFails(ps[c], ps, d, c, ps1, d1)
  BY Zenon DEF UpFailure
<1>0. PICK p : p = ps[c]  OBVIOUS
<1>a. PICK e \in Nat, data \in Seq(Nat) : \E n \in 0..Len(p.fus.buffer \o data), q \in UpPost :
        UpFailsBy(p, ps, d, c, ps1, d1, e, data, n, q)
  <2>1. UpFails(p, ps, d, c, ps1, d1)  BY <1>0, <1>h
  <2> QED  BY <2>1, Zenon DEF UpFails
<1>b. PICK n \in 0..Len(p.fus.buffer \o data), q \in UpPost : UpFailsBy(p, ps, d, c, ps1, d1, e, data, n, q)
  BY <1>a
<1>c. /\ e <= Len(UpNow(p).data) /\ UpFailed(p, q, e)
      /\ ps1 = [UP!Disturbed(ps, c, p.fus.lfn) EXCEPT ![c] = q]
      /\ d1 = [UP!Flushed(d, p.fus, data, n) EXCEPT !.names[p.fus.lfn] = 0]
  BY <1>b, Zenon DEF UpFailsBy
<1> DEFINE d0 == UP!Flushed(d, p.fus, data, n)
           file == p.fus.lfn
<1>1. /\ DOMAIN ps = Uploaders /\ UpNamed(d)
      /\ \A x \in Uploaders : ps[x] \in UpPost /\ UpOpened(ps[x], d) /\ UpAlone(ps, d, x)
  BY <1>h, Zenon DEF UpHolds, UpConn
<1>2. UpConn(p) /\ p \in UpPost /\ UpOpened(p, d) /\ UpWrites(p) /\ UP!Open(p.fus) /\ ~p.closed /\ p.inPart
  BY <1>0, <1>h, Zenon DEF UpHolds, UpConn, UpWrites
<1>3. p.fus \in UpFus /\ file \in Names  BY <1>2, UpOpen DEF UpPost, UpFus
<1>4. p.part > 0  BY <1>2, Zenon DEF UpConn
<1>5. p.fus.fp \in 1..Len(d.contents) /\ \A f \in Names : d.names[f] = p.fus.fp => f = file
  BY <1>2, Zenon DEF UpOpened
<1>6. UpAfter(d, p.fus, data, n, d0)  BY <1>1, <1>3, <1>5, UpFlush
<1>7. d1 = [d0 EXCEPT !.names[file] = 0]  BY <1>c
<1> HIDE DEF d0
<1>8. /\ UpNamed(d1) /\ UpMore(d, d1) /\ d1.contents = d0.contents
      /\ d1.names[file] = 0 /\ \A f \in Names : f # file => d1.names[f] = d.names[f]
  <2>1. UpNamed(d0) /\ UpMore(d, d0) /\ d0.names = d.names  BY <1>6, Zenon DEF UpAfter
  <2>2. UpUnnames(d, d0, file, d1)  BY <1>3, <1>7, <2>1, UpUnnamed
  <2> QED  BY <2>2, Zenon DEF UpUnnames
<1>9. \A m \in 1..Len(d.contents) : m # p.fus.fp => d1.contents[m] = d.contents[m]
  BY <1>6, <1>8, Zenon DEF UpAfter
<1>10. /\ q \in UpPost /\ q.request = p.request /\ q.part = p.part /\ q.inPart = p.inPart
       /\ q.received = e /\ q.closed = p.closed /\ q.fus \in UpFus /\ q.fus.fp = 0
       /\ \E a \in UpAnswer : a.part = p.part /\ q.answers = Append(p.answers, a)
  BY <1>c, Zenon DEF UpFailed
<1>11. ~UP!Open(q.fus) /\ ~UpWrites(q) /\ UpNow(q) = UpNow(p)  BY <1>10, Zenon DEF UP!Open, UpWrites, UpNow
<1>12. UpConn(q)
  <2>1. UpTold(q)
    <3>1. PICK a \in UpAnswer : a.part = p.part /\ q.answers = Append(p.answers, a)  BY <1>10
    <3>2. UpTold(p)  BY <1>2, Zenon DEF UpConn
    <3> QED  BY <1>2, <1>4, <1>10, <1>11, <3>1, <3>2, UpToldNow
  <2>2. q.part <= Len(q.request)  BY <1>2, <1>10, Zenon DEF UpConn
  <2>3. q.part > 0 /\ q.received <= Len(UpNow(q).data)  BY <1>4, <1>10, <1>11, <1>c
  <2>4. q.inPart  BY <1>2, <1>10
  <2> QED  BY <1>10, <1>11, <2>1, <2>2, <2>3, <2>4, Zenon DEF UpConn
<1>13. UpOpened(q, d1)  BY <1>11, Zenon DEF UpOpened
<1>14. /\ DOMAIN ps1 = Uploaders /\ ps1[c] = q
       /\ \A x \in Uploaders \ {c} : /\ UpLike(ps[x], ps1[x])
                                     /\ ps[x].fus # UP!NULL /\ ps[x].fus.lfn = file => ps1[x].fus.shared
  <2>1. UpShakes(ps, c, file, q, ps1)  BY <1>1, <1>c, UpShaken
  <2> QED  BY <2>1, Zenon DEF UpShakes
<1>15. ASSUME NEW x \in Uploaders \ {c}  PROVE UpUntouched(ps1[x], d, d1, q)
  <2> SUFFICES ASSUME UpWrites(ps1[x]), ~ps1[x].fus.shared
               PROVE  /\ d1.names[ps1[x].fus.lfn] = d.names[ps1[x].fus.lfn]
                      /\ d1.contents[ps1[x].fus.fp] = d.contents[ps1[x].fus.fp]
    BY <1>11, Zenon DEF UpUntouched
  <2>1. ps[x] \in UpPost /\ UpLike(ps[x], ps1[x]) /\ x \in Uploaders /\ x # c  BY <1>1, <1>14, <1>15
  <2>2. ps1[x].fus = ps[x].fus /\ UpWrites(ps[x]) /\ UP!Open(ps[x].fus)
    BY <2>1, UpLikeFus, Zenon DEF UpWrites
  <2>3. ps[x].fus.lfn # file /\ ps[x].fus.lfn \in Names
    <3>1. ps[x].fus \in UpFus  BY <2>1, <2>2, UpOpen DEF UpPost
    <3>2. ps[x].fus # UP!NULL  BY <3>1, UpNotNull
    <3>3. ps[x].fus.lfn \in Names  BY <3>1 DEF UpFus
    <3> QED  BY <1>14, <1>15, <3>2, <3>3, Zenon
  <2>4. p.fus.fp # ps[x].fus.fp
    <3>1. UpWrites(ps[c]) /\ ~ps[x].fus.shared /\ UpAlone(ps, d, x)  BY <1>0, <1>1, <1>2, <2>1, <2>2
    <3>2. ps[c].fus.fp # ps[x].fus.fp  BY <2>1, <2>2, <3>1, UpApart
    <3> QED  BY <1>0, <3>2
  <2>5. ps[x].fus.fp \in 1..Len(d.contents)  BY <1>1, <2>1, <2>2, Zenon DEF UpOpened
  <2> QED  BY <1>8, <1>9, <2>2, <2>3, <2>4, <2>5, Zenon
<1>16. UpRenamed(p, q, d, d1, st)
  <2>1. \A f \in Names : d1.names[f] # 0 => d1.names[f] = d.names[f]  BY <1>8, Zenon
  <2>2. p.fus.fp # 0
    <3>1. \A k \in 1..Len(d.contents) : k # 0  OBVIOUS
    <3> QED  BY <1>5, <3>1, Zenon
  <2>3. \A f \in Names : d1.names[f] # p.fus.fp  BY <1>5, <1>8, <2>2, Zenon
  <2> QED  BY <2>1, <2>3, Zenon DEF UpRenamed
<1>17. \A s \in st : UpWhole(s)  BY <1>h, Zenon DEF UpHolds
<1>18. UpMoves(c, ps, d, st, ps1, d1, st)
  BY <1>0, <1>8, <1>11, <1>12, <1>13, <1>14, <1>15, <1>16, <1>17, Zenon DEF UpMoves
<1> QED  BY <1>18, <1>h, UpFrame, Zenon

\* The record of an upload whose part is over, answered if its file was open.
UpEnded(p, q) ==
    /\ q \in UpPost /\ q.request = p.request /\ q.part = p.part /\ q.received = p.received
    /\ q.closed = p.closed /\ ~q.inPart /\ q.fus = UP!NULL
    /\ IF UP!Open(p.fus)
       THEN \E a \in UpAnswer : a.part = p.part /\ q.answers = Append(p.answers, a)
       ELSE q.answers = p.answers

UpEndedConn(p, q) == UpConn(q) /\ ~UpWrites(q) /\ ~UP!Open(q.fus)

LEMMA UpEnding ==
  ASSUME NEW p, UpConn(p), ~p.closed, p.inPart, NEW q, UpEnded(p, q)
  PROVE  UpEndedConn(p, q)
<1>1. /\ q \in UpPost /\ q.request = p.request /\ q.part = p.part /\ q.received = p.received
      /\ q.closed = p.closed /\ ~q.inPart /\ q.fus = UP!NULL
  BY Zenon DEF UpEnded
<1>2. ~UP!Open(q.fus) /\ ~UpWrites(q)  BY <1>1, Zenon DEF UP!Open, UpWrites
<1>3. p.part > 0 /\ p \in UpPost /\ UpTold(p) /\ p.part <= Len(p.request)  BY Zenon DEF UpConn
<1>4. UpTold(q)
  <2>1. CASE UP!Open(p.fus)
    <3>1. PICK a \in UpAnswer : a.part = p.part /\ q.answers = Append(p.answers, a)
      BY <2>1, Zenon DEF UpEnded
    <3> QED  BY <1>1, <1>2, <1>3, <2>1, <3>1, UpToldNow
  <2>2. CASE ~UP!Open(p.fus)
    <3>1. q.answers = p.answers  BY <2>2, Zenon DEF UpEnded
    <3> QED  BY <1>1, <1>2, <1>3, <2>2, <3>1, UpToldStill, Zenon
  <2> QED  BY <2>1, <2>2
<1>5. q.part <= Len(q.request)  BY <1>1, <1>3, Zenon
<1>6. UpConn(q)  BY <1>1, <1>2, <1>4, <1>5, Zenon DEF UpConn
<1> QED  BY <1>2, <1>6, Zenon DEF UpEndedConn

\* What an upload alone with its file leaves in it in the end.
UpLeft(D, a, r, n) ==
    LET w == UP!Written(SubSeq(D, 1, a), a, SubSeq(SubSeq(D, a + 1, r), 1, n))
    IN  UP!IsPrefix(w, D) /\ (n >= Len(SubSeq(D, a + 1, r)) => w = SubSeq(D, 1, r))

LEMMA UpLeaves ==
  ASSUME NEW D \in Seq(Nat), NEW a \in Nat, NEW r \in Nat, a <= r, r <= Len(D),
         NEW n \in {0, Len(SubSeq(D, a + 1, r))}
  PROVE  UpLeft(D, a, r, n)
<1> DEFINE b == SubSeq(D, a + 1, r)
           w == UP!Written(SubSeq(D, 1, a), a, SubSeq(b, 1, n))
<1>0. Len(D) \in Nat /\ a <= Len(D)  BY LenProperties
<1>1. b \in Seq(Nat) /\ Len(b) = r - a  BY <1>0, UpPiece
<1> HIDE DEF b
<1>2. \E e \in Nat : e <= Len(D) /\ w = SubSeq(D, 1, e) /\ (n = Len(b) => e = r)
  <2>1. CASE n = Len(b)
    <3>1. SubSeq(b, 1, n) = b  BY <1>1, <2>1, UpSub
    <3>2. w = SubSeq(D, 1, r)
      <4>1. UP!Written(SubSeq(D, 1, a), a, SubSeq(D, a + 1, r)) = SubSeq(D, 1, r)  BY <1>0, UpWrittenNext
      <4> QED  BY <3>1, <4>1, Zenon DEF b
    <3> HIDE DEF w
    <3> QED  BY <3>2
  <2>2. CASE n = 0 /\ n # Len(b)
    <3>1. SubSeq(b, 1, n) = <<>>  BY <1>1, <2>2, UpSub
    <3>2. a + 1 \in Int /\ a \in Int /\ a < a + 1  OBVIOUS
    <3>3. SubSeq(D, a + 1, a) = <<>>  BY <3>2, SubSeqEmpty
    <3>4. a <= a  OBVIOUS
    <3>5. UP!Written(SubSeq(D, 1, a), a, SubSeq(D, a + 1, a)) = SubSeq(D, 1, a)
      BY <1>0, <3>4, UpWrittenNext
    <3>6. w = SubSeq(D, 1, a)  BY <3>1, <3>3, <3>5, Zenon
    <3> HIDE DEF w
    <3> QED  BY <1>0, <2>2, <3>6
  <2>3. n = Len(b) \/ n = 0  BY DEF b
  <2> QED  BY <2>1, <2>2, <2>3
<1> HIDE DEF w
<1>3. PICK e \in Nat : e <= Len(D) /\ w = SubSeq(D, 1, e) /\ (n = Len(b) => e = r)  BY <1>2
<1>4. SubSeq(D, 1, e) \in Seq(Nat) /\ Len(SubSeq(D, 1, e)) = e  BY <1>3, UpFirst
<1>5. w \in Seq(Nat) /\ Len(w) = e  BY <1>3, <1>4
<1>6. SubSeq(w, 1, Len(w)) = w  BY <1>5, UpSub
<1>7. UP!IsPrefix(w, D)  BY <1>3, <1>5, <1>6 DEF UP!IsPrefix
<1>8. n >= Len(b) => n = Len(b)
  <2>1. Len(b) \in Nat  BY <1>1, LenProperties
  <2>2. n = Len(b) \/ n = 0  BY DEF b
  <2> QED  BY <2>1, <2>2
<1>9. n >= Len(b) => w = SubSeq(D, 1, r)  BY <1>3, <1>8
<1> QED  BY <1>7, <1>9, Zenon DEF UpLeft, w, b

\* The record of the answer "200 OK" to p, when the first n bytes of its buffer went
\* to the file.
UpStored(p, d, n) ==
    LET d0 == UP!Flushed(d, p.fus, <<>>, n)
    IN  [part |-> UpNow(p), said |-> p.fus.numRecd, contents |-> d0.contents[p.fus.fp],
         fp |-> p.fus.fp, named |-> d0.names[p.fus.lfn] = p.fus.fp,
         shared |-> p.fus.shared, short |-> n < Len(p.fus.buffer)]

\* The fields of a record without those that are truth values, which are states
\* of their own to the provers.
LEMMA UpStoredFields ==
  ASSUME NEW p, NEW d, NEW n, NEW s, s = UpStored(p, d, n)
  PROVE  /\ s.part = UpNow(p) /\ s.said = p.fus.numRecd /\ s.fp = p.fus.fp
         /\ s.contents = UP!Flushed(d, p.fus, <<>>, n).contents[p.fus.fp]
         /\ s.shared = p.fus.shared
         /\ s.named = (UP!Flushed(d, p.fus, <<>>, n).names[p.fus.lfn] = p.fus.fp)
         /\ s.short = (n < Len(p.fus.buffer))
BY DEF UpStored

LEMMA UpStoring ==
  ASSUME NEW ps, NEW d, NEW st, NEW c \in Uploaders, NEW p, p = ps[c], UpHolds(ps, d, st),
         ~p.closed, p.inPart, UP!Open(p.fus), p.received = Len(UpNow(p).data),
         NEW n \in {0, Len(p.fus.buffer)}
  PROVE  UpAfter(d, p.fus, <<>>, n, UP!Flushed(d, p.fus, <<>>, n)) /\ UpWhole(UpStored(p, d, n))
<1> DEFINE D == UpNow(p).data
           d1 == UP!Flushed(d, p.fus, <<>>, n)
           s == UpStored(p, d, n)
<1>1. /\ UpConn(p) /\ p \in UpPost /\ UpOpened(p, d) /\ UpWrites(p) /\ UpAlone(ps, d, c) /\ UpNamed(d)
  BY Zenon DEF UpHolds, UpConn, UpWrites
<1>2. p.part > 0  BY <1>1, Zenon DEF UpConn
<1>3. D \in Seq(Nat) /\ Len(D) \in Nat  BY <1>1, <1>2, UpNowType
<1>4. p.fus \in UpFus  BY <1>1, UpOpen DEF UpPost
<1>5. p.fus.buffer \in Seq(Nat) /\ p.fus.pos \in Nat  BY <1>4 DEF UpFus
<1>6. p.fus.buffer \o <<>> = p.fus.buffer /\ <<>> \in Seq(Nat)  BY <1>5, ConcatEmptySeq, EmptySeq
<1>7. n \in 0..Len(p.fus.buffer \o <<>>)
  <2>1. Len(p.fus.buffer) \in Nat  BY <1>5, LenProperties
  <2>2. n \in 0..Len(p.fus.buffer)  BY <2>1
  <2> QED  BY <1>6, <2>2
<1>8. p.fus.fp \in 1..Len(d.contents)  BY <1>1, Zenon DEF UpOpened
<1>9. UpAfter(d, p.fus, <<>>, n, d1)  BY <1>1, <1>4, <1>6, <1>7, <1>8, UpFlush
<1>10. /\ s.part = UpNow(p) /\ s.said = p.fus.numRecd
       /\ s.contents = d1.contents[p.fus.fp]
       /\ s.shared = p.fus.shared
       /\ s.named = (d1.names[p.fus.lfn] = p.fus.fp)
       /\ s.short = (n < Len(p.fus.buffer))
  BY UpStoredFields
<1> HIDE DEF d1, s
<1>11. s.said = Len(s.part.data)  BY <1>1, <1>10, Zenon DEF UpConn
<1>12. ASSUME ~s.shared
       PROVE  s.named /\ UP!IsPrefix(s.contents, s.part.data) /\ (~s.short => s.contents = s.part.data)
  <2>0. PICK a : a = p.fus.pos  OBVIOUS
  <2>1. ~p.fus.shared  BY <1>10, <1>12, Zenon
  <2>2. UpKept(p, d)  BY <1>1, <2>1, Zenon DEF UpAlone
  <2>3. /\ d.names[p.fus.lfn] = p.fus.fp /\ a \in Nat /\ a <= Len(D)
        /\ d.contents[p.fus.fp] = SubSeq(D, 1, a)
        /\ p.fus.buffer = SubSeq(D, a + 1, Len(D))
    BY <1>5, <2>0, <2>2 DEF UpKept
  <2> HIDE DEF D
  <2>4. UpLeft(D, a, Len(D), n)
    <3>1. n \in {0, Len(SubSeq(D, a + 1, Len(D)))} /\ Len(D) <= Len(D)  BY <1>3, <2>3
    <3> QED  BY <1>3, <2>3, <3>1, UpLeaves
  <2>5. s.contents = UP!Written(SubSeq(D, 1, a), a, SubSeq(SubSeq(D, a + 1, Len(D)), 1, n))
    <3>1. s.contents = UP!Written(d.contents[p.fus.fp], p.fus.pos, SubSeq(p.fus.buffer \o <<>>, 1, n))
      BY <1>9, <1>10, Zenon DEF UpAfter
    <3> QED  BY <1>6, <2>0, <2>3, <3>1, Zenon
  <2>6. s.named  BY <1>9, <1>10, <2>3, Zenon DEF UpAfter
  <2>7. s.part.data = D  BY <1>10, Zenon DEF D
  <2>8. SubSeq(D, 1, Len(D)) = D  BY <1>3, UpSub
  <2>9. UP!IsPrefix(s.contents, D) /\ (n >= Len(SubSeq(D, a + 1, Len(D))) => s.contents = D)
    BY <2>4, <2>5, <2>8, Zenon DEF UpLeft
  <2>10. ~s.short => n >= Len(SubSeq(D, a + 1, Len(D)))
    <3>1. Len(p.fus.buffer) \in Nat /\ n \in Nat  BY <1>5, LenProperties
    <3>2. ~(n < Len(p.fus.buffer)) => n >= Len(p.fus.buffer)  BY <3>1
    <3>3. ~s.short => ~(n < Len(p.fus.buffer))  BY <1>10, Zenon
    <3> QED  BY <2>3, <3>2, <3>3, Zenon
  <2> QED  BY <2>6, <2>7, <2>9, <2>10, Zenon
<1>13. UpWhole(s)  BY <1>11, <1>12, Zenon DEF UpWhole
<1> QED  BY <1>9, <1>13 DEF d1, s

\* The end of a part: the disk and what is recorded of the answer.
UpEnds(p, n, d, st, d1, st1) ==
    IF UP!Open(p.fus)
    THEN d1 = UP!Flushed(d, p.fus, <<>>, n) /\ st1 = st \cup {UpStored(p, d, n)}
    ELSE d1 = d /\ st1 = st

LEMMA UpFinishing ==
  ASSUME NEW ps, NEW d, NEW st, NEW c \in Uploaders, UpHolds(ps, d, st),
         ~ps[c].closed, ps[c].inPart, ps[c].received = Len(UpNow(ps[c]).data),
         NEW q, UpEnded(ps[c], q),
         NEW n, UP!Open(ps[c].fus) => n \in {0, Len(ps[c].fus.buffer)},
         NEW d1, NEW st1, UpEnds(ps[c], n, d, st, d1, st1)
  PROVE  UpHolds([ps EXCEPT ![c] = q], d1, st1)
<1>0. PICK p : p = ps[c]  OBVIOUS
<1>1. /\ DOMAIN ps = Uploaders /\ UpNamed(d)
      /\ \A x \in Uploaders : ps[x] \in UpPost /\ UpOpened(ps[x], d) /\ UpAlone(ps, d, x)
  BY Zenon DEF UpHolds, UpConn
<1>2. UpConn(p) /\ p \in UpPost /\ UpOpened(p, d) /\ ~p.closed /\ p.inPart /\ UpEnded(p, q)
  BY <1>0, Zenon DEF UpHolds, UpConn
<1>3. UpConn(q) /\ ~UpWrites(q) /\ ~UP!Open(q.fus)
  <2>1. UpEndedConn(p, q)  BY <1>2, UpEnding
  <2> QED  BY <2>1, Zenon DEF UpEndedConn
<1>4. CASE ~UP!Open(p.fus)
  <2>1. d1 = d /\ st1 = st  BY <1>0, <1>4, Zenon DEF UpEnds
  <2>2. UpHolds([ps EXCEPT ![c] = q], d, st)  BY <1>0, <1>3, <1>4, UpQuiet, Zenon
  <2> QED  BY <2>1, <2>2
<1>5. CASE UP!Open(p.fus)
  <2> DEFINE s == UpStored(p, d, n)
             ps1 == [ps EXCEPT ![c] = q]
  <2>1. d1 = UP!Flushed(d, p.fus, <<>>, n) /\ st1 = st \cup {s}  BY <1>0, <1>5, Zenon DEF UpEnds
  <2>2. n \in {0, Len(p.fus.buffer)} /\ p.received = Len(UpNow(p).data)  BY <1>0, <1>5
  <2>3. UpAfter(d, p.fus, <<>>, n, d1) /\ UpWhole(s)  BY <1>0, <1>2, <1>5, <2>1, <2>2, UpStoring
  <2>4. s.fp = p.fus.fp  BY UpStoredFields
  <2>5. /\ DOMAIN ps1 = Uploaders /\ ps1[c] = q
        /\ \A x \in Uploaders \ {c} : ps1[x] = ps[x] /\ UpLike(ps[x], ps1[x])
    BY <1>1, UpReplaced
  <2> HIDE DEF s, ps1
  <2>6. st \subseteq st1 /\ s \in st1 /\ \A t \in st1 : UpWhole(t)
    <3>1. \A t \in st : UpWhole(t)  BY Zenon DEF UpHolds
    <3> QED  BY <2>1, <2>3, <3>1, Zenon
  <2>7. /\ UpNamed(d1) /\ UpMore(d, d1) /\ d1.names = d.names
        /\ \A m \in 1..Len(d.contents) : m # p.fus.fp => d1.contents[m] = d.contents[m]
    BY <2>3, Zenon DEF UpAfter
  <2>8. UpOpened(q, d1)  BY <1>3, Zenon DEF UpOpened
  <2>9. UpRenamed(ps[c], q, d, d1, st1)  BY <1>0, <2>4, <2>6, <2>7, Zenon DEF UpRenamed
  <2>10. ASSUME NEW x \in Uploaders \ {c}  PROVE UpUntouched(ps1[x], d, d1, q)
    <3> SUFFICES ASSUME UpWrites(ps[x]), ~ps[x].fus.shared
                 PROVE  d1.contents[ps[x].fus.fp] = d.contents[ps[x].fus.fp]
      BY <1>3, <2>5, <2>7, Zenon DEF UpUntouched
    <3>1. x \in Uploaders /\ x # c /\ UP!Open(ps[x].fus)  BY <2>10, Zenon DEF UpWrites
    <3>2. UpWrites(ps[c])  BY <1>0, <1>2, <1>5, Zenon DEF UpWrites
    <3>3. ps[c].fus.fp # ps[x].fus.fp  BY <1>1, <3>1, <3>2, UpApart
    <3>4. ps[x].fus.fp \in 1..Len(d.contents)  BY <1>1, <3>1, Zenon DEF UpOpened
    <3> QED  BY <1>0, <2>7, <3>3, <3>4, Zenon
  <2>11. UpMoves(c, ps, d, st, ps1, d1, st1)
    BY <1>3, <2>5, <2>6, <2>7, <2>8, <2>9, <2>10, Zenon DEF UpMoves
  <2>12. UpHolds(ps1, d1, st1)  BY <2>11, UpFrame, Zenon
  <2> QED  BY <2>12 DEF ps1
<1> QED  BY <1>4, <1>5

\* fopen(name, "w").
UpCreates(d, file, d1) ==
    /\ UpNamed(d1) /\ UpMore(d, d1)
    /\ d1.names[file] \in 1..Len(d1.contents) /\ d1.contents[d1.names[file]] = <<>>
    /\ \A f \in Names : f # file => d1.names[f] = d.names[f]
    /\ \A m \in 1..Len(d.contents) : m # d1.names[file] => d1.contents[m] = d.contents[m]

LEMMA UpCreated ==
  ASSUME NEW d, UpNamed(d), NEW file \in Names
  PROVE  UpCreates(d, file, UP!Created(d, file))
<1> DEFINE d1 == UP!Created(d, file)
           k == d.names[file]
           s == d.contents
<1>1. /\ d \in UpDisk /\ d.names \in [Names -> Nat] /\ s \in Seq(Seq(Nat)) /\ Len(s) \in Nat /\ k \in Nat
      /\ <<>> \in Seq(Nat)
  BY EmptySeq, LenProperties DEF UpNamed, UpDisk
<1>2. /\ \A f \in Names : d.names[f] <= Len(s)
      /\ \A f, g \in Names : d.names[f] = d.names[g] /\ d.names[f] # 0 => f = g
  BY Zenon DEF UpNamed
<1>3. CASE k # 0
  <2> DEFINE t == [s EXCEPT ![k] = <<>>]
  <2>1. d1 = [d EXCEPT !.contents = t]  BY <1>3 DEF UP!Created
  <2>2. k \in 1..Len(s)  BY <1>1, <1>2, <1>3
  <2> HIDE DEF k, s
  <2>3. t \in Seq(Seq(Nat)) /\ Len(t) = Len(s) /\ t[k] = <<>> /\ \A m \in 1..Len(s) : m # k => t[m] = s[m]
    BY <1>1, <2>2, ExceptSeq
  <2> HIDE DEF t, d1
  <2>4. d1.names = d.names /\ d1.contents = t /\ d1 \in UpDisk  BY <1>1, <2>1, <2>3 DEF UpDisk
  <2>5. d1.names[file] = k  BY <2>4 DEF k
  <2>6. UpNamed(d1)  BY <1>2, <2>3, <2>4 DEF UpNamed
  <2>7. UpMore(d, d1)  BY <1>1, <2>3, <2>4 DEF UpMore, s
  <2>8. d1.names[file] \in 1..Len(d1.contents)  BY <2>2, <2>3, <2>4, <2>5
  <2>9. \A m \in 1..Len(d.contents) : m # d1.names[file] => d1.contents[m] = d.contents[m]
    BY <2>3, <2>4, <2>5, Zenon DEF s
  <2>10. d1.contents[d1.names[file]] = <<>>  BY <2>3, <2>4, <2>5
  <2>11. UpCreates(d, file, d1)  BY <2>4, <2>6, <2>7, <2>8, <2>9, <2>10, Zenon DEF UpCreates
  <2> QED  BY <2>11 DEF d1
<1>4. CASE k = 0
  <2> DEFINE m1 == Len(s) + 1
             n == [d.names EXCEPT ![file] = m1]
             t == Append(s, <<>>)
  <2>1. d1 = [names |-> n, contents |-> t]  BY <1>4 DEF UP!Created
  <2> HIDE DEF k, s
  <2>2. t \in Seq(Seq(Nat)) /\ Len(t) = m1 /\ t[m1] = <<>> /\ \A m \in 1..Len(s) : t[m] = s[m]
    BY <1>1, AppendProperties
  <2>3. m1 \in Nat /\ m1 = Len(s) + 1  BY <1>1
  <2> HIDE DEF m1
  <2>4. n \in [Names -> Nat] /\ n[file] = m1 /\ \A f \in Names : f # file => n[f] = d.names[f]  BY <1>1, <2>3
  <2> HIDE DEF n, t, d1
  <2>5. d1.names = n /\ d1.contents = t /\ d1 \in UpDisk  BY <2>1, <2>2, <2>4 DEF UpDisk
  <2>6. \A f \in Names : (n[f] = m1 /\ f = file) \/ (n[f] = d.names[f] /\ n[f] <= Len(s) /\ f # file)
    BY <1>2, <2>4, Zenon
  <2>7. ~(m1 <= Len(s)) /\ \A i \in Nat : i <= Len(s) => i <= m1  BY <1>1, <2>3
  <2>8. \A f \in Names : n[f] <= m1
    <3>1. m1 <= m1  BY <2>3
    <3>2. \A f \in Names : n[f] \in Nat  BY <2>4
    <3> QED  BY <2>6, <2>7, <3>1, <3>2, Zenon
  <2>9. \A f, g \in Names : n[f] = n[g] /\ n[f] # 0 => f = g
    <3> TAKE f, g \in Names
    <3> HAVE n[f] = n[g] /\ n[f] # 0
    <3>1. CASE f = file  BY <2>6, <2>7, <3>1, Zenon
    <3>2. CASE g = file  BY <2>6, <2>7, <3>2, Zenon
    <3>3. CASE f # file /\ g # file  BY <1>2, <2>4, <3>3, Zenon
    <3> QED  BY <3>1, <3>2, <3>3
  <2>10. UpNamed(d1)  BY <2>2, <2>5, <2>8, <2>9, Zenon DEF UpNamed
  <2>11. UpMore(d, d1)
    <3>1. Len(s) <= m1 /\ m1 > Len(s)  BY <1>1, <2>3
    <3> QED  BY <2>2, <2>5, <2>6, <3>1, Zenon DEF UpMore, s
  <2>12. m1 \in 1..m1  BY <1>1, <2>3
  <2>13. \A m \in 1..Len(d.contents) : d1.contents[m] = d.contents[m]  BY <2>2, <2>5, Zenon DEF s
  <2>14. UpCreates(d, file, d1)  BY <2>2, <2>4, <2>5, <2>10, <2>11, <2>12, <2>13, Zenon DEF UpCreates
  <2> QED  BY <2>14 DEF d1
<1> QED  BY <1>3, <1>4

\* The record of an upload with its next part, for which fus was set.
UpNext(p, q, fus) ==
    /\ q \in UpPost /\ q.request = p.request /\ q.part = p.part + 1 /\ q.inPart
    /\ q.received = 0 /\ q.closed = p.closed /\ q.fus = fus
    /\ IF UP!Open(fus) THEN q.answers = p.answers
       ELSE \E a \in UpAnswer : a.part = p.part + 1 /\ q.answers = Append(p.answers, a)

\* It is refused, its file cannot be opened, or it is opened.
UpBegins(p, ps, d, c, ps1, d1) ==
    \/ \E q \in UpPost, fus \in UpFus \cup {UP!NULL} :
          /\ ~UP!Open(fus) /\ UpNext(p, q, fus)
          /\ ps1 = [ps EXCEPT ![c] = q] /\ d1 = d
    \/ \E q \in UpPost, fus \in UpFus, file \in Names :
          /\ file = p.request[p.part + 1].file
          /\ d1 = UP!Created(d, file) /\ UpNext(p, q, fus)
          /\ ps1 = [UP!Disturbed(ps, c, file) EXCEPT ![c] = q]
          /\ fus.lfn = file /\ fus.fp = d1.names[file] /\ fus.numRecd = 0 /\ fus.pos = 0
          /\ fus.buffer = <<>>
          /\ fus.shared = \E x \in Uploaders \ {c} : UpWrites(ps[x]) /\ ps[x].fus.fp = fus.fp

LEMMA UpNextConn ==
  ASSUME NEW p, UpConn(p), ~p.closed, ~UP!Open(p.fus), p.part < Len(p.request),
         NEW fus \in UpFus \cup {UP!NULL}, NEW q, UpNext(p, q, fus),
         UP!Open(fus) => fus.numRecd = 0 /\ fus.lfn = p.request[p.part + 1].file
  PROVE  UpConn(q)
<1>1. /\ q \in UpPost /\ q.request = p.request /\ q.part = p.part + 1 /\ q.inPart
      /\ q.received = 0 /\ q.closed = p.closed /\ q.fus = fus
  BY Zenon DEF UpNext
<1>2. p \in UpPost /\ UpTold(p)  BY Zenon DEF UpConn
<1>3. p.part \in Nat /\ p.request \in UploadRequests  BY <1>2 DEF UpPost
<1>4. p.request \in Seq(UpPart)  BY <1>3, ProtocolsAssumption DEF UpPart
<1>5. Len(p.request) \in Nat  BY <1>4, LenProperties
<1>6. q.part <= Len(q.request) /\ q.part \in 1..Len(q.request) /\ q.part > 0  BY <1>1, <1>3, <1>5
<1>7. UpNow(q) \in UpPart
  <2>1. q.request \in Seq(UpPart)  BY <1>1, <1>4
  <2> QED  BY <1>6, <2>1, ElementOfSeq DEF UpNow
<1>8. q.received <= Len(UpNow(q).data)
  <2>1. UpNow(q).data \in Seq(Nat)  BY <1>7 DEF UpPart
  <2>2. Len(UpNow(q).data) \in Nat  BY <2>1, LenProperties
  <2> QED  BY <1>1, <2>2
<1>9. UpTold(q)
  <2>1. CASE UP!Open(fus)
    <3>1. UP!Open(q.fus) /\ q.answers = p.answers  BY <1>1, <2>1, Zenon DEF UpNext
    <3> QED  BY <1>1, <1>2, <3>1, UpToldNext
  <2>2. CASE ~UP!Open(fus)
    <3>1. /\ ~UP!Open(q.fus)
          /\ \E a \in UpAnswer : a.part = p.part + 1 /\ q.answers = Append(p.answers, a)
      BY <1>1, <2>2, Zenon DEF UpNext
    <3> QED  BY <1>1, <1>2, <3>1, UpToldNext
  <2> QED  BY <2>1, <2>2
<1>10. UpWrites(q) => q.fus.numRecd = q.received /\ q.fus.lfn = UpNow(q).file
  <2>1. UpNow(q) = p.request[p.part + 1]  BY <1>1 DEF UpNow
  <2> QED  BY <1>1, <2>1, Zenon DEF UpWrites
<1> QED  BY <1>1, <1>6, <1>8, <1>9, <1>10, Zenon DEF UpConn

LEMMA UpBeginning ==
  ASSUME NEW ps, NEW d, NEW st, NEW c \in Uploaders, UpHolds(ps, d, st),
         ~ps[c].closed, ps[c].fus = UP!NULL, ps[c].part < Len(ps[c].request),
         NEW ps1, NEW d1, UpBegins(ps[c], ps, d, c, ps1, d1)
  PROVE  UpHolds(ps1, d1, st)
<1>0. PICK p : p = ps[c]  OBVIOUS
<1>1. /\ DOMAIN ps = Uploaders /\ UpNamed(d)
      /\ \A x \in Uploaders : ps[x] \in UpPost /\ UpOpened(ps[x], d) /\ UpAlone(ps, d, x)
  BY Zenon DEF UpHolds, UpConn
<1>2. UpConn(p) /\ ~p.closed /\ ~UP!Open(p.fus) /\ p.part < Len(p.request)
  BY <1>0, Zenon DEF UpHolds, UP!Open
<1>3. UpBegins(p, ps, d, c, ps1, d1)  BY <1>0
<1>4. ASSUME NEW q \in UpPost, NEW fus \in UpFus \cup {UP!NULL}, ~UP!Open(fus), UpNext(p, q, fus),
             ps1 = [ps EXCEPT ![c] = q], d1 = d
      PROVE  UpHolds(ps1, d1, st)
  <2>1. UpConn(q)  BY <1>2, <1>4, UpNextConn, Zenon
  <2>2. ~UP!Open(q.fus) /\ ~UpWrites(q)  BY <1>4, Zenon DEF UpNext, UpWrites
  <2>3. UpHolds([ps EXCEPT ![c] = q], d, st)  BY <1>0, <1>2, <2>1, <2>2, UpQuiet, Zenon
  <2> QED  BY <1>4, <2>3
<1>5. ASSUME NEW q \in UpPost, NEW fus \in UpFus, NEW file \in Names,
             file = p.request[p.part + 1].file, d1 = UP!Created(d, file), UpNext(p, q, fus),
             ps1 = [UP!Disturbed(ps, c, file) EXCEPT ![c] = q],
             fus.lfn = file, fus.fp = d1.names[file], fus.numRecd = 0, fus.pos = 0, fus.buffer = <<>>,
             fus.shared = \E x \in Uploaders \ {c} : UpWrites(ps[x]) /\ ps[x].fus.fp = fus.fp
      PROVE  UpMoves(c, ps, d, st, ps1, d1, st)
  <2>1. UpCreates(d, file, d1)  BY <1>1, <1>5, UpCreated
  <2>2. /\ UpNamed(d1) /\ UpMore(d, d1)
        /\ fus.fp \in 1..Len(d1.contents) /\ d1.contents[fus.fp] = <<>>
        /\ \A f \in Names : f # file => d1.names[f] = d.names[f]
        /\ \A m \in 1..Len(d.contents) : m # fus.fp => d1.contents[m] = d.contents[m]
    BY <1>5, <2>1, Zenon DEF UpCreates
  <2>3. UpShakes(ps, c, file, q, ps1)  BY <1>1, <1>5, UpShaken
  <2>4. /\ DOMAIN ps1 = Uploaders /\ ps1[c] = q
        /\ \A x \in Uploaders \ {c} : /\ UpLike(ps[x], ps1[x])
                                      /\ ps[x].fus # UP!NULL /\ ps[x].fus.lfn = file => ps1[x].fus.shared
    BY <2>3, Zenon DEF UpShakes
  <2>5. q.fus = fus /\ q.received = 0 /\ q.request = p.request /\ q.part = p.part + 1  BY <1>5, Zenon DEF UpNext
  <2>6. fus.fp # 0
    <3>1. \A k \in 1..Len(d1.contents) : k # 0  OBVIOUS
    <3> QED  BY <2>2, <3>1, Zenon
  <2>7. UP!Open(fus)  BY <2>6, UpNotNull, Zenon DEF UP!Open
  <2>8. UpConn(q)
    <3>1. fus \in UpFus \cup {UP!NULL}  OBVIOUS
    <3> QED  BY <1>2, <1>5, <3>1, UpNextConn, Zenon
  <2>9. d1.names[file] = fus.fp /\ \A f, g \in Names : d1.names[f] = d1.names[g] /\ d1.names[f] # 0 => f = g
    BY <1>5, <2>2, Zenon DEF UpNamed
  <2>10. UpOpened(q, d1)  BY <1>5, <2>2, <2>5, <2>6, <2>9, Zenon DEF UpOpened
  <2>11. UpKept(q, d1)
    <3>1. UpNow(q).data \in Seq(Nat)
      <4>1. p.part \in Nat /\ q.part = p.part + 1  BY <1>2, <2>5 DEF UpConn, UpPost
      <4>2. q.part > 0  BY <4>1
      <4> QED  BY <2>8, <4>2, UpNowType
    <3>2. SubSeq(UpNow(q).data, 1, 0) = <<>>  BY <3>1, UpSub
    <3>a. q.fus.pos = 0 /\ q.received = 0  BY <1>5, <2>5, Zenon
    <3>3. q.fus.pos = 0 /\ q.fus.pos <= q.received /\ q.fus.pos + 1 = 1  BY <3>a
    <3>4. q.fus.buffer = SubSeq(UpNow(q).data, q.fus.pos + 1, q.received)  BY <1>5, <2>5, <3>2, <3>3, Zenon
    <3>5. d1.contents[q.fus.fp] = SubSeq(UpNow(q).data, 1, q.fus.pos)  BY <2>2, <2>5, <3>2, <3>3, Zenon
    <3>6. d1.names[q.fus.lfn] = q.fus.fp  BY <1>5, <2>5, <2>9
    <3> QED  BY <3>3, <3>4, <3>5, <3>6, Zenon DEF UpKept
  <2>12. ~fus.shared => \A x \in Uploaders \ {c} : UpWrites(ps[x]) => ps[x].fus.fp # fus.fp
    BY <1>5, Zenon
  <2>13. ASSUME NEW x \in Uploaders \ {c}  PROVE UpUntouched(ps1[x], d, d1, q)
    <3> SUFFICES ASSUME UpWrites(ps1[x]), ~ps1[x].fus.shared
                 PROVE  /\ d1.names[ps1[x].fus.lfn] = d.names[ps1[x].fus.lfn]
                        /\ d1.contents[ps1[x].fus.fp] = d.contents[ps1[x].fus.fp]
                        /\ q.fus.fp # ps1[x].fus.fp
      BY Zenon DEF UpUntouched
    <3>1. ps[x] \in UpPost /\ UpLike(ps[x], ps1[x]) /\ x \in Uploaders  BY <1>1, <2>4, <2>13
    <3>2. ps1[x].fus = ps[x].fus /\ UpWrites(ps[x]) /\ UP!Open(ps[x].fus)
      BY <3>1, UpLikeFus, Zenon DEF UpWrites
    <3>3. ps[x].fus \in UpFus /\ ps[x].fus # UP!NULL
      <4>1. ps[x].fus \in UpFus  BY <3>1, <3>2, UpOpen DEF UpPost
      <4> QED  BY <4>1, UpNotNull
    <3>4. ps[x].fus.lfn \in Names  BY <3>3 DEF UpFus
    <3>5. ps[x].fus.lfn # file  BY <2>4, <2>13, <3>3, Zenon
    <3>6. d1.names[ps[x].fus.lfn] = d.names[ps[x].fus.lfn]  BY <2>2, <3>4, <3>5, Zenon
    <3>7. d.names[ps[x].fus.lfn] = ps[x].fus.fp
      BY <1>1, <3>1, <3>2, Zenon DEF UpAlone, UpKept
    <3>8. fus.fp # ps[x].fus.fp
      <4> SUFFICES ASSUME fus.fp = ps[x].fus.fp  PROVE FALSE  OBVIOUS
      <4>1. d1.names[ps[x].fus.lfn] = d1.names[file] /\ d1.names[file] # 0  BY <2>6, <2>9, <3>6, <3>7
      <4> QED  BY <2>9, <3>4, <3>5, <4>1, Zenon
    <3>9. ps[x].fus.fp \in 1..Len(d.contents)  BY <1>1, <3>1, <3>2, Zenon DEF UpOpened
    <3> QED  BY <2>2, <2>5, <3>2, <3>6, <3>8, <3>9, Zenon
  <2>14. UpRenamed(p, q, d, d1, st)
    <3>1. \A f \in Names : d1.names[f] = d.names[f] \/ (UP!Open(q.fus) /\ q.fus.fp = d1.names[f])
      BY <2>2, <2>5, <2>7, <2>9, Zenon
    <3> QED  BY <1>2, <3>1, Zenon DEF UpRenamed
  <2>15. \A s \in st : UpWhole(s)  BY Zenon DEF UpHolds
  <2>16. ~q.fus.shared => \A x \in Uploaders \ {c} : UpWrites(ps[x]) => ps[x].fus.fp # q.fus.fp
    BY <2>5, <2>12, Zenon
  <2>17. st \subseteq st  OBVIOUS
  <2>18. UpRenamed(ps[c], q, d, d1, st)  BY <1>0, <2>14
  <2> QED  BY <2>2, <2>4, <2>8, <2>10, <2>11, <2>13, <2>15, <2>16, <2>17, <2>18, Zenon DEF UpMoves
<1>6. CASE \E q \in UpPost, fus \in UpFus \cup {UP!NULL} :
              ~UP!Open(fus) /\ UpNext(p, q, fus) /\ ps1 = [ps EXCEPT ![c] = q] /\ d1 = d
  BY <1>4, <1>6, Zenon
<1>7. CASE \E q \in UpPost, fus \in UpFus, file \in Names :
              /\ file = p.request[p.part + 1].file
              /\ d1 = UP!Created(d, file) /\ UpNext(p, q, fus)
              /\ ps1 = [UP!Disturbed(ps, c, file) EXCEPT ![c] = q]
              /\ fus.lfn = file /\ fus.fp = d1.names[file] /\ fus.numRecd = 0 /\ fus.pos = 0
              /\ fus.buffer = <<>>
              /\ fus.shared = \E x \in Uploaders \ {c} : UpWrites(ps[x]) /\ ps[x].fus.fp = fus.fp
  <2>1. UpMoves(c, ps, d, st, ps1, d1, st)  BY <1>5, <1>7, Zenon
  <2> QED  BY <2>1, UpFrame, Zenon
<1> QED  BY <1>3, <1>6, <1>7, Zenon DEF UpBegins

-----------------------------------------------------------------------------
(* The actions *)

\* The record of a connection with its next part.
UpTurn(p) == [p EXCEPT !.part = @ + 1, !.inPart = TRUE, !.received = 0]

LEMMA UpTurned ==
  ASSUME NEW p \in UpPost
  PROVE  /\ UpTurn(p) \in UpPost /\ UpTurn(p).request = p.request /\ UpTurn(p).part = p.part + 1
         /\ UpTurn(p).inPart /\ UpTurn(p).received = 0 /\ UpTurn(p).closed = p.closed
         /\ UpTurn(p).fus = p.fus /\ UpTurn(p).answers = p.answers
<1> DEFINE k == p.part + 1
<1>1. k \in Nat  BY DEF UpPost
<1> HIDE DEF k
<1> DEFINE u == [p EXCEPT !.part = k]
           v == [u EXCEPT !.inPart = TRUE]
           w == [v EXCEPT !.received = 0]
<1>2. /\ u \in UpPost /\ u.request = p.request /\ u.part = k /\ u.closed = p.closed
      /\ u.fus = p.fus /\ u.answers = p.answers
  BY <1>1 DEF UpPost
<1> HIDE DEF u
<1>3. /\ v \in UpPost /\ v.request = u.request /\ v.part = u.part /\ v.inPart /\ v.closed = u.closed
      /\ v.fus = u.fus /\ v.answers = u.answers
  BY <1>2 DEF UpPost
<1> HIDE DEF v
<1>4. /\ w \in UpPost /\ w.request = v.request /\ w.part = v.part /\ w.inPart = v.inPart
      /\ w.closed = v.closed /\ w.fus = v.fus /\ w.answers = v.answers /\ w.received = 0
  BY <1>3 DEF UpPost
<1>5. UpTurn(p) = w  BY DEF UpTurn, u, v, k
<1> HIDE DEF w
<1> QED  BY <1>2, <1>3, <1>4, <1>5, Zenon DEF k

UpAnsweredSo(p, q, status) ==
    /\ q \in UpPost /\ q.request = p.request /\ q.part = p.part /\ q.inPart = p.inPart
    /\ q.received = p.received /\ q.closed = p.closed /\ q.fus = p.fus
    /\ q.answers = Append(p.answers, [part |-> p.part, status |-> status])
    /\ [part |-> p.part, status |-> status] \in UpAnswer

LEMMA UpAnswering ==
  ASSUME NEW p \in UpPost, NEW status \in {200, 403, 413, 500}
  PROVE  UpAnsweredSo(p, UP!Answered(p, status), status)
<1> DEFINE t == Append(p.answers, [part |-> p.part, status |-> status])
           q == [p EXCEPT !.answers = t]
<1>1. [part |-> p.part, status |-> status] \in UpAnswer  BY DEF UpPost, UpAnswer
<1>2. t \in Seq(UpAnswer)  BY <1>1, AppendProperties DEF UpPost
<1> HIDE DEF t
<1>3. /\ q \in UpPost /\ q.request = p.request /\ q.part = p.part /\ q.inPart = p.inPart
      /\ q.received = p.received /\ q.closed = p.closed /\ q.fus = p.fus /\ q.answers = t
  BY <1>2 DEF UpPost
<1>4. UP!Answered(p, status) = q  BY DEF UP!Answered, t
<1> HIDE DEF q
<1>5. UpAnsweredSo(p, q, status)  BY <1>1, <1>3, Zenon DEF UpAnsweredSo, t
<1> QED  BY <1>4, <1>5

LEMMA UpSetFus ==
  ASSUME NEW p \in UpPost, NEW f \in UpFus \cup {UP!NULL}
  PROVE  LET q == [p EXCEPT !.fus = f]
         IN  /\ q \in UpPost /\ q.request = p.request /\ q.part = p.part /\ q.inPart = p.inPart
             /\ q.received = p.received /\ q.closed = p.closed /\ q.fus = f /\ q.answers = p.answers
BY DEF UpPost

LEMMA UpSetClose ==
  ASSUME NEW p \in UpPost
  PROVE  LET q == [p EXCEPT !.sendAndClose = TRUE]
         IN  /\ q \in UpPost /\ q.request = p.request /\ q.part = p.part /\ q.inPart = p.inPart
             /\ q.received = p.received /\ q.closed = p.closed /\ q.fus = p.fus /\ q.answers = p.answers
BY DEF UpPost

\* The state of an upload that begins.
UpFresh(file, fp, shared) ==
    [lfn |-> file, fp |-> fp, numRecd |-> 0, pos |-> 0, buffer |-> <<>>, shared |-> shared]

LEMMA UpFreshFields ==
  ASSUME NEW file \in Names, NEW fp \in Nat, NEW shared \in BOOLEAN
  PROVE  LET f == UpFresh(file, fp, shared)
         IN  /\ f \in UpFus /\ f.lfn = file /\ f.fp = fp /\ f.numRecd = 0 /\ f.pos = 0
             /\ f.buffer = <<>> /\ f.shared = shared
<1>1. <<>> \in Seq(Nat)  BY EmptySeq
<1> QED  BY <1>1 DEF UpFresh, UpFus

LEMMA UpNextIs ==
  ASSUME NEW p \in UpPost, p.fus = UP!NULL, NEW f \in UpFus \cup {UP!NULL}
  PROVE  /\ UP!Open(f) => UpNext(p, [UpTurn(p) EXCEPT !.fus = f], f)
         /\ ~UP!Open(f) => UpNext(p, [UP!Answered(UpTurn(p), 500) EXCEPT !.fus = f], f)
         /\ UpNext(p, [UP!Answered(UpTurn(p), 403) EXCEPT !.sendAndClose = TRUE], UP!NULL)
<1> DEFINE t == UpTurn(p)
<1>1. /\ t \in UpPost /\ t.request = p.request /\ t.part = p.part + 1
      /\ t.inPart /\ t.received = 0 /\ t.closed = p.closed
      /\ t.fus = p.fus /\ t.answers = p.answers
  BY UpTurned
<1> HIDE DEF t
<1>2. ASSUME UP!Open(f)  PROVE UpNext(p, [t EXCEPT !.fus = f], f)
  <2> DEFINE q == [t EXCEPT !.fus = f]
  <2>1. /\ q \in UpPost /\ q.request = t.request /\ q.part = t.part /\ q.inPart = t.inPart
        /\ q.received = t.received /\ q.closed = t.closed /\ q.fus = f /\ q.answers = t.answers
    BY <1>1, UpSetFus
  <2> HIDE DEF q
  <2>2. UpNext(p, q, f)  BY <1>1, <1>2, <2>1, Zenon DEF UpNext
  <2> QED  BY <2>2 DEF q
<1>3. ASSUME ~UP!Open(f)  PROVE UpNext(p, [UP!Answered(t, 500) EXCEPT !.fus = f], f)
  <2> DEFINE u == UP!Answered(t, 500)
             q == [u EXCEPT !.fus = f]
             a == [part |-> t.part, status |-> 500]
  <2>0. 500 \in {200, 403, 413, 500}  OBVIOUS
  <2>1. UpAnsweredSo(t, u, 500)  BY <1>1, <2>0, UpAnswering
  <2>2. a.part = t.part  OBVIOUS
  <2> HIDE DEF u, a
  <2>3. /\ u \in UpPost /\ u.request = t.request /\ u.part = t.part /\ u.inPart = t.inPart
        /\ u.received = t.received /\ u.closed = t.closed
        /\ u.answers = Append(t.answers, a) /\ a \in UpAnswer
    BY <2>1, Zenon DEF UpAnsweredSo, a
  <2>4. /\ q \in UpPost /\ q.request = u.request /\ q.part = u.part /\ q.inPart = u.inPart
        /\ q.received = u.received /\ q.closed = u.closed /\ q.fus = f /\ q.answers = u.answers
    BY <2>3, UpSetFus
  <2> HIDE DEF q
  <2>5. UpNext(p, q, f)  BY <1>1, <1>3, <2>1, <2>2, <2>3, <2>4, ZenonT(40) DEF UpNext
  <2> QED  BY <2>5 DEF q, u
<1>4. UpNext(p, [UP!Answered(t, 403) EXCEPT !.sendAndClose = TRUE], UP!NULL)
  <2> DEFINE u == UP!Answered(t, 403)
             q == [u EXCEPT !.sendAndClose = TRUE]
             a == [part |-> t.part, status |-> 403]
  <2>0. 403 \in {200, 403, 413, 500}  OBVIOUS
  <2>1. UpAnsweredSo(t, u, 403)  BY <1>1, <2>0, UpAnswering
  <2>2. a.part = t.part  OBVIOUS
  <2> HIDE DEF u, a
  <2>3. /\ u \in UpPost /\ u.request = t.request /\ u.part = t.part /\ u.inPart = t.inPart
        /\ u.received = t.received /\ u.closed = t.closed /\ u.fus = t.fus
        /\ u.answers = Append(t.answers, a) /\ a \in UpAnswer
    BY <2>1, Zenon DEF UpAnsweredSo, a
  <2>4. /\ q \in UpPost /\ q.request = u.request /\ q.part = u.part /\ q.inPart = u.inPart
        /\ q.received = u.received /\ q.closed = u.closed /\ q.fus = u.fus /\ q.answers = u.answers
    BY <2>3, UpSetClose
  <2> HIDE DEF q
  <2>5. ~UP!Open(UP!NULL)  BY Zenon DEF UP!Open
  <2>6. UpNext(p, q, UP!NULL)  BY <1>1, <2>1, <2>2, <2>3, <2>4, <2>5, Zenon DEF UpNext
  <2> QED  BY <2>6 DEF q, u
<1> QED  BY <1>2, <1>3, <1>4 DEF t

\* FileUpload's PartBegin, of the record with its next part and the part's file.
UpStarts(c, t, file, d) ==
    IF file \in RefusedNames
    THEN /\ posts' = [posts EXCEPT ![c] = [UP!Answered(t, 403) EXCEPT !.sendAndClose = TRUE]]
         /\ disk' = d
    ELSE LET sh(fp) == \E x \in Uploaders \ {c} : UP!Writes(x) /\ posts[x].fus.fp = fp
         IN  \/ /\ disk' = UP!Created(d, file)
                /\ posts' = [UP!Disturbed(posts, c, file) EXCEPT
                        ![c] = [t EXCEPT !.fus = UpFresh(file, disk'.names[file], sh(disk'.names[file]))]]
             \/ /\ disk' = d
                /\ posts' = [posts EXCEPT ![c] = [UP!Answered(t, 500) EXCEPT !.fus = UpFresh(file, 0, sh(0))]]

LEMMA UpBegun ==
  ASSUME DOMAIN posts = Uploaders, NEW c \in Uploaders,
         NEW p \in UpPost, p.fus = UP!NULL, p.part < Len(p.request),
         NEW ps, ps = [posts EXCEPT ![c] = p], NEW d, UpNamed(d), UP!PartBegin(c, p, d)
  PROVE  UpBegins(p, ps, d, c, posts', disk')
<1>1. DOMAIN ps = Uploaders /\ ps[c] = p /\ \A x \in Uploaders \ {c} : ps[x] = posts[x]  OBVIOUS
<1>2. \A q : [posts EXCEPT ![c] = q] = [ps EXCEPT ![c] = q]  OBVIOUS
<1>3. PICK t : t = UpTurn(p)  OBVIOUS
<1>4. t.part = p.part + 1 /\ t.request = p.request  BY <1>3, UpTurned
<1>5. PICK file : file = p.request[p.part + 1].file  OBVIOUS
<1>6. file \in Names \cup RefusedNames
  <2>1. p.part \in Nat /\ p.request \in UploadRequests  BY DEF UpPost
  <2>2. p.request \in Seq(UpPart)  BY <2>1, ProtocolsAssumption DEF UpPart
  <2>3. Len(p.request) \in Nat  BY <2>2, LenProperties
  <2>4. p.part + 1 \in 1..Len(p.request)  BY <2>1, <2>3
  <2>5. p.request[p.part + 1] \in UpPart  BY <2>2, <2>4, ElementOfSeq
  <2> QED  BY <1>5, <2>5 DEF UpPart
<1>7. UpStarts(c, t, file, d)
  <2>1. UpStarts(c, UpTurn(p), p.request[UpTurn(p).part].file, d)
    BY DEF UP!PartBegin, UpStarts, UpTurn, UpFresh
  <2>2. p.request[UpTurn(p).part].file = file  BY <1>3, <1>4, <1>5
  <2> QED  BY <1>3, <2>1, <2>2
<1> DEFINE sh(fp) == \E x \in Uploaders \ {c} : UP!Writes(x) /\ posts[x].fus.fp = fp
<1>8. CASE file \in RefusedNames
  <2>1. posts' = [ps EXCEPT ![c] = [UP!Answered(t, 403) EXCEPT !.sendAndClose = TRUE]] /\ disk' = d
    BY <1>2, <1>7, <1>8 DEF UpStarts
  <2> DEFINE q == [UP!Answered(t, 403) EXCEPT !.sendAndClose = TRUE]
  <2>2. UP!NULL \in UpFus \cup {UP!NULL} /\ ~UP!Open(UP!NULL)  BY Zenon DEF UP!Open
  <2>3. UpNext(p, q, UP!NULL)  BY <1>3, <2>2, UpNextIs, ZenonT(40)
  <2>4. posts' = [ps EXCEPT ![c] = q]  BY <2>1
  <2> HIDE DEF q
  <2>5. q \in UpPost  BY <2>3, Zenon DEF UpNext
  <2> QED  BY <2>1, <2>2, <2>3, <2>4, <2>5, Zenon DEF UpBegins
<1>9. CASE /\ file \notin RefusedNames /\ disk' = d
           /\ posts' = [posts EXCEPT ![c] = [UP!Answered(t, 500) EXCEPT !.fus = UpFresh(file, 0, sh(0))]]
  <2> DEFINE f == UpFresh(file, 0, sh(0))
             q == [UP!Answered(t, 500) EXCEPT !.fus = f]
  <2>1. sh(0) \in BOOLEAN /\ file \in Names  BY <1>6, <1>9
  <2>2. posts' = [ps EXCEPT ![c] = q]
    <3>1. posts' = [posts EXCEPT ![c] = q]  BY <1>9
    <3> HIDE DEF q
    <3> QED  BY <1>2, <3>1
  <2> HIDE DEF sh
  <2>3. f \in UpFus /\ f.fp = 0  BY <2>1, UpFreshFields
  <2> HIDE DEF f
  <2>4. ~UP!Open(f) /\ f \in UpFus \cup {UP!NULL}  BY <2>3, Zenon DEF UP!Open
  <2>5. UpNext(p, q, f)  BY <1>3, <2>4, UpNextIs, ZenonT(40)
  <2> HIDE DEF q
  <2>6. q \in UpPost  BY <2>5, Zenon DEF UpNext
  <2> QED  BY <1>9, <2>2, <2>4, <2>5, <2>6, Zenon DEF UpBegins
<1>10. CASE /\ file \notin RefusedNames /\ disk' = UP!Created(d, file)
            /\ posts' = [UP!Disturbed(posts, c, file) EXCEPT
                            ![c] = [t EXCEPT !.fus = UpFresh(file, disk'.names[file], sh(disk'.names[file]))]]
  <2>1. PICK d1 : d1 = disk'  OBVIOUS
  <2> DEFINE fp == d1.names[file]
             f == UpFresh(file, fp, sh(fp))
             q == [t EXCEPT !.fus = f]
  <2>2. file \in Names /\ sh(fp) \in BOOLEAN  BY <1>6, <1>10
  <2>3. UpCreates(d, file, d1)  BY <1>10, <2>1, <2>2, UpCreated
  <2>4. fp \in Nat /\ fp # 0
    <3>1. fp \in 1..Len(d1.contents)  BY <2>3, Zenon DEF UpCreates
    <3> QED  BY <3>1
  <2>5. posts' = [UP!Disturbed(ps, c, file) EXCEPT ![c] = q]
    <3>1. posts' = [UP!Disturbed(posts, c, file) EXCEPT ![c] = q]  BY <1>10, <2>1
    <3> HIDE DEF q
    <3>2. [UP!Disturbed(posts, c, file) EXCEPT ![c] = q] = [UP!Disturbed(ps, c, file) EXCEPT ![c] = q]
      BY <1>1 DEF UP!Disturbed
    <3> QED  BY <3>1, <3>2
  <2>6. sh(fp) = \E x \in Uploaders \ {c} : UpWrites(ps[x]) /\ ps[x].fus.fp = fp
    BY <1>1, Zenon DEF UP!Writes, UpWrites
  <2> HIDE DEF sh
  <2>7. f \in UpFus /\ f.lfn = file /\ f.fp = fp /\ f.numRecd = 0 /\ f.pos = 0 /\ f.buffer = <<>> /\ f.shared = sh(fp)
    BY <2>2, <2>4, UpFreshFields
  <2> HIDE DEF f
  <2>8. UP!Open(f) /\ f \in UpFus \cup {UP!NULL}  BY <2>4, <2>7, UpNotNull, Zenon DEF UP!Open
  <2>9. UpNext(p, q, f)  BY <1>3, <2>8, UpNextIs, ZenonT(40)
  <2> HIDE DEF q
  <2>10. q \in UpPost  BY <2>9, Zenon DEF UpNext
  <2>11. f.shared = \E x \in Uploaders \ {c} : UpWrites(ps[x]) /\ ps[x].fus.fp = f.fp  BY <2>6, <2>7
  <2>12. f.fp = d1.names[file] /\ d1 = UP!Created(d, file)  BY <1>10, <2>1, <2>7
  <2> HIDE DEF fp
  <2>13. UpBegins(p, ps, d, c, posts', d1)
    BY <1>5, <2>2, <2>5, <2>7, <2>9, <2>10, <2>11, <2>12, Zenon DEF UpBegins
  <2> QED  BY <2>1, <2>13
<1> QED  BY <1>7, <1>8, <1>9, <1>10 DEF UpStarts

LEMMA UpBeginStep ==
  ASSUME UpInductive, NEW c \in Uploaders, UP!Begin(c)
  PROVE  UpInductive'
<1>1. PICK p : p = posts[c]  OBVIOUS
<1>2. /\ UpHolds(posts, disk, stored) /\ UpNamed(disk) /\ DOMAIN posts = Uploaders
      /\ p \in UpPost /\ UpConn(p)
  BY <1>1, Zenon DEF UpInductive, UpHolds, UpConn
<1>3. ~p.closed /\ p.part = 0 /\ UP!PartBegin(c, p, disk) /\ stored' = stored  BY <1>1 DEF UP!Begin
<1>4. p.fus = UP!NULL
  <2>1. ~(0 > 0)  OBVIOUS
  <2> QED  BY <1>2, <1>3, <2>1, Zenon DEF UpConn
<1>5. p.part < Len(p.request)
  <2>1. p.request \in UploadRequests  BY <1>2 DEF UpPost
  <2>2. p.request \in Seq(UpPart) /\ p.request # <<>>  BY <2>1, ProtocolsAssumption DEF UpPart
  <2>3. Len(p.request) \in Nat /\ Len(p.request) # 0  BY <2>2, EmptySeq, LenProperties
  <2> QED  BY <1>3, <2>3
<1>6. PICK ps : ps = [posts EXCEPT ![c] = p]  OBVIOUS
<1>7. UpHolds(ps, disk, stored) /\ ps[c] = p
  <2>1. ~UP!Open(p.fus) /\ ~UpWrites(p)  BY <1>4, Zenon DEF UP!Open, UpWrites
  <2>2. p.fus = posts[c].fus  BY <1>1
  <2>3. UpHolds([posts EXCEPT ![c] = p], disk, stored)  BY <1>2, <2>1, <2>2, UpQuiet, Zenon
  <2> QED  BY <1>2, <1>6, <2>3
<1>8. UpBegins(p, ps, disk, c, posts', disk')  BY <1>2, <1>3, <1>4, <1>5, <1>6, UpBegun
<1>9. UpHolds(posts', disk', stored)  BY <1>3, <1>4, <1>5, <1>7, <1>8, UpBeginning
<1> QED  BY <1>3, <1>9 DEF UpInductive

\* The state of an upload for which n bytes came in, and now has this at pos in its
\* buffer.
UpHas(f, g, n, pos, buffer) ==
    /\ g \in UpFus /\ g.lfn = f.lfn /\ g.fp = f.fp /\ g.shared = f.shared
    /\ g.numRecd = f.numRecd + n /\ g.pos = pos /\ g.buffer = buffer

LEMMA UpBuffered ==
  ASSUME NEW f \in UpFus, NEW n \in Nat, NEW more \in Seq(Nat)
  PROVE  /\ UpHas(f, [[f EXCEPT !.numRecd = @ + n] EXCEPT !.buffer = more], n, f.pos, more)
         /\ UpHas(f, [[f EXCEPT !.numRecd = @ + n] EXCEPT !.buffer = <<>>, !.pos = @ + Len(more)],
                  n, f.pos + Len(more), <<>>)
<1> DEFINE known == [f EXCEPT !.numRecd = @ + n]
           u == [known EXCEPT !.buffer = more]
           v == [known EXCEPT !.buffer = <<>>, !.pos = @ + Len(more)]
<1>1. f.numRecd + n \in Nat  BY DEF UpFus
<1>2. /\ known \in UpFus /\ known.lfn = f.lfn /\ known.fp = f.fp /\ known.shared = f.shared
      /\ known.numRecd = f.numRecd + n /\ known.pos = f.pos
  BY <1>1 DEF UpFus
<1> HIDE DEF known
<1>3. known.pos + Len(more) \in Nat /\ <<>> \in Seq(Nat)  BY <1>2, LenProperties, EmptySeq DEF UpFus
<1>4. /\ u \in UpFus /\ u.lfn = known.lfn /\ u.fp = known.fp /\ u.shared = known.shared
      /\ u.numRecd = known.numRecd /\ u.pos = known.pos /\ u.buffer = more
  BY <1>2 DEF UpFus
<1>5. /\ v \in UpFus /\ v.lfn = known.lfn /\ v.fp = known.fp /\ v.shared = known.shared
      /\ v.numRecd = known.numRecd /\ v.pos = known.pos + Len(more) /\ v.buffer = <<>>
  BY <1>2, <1>3 DEF UpFus
<1> HIDE DEF u, v
<1>6. UpHas(f, u, n, f.pos, more)  BY <1>2, <1>4, Zenon DEF UpHas
<1>7. UpHas(f, v, n, f.pos + Len(more), <<>>)  BY <1>2, <1>5, Zenon DEF UpHas
<1> QED  BY <1>6, <1>7 DEF u, v, known

\* The record of a connection that received so much.
UpLater(p, q, received, fus) ==
    /\ q \in UpPost /\ q.request = p.request /\ q.part = p.part /\ q.inPart = p.inPart
    /\ q.received = received /\ q.closed = p.closed /\ q.fus = fus /\ q.answers = p.answers

LEMMA UpReceived ==
  ASSUME NEW p \in UpPost, NEW n \in Nat
  PROVE  UpLater(p, [p EXCEPT !.received = n], n, p.fus)
BY DEF UpLater, UpPost

LEMMA UpReceivedInto ==
  ASSUME NEW p \in UpPost, NEW f \in UpFus, NEW n \in Nat
  PROVE  UpLater(p, [[p EXCEPT !.fus = f] EXCEPT !.received = n], n, f)
<1> DEFINE u == [p EXCEPT !.fus = f]
           q == [u EXCEPT !.received = n]
<1>1. f \in UpFus \cup {UP!NULL}  OBVIOUS
<1>2. /\ u \in UpPost /\ u.request = p.request /\ u.part = p.part /\ u.inPart = p.inPart
      /\ u.closed = p.closed /\ u.fus = f /\ u.answers = p.answers
  BY <1>1, UpSetFus
<1> HIDE DEF u
<1>3. UpLater(u, q, n, u.fus)  BY <1>2, UpReceived
<1> HIDE DEF q
<1>4. UpLater(p, q, n, f)  BY <1>2, <1>3, Zenon DEF UpLater
<1> QED  BY <1>4 DEF q, u

UpIsPiece(D, a, n) == SubSeq(D, a + 1, a + n) \in Seq(Nat) /\ Len(SubSeq(D, a + 1, a + n)) = n

LEMMA UpPieceOf ==
  ASSUME NEW D \in Seq(Nat), NEW a \in Nat, NEW n \in Nat, a + n <= Len(D)
  PROVE  UpIsPiece(D, a, n)
<1> DEFINE b == a + n
<1>1. b \in Nat /\ a <= b /\ b - a = n /\ b <= Len(D)  BY LenProperties
<1> HIDE DEF b
<1>2. SubSeq(D, a + 1, b) \in Seq(Nat) /\ Len(SubSeq(D, a + 1, b)) = b - a  BY <1>1, UpPiece
<1> QED  BY <1>1, <1>2 DEF b, UpIsPiece

LEMMA UpWriteStep ==
  ASSUME UpInductive, NEW c \in Uploaders, NEW p, p = posts[c], ~p.closed, p.inPart, UP!Open(p.fus),
         NEW n \in Nat, p.received + n <= Len(UpNow(p).data),
         NEW data, data = SubSeq(UpNow(p).data, p.received + 1, p.received + n),
         UP!WriteData(c, data)
  PROVE  UpHolds(posts', disk', stored)
<1> DEFINE e == p.received + n
           more == p.fus.buffer \o data
           known == [p.fus EXCEPT !.numRecd = @ + n]
           u == [known EXCEPT !.buffer = more]
           v == [known EXCEPT !.buffer = <<>>, !.pos = @ + Len(more)]
           qu == [[p EXCEPT !.fus = u] EXCEPT !.received = e]
           qv == [[p EXCEPT !.fus = v] EXCEPT !.received = e]
<1>1. UpHolds(posts, disk, stored) /\ DOMAIN posts = Uploaders /\ p \in UpPost /\ UpConn(p)
  BY Zenon DEF UpInductive, UpHolds, UpConn
<1>2. p.received \in Nat /\ e \in Nat /\ p.received <= e /\ e <= Len(UpNow(p).data) /\ e - p.received = n
  <2>1. p.received \in Nat  BY <1>1 DEF UpPost
  <2> QED  BY <2>1
<1>3. p.fus \in UpFus  BY <1>1, UpOpen DEF UpPost
<1>4. UpNow(p).data \in Seq(Nat)
  <2>1. p.part > 0  BY <1>1, Zenon DEF UpConn
  <2> QED  BY <1>1, <2>1, UpNowType
<1>5. data \in Seq(Nat) /\ Len(data) = n
  <2>1. UpIsPiece(UpNow(p).data, p.received, n)  BY <1>2, <1>4, UpPieceOf
  <2> QED  BY <2>1 DEF UpIsPiece
<1>6. more \in Seq(Nat)
  <2>1. p.fus.buffer \in Seq(Nat)  BY <1>3 DEF UpFus
  <2> QED  BY <1>5, <2>1, ConcatProperties
<1>7. UpHas(p.fus, u, n, p.fus.pos, more) /\ UpHas(p.fus, v, n, p.fus.pos + Len(more), <<>>)
  <2> HIDE DEF more
  <2> QED  BY <1>3, <1>6, UpBuffered
<1>8. \/ posts' = [posts EXCEPT ![c].fus = u, ![c].received = @ + n] /\ disk' = disk
      \/ posts' = [posts EXCEPT ![c].fus = v, ![c].received = @ + n]
         /\ disk' = UP!Flushed(disk, p.fus, data, Len(more))
  BY <1>5 DEF UP!WriteData
<1> HIDE DEF u, v
<1>a. u \in UpFus /\ v \in UpFus  BY <1>7, Zenon DEF UpHas
<1>9. \/ posts' = [posts EXCEPT ![c] = qu] /\ disk' = disk
      \/ posts' = [posts EXCEPT ![c] = qv] /\ disk' = UP!Flushed(disk, p.fus, data, Len(more))
  <2>1. [posts EXCEPT ![c].fus = u, ![c].received = @ + n] = [posts EXCEPT ![c] = qu]  BY <1>1
  <2>2. [posts EXCEPT ![c].fus = v, ![c].received = @ + n] = [posts EXCEPT ![c] = qv]  BY <1>1
  <2> QED  BY <1>8, <2>1, <2>2, Zenon
<1> HIDE DEF e
<1>10. UpLater(p, qu, e, u)  BY <1>1, <1>2, <1>a, UpReceivedInto
<1>11. UpLater(p, qv, e, v)  BY <1>1, <1>2, <1>a, UpReceivedInto
<1> HIDE DEF qu, qv, more
<1>12. p.fus.numRecd = p.received => p.fus.numRecd + n = e  BY DEF e
<1>13. CASE posts' = [posts EXCEPT ![c] = qu] /\ disk' = disk
  <2>1. UpWrote(p, qu, e, data, disk, disk)  BY <1>7, <1>10, <1>12, Zenon DEF UpWrote, UpLater, UpHas, more
  <2>2. UpWrote(posts[c], qu, e, SubSeq(UpNow(posts[c]).data, posts[c].received + 1, e), disk, disk)
    BY <2>1 DEF e
  <2>3. UpHolds([posts EXCEPT ![c] = qu], disk, stored)  BY <1>1, <1>2, <2>2, UpWriting
  <2> QED  BY <1>13, <2>3
<1>14. CASE posts' = [posts EXCEPT ![c] = qv] /\ disk' = UP!Flushed(disk, p.fus, data, Len(more))
  <2>0. PICK d1 : d1 = disk'  OBVIOUS
  <2>1. UpWrote(p, qv, e, data, disk, d1)  BY <1>7, <1>11, <1>12, <1>14, <2>0, Zenon DEF UpWrote, UpLater, UpHas, more
  <2>2. UpWrote(posts[c], qv, e, SubSeq(UpNow(posts[c]).data, posts[c].received + 1, e), disk, d1)
    BY <2>1 DEF e
  <2>3. UpHolds([posts EXCEPT ![c] = qv], d1, stored)  BY <1>1, <1>2, <2>2, UpWriting
  <2> QED  BY <1>14, <2>0, <2>3
<1> QED  BY <1>9, <1>13, <1>14

\* FileUpload's FailWrite, of the record of c.
UpLoses(p, c, data) ==
    \E k \in 0..(Len(p.fus.buffer) + Len(data) - 1), status \in {413, 500} :
        /\ disk' = [UP!Flushed(disk, p.fus, data, k) EXCEPT !.names[p.fus.lfn] = 0]
        /\ posts' = [UP!Disturbed(posts, c, p.fus.lfn) EXCEPT
                        ![c] = UP!Lost(@, status, Len(data))]

\* The record then.
UpLost(p, status, e) == [[UP!Answered(p, status) EXCEPT !.fus = [p.fus EXCEPT !.fp = 0]] EXCEPT !.received = e]

LEMMA UpLosing ==
  ASSUME NEW p \in UpPost, p.fus \in UpFus, NEW status \in {413, 500}, NEW e \in Nat
  PROVE  /\ UpFailed(p, UpLost(p, status, e), e)
         /\ \A n : e = p.received + n => UP!Lost(p, status, n) = UpLost(p, status, e)
<1> DEFINE u == UP!Answered(p, status)
           F == [p.fus EXCEPT !.fp = 0]
           q == [[u EXCEPT !.fus = F] EXCEPT !.received = e]
           a == [part |-> p.part, status |-> status]
<1>1. status \in {200, 403, 413, 500} /\ a.part = p.part  OBVIOUS
<1> HIDE DEF a
<1>2. UpAnsweredSo(p, u, status)  BY <1>1, UpAnswering
<1> HIDE DEF u
<1>3. u \in UpPost /\ u.fus = p.fus /\ u.received = p.received  BY <1>2, Zenon DEF UpAnsweredSo
<1>4. F \in UpFus /\ F.fp = 0  BY DEF UpFus
<1>5. \A n : e = p.received + n => [u EXCEPT !.fus.fp = 0, !.received = @ + n] = q
  BY <1>3 DEF UpPost
<1> HIDE DEF F
<1>6. UpLater(u, q, e, F)  BY <1>3, <1>4, UpReceivedInto
<1>7. q = UpLost(p, status, e)  BY DEF UpLost, u, F
<1> HIDE DEF q
<1>8. a \in UpAnswer /\ u.answers = Append(p.answers, a)  BY <1>2, Zenon DEF UpAnsweredSo, a
<1>9. /\ u.request = p.request /\ u.part = p.part /\ u.inPart = p.inPart /\ u.closed = p.closed
  BY <1>2, Zenon DEF UpAnsweredSo
<1>10. /\ q \in UpPost /\ q.request = u.request /\ q.part = u.part /\ q.inPart = u.inPart
       /\ q.received = e /\ q.closed = u.closed /\ q.fus = F /\ q.answers = u.answers
  BY <1>6, Zenon DEF UpLater
<1>11. q.request = p.request /\ q.part = p.part /\ q.inPart = p.inPart /\ q.closed = p.closed
  BY <1>9, <1>10, Zenon
<1>12. q.fus \in UpFus /\ q.fus.fp = 0  BY <1>4, <1>10
<1>13. \E b \in UpAnswer : b.part = p.part /\ q.answers = Append(p.answers, b)
  <2>1. a \in UpAnswer /\ a.part = p.part /\ q.answers = Append(p.answers, a)  BY <1>1, <1>8, <1>10
  <2> QED  BY <2>1
<1>14. UpFailed(p, q, e)  BY <1>10, <1>11, <1>12, <1>13, Zenon DEF UpFailed
<1>15. \A n : UP!Lost(p, status, n) = [u EXCEPT !.fus.fp = 0, !.received = @ + n]  BY DEF UP!Lost, u
<1> QED  BY <1>5, <1>7, <1>14, <1>15

LEMMA UpFailStep ==
  ASSUME UpInductive, NEW c \in Uploaders, ~posts[c].closed, posts[c].inPart, UP!Open(posts[c].fus),
         NEW data \in Seq(Nat), posts[c].received + Len(data) <= Len(UpNow(posts[c]).data),
         UP!FailWrite(c, data)
  PROVE  UpHolds(posts', disk', stored)
<1>0. PICK p : p = posts[c]  OBVIOUS
<1>1. UpHolds(posts, disk, stored) /\ DOMAIN posts = Uploaders /\ p \in UpPost /\ UpConn(p)
  BY <1>0, Zenon DEF UpInductive, UpHolds, UpConn
<1>2. PICK e : e = p.received + Len(data)  OBVIOUS
<1>3. e \in Nat /\ e <= Len(UpNow(p).data)
  <2>1. p.received \in Nat /\ Len(data) \in Nat  BY <1>1, LenProperties DEF UpPost
  <2> QED  BY <1>0, <1>2, <2>1
<1>4. p.fus \in UpFus  BY <1>0, <1>1, UpOpen DEF UpPost
<1>5. UpLoses(p, c, data)
  <2>1. UpLoses(posts[c], c, data)  BY DEF UP!FailWrite, UpLoses
  <2> QED  BY <1>0, <2>1
<1>6. PICK k \in 0..(Len(p.fus.buffer) + Len(data) - 1), status \in {413, 500} :
        /\ disk' = [UP!Flushed(disk, p.fus, data, k) EXCEPT !.names[p.fus.lfn] = 0]
        /\ posts' = [UP!Disturbed(posts, c, p.fus.lfn) EXCEPT
                        ![c] = UP!Lost(@, status, Len(data))]
  BY <1>5, Zenon DEF UpLoses
<1>7. PICK q : q = UpLost(p, status, e)  OBVIOUS
<1>8. UpFailed(p, q, e) /\ \A n : e = p.received + n => UP!Lost(p, status, n) = q
  BY <1>1, <1>3, <1>4, <1>7, UpLosing
<1>9. UP!Lost(p, status, Len(data)) = q  BY <1>2, <1>8
<1>10. PICK ps1 : ps1 = posts'  OBVIOUS
<1>11. PICK d1 : d1 = disk'  OBVIOUS
<1>12. ps1 = [UP!Disturbed(posts, c, p.fus.lfn) EXCEPT ![c] = q]
  <2> DEFINE ds == UP!Disturbed(posts, c, p.fus.lfn)
  <2>1. ds[c] = p  BY <1>0 DEF UP!Disturbed
  <2>2. ps1 = [ds EXCEPT ![c] = UP!Lost(@, status, Len(data))]  BY <1>6, <1>10
  <2> HIDE DEF ds
  <2>3. ps1 = [ds EXCEPT ![c] = q]  BY <1>9, <2>1, <2>2
  <2> QED  BY <2>3 DEF ds
<1>13. k \in 0..Len(p.fus.buffer \o data)
  <2>1. p.fus.buffer \in Seq(Nat)  BY <1>4 DEF UpFus
  <2>2. Len(p.fus.buffer \o data) = Len(p.fus.buffer) + Len(data)  BY <2>1, ConcatProperties
  <2>3. Len(p.fus.buffer) \in Nat /\ Len(data) \in Nat  BY <2>1, LenProperties
  <2>4. k \in 0..(Len(p.fus.buffer) + Len(data))  BY <2>3
  <2> QED  BY <2>2, <2>4
<1>14. q \in UpPost  BY <1>8, Zenon DEF UpFailed
<1>15. d1 = [UP!Flushed(disk, p.fus, data, k) EXCEPT !.names[p.fus.lfn] = 0]  BY <1>6, <1>11
<1>16. UpFails(p, posts, disk, c, ps1, d1)
  <2>1. UpFailsBy(p, posts, disk, c, ps1, d1, e, data, k, q)
    BY <1>3, <1>8, <1>12, <1>15, Zenon DEF UpFailsBy
  <2>2. \E n \in 0..Len(p.fus.buffer \o data), r \in UpPost : UpFailsBy(p, posts, disk, c, ps1, d1, e, data, n, r)
    BY <1>13, <1>14, <2>1
  <2>3. e \in Nat /\ data \in Seq(Nat)  BY <1>3
  <2> QED  BY <2>2, <2>3 DEF UpFails
<1>17. UpHolds(ps1, d1, stored)
  <2>1. UpFailure(posts, disk, stored, c, ps1, d1)  BY <1>0, <1>1, <1>16 DEF UpFailure
  <2> QED  BY <2>1, UpFailing
<1> QED  BY <1>10, <1>11, <1>17

\* A connection that goes on with the same upload.
LEMMA UpStill ==
  ASSUME NEW p, UpConn(p), NEW q, NEW n \in Nat, UpLater(p, q, n, p.fus), ~UP!Open(p.fus),
         ~p.closed, p.inPart, n <= Len(UpNow(p).data)
  PROVE  UpConn(q) /\ ~UpWrites(q) /\ q.fus = p.fus
<1>1. /\ q \in UpPost /\ q.request = p.request /\ q.part = p.part /\ q.inPart = p.inPart
      /\ q.received = n /\ q.closed = p.closed /\ q.fus = p.fus /\ q.answers = p.answers
  BY Zenon DEF UpLater
<1>2. ~UpWrites(q)  BY <1>1, Zenon DEF UpWrites
<1>3. UpTold(q)  BY <1>1, UpToldStill, Zenon DEF UpConn
<1>4. q.part <= Len(q.request) /\ q.part > 0  BY <1>1, Zenon DEF UpConn
<1>5. q.received <= Len(UpNow(q).data)  BY <1>1 DEF UpNow
<1>6. q.inPart  BY <1>1
<1> QED  BY <1>1, <1>2, <1>3, <1>4, <1>5, <1>6, Zenon DEF UpConn

LEMMA UpDataStep ==
  ASSUME UpInductive, NEW c \in Uploaders, NEW n \in 1..2, UP!PartData(c, n)
  PROVE  UpInductive'
<1>1. PICK p : p = posts[c]  OBVIOUS
<1>2. UpHolds(posts, disk, stored) /\ DOMAIN posts = Uploaders /\ p \in UpPost /\ UpConn(p)
  BY <1>1, Zenon DEF UpInductive, UpHolds, UpConn
<1>3. PICK data : data = SubSeq(UpNow(p).data, p.received + 1, p.received + n)  OBVIOUS
<1>4. /\ ~p.closed /\ p.inPart /\ p.received + n <= Len(UpNow(p).data) /\ stored' = stored
      /\ IF UP!Open(p.fus) THEN UP!WriteData(c, data) \/ UP!FailWrite(c, data)
         ELSE posts' = [posts EXCEPT ![c].received = @ + n] /\ disk' = disk
  BY <1>1, <1>3 DEF UP!PartData, UP!Upload, UpNow
<1>5. n \in Nat  OBVIOUS
<1>6. UpHolds(posts', disk', stored)
  <2>1. CASE UP!Open(p.fus) /\ UP!WriteData(c, data)
    BY <1>1, <1>3, <1>4, <1>5, <2>1, UpWriteStep
  <2>2. CASE UP!Open(p.fus) /\ UP!FailWrite(c, data)
    <3>1. UpIsPiece(UpNow(p).data, p.received, n)
      <4>1. p.part > 0  BY <1>2, <1>4, Zenon DEF UpConn
      <4>2. UpNow(p).data \in Seq(Nat) /\ p.received \in Nat  BY <1>2, <4>1, UpNowType DEF UpPost
      <4> QED  BY <1>4, <1>5, <4>2, UpPieceOf
    <3>2. data \in Seq(Nat) /\ Len(data) = n  BY <1>3, <3>1 DEF UpIsPiece
    <3> QED  BY <1>1, <1>4, <2>2, <3>2, UpFailStep
  <2>3. CASE ~UP!Open(p.fus)
    <3> DEFINE e == p.received + n
               q == [p EXCEPT !.received = e]
    <3>1. e \in Nat /\ e <= Len(UpNow(p).data)  BY <1>2, <1>4 DEF UpPost
    <3>2. posts' = [posts EXCEPT ![c] = q] /\ disk' = disk  BY <1>1, <1>2, <1>4, <2>3
    <3> HIDE DEF e
    <3>3. UpLater(p, q, e, p.fus)  BY <1>2, <3>1, UpReceived
    <3> HIDE DEF q
    <3>4. UpConn(q) /\ ~UpWrites(q) /\ q.fus = p.fus  BY <1>2, <1>4, <2>3, <3>1, <3>3, UpStill
    <3>5. UpHolds([posts EXCEPT ![c] = q], disk, stored)  BY <1>1, <1>2, <3>4, UpQuiet
    <3> QED  BY <3>2, <3>5
  <2> QED  BY <1>4, <2>1, <2>2, <2>3
<1> QED  BY <1>4, <1>6 DEF UpInductive

LEMMA UpCloseStep ==
  ASSUME UpInductive, NEW c \in Uploaders, UP!Close(c)
  PROVE  UpInductive'
<1>1. PICK p : p = posts[c]  OBVIOUS
<1>2. UpHolds(posts, disk, stored) /\ DOMAIN posts = Uploaders /\ p \in UpPost /\ UpConn(p)
  BY <1>1, Zenon DEF UpInductive, UpHolds, UpConn
<1> DEFINE u == [p EXCEPT !.closed = TRUE]
           q == [u EXCEPT !.inPart = FALSE]
<1>3. /\ u \in UpPost /\ u.request = p.request /\ u.part = p.part /\ u.closed
      /\ u.received = p.received /\ u.fus = p.fus /\ u.answers = p.answers
  BY <1>2 DEF UpPost
<1>4. posts' = [posts EXCEPT ![c] = q] /\ disk' = disk /\ stored' = stored
  BY <1>1, <1>2 DEF UP!Close
<1> HIDE DEF u
<1>5. /\ q \in UpPost /\ q.request = u.request /\ q.part = u.part /\ q.closed = u.closed
      /\ q.received = u.received /\ q.fus = u.fus /\ q.answers = u.answers
  BY <1>3 DEF UpPost
<1> HIDE DEF q
<1>6. ~UpWrites(q) /\ q.fus = p.fus /\ q.closed  BY <1>3, <1>5, Zenon DEF UpWrites
<1>7. UpTold(q)  BY <1>2, <1>3, <1>5, <1>6, UpToldStill, Zenon DEF UpConn
<1>8. q.part <= Len(q.request)  BY <1>2, <1>3, <1>5, Zenon DEF UpConn
<1>9. UpConn(q)  BY <1>5, <1>6, <1>7, <1>8, Zenon DEF UpConn
<1>10. UpHolds([posts EXCEPT ![c] = q], disk, stored)  BY <1>1, <1>2, <1>6, <1>9, UpQuiet
<1> QED  BY <1>4, <1>10 DEF UpInductive

\* The record of a connection whose part is over.
UpOver(p) ==
    LET ended == [(IF p.fus = UP!NULL THEN p ELSE [p EXCEPT !.sendAndClose = TRUE])
                  EXCEPT !.fus = UP!NULL, !.inPart = FALSE]
    IN  IF UP!Open(p.fus) THEN UP!Answered(ended, 200) ELSE ended

LEMMA UpIsOver ==
  ASSUME NEW p \in UpPost
  PROVE  UpEnded(p, UpOver(p))
<1> DEFINE s == IF p.fus = UP!NULL THEN p ELSE [p EXCEPT !.sendAndClose = TRUE]
           u == [s EXCEPT !.fus = UP!NULL]
           v == [u EXCEPT !.inPart = FALSE]
<1>1. /\ s \in UpPost /\ s.request = p.request /\ s.part = p.part
      /\ s.received = p.received /\ s.closed = p.closed /\ s.answers = p.answers
  <2>1. CASE p.fus = UP!NULL  BY <2>1
  <2>2. CASE p.fus # UP!NULL  BY <2>2, UpSetClose
  <2> QED  BY <2>1, <2>2
<1> HIDE DEF s
<1>2. /\ u \in UpPost /\ u.request = s.request /\ u.part = s.part
      /\ u.received = s.received /\ u.closed = s.closed /\ u.answers = s.answers /\ u.fus = UP!NULL
  <2>1. UP!NULL \in UpFus \cup {UP!NULL}  OBVIOUS
  <2> QED  BY <1>1, <2>1, UpSetFus
<1> HIDE DEF u
<1>3. /\ v \in UpPost /\ v.request = u.request /\ v.part = u.part /\ ~v.inPart
      /\ v.received = u.received /\ v.closed = u.closed /\ v.answers = u.answers /\ v.fus = u.fus
  BY <1>2 DEF UpPost
<1>4. UpOver(p) = IF UP!Open(p.fus) THEN UP!Answered(v, 200) ELSE v
  BY DEF UpOver, s, u
<1> HIDE DEF v
<1>5. CASE ~UP!Open(p.fus)
  <2>1. UpEnded(p, v)  BY <1>1, <1>2, <1>3, <1>5, Zenon DEF UpEnded
  <2> QED  BY <1>4, <1>5, <2>1
<1>6. CASE UP!Open(p.fus)
  <2> DEFINE w == UP!Answered(v, 200)
             a == [part |-> v.part, status |-> 200]
  <2>1. 200 \in {200, 403, 413, 500}  OBVIOUS
  <2>2. UpAnsweredSo(v, w, 200)  BY <1>3, <2>1, UpAnswering
  <2>3. a.part = v.part  OBVIOUS
  <2> HIDE DEF w, a
  <2>4. /\ w \in UpPost /\ w.request = v.request /\ w.part = v.part /\ w.inPart = v.inPart
        /\ w.received = v.received /\ w.closed = v.closed /\ w.fus = v.fus
        /\ w.answers = Append(v.answers, a) /\ a \in UpAnswer
    BY <2>2, Zenon DEF UpAnsweredSo, a
  <2>5. UpEnded(p, w)
    BY <1>1, <1>2, <1>3, <1>6, <2>3, <2>4, Zenon DEF UpEnded
  <2> QED  BY <1>4, <1>6, <2>5 DEF w
<1> QED  BY <1>5, <1>6

\* FileUpload's PartEnd, of the record of c and of what it is then.
UpOverWith(p, c, q, n, d) ==
    /\ ~p.closed /\ p.inPart /\ p.received = Len(UpNow(p).data)
    /\ UP!Open(p.fus) => n \in {0, Len(p.fus.buffer)}
    /\ UpEnds(p, n, disk, stored, d, stored')
    /\ IF p.part < Len(p.request) THEN UP!PartBegin(c, q, d)
       ELSE posts' = [posts EXCEPT ![c] = q] /\ disk' = d

LEMMA UpEndsSo ==
  ASSUME NEW c \in Uploaders, UP!PartEnd(c)
  PROVE  \E n, d : UpOverWith(posts[c], c, UpOver(posts[c]), n, d)
<1>1. CASE UP!Open(posts[c].fus)
  <2> DEFINE d(n) == UP!Flushed(disk, posts[c].fus, <<>>, n)
  <2>1. /\ ~posts[c].closed /\ posts[c].inPart /\ posts[c].received = Len(UpNow(posts[c]).data)
        /\ \E n \in {0, Len(posts[c].fus.buffer)} :
              /\ stored' = stored \cup {UpStored(posts[c], disk, n)}
              /\ IF posts[c].part < Len(posts[c].request) THEN UP!PartBegin(c, UpOver(posts[c]), d(n))
                 ELSE posts' = [posts EXCEPT ![c] = UpOver(posts[c])] /\ disk' = d(n)
    BY <1>1, ZenonT(40) DEF UP!PartEnd, UP!Upload, UpNow, UpOver, UpStored
  <2> QED  BY <1>1, <2>1, Zenon DEF UpOverWith, UpEnds
<1>2. CASE ~UP!Open(posts[c].fus)
  <2>1. /\ ~posts[c].closed /\ posts[c].inPart /\ posts[c].received = Len(UpNow(posts[c]).data)
        /\ stored' = stored
        /\ IF posts[c].part < Len(posts[c].request) THEN UP!PartBegin(c, UpOver(posts[c]), disk)
           ELSE posts' = [posts EXCEPT ![c] = UpOver(posts[c])] /\ disk' = disk
    BY <1>2 DEF UP!PartEnd, UP!Upload, UpNow, UpOver
  <2> QED  BY <1>2, <2>1, Zenon DEF UpOverWith, UpEnds
<1> QED  BY <1>1, <1>2

LEMMA UpEndStep ==
  ASSUME UpInductive, NEW c \in Uploaders, UP!PartEnd(c)
  PROVE  UpInductive'
<1>1. PICK p : p = posts[c]  OBVIOUS
<1>2. UpHolds(posts, disk, stored) /\ DOMAIN posts = Uploaders /\ p \in UpPost /\ UpConn(p)
  BY <1>1, Zenon DEF UpInductive, UpHolds, UpConn
<1>3. PICK n, d : UpOverWith(posts[c], c, UpOver(posts[c]), n, d)  BY UpEndsSo
<1>4. PICK q : q = UpOver(p)  OBVIOUS
<1>5. UpOverWith(p, c, q, n, d)  BY <1>1, <1>3, <1>4
<1>6. /\ ~p.closed /\ p.inPart /\ p.received = Len(UpNow(p).data)
      /\ UP!Open(p.fus) => n \in {0, Len(p.fus.buffer)}
      /\ UpEnds(p, n, disk, stored, d, stored')
      /\ IF p.part < Len(p.request) THEN UP!PartBegin(c, q, d)
         ELSE posts' = [posts EXCEPT ![c] = q] /\ disk' = d
  BY <1>5, Zenon DEF UpOverWith
<1>7. UpEnded(p, q)  BY <1>2, <1>4, UpIsOver
<1>8. PICK ps : ps = [posts EXCEPT ![c] = q]  OBVIOUS
<1>9. PICK st1 : st1 = stored'  OBVIOUS
<1>10. UpHolds(ps, d, st1)
  <2>1. UpEnds(posts[c], n, disk, stored, d, st1)  BY <1>1, <1>6, <1>9
  <2>2. UpEnded(posts[c], q)  BY <1>1, <1>7
  <2>3. UpHolds([posts EXCEPT ![c] = q], d, st1)  BY <1>1, <1>2, <1>6, <2>1, <2>2, UpFinishing
  <2> QED  BY <1>8, <2>3
<1>11. CASE p.part < Len(p.request)
  <2>1. UP!PartBegin(c, q, d)  BY <1>6, <1>11
  <2>2. /\ q \in UpPost /\ q.request = p.request /\ q.part = p.part /\ q.closed = p.closed
        /\ q.fus = UP!NULL
    BY <1>7, Zenon DEF UpEnded
  <2>3. q.part < Len(q.request) /\ ~q.closed  BY <1>6, <1>11, <2>2
  <2>4. UpNamed(d)  BY <1>10, Zenon DEF UpHolds
  <2>5. UpBegins(q, ps, d, c, posts', disk')  BY <1>2, <1>8, <2>1, <2>2, <2>3, <2>4, UpBegun
  <2>6. ps[c] = q  BY <1>2, <1>8
  <2>7. UpHolds(posts', disk', st1)  BY <1>10, <2>2, <2>3, <2>5, <2>6, UpBeginning
  <2> QED  BY <1>9, <2>7 DEF UpInductive
<1>12. CASE ~(p.part < Len(p.request))
  <2>1. posts' = [posts EXCEPT ![c] = q] /\ disk' = d  BY <1>6, <1>12
  <2> QED  BY <1>8, <1>9, <1>10, <2>1 DEF UpInductive
<1> QED  BY <1>11, <1>12

LEMMA UpStutter ==
  ASSUME UpInductive, UNCHANGED UP!vars
  PROVE  UpInductive'
BY DEF UpInductive, UP!vars

LEMMA UpStep ==
  ASSUME UpInductive, [UP!Next]_UP!vars
  PROVE  UpInductive'
<1>1. CASE UNCHANGED UP!vars  BY <1>1, UpStutter
<1>2. ASSUME NEW c \in Uploaders,
             UP!Begin(c) \/ (\E n \in 1..2 : UP!PartData(c, n)) \/ UP!PartEnd(c) \/ UP!Close(c)
      PROVE  UpInductive'
  BY <1>2, UpBeginStep, UpDataStep, UpEndStep, UpCloseStep
<1> QED  BY <1>1, <1>2 DEF UP!Next

LEMMA UpStart ==
  ASSUME UP!Init
  PROVE  UpInductive
<1>1. DOMAIN posts = Uploaders /\ stored = {}  BY DEF UP!Init
<1>2. ASSUME NEW c \in Uploaders
      PROVE  /\ posts[c] \in UpPost /\ posts[c].part = 0 /\ ~posts[c].inPart /\ posts[c].fus = UP!NULL
             /\ posts[c].answers = <<>>
  <2>1. PICK r \in UploadRequests :
           posts[c] = [request |-> r, part |-> 0, inPart |-> FALSE, received |-> 0,
                       fus |-> UP!NULL, answers |-> <<>>, sendAndClose |-> FALSE, closed |-> FALSE]
    BY DEF UP!Init
  <2>2. <<>> \in Seq(UpAnswer)  BY EmptySeq
  <2> QED  BY <2>1, <2>2 DEF UpPost
<1>3. /\ disk \in UpDisk /\ \A f \in Names : disk.names[f] = 0
      /\ disk.contents = <<>> /\ Len(disk.contents) = 0
  <2>1. disk = [names |-> [f \in Names |-> 0], contents |-> <<>>]  BY DEF UP!Init
  <2>2. <<>> \in Seq(Seq(Nat)) /\ Len(<<>>) = 0  BY EmptySeq
  <2> QED  BY <2>1, <2>2 DEF UpDisk
<1>4. UpNamed(disk)
  <2>1. \A f \in Names : disk.names[f] <= Len(disk.contents)  BY <1>3
  <2> QED  BY <1>3, <2>1, Zenon DEF UpNamed
<1>5. ASSUME NEW c \in Uploaders
      PROVE  UpConn(posts[c]) /\ UpOpened(posts[c], disk) /\ UpAlone(posts, disk, c)
  <2> DEFINE p == posts[c]
  <2>1. p \in UpPost /\ p.part = 0 /\ ~p.inPart /\ p.fus = UP!NULL /\ p.answers = <<>>  BY <1>2
  <2> HIDE DEF p
  <2>2. ~UP!Open(p.fus) /\ ~UpWrites(p)  BY <2>1, Zenon DEF UP!Open, UpWrites
  <2>3. p.part <= Len(p.request)
    <3>1. p.request \in UploadRequests  BY <2>1 DEF UpPost
    <3>2. p.request \in Seq(UpPart)  BY <3>1, ProtocolsAssumption DEF UpPart
    <3>3. Len(p.request) \in Nat  BY <3>2, LenProperties
    <3> QED  BY <2>1, <3>3
  <2>4. UpTold(p)
    <3>1. Len(p.answers) = 0  BY <2>1, EmptySeq
    <3>2. (\A k \in 1..Len(p.answers) : FALSE) /\ (\A i \in 1..p.part : FALSE) /\ ~(p.part > 0)
      BY <2>1, <3>1
    <3> QED  BY <3>2, Zenon DEF UpTold
  <2>5. UpConn(p)  BY <2>1, <2>2, <2>3, <2>4, Zenon DEF UpConn
  <2>6. UpOpened(p, disk)  BY <2>2, Zenon DEF UpOpened
  <2> QED  BY <2>2, <2>5, <2>6, Zenon DEF UpAlone, p
<1>6. UpFound(posts, disk, stored)  BY <1>3, Zenon DEF UpFound
<1>7. \A s \in stored : UpWhole(s)  BY <1>1
<1> QED  BY <1>1, <1>4, <1>5, <1>6, <1>7, Zenon DEF UpInductive, UpHolds

\* What the inductive invariant says of each connection.
LEMMA UpAnsweredOnce ==
  ASSUME UpInductive
  PROVE  UP!AnsweredOnce
<1> SUFFICES ASSUME NEW c \in Uploaders, NEW i \in 1..posts[c].part
             PROVE  LET answers == {k \in DOMAIN posts[c].answers : posts[c].answers[k].part = i}
                    IN  \/ \E k \in answers : answers = {k}
                        \/ answers = {} /\ i = posts[c].part /\ (posts[c].inPart \/ posts[c].closed)
  BY DEF UP!AnsweredOnce
<1>0. PICK p : p = posts[c]  OBVIOUS
<1> DEFINE answers == {k \in DOMAIN p.answers : p.answers[k].part = i}
<1>1. p \in UpPost /\ UpConn(p) /\ UpTold(p)  BY <1>0, Zenon DEF UpInductive, UpHolds, UpConn
<1>2. i \in 1..p.part /\ p.part \in Nat /\ p.answers \in Seq(UpAnswer)  BY <1>0, <1>1 DEF UpPost
<1>3. DOMAIN p.answers = 1..Len(p.answers)  BY <1>2, LenProperties
<1>4. UpOne(p, i) \/ (i = p.part /\ UpNone(p, i))  BY <1>1, <1>2, Zenon DEF UpTold
<1>5. CASE UpOne(p, i)
  <2>1. PICK k \in 1..Len(p.answers) :
           p.answers[k].part = i /\ \A j \in 1..Len(p.answers) : p.answers[j].part = i => j = k
    BY <1>5, Zenon DEF UpOne
  <2>2. answers = {k}  BY <1>3, <2>1
  <2> QED  BY <1>0, <2>2
<1>6. CASE ~UpOne(p, i) /\ i = p.part /\ UpNone(p, i)
  <2>1. answers = {}  BY <1>3, <1>6 DEF UpNone
  <2>2. p.inPart \/ p.closed
    <3> SUFFICES ASSUME ~p.inPart, ~p.closed  PROVE FALSE  BY Zenon
    <3>1. p.fus = UP!NULL  BY <1>1, Zenon DEF UpConn
    <3>2. ~UP!Open(p.fus)  BY <3>1, Zenon DEF UP!Open
    <3>3. p.part > 0  BY <1>2
    <3>4. UpOne(p, p.part)  BY <1>1, <3>2, <3>3, Zenon DEF UpTold
    <3> QED  BY <1>6, <3>4
  <2> QED  BY <1>0, <1>6, <2>1, <2>2
<1> QED  BY <1>4, <1>5, <1>6

LEMMA UpSound ==
  ASSUME UpInductive
  PROVE  UP!TypeOK /\ UP!UploadsStored
<1>1. /\ UpNamed(disk) /\ (\A s \in stored : UpWhole(s)) /\ UpFound(posts, disk, stored)
      /\ \A c \in Uploaders : UpConn(posts[c]) /\ posts[c] \in UpPost
  BY Zenon DEF UpInductive, UpHolds, UpConn
<1>2. UP!StoredWhole  BY <1>1, Zenon DEF UP!StoredWhole, UpWhole
<1>3. UP!LeftBehind  BY <1>1, Zenon DEF UP!LeftBehind, UpFound
<1>4. UP!TypeOK
  <2>1. ASSUME NEW c \in Uploaders
        PROVE  /\ posts[c].part \in 0..Len(posts[c].request) /\ posts[c].received \in Nat
               /\ {posts[c].inPart, posts[c].sendAndClose, posts[c].closed} \subseteq BOOLEAN
               /\ posts[c].inPart /\ ~posts[c].closed => posts[c].part > 0
    <3> DEFINE p == posts[c]
    <3>1. p \in UpPost /\ UpConn(p)  BY <1>1
    <3> HIDE DEF p
    <3>2. /\ p.part \in Nat /\ p.received \in Nat /\ p.request \in UploadRequests
          /\ p.inPart \in BOOLEAN /\ p.sendAndClose \in BOOLEAN /\ p.closed \in BOOLEAN
      BY <3>1 DEF UpPost
    <3>3. p.request \in Seq(UpPart)  BY <3>2, ProtocolsAssumption DEF UpPart
    <3>4. Len(p.request) \in Nat  BY <3>3, LenProperties
    <3>5. p.part <= Len(p.request) /\ (p.inPart /\ ~p.closed => p.part > 0)  BY <3>1, Zenon DEF UpConn
    <3>6. p.part \in 0..Len(p.request)  BY <3>2, <3>4, <3>5
    <3>7. {p.inPart, p.sendAndClose, p.closed} \subseteq BOOLEAN  BY <3>2, Zenon
    <3> QED  BY <3>2, <3>5, <3>6, <3>7 DEF p
  <2>2. \A f \in Names : disk.names[f] \in 0..Len(disk.contents)
    <3> TAKE f \in Names
    <3>1. disk.names[f] \in Nat /\ Len(disk.contents) \in Nat  BY <1>1, LenProperties DEF UpNamed, UpDisk
    <3>2. disk.names[f] <= Len(disk.contents)  BY <1>1, Zenon DEF UpNamed
    <3> QED  BY <3>1, <3>2
  <2> QED  BY <2>1, <2>2 DEF UP!TypeOK
<1> QED  BY <1>2, <1>3, <1>4, UpAnsweredOnce, Zenon DEF UP!UploadsStored

\* An upload that is answered "200 OK" was received to its last byte and, if no other
\* stored a file of its name meanwhile, is in that file as it came; each part is
\* answered once; and no file is left that nobody was told of or writes
\* (mg_file_upload_handler), for any number of connections, names and requests.
THEOREM UploadsKept == UP!Spec => []FilesStored
<1>1. UP!Init => UpInductive  BY UpStart
<1>2. UpInductive /\ [UP!Next]_UP!vars => UpInductive'  BY UpStep
<1>3. UpInductive => FilesStored  BY UpSound, Zenon DEF FilesStored
<1> QED  BY <1>1, <1>2, <1>3, PTL DEF UP!Spec

-----------------------------------------------------------------------------
(* HttpFile: what has been sent and what is still to be sent of the file make  *)
(* the answers that are due, which are a recursive function of the requests.   *)

FiElem == [head : Nat, cl : Int] \cup [byte : Int]
FiFile == [fp : {"NULL", "DATA_FILE", "DATA_PUT"}, cl : Int, sent : Int, keepalive : BOOLEAN, at : Int]
FiConn == [file : FiFile, out : Seq(FiElem), in : Seq(Nat), closing : BOOLEAN]
FiReq == [op : {"GET", "MISSING"}, range : {r \in Seq(Int) : Len(r) <= 2}, size : Nat]
            \cup [op : {"PUT"}, range : {r \in Seq(Int) : Len(r) <= 2}, body : Seq(Nat)]

FiTyped ==
    /\ size \in Nat /\ conn \in FiConn /\ gone \in Seq(FiElem) /\ asked \in Seq(FiReq)
    /\ eager \in BOOLEAN /\ changed \in BOOLEAN /\ closed \in BOOLEAN
    /\ leaked \in Nat /\ leaked <= Len(asked) /\ Len(asked) <= MaxRequests

\* The file of a connection: none, or what is left of it is there to be read.
FiFits(c, length) ==
    /\ c.file.fp = "NULL" => c.file = FI!NoFile
    /\ c.file.fp = "DATA_FILE" => /\ c.file.sent >= 0 /\ c.file.sent <= c.file.cl /\ c.file.at >= 0
                                  /\ c.file.at + (c.file.cl - c.file.sent) <= length

\* What is still to be sent of the file.
FiRest(c) == IF c.file.fp = "DATA_FILE" THEN FI!Bytes(c.file.at, c.file.cl - c.file.sent) ELSE <<>>

FiFramed ==
    ~eager /\ ~changed =>
        /\ leaked = 0 /\ FiFits(conn, size)
        /\ IF closed THEN \E t \in Seq(FiElem) : (gone \o conn.out) \o t = FI!Due(asked)
           ELSE (gone \o conn.out) \o FiRest(conn) = FI!Due(asked)

FiBounded == ~eager => Len(conn.out) <= MaxSendMbuf \/ Len(conn.out) <= 2

\* A PUT is the last request, as the connection closes after it.
FiPut ==
  /\ conn.file.fp = "DATA_PUT" => conn.file.keepalive = FALSE
  /\ \A i \in 1..Len(asked) : asked[i].op = "PUT" =>
        /\ i = Len(asked) /\ (conn.file.fp = "DATA_PUT" \/ conn.closing \/ closed)
        /\ ~changed /\ asked[i].range = <<>> =>
              conn.file.fp # "DATA_PUT" /\ SubSeq(stored, 1, Len(asked[i].body)) = asked[i].body

FiInv == FiTyped /\ FiFramed /\ FiBounded /\ FiPut
-----------------------------------------------------------------------------
\* A set of numbers that has 0, and n + 1 with every n, has them all: among the
\* numbers below one it had not, the successor would be one-to-one and leave out 0.
LEMMA NatSet ==
    ASSUME NEW S, 0 \in S, \A n \in Nat : n \in S => n + 1 \in S
    PROVE  \A n \in Nat : n \in S
<1> SUFFICES ASSUME NEW n \in Nat, n \notin S PROVE FALSE
  OBVIOUS
<1> DEFINE A == {k \in 0..n : k \in S}
           f == [k \in A |-> k + 1]
<1>1. IsFiniteSet(A)
  <2>1. IsFiniteSet(0..n)
    BY FS_Interval
  <2>2. A \in SUBSET (0..n)
    OBVIOUS
  <2> QED BY <2>1, <2>2, FS_Subset
<1>2. \A k \in A : k \in Nat /\ k + 1 \in A
  OBVIOUS
<1>3. f \in [A -> A]
  BY <1>2
<1>4. f \in Injection(A, A)
  BY <1>3, <1>2, Fun_IsInj
<1>5. f \in Surjection(A, A)
  <2> HIDE DEF f, A
  <2> QED BY <1>1, <1>4, FS_Injection
<1>6. 0 \in A
  OBVIOUS
<1>7. \E k \in A : f[k] = 0
  <2> HIDE DEF f, A
  <2> QED BY <1>5, <1>6, Fun_SurjectionProperties
<1> QED BY <1>7, <1>2

\* The answers that are due, as the function that is defined by them.
FiAnswersTo(s, f) ==
    /\ f[0] = <<>>
    /\ \A i \in 1..Len(s) : f[i] = f[i - 1] \o FI!Answer(s[i])

LEMMA FiDue ==
    ASSUME NEW T, NEW s \in Seq(T)
    PROVE  \E f : FiAnswersTo(s, f) /\ FI!Due(s) = f[Len(s)]
<1> DEFINE Body(g) == [i \in 0..Len(s) |-> IF i = 0 THEN <<>> ELSE g[i - 1] \o FI!Answer(s[i])]
           Upto(n) == \E g : /\ g[0] = <<>>
                             /\ \A i \in 1..n : g[i] = g[i - 1] \o FI!Answer(s[i])
           S == {n \in Nat : Upto(n)}
           first == CHOOSE g : g = Body(g)
<1>1. Len(s) \in Nat  BY LenProperties
<1>2. 0 \in S
  <2> DEFINE g == [i \in {0} |-> <<>>]
  <2>1. g[0] = <<>> /\ \A i \in 1..0 : g[i] = g[i - 1] \o FI!Answer(s[i])  OBVIOUS
  <2>2. Upto(0)  BY <2>1
  <2> QED  BY <2>2
<1>3. ASSUME NEW n \in Nat, n \in S PROVE n + 1 \in S
  <2>1. PICK g : g[0] = <<>> /\ \A i \in 1..n : g[i] = g[i - 1] \o FI!Answer(s[i])  BY <1>3
  <2> DEFINE h == [i \in 0..(n + 1) |-> IF i <= n THEN g[i] ELSE g[n] \o FI!Answer(s[n + 1])]
  <2>2. h[0] = <<>>  BY <2>1
  <2>3. ASSUME NEW i \in 1..(n + 1) PROVE h[i] = h[i - 1] \o FI!Answer(s[i])
    <3>1. i - 1 \in 0..n /\ h[i - 1] = g[i - 1]  OBVIOUS
    <3>2. CASE i <= n
      <4>1. i \in 1..n /\ h[i] = g[i]  BY <3>2
      <4> HIDE DEF h
      <4> QED  BY <2>1, <3>1, <4>1
    <3>3. CASE ~(i <= n)
      <4>1. i = n + 1 /\ i - 1 = n  BY <3>3
      <4>2. h[n + 1] = g[n] \o FI!Answer(s[n + 1])  OBVIOUS
      <4> HIDE DEF h
      <4> QED  BY <3>1, <4>1, <4>2
    <3> QED  BY <3>2, <3>3
  <2> HIDE DEF h
  <2>4. Upto(n + 1)  BY <2>2, <2>3
  <2>5. n + 1 \in Nat  OBVIOUS
  <2> HIDE DEF Upto
  <2> QED  BY <2>4, <2>5
<1>4. Upto(Len(s))
  <2> HIDE DEF S, Upto
  <2>1. \A n \in Nat : n \in S  BY <1>2, <1>3, NatSet
  <2> QED  BY <1>1, <2>1 DEF S
<1>5. \E g : g = Body(g)
  <2>1. PICK g : g[0] = <<>> /\ \A i \in 1..Len(s) : g[i] = g[i - 1] \o FI!Answer(s[i])  BY <1>4
  <2> DEFINE h == [i \in 0..Len(s) |-> g[i]]
  <2>2. ASSUME NEW i \in 0..Len(s) PROVE h[i] = IF i = 0 THEN <<>> ELSE h[i - 1] \o FI!Answer(s[i])
    <3>1. CASE i = 0  BY <2>1, <3>1
    <3>2. CASE i # 0
      <4>1. i \in 1..Len(s) /\ i - 1 \in 0..Len(s)  BY <1>1, <3>2
      <4> QED  BY <2>1, <3>2, <4>1
    <3> QED  BY <3>1, <3>2
  <2>3. h = [i \in 0..Len(s) |-> h[i]]  OBVIOUS
  <2> HIDE DEF h
  <2>4. h = Body(h)  BY <2>2, <2>3
  <2> QED  BY <2>4
<1>6. first = Body(first)
  <2> HIDE DEF Body
  <2> QED  BY <1>5
<1>7. \A i \in 0..Len(s) : first[i] = IF i = 0 THEN <<>> ELSE first[i - 1] \o FI!Answer(s[i])
  <2> HIDE DEF first
  <2> QED  BY <1>6
<1>8. FiAnswersTo(s, first)
  <2> HIDE DEF first
  <2>1. first[0] = <<>>  BY <1>1, <1>7
  <2>2. ASSUME NEW i \in 1..Len(s) PROVE first[i] = first[i - 1] \o FI!Answer(s[i])
    <3>1. i \in 0..Len(s) /\ i # 0  BY <1>1
    <3> QED  BY <1>7, <3>1
  <2> QED  BY <2>1, <2>2 DEF FiAnswersTo
<1>9. FI!Due(s) = first[Len(s)]  BY DEF FI!Due
<1> HIDE DEF first
<1> QED  BY <1>8, <1>9

\* One request more has one answer more.
LEMMA FiDueMore ==
    ASSUME NEW T, NEW s \in Seq(T), NEW r \in T
    PROVE  FI!Due(Append(s, r)) = FI!Due(s) \o FI!Answer(r)
<1> DEFINE t == Append(s, r)
           n == Len(s)
<1>1. t \in Seq(T) /\ Len(t) = n + 1 /\ n \in Nat /\ t[n + 1] = r /\ \A i \in 1..n : t[i] = s[i]
  BY AppendProperties, LenProperties
<1> HIDE DEF t
<1>2. PICK f : FiAnswersTo(s, f) /\ FI!Due(s) = f[n]  BY FiDue
<1>3. PICK g : FiAnswersTo(t, g) /\ FI!Due(t) = g[n + 1]  BY <1>1, FiDue
<1> DEFINE S == {k \in Nat : k <= n => f[k] = g[k]}
<1>4. 0 \in S  BY <1>2, <1>3 DEF FiAnswersTo
<1>5. ASSUME NEW k \in Nat, k \in S PROVE k + 1 \in S
  <2> SUFFICES ASSUME k + 1 <= n PROVE f[k + 1] = g[k + 1]  OBVIOUS
  <2>1. f[k] = g[k]  BY <1>1, <1>5
  <2>2. k + 1 \in 1..n /\ k + 1 \in 1..(n + 1) /\ (k + 1) - 1 = k  BY <1>1
  <2>3. f[k + 1] = f[k] \o FI!Answer(s[k + 1])  BY <1>2, <2>2 DEF FiAnswersTo
  <2>4. g[k + 1] = g[k] \o FI!Answer(t[k + 1])  BY <1>1, <1>3, <2>2 DEF FiAnswersTo
  <2> QED  BY <1>1, <2>1, <2>2, <2>3, <2>4
<1>6. f[n] = g[n]
  <2> HIDE DEF S, n
  <2>1. \A k \in Nat : k \in S  BY <1>4, <1>5, NatSet
  <2> QED  BY <1>1, <2>1 DEF S
<1>7. g[n + 1] = g[n] \o FI!Answer(r)
  <2>1. n + 1 \in 1..Len(t) /\ (n + 1) - 1 = n  BY <1>1
  <2> QED  BY <1>1, <1>3, <2>1 DEF FiAnswersTo
<1> QED  BY <1>2, <1>3, <1>6, <1>7 DEF t

LEMMA FiDueNone == FI!Due(<<>>) = <<>>
<1>1. <<>> \in Seq(Nat) /\ Len(<<>>) = 0  BY EmptySeq
<1>2. PICK s \in Seq(Nat) : s = <<>> /\ Len(s) = 0  BY <1>1
<1>3. PICK f : FiAnswersTo(s, f) /\ FI!Due(s) = f[Len(s)]  BY FiDue
<1> QED  BY <1>2, <1>3 DEF FiAnswersTo

\* The bytes from a on are those up to a place and those from there on.
LEMMA FiBytesType ==
    ASSUME NEW a \in Int, NEW n \in Nat
    PROVE  FI!Bytes(a, n) \in Seq(FiElem) /\ Len(FI!Bytes(a, n)) = n
<1>1. \A i \in 1..n : FI!Byte(a + i - 1) \in FiElem  BY DEF FI!Byte, FiElem
<1>2. FI!Bytes(a, n) \in [1..n -> FiElem]  BY <1>1 DEF FI!Bytes
<1> QED  BY <1>2

LEMMA FiBytesNone == \A a : FI!Bytes(a, 0) = <<>>
  BY DEF FI!Bytes

LEMMA FiBytesCut ==
    ASSUME NEW a \in Int, NEW n \in Nat, NEW m \in Nat
    PROVE  FI!Bytes(a, n) \o FI!Bytes(a + n, m) = FI!Bytes(a, n + m)
<1> DEFINE s == FI!Bytes(a, n)
           t == FI!Bytes(a + n, m)
           u == FI!Bytes(a, n + m)
<1>1. s \in Seq(FiElem) /\ Len(s) = n /\ t \in Seq(FiElem) /\ Len(t) = m /\ u \in Seq(FiElem) /\ Len(u) = n + m
  BY FiBytesType
<1>2. /\ s \o t \in Seq(FiElem) /\ Len(s \o t) = n + m
      /\ \A i \in 1..(n + m) : (s \o t)[i] = IF i <= n THEN s[i] ELSE t[i - n]
  <2> HIDE DEF s, t
  <2> QED  BY <1>1, ConcatProperties
<1>3. ASSUME NEW i \in 1..(n + m) PROVE (s \o t)[i] = u[i]
  <2>1. u[i] = FI!Byte(a + i - 1)  BY DEF FI!Bytes
  <2>2. CASE i <= n
    <3>1. s[i] = FI!Byte(a + i - 1)  BY <2>2 DEF FI!Bytes
    <3> QED  BY <1>2, <2>1, <2>2, <3>1
  <2>3. CASE ~(i <= n)
    <3>1. i - n \in 1..m /\ a + n + (i - n) - 1 = a + i - 1  BY <2>3
    <3>2. t[i - n] = FI!Byte(a + n + (i - n) - 1)  BY <3>1 DEF FI!Bytes
    <3> QED  BY <1>2, <2>1, <2>3, <3>1, <3>2
  <2> QED  BY <2>2, <2>3
<1> HIDE DEF s, t, u
<1>4. s \o t = u  BY <1>1, <1>2, <1>3, SeqEqual
<1> QED  BY <1>4 DEF s, t, u

-----------------------------------------------------------------------------
\* The bounds of the numbers that are read or written.
LEMMA FiMin == ASSUME NEW a \in Int, NEW b \in Int PROVE FI!Min({a, b}) = IF a <= b THEN a ELSE b
<1> DEFINE m == IF a <= b THEN a ELSE b
<1>1. m \in {a, b} /\ \A y \in {a, b} : m <= y  OBVIOUS
<1>2. \A x \in {a, b} : (\A y \in {a, b} : x <= y) => x = m  OBVIOUS
<1>3. FI!Min({a, b}) = CHOOSE x \in {a, b} : \A y \in {a, b} : x <= y  BY Zenon DEF FI!Min
<1> HIDE DEF m
<1>4. FI!Min({a, b}) = m  BY <1>1, <1>2, <1>3
<1> QED  BY <1>4 DEF m

LEMMA FiMax == ASSUME NEW a \in Int, NEW b \in Int PROVE FI!Max({a, b}) = IF a >= b THEN a ELSE b
<1> DEFINE m == IF a >= b THEN a ELSE b
<1>1. m \in {a, b} /\ \A y \in {a, b} : m >= y  OBVIOUS
<1>2. \A x \in {a, b} : (\A y \in {a, b} : x >= y) => x = m  OBVIOUS
<1>3. FI!Max({a, b}) = CHOOSE x \in {a, b} : \A y \in {a, b} : x >= y  BY Zenon DEF FI!Max
<1> HIDE DEF m
<1>4. FI!Max({a, b}) = m  BY <1>1, <1>2, <1>3
<1> QED  BY <1>4 DEF m

LEMMA FiMaxUpto == ASSUME NEW n \in Nat PROVE FI!Max(0..n) = n
<1>1. n \in 0..n /\ \A y \in 0..n : n >= y  OBVIOUS
<1>2. \A x \in 0..n : (\A y \in 0..n : x >= y) => x = n  OBVIOUS
<1>3. FI!Max(0..n) = CHOOSE x \in 0..n : \A y \in 0..n : x >= y  BY Zenon DEF FI!Max
<1> QED  BY <1>1, <1>2, <1>3

\* n bytes of the file go into send_mbuf.
FiMoved(c, n) == [c EXCEPT !.out = @ \o FI!Bytes(c.file.at, n), !.file.sent = @ + n, !.file.at = @ + n]

LEMMA FiMovedAre ==
    ASSUME NEW c \in FiConn, NEW n \in Nat
    PROVE  /\ FiMoved(c, n) \in FiConn
           /\ FiMoved(c, n).out = c.out \o FI!Bytes(c.file.at, n)
           /\ FiMoved(c, n).file.fp = c.file.fp /\ FiMoved(c, n).file.cl = c.file.cl
           /\ FiMoved(c, n).file.sent = c.file.sent + n /\ FiMoved(c, n).file.at = c.file.at + n
           /\ FiMoved(c, n).closing = c.closing
<1>1. PICK f \in FiFile, out \in Seq(FiElem), in \in Seq(Nat), k \in BOOLEAN :
           c = [file |-> f, out |-> out, in |-> in, closing |-> k]
  BY DEF FiConn
<1>2. PICK fp \in {"NULL", "DATA_FILE", "DATA_PUT"}, cl \in Int, sent \in Int, alive \in BOOLEAN, at \in Int :
           f = [fp |-> fp, cl |-> cl, sent |-> sent, keepalive |-> alive, at |-> at]
  BY DEF FiFile
<1> DEFINE g == [f EXCEPT !.sent = @ + n, !.at = @ + n]
<1>3. FI!Bytes(at, n) \in Seq(FiElem)  BY FiBytesType
<1>4. PICK b \in Seq(FiElem) : b = FI!Bytes(at, n)  BY <1>3
<1>5. out \o b \in Seq(FiElem)  BY ConcatProperties
<1>6. PICK o \in Seq(FiElem) : o = out \o b  BY <1>5
<1>7. /\ g \in FiFile /\ g.fp = f.fp /\ g.cl = f.cl /\ g.sent = f.sent + n /\ g.at = f.at + n
  <2>1. PICK s \in Int, a \in Int : s = f.sent + n /\ a = f.at + n  BY DEF FiFile
  <2>2. [f EXCEPT !.sent = s, !.at = a] \in FiFile  BY DEF FiFile
  <2>3. g = [f EXCEPT !.sent = s, !.at = a]  BY <2>1
  <2>4. g.fp = f.fp /\ g.cl = f.cl  BY DEF FiFile
  <2>5. g.sent = f.sent + n  BY DEF FiFile
  <2>6. g.at = f.at + n  BY DEF FiFile
  <2> QED  BY <2>2, <2>3, <2>4, <2>5, <2>6
<1>8. FiMoved(c, n) = [file |-> g, out |-> o, in |-> in, closing |-> k]
  <2>1. FiMoved(c, n) = [c EXCEPT !.out = @ \o FI!Bytes(c.file.at, n),
                                  !.file = [c.file EXCEPT !.sent = @ + n, !.at = @ + n]]
    BY DEF FiMoved, FiConn, FiFile
  <2>6. c.file = f  BY <1>1
  <2>2. [c.file EXCEPT !.sent = @ + n, !.at = @ + n] = g  BY <2>6
  <2>3. c.out \o FI!Bytes(c.file.at, n) = o  BY <1>1, <1>2, <1>4, <1>6
  <2>4. FiMoved(c, n) = [c EXCEPT !.out = o, !.file = g]  BY <2>1, <2>2, <2>3
  <2> HIDE DEF g
  <2> QED  BY <1>1, <2>4
<1>9. /\ [file |-> g, out |-> o, in |-> in, closing |-> k] \in FiConn
  <2> HIDE DEF g
  <2> QED  BY <1>7 DEF FiConn
<1>10. c.out = out /\ c.file = f /\ c.closing = k /\ f.fp = fp /\ f.cl = cl /\ f.sent = sent /\ f.at = at
  BY <1>1, <1>2
<1> HIDE DEF g
<1> QED  BY <1>4, <1>6, <1>7, <1>8, <1>9, <1>10

\* The file is closed.
LEMMA FiFinished ==
    ASSUME NEW c \in FiConn
    PROVE  /\ FI!Finished(c) \in FiConn /\ FI!Finished(c).out = c.out /\ FI!Finished(c).file = FI!NoFile
           /\ FI!Finished(c).closing = (c.closing \/ ~c.file.keepalive)
<1>1. FI!NoFile \in FiFile  BY DEF FI!NoFile, FI!NULL, FiFile
<1>2. (c.closing \/ ~c.file.keepalive) \in BOOLEAN  OBVIOUS
<1>3. PICK k \in BOOLEAN : k = (c.closing \/ ~c.file.keepalive)  BY <1>2
<1>4. c.file \in FiFile /\ c.out \in Seq(FiElem) /\ c.in \in Seq(Nat)  BY DEF FiConn
<1>5. FI!Finished(c) = [c EXCEPT !.file = FI!NoFile, !.closing = k]
  <2>1. c = [file |-> c.file, out |-> c.out, in |-> c.in, closing |-> c.closing]  BY DEF FiConn
  <2> QED  BY Zenon, <1>3, <2>1 DEF FI!Finished, FiConn
<1>6. FI!Finished(c) = [file |-> FI!NoFile, out |-> c.out, in |-> c.in, closing |-> k]
  BY <1>5 DEF FiConn
<1> QED  BY <1>1, <1>3, <1>4, <1>6 DEF FiConn

\* What one call of the transfer does: nothing, as send_mbuf is full; a piece of
\* the file that is there, is left and has room; or the end.
FiMoves(c, length, d) ==
    \/ d = c /\ Len(c.out) >= MaxSendMbuf
    \/ \E n \in Nat : /\ n > 0 /\ n <= c.file.cl - c.file.sent /\ n <= length - c.file.at
                      /\ Len(c.out) + n <= MaxSendMbuf /\ d = FiMoved(c, n)
    \/ /\ Len(c.out) < MaxSendMbuf /\ (c.file.sent >= c.file.cl \/ length <= c.file.at)
       /\ d = FI!Finished(c)

LEMMA FiTransfer ==
    ASSUME NEW c \in FiConn, NEW length \in Nat
    PROVE  FiMoves(c, length, FI!TransferFile(c, length))
<1> DEFINE f == c.file
           left == f.cl - f.sent
           room == IF Len(c.out) < MaxSendMbuf THEN MaxSendMbuf - Len(c.out) ELSE 0
           toRead == IF left > 0 /\ room > left THEN left ELSE room
           there == IF length > f.at THEN length - f.at ELSE 0
<1>1. PICK len \in Nat, cl \in Int, sent \in Int, at \in Int :
          Len(c.out) = len /\ f.cl = cl /\ f.sent = sent /\ f.at = at
  <2>1. c.out \in Seq(FiElem) /\ c.file \in FiFile  BY DEF FiConn
  <2> QED  BY <2>1, LenProperties DEF FiFile
<1>2. MaxSendMbuf \in Nat \ {0}  BY ProtocolsAssumption
<1>3. PICK th \in Nat : /\ th = there /\ (th > 0 => th <= length - at) /\ (th = 0 => length <= at)
  <2> DEFINE x == IF length > at THEN length - at ELSE 0
  <2>1. x \in Nat /\ (x > 0 => x <= length - at) /\ (x = 0 => length <= at)  OBVIOUS
  <2>2. x = there  BY <1>1
  <2> QED  BY <2>1, <2>2
<1>4. PICK ro \in Nat : ro = room /\ (ro = 0 => len >= MaxSendMbuf) /\ (ro # 0 => len + ro <= MaxSendMbuf)
  <2>1. PICK most \in Nat : most = MaxSendMbuf  BY <1>2
  <2> DEFINE x == IF len < most THEN most - len ELSE 0
  <2>2. x \in Nat /\ (x = 0 => len >= most) /\ (x # 0 => len + x <= most)  OBVIOUS
  <2>3. x = room  BY <1>1, <2>1
  <2> QED  BY <2>1, <2>2, <2>3
<1>5. PICK le \in Int : le = left /\ le = cl - sent
  BY <1>1
<1>6. PICK tr \in Nat : tr = toRead /\ tr <= ro /\ (tr = 0 => ro = 0) /\ (le > 0 => tr <= le)
  <2> DEFINE x == IF le > 0 /\ ro > le THEN le ELSE ro
  <2>1. x \in Nat /\ x <= ro /\ (x = 0 => ro = 0) /\ (le > 0 => x <= le)  OBVIOUS
  <2>2. x = toRead  BY <1>4, <1>5
  <2> QED  BY <2>1, <2>2
<1>7. PICK n \in Nat : n = FI!Min({tr, th}) /\ n <= tr /\ n <= th /\ (n = 0 => tr = 0 \/ th = 0)
  <2>1. FI!Min({tr, th}) = IF tr <= th THEN tr ELSE th  BY FiMin
  <2> QED  BY <2>1
<1>8. FI!TransferFile(c, length) = IF tr = 0 THEN c
                                    ELSE IF sent < cl /\ n > 0 THEN FiMoved(c, n) ELSE FI!Finished(c)
  BY <1>1, <1>3, <1>6, <1>7 DEF FI!TransferFile, FiMoved
<1> HIDE DEF toRead, there, room, left
<1>9. CASE tr = 0
  <2>1. Len(c.out) >= MaxSendMbuf  BY <1>1, <1>4, <1>6, <1>9
  <2> QED  BY <1>8, <1>9, <2>1 DEF FiMoves
<1>10. CASE tr # 0 /\ sent < cl /\ n > 0
  <2>1. n <= cl - sent /\ n <= length - at /\ len + n <= MaxSendMbuf
    BY <1>2, <1>3, <1>4, <1>5, <1>6, <1>7, <1>10
  <2>2. FI!TransferFile(c, length) = FiMoved(c, n)  BY <1>8, <1>10
  <2> QED  BY <1>1, <1>10, <2>1, <2>2 DEF FiMoves
<1>11. CASE tr # 0 /\ ~(sent < cl /\ n > 0)
  <2>1. FI!TransferFile(c, length) = FI!Finished(c)  BY <1>8, <1>11
  <2>2. sent >= cl \/ length <= at  BY <1>3, <1>7, <1>11
  <2>3. len < MaxSendMbuf  BY <1>2, <1>4, <1>6, <1>11
  <2> QED  BY <1>1, <2>1, <2>2, <2>3 DEF FiMoves
<1> QED  BY <1>9, <1>10, <1>11

\* Whatever the file is, send_mbuf is not filled past its bound.
FiAfter(c, d) ==
    /\ d \in FiConn
    /\ d.out = c.out \/ Len(d.out) <= MaxSendMbuf
    /\ d.file.fp = c.file.fp \/ (d.file = FI!NoFile /\ d.closing = (c.closing \/ ~c.file.keepalive))
    /\ c.closing => d.closing

LEMMA FiTransferTyped ==
    ASSUME NEW c \in FiConn, NEW length \in Nat
    PROVE  FiAfter(c, FI!TransferFile(c, length))
<1>1. PICK d : d = FI!TransferFile(c, length)  OBVIOUS
<1>2. FiMoves(c, length, d)  BY <1>1, FiTransfer
<1>3. CASE d = c  BY <1>1, <1>3 DEF FiAfter
<1>4. CASE d = FI!Finished(c)
  <2>1. FiAfter(c, d)  BY <1>4, FiFinished DEF FiAfter
  <2> QED  BY <1>1, <2>1
<1>5. ASSUME NEW n \in Nat, Len(c.out) + n <= MaxSendMbuf, d = FiMoved(c, n) PROVE FiAfter(c, d)
  <2>1. c.out \in Seq(FiElem) /\ c.file.at \in Int  BY DEF FiConn, FiFile
  <2>2. FI!Bytes(c.file.at, n) \in Seq(FiElem) /\ Len(FI!Bytes(c.file.at, n)) = n  BY <2>1, FiBytesType
  <2>5. PICK o \in Seq(FiElem), b \in Seq(FiElem) : o = c.out /\ b = FI!Bytes(c.file.at, n)  BY <2>1, <2>2
  <2>6. Len(o \o b) = Len(o) + Len(b)  BY ConcatProperties
  <2>3. Len(c.out \o FI!Bytes(c.file.at, n)) = Len(c.out) + n  BY <2>2, <2>5, <2>6
  <2>4. d.out = c.out \o FI!Bytes(c.file.at, n) /\ d.file.fp = c.file.fp /\ d.closing = c.closing /\ d \in FiConn
    BY <1>5, FiMovedAre
  <2> QED  BY <1>5, <2>3, <2>4 DEF FiAfter
<1> QED  BY <1>1, <1>2, <1>3, <1>4, <1>5 DEF FiMoves

\* When the file is as it was, nothing of the answer is lost.
LEMMA FiTransferKept ==
    ASSUME NEW c \in FiConn, NEW length \in Nat, c.file.fp = "DATA_FILE", FiFits(c, length)
    PROVE  /\ FiFits(FI!TransferFile(c, length), length)
           /\ FI!TransferFile(c, length).out \o FiRest(FI!TransferFile(c, length)) = c.out \o FiRest(c)
<1>1. PICK d : d = FI!TransferFile(c, length)  OBVIOUS
<1>2. FiMoves(c, length, d)  BY <1>1, FiTransfer
<1>3. /\ c.out \in Seq(FiElem) /\ c.file.at \in Int /\ c.file.sent \in Int /\ c.file.cl \in Int
  BY DEF FiConn, FiFile
<1>4. c.file.sent >= 0 /\ c.file.sent <= c.file.cl /\ c.file.at >= 0 /\ c.file.at + (c.file.cl - c.file.sent) <= length
  BY DEF FiFits
<1>5. FiRest(c) = FI!Bytes(c.file.at, c.file.cl - c.file.sent)  BY DEF FiRest
<1>6. CASE d = c  BY <1>1, <1>6
<1>7. CASE /\ c.file.sent >= c.file.cl \/ length <= c.file.at
           /\ d = FI!Finished(c)
  <2>1. c.file.cl - c.file.sent = 0  BY <1>3, <1>4, <1>7
  <2>2. FiRest(c) = <<>>  BY <1>5, <2>1, FiBytesNone
  <2>3. d.out = c.out /\ d.file = FI!NoFile  BY <1>7, FiFinished
  <2>4. FiFits(d, length) /\ FiRest(d) = <<>>  BY <2>3 DEF FiFits, FiRest, FI!NoFile, FI!NULL
  <2> QED  BY <1>1, <2>2, <2>3, <2>4
<1>8. ASSUME NEW n \in Nat, n > 0, n <= c.file.cl - c.file.sent, d = FiMoved(c, n)
      PROVE  FiFits(d, length) /\ d.out \o FiRest(d) = c.out \o FiRest(c)
  <2> DEFINE b == FI!Bytes(c.file.at, n)
             m == c.file.cl - (c.file.sent + n)
  <2>1. /\ d.out = c.out \o b /\ d.file.fp = "DATA_FILE" /\ d.file.cl = c.file.cl
        /\ d.file.sent = c.file.sent + n /\ d.file.at = c.file.at + n
    BY <1>8, FiMovedAre
  <2>2. m \in Nat /\ n + m = c.file.cl - c.file.sent  BY <1>3, <1>8
  <2>3. FiRest(d) = FI!Bytes(c.file.at + n, m)  BY <2>1 DEF FiRest
  <2>4. b \o FI!Bytes(c.file.at + n, m) = FI!Bytes(c.file.at, n + m)  BY <1>3, <2>2, FiBytesCut
  <2>5. b \in Seq(FiElem) /\ FI!Bytes(c.file.at + n, m) \in Seq(FiElem)
    <3>1. c.file.at + n \in Int  BY <1>3
    <3> HIDE DEF m
    <3> QED  BY <1>3, <2>2, <3>1, FiBytesType
  <2> HIDE DEF b
  <2>8. PICK x \in Seq(FiElem), y \in Seq(FiElem), z \in Seq(FiElem) :
            x = c.out /\ y = b /\ z = FI!Bytes(c.file.at + n, m)
    BY <1>3, <2>5
  <2>9. (x \o y) \o z = x \o (y \o z)  BY ConcatAssociative
  <2>6. (c.out \o b) \o FI!Bytes(c.file.at + n, m) = c.out \o (b \o FI!Bytes(c.file.at + n, m))
    BY <2>8, <2>9
  <2>7. FiFits(d, length)
    <3>1. PICK at \in Int, sent \in Int, cl \in Int : at = c.file.at /\ sent = c.file.sent /\ cl = c.file.cl
      BY <1>3
    <3>2. /\ sent + n >= 0 /\ sent + n <= cl /\ at + n >= 0 /\ (at + n) + (cl - (sent + n)) <= length
      <4>1. sent >= 0 /\ sent <= cl /\ at >= 0 /\ at + (cl - sent) <= length /\ n <= cl - sent  BY <1>4, <1>8, <3>1
      <4> QED  BY <4>1
    <3> QED  BY <2>1, <3>1, <3>2 DEF FiFits
  <2> QED  BY <1>5, <2>1, <2>2, <2>3, <2>4, <2>6, <2>7
<1> QED  BY <1>1, <1>2, <1>6, <1>7, <1>8 DEF FiMoves

-----------------------------------------------------------------------------
\* The range of a response is within the file.
LEMMA FiRange ==
    ASSUME NEW range \in {r \in Seq(Int) : Len(r) <= 2}, NEW length \in Nat
    PROVE  \E status \in Nat, from \in Nat, cl \in Nat :
              /\ from + cl <= length
              /\ FI!RangeOf(range, length) = [status |-> status, from |-> from, cl |-> cl]
<1> DEFINE r1 == range[1]
           r2 == IF Len(range) = 1 THEN length - 1 ELSE range[2]
           all == range = <<>> \/ r1 < 0 \/ (Len(range) = 2 /\ range[2] < 0)
<1>1. FI!RangeOf(range, length) =
        IF all THEN [status |-> 200, from |-> 0, cl |-> length]
        ELSE IF r1 > r2 \/ r2 >= length THEN [status |-> 416, from |-> 0, cl |-> 0]
        ELSE [status |-> 206, from |-> r1, cl |-> r2 - r1 + 1]
  BY DEF FI!RangeOf
<1>2. CASE all
  <2>1. FI!RangeOf(range, length) = [status |-> 200, from |-> 0, cl |-> length]  BY <1>1, <1>2
  <2>2. 200 \in Nat /\ 0 \in Nat /\ 0 + length <= length  OBVIOUS
  <2> QED  BY <2>1, <2>2
<1>3. CASE ~all
  <2>1. Len(range) \in {1, 2}
    <3>1. range \in Seq(Int) /\ Len(range) <= 2 /\ range # <<>>  BY <1>3
    <3>2. Len(range) \in Nat \ {0}  BY <3>1, EmptySeq
    <3>3. PICK k \in Nat \ {0} : k = Len(range)  BY <3>2
    <3>4. k <= 2  BY <3>1, <3>3
    <3>5. k = 1 \/ k = 2  BY <3>4
    <3> QED  BY <3>3, <3>5
  <2>2. r1 \in Int /\ r1 >= 0
    <3>1. 1 \in 1..Len(range)  BY <2>1
    <3>2. r1 \in Int  BY <3>1, ElementOfSeq
    <3> QED  BY <1>3, <3>2
  <2>3. r2 \in Int
    <3>1. CASE Len(range) = 1  BY <3>1
    <3>2. CASE Len(range) = 2
      <4>1. 2 \in 1..Len(range)  BY <3>2
      <4>2. range[2] \in Int  BY <4>1, ElementOfSeq
      <4> QED  BY <3>2, <4>2
    <3> QED  BY <2>1, <3>1, <3>2
  <2> HIDE DEF r1, r2, all
  <2>4. CASE r1 > r2 \/ r2 >= length
    <3>1. FI!RangeOf(range, length) = [status |-> 416, from |-> 0, cl |-> 0]  BY <1>1, <1>3, <2>4
    <3>2. 416 \in Nat /\ 0 \in Nat /\ 0 + 0 <= length  OBVIOUS
    <3> QED  BY <3>1, <3>2
  <2>5. CASE ~(r1 > r2 \/ r2 >= length)
    <3>1. r1 \in Nat /\ r2 - r1 + 1 \in Nat /\ r1 + (r2 - r1 + 1) <= length  BY <2>2, <2>3, <2>5
    <3>2. FI!RangeOf(range, length) = [status |-> 206, from |-> r1, cl |-> r2 - r1 + 1]  BY <1>1, <1>3, <2>5
    <3> QED  BY <3>1, <3>2, ZenonT(40)
  <2> QED  BY <2>4, <2>5
<1> QED  BY <1>2, <1>3

\* A connection that is given a file, one more head to send, and a state of recv_mbuf.
FiGiven(c, f, h, in) == [c EXCEPT !.file = f, !.out = Append(@, h), !.in = in]

LEMMA FiGivenAre ==
    ASSUME NEW c \in FiConn, NEW f \in FiFile, NEW h \in FiElem, NEW in \in Seq(Nat)
    PROVE  /\ FiGiven(c, f, h, in) \in FiConn /\ FiGiven(c, f, h, in).file = f
           /\ FiGiven(c, f, h, in).out = Append(c.out, h) /\ FiGiven(c, f, h, in).in = in
           /\ FiGiven(c, f, h, in).closing = c.closing
<1>1. PICK o \in Seq(FiElem) : o = c.out  BY DEF FiConn
<1>2. PICK q \in Seq(FiElem) : q = Append(o, h)  BY AppendProperties
<1>3. FiGiven(c, f, h, in) = [c EXCEPT !.file = f, !.out = q, !.in = in]  BY <1>1, <1>2 DEF FiGiven
<1> QED  BY <1>1, <1>2, <1>3 DEF FiConn

\* A response to a GET, on a connection of which the answers are sent.
FiServed(c, range, keepalive, d) ==
    /\ d \in FiConn /\ d.file.fp # "DATA_PUT" /\ (c.closing => d.closing)
    /\ c.out = <<>> => Len(d.out) <= MaxSendMbuf \/ Len(d.out) <= 2
    /\ c.out = <<>> /\ c.file = FI!NoFile =>
          /\ FiFits(d, size)
          /\ d.out \o FiRest(d) = FI!Answer([op |-> "GET", range |-> range, size |-> size])

LEMMA FiServe ==
    ASSUME NEW c \in FiConn, NEW range \in {r \in Seq(Int) : Len(r) <= 2}, NEW keepalive \in BOOLEAN,
           size \in Nat
    PROVE  FiServed(c, range, keepalive, FI!Serve(c, range, keepalive))
<1>1. PICK status \in Nat, from \in Nat, cl \in Nat :
          /\ from + cl <= size
          /\ FI!RangeOf(range, size) = [status |-> status, from |-> from, cl |-> cl]
  BY FiRange
<1>2. PICK f : f = [fp |-> "DATA_FILE", cl |-> cl, sent |-> c.file.sent, keepalive |-> keepalive, at |-> from]
  OBVIOUS
<1>3. f \in FiFile /\ f.fp = "DATA_FILE" /\ f.cl = cl /\ f.sent = c.file.sent /\ f.at = from
  <2>1. c.file.sent \in Int  BY DEF FiConn, FiFile
  <2> QED  BY <1>2, <2>1 DEF FiFile
<1>4. PICK h \in FiElem : h = FI!Status(status, cl)
  <2>1. FI!Status(status, cl) \in [head : Nat, cl : Int]  BY DEF FI!Status
  <2> QED  BY Zenon, <2>1 DEF FiElem
<1>5. c.in \in Seq(Nat) /\ c.out \in Seq(FiElem)  BY DEF FiConn
<1>6. PICK e : e = FiGiven(c, f, h, c.in)  OBVIOUS
<1>7. e \in FiConn /\ e.file = f /\ e.out = Append(c.out, h) /\ e.closing = c.closing
  BY <1>3, <1>5, <1>6, FiGivenAre
<1>8. PICK d : d = FI!Serve(c, range, keepalive)  OBVIOUS
<1>9. d = FI!TransferFile(e, size)
  <2>1. [c EXCEPT !.file = f, !.out = Append(@, h)] = e  BY <1>6 DEF FiGiven, FiConn
  <2>2. FI!RangeOf(range, size).status = status /\ FI!RangeOf(range, size).from = from
        /\ FI!RangeOf(range, size).cl = cl
    BY <1>1
  <2> QED  BY Zenon, <1>2, <1>4, <1>8, <2>1, <2>2 DEF FI!Serve, FI!DATA_FILE
<1>10. FiAfter(e, d)  BY <1>7, <1>9, FiTransferTyped
<1>11. d \in FiConn /\ d.file.fp # "DATA_PUT" /\ (c.closing => d.closing)
  BY <1>3, <1>7, <1>10 DEF FiAfter, FI!NoFile, FI!NULL
<1>12. c.out = <<>> => e.out = <<h>> /\ Len(e.out) = 1
  <2>1. Append(<<>>, h) = <<h>> /\ Len(<<h>>) = 1  OBVIOUS
  <2> QED  BY <1>7, <2>1
<1>13. c.out = <<>> => Len(d.out) <= MaxSendMbuf \/ Len(d.out) <= 2
  <2> SUFFICES ASSUME c.out = <<>> PROVE Len(d.out) <= MaxSendMbuf \/ Len(d.out) <= 2  OBVIOUS
  <2>1. Len(e.out) = 1  BY <1>12
  <2>2. d.out = e.out \/ Len(d.out) <= MaxSendMbuf  BY <1>10 DEF FiAfter
  <2>3. CASE d.out = e.out
    <3>1. Len(d.out) = 1  BY <2>1, <2>3
    <3> QED  BY <3>1
  <2> QED  BY <2>2, <2>3
<1>14. ASSUME c.out = <<>>, c.file = FI!NoFile
       PROVE  /\ FiFits(d, size)
              /\ d.out \o FiRest(d) = FI!Answer([op |-> "GET", range |-> range, size |-> size])
  <2>1. c.file.sent = 0  BY <1>14 DEF FI!NoFile
  <2>2. FiFits(e, size)  BY <1>1, <1>3, <1>7, <2>1 DEF FiFits
  <2>3. FiFits(d, size) /\ d.out \o FiRest(d) = e.out \o FiRest(e)  BY <1>3, <1>7, <1>9, <2>2, FiTransferKept
  <2>4. FiRest(e) = FI!Bytes(from, cl)  BY <1>3, <1>7, <2>1 DEF FiRest
  <2>5. FI!Answer([op |-> "GET", range |-> range, size |-> size]) = <<h>> \o FI!Bytes(from, cl)
    <3>1. PICK r : r = [op |-> "GET", range |-> range, size |-> size]  OBVIOUS
    <3>2. r.op = "GET" /\ r.range = range /\ r.size = size  BY <3>1
    <3>3. FI!Answer(r) = LET x == FI!RangeOf(r.range, r.size)
                         IN  <<FI!Status(x.status, x.cl)>> \o FI!Bytes(x.from, x.cl)
      BY <3>2 DEF FI!Answer
    <3>4. FI!RangeOf(r.range, r.size) = [status |-> status, from |-> from, cl |-> cl]  BY <1>1, <3>2
    <3>5. FI!RangeOf(r.range, r.size).status = status /\ FI!RangeOf(r.range, r.size).from = from
          /\ FI!RangeOf(r.range, r.size).cl = cl
      BY <3>4
    <3> QED  BY <1>4, <3>1, <3>3, <3>5
  <2> QED  BY <1>12, <1>14, <2>3, <2>4, <2>5
<1> QED  BY <1>8, <1>11, <1>13, <1>14 DEF FiServed

\* A write of n bytes of a PUT.
FiPuts(c, n, d) ==
    /\ d \in FiConn /\ d.out = c.out
    /\ \/ d.file = FI!NoFile /\ d.closing = (c.closing \/ ~c.file.keepalive)
       \/ /\ d.file.fp = c.file.fp /\ d.file.keepalive = c.file.keepalive /\ d.closing = c.closing
          /\ n # 0 /\ c.file.sent + n < c.file.cl

LEMMA FiTransferPut ==
    ASSUME NEW c \in FiConn, NEW n \in Nat
    PROVE  FiPuts(c, n, FI!TransferPut(c, n))
<1>1. PICK f \in FiFile : f = c.file  BY DEF FiConn
<1>2. PICK s \in Int, a \in Int : s = f.sent + n /\ a = f.at + n  BY DEF FiFile
<1>3. PICK g \in FiFile : /\ g = [f EXCEPT !.sent = s, !.at = a] /\ g.fp = f.fp /\ g.sent = s
                          /\ g.cl = f.cl /\ g.keepalive = f.keepalive
  <2>1. [f EXCEPT !.sent = s, !.at = a] \in FiFile  BY DEF FiFile
  <2> QED  BY <2>1 DEF FiFile
<1>4. PICK in \in Seq(Nat) : in = c.in  BY DEF FiConn
<1>5. PICK rest \in Seq(Nat) : rest = SubSeq(in, n + 1, Len(in))
  <2>1. Len(in) \in Nat /\ n + 1 \in Int  BY LenProperties
  <2>2. \A i \in (n + 1)..Len(in) : in[i] \in Nat
    <3> SUFFICES ASSUME NEW i \in (n + 1)..Len(in) PROVE in[i] \in Nat  OBVIOUS
    <3>1. i \in 1..Len(in)  BY <2>1
    <3> QED  BY <3>1, ElementOfSeq
  <2>3. SubSeq(in, n + 1, Len(in)) \in Seq(Nat)
    <3>1. PICK m \in Int, l \in Int : m = n + 1 /\ l = Len(in)  BY <2>1
    <3>2. \A i \in m..l : in[i] \in Nat  BY <2>2, <3>1
    <3>3. SubSeq(in, m, l) \in Seq(Nat)  BY <3>2, SubSeqProperties
    <3> QED  BY <3>1, <3>3
  <2> QED  BY <2>3
<1>6. PICK d : d = [c EXCEPT !.in = rest, !.file = g]  OBVIOUS
<1>7. d \in FiConn /\ d.out = c.out /\ d.file = g /\ d.closing = c.closing
  BY <1>6 DEF FiConn
<1>8. [c EXCEPT !.in = SubSeq(@, n + 1, Len(@)), !.file.sent = @ + n, !.file.at = @ + n] = d
  <2>1. [c EXCEPT !.in = SubSeq(@, n + 1, Len(@)), !.file.sent = @ + n, !.file.at = @ + n]
          = [c EXCEPT !.in = SubSeq(@, n + 1, Len(@)), !.file = [c.file EXCEPT !.sent = @ + n, !.at = @ + n]]
    BY DEF FiConn, FiFile
  <2>2. [c.file EXCEPT !.sent = @ + n, !.at = @ + n] = g  BY <1>1, <1>2, <1>3
  <2> QED  BY <1>4, <1>5, <1>6, <2>1, <2>2
<1>9. FI!TransferPut(c, n) = IF n = 0 \/ d.file.sent >= d.file.cl THEN FI!Finished(d) ELSE d
  <2>1. FI!TransferPut(c, n) =
            LET e == [c EXCEPT !.in = SubSeq(@, n + 1, Len(@)), !.file.sent = @ + n, !.file.at = @ + n]
            IN  IF n = 0 \/ e.file.sent >= e.file.cl THEN FI!Finished(e) ELSE e
    BY DEF FI!TransferPut
  <2> QED  BY <1>8, <2>1
<1>10. CASE n = 0 \/ d.file.sent >= d.file.cl
  <2>1. FI!TransferPut(c, n) = FI!Finished(d)  BY <1>9, <1>10
  <2>2. PICK e : e = FI!Finished(d)  OBVIOUS
  <2>3. e \in FiConn /\ e.out = d.out /\ e.file = FI!NoFile /\ e.closing = (d.closing \/ ~d.file.keepalive)
    BY <1>7, <2>2, FiFinished
  <2>4. d.file.keepalive = c.file.keepalive  BY <1>1, <1>3, <1>7
  <2> QED  BY Zenon, <1>7, <2>1, <2>2, <2>3, <2>4 DEF FiPuts
<1>11. CASE ~(n = 0 \/ d.file.sent >= d.file.cl)
  <2>1. FI!TransferPut(c, n) = d  BY <1>9, <1>11
  <2>2. c.file.sent + n < c.file.cl
    <3>1. d.file.sent = c.file.sent + n /\ d.file.cl = c.file.cl /\ c.file.cl \in Int /\ c.file.sent \in Int
      BY <1>1, <1>2, <1>3, <1>7 DEF FiFile
    <3> QED  BY <1>11, <3>1
  <2>3. d.file.fp = c.file.fp /\ d.file.keepalive = c.file.keepalive  BY <1>1, <1>3, <1>7
  <2> QED  BY <1>7, <1>11, <2>1, <2>2, <2>3 DEF FiPuts
<1> QED  BY <1>10, <1>11

\* How much is written at most: what is left of the body, and is in recv_mbuf.
LEMMA FiPutSizes ==
    ASSUME NEW c \in FiConn
    PROVE  \E most \in Nat :
              /\ FI!PutSizes(c) = 0..most /\ FI!Max(FI!PutSizes(c)) = most
              /\ c.file.cl - c.file.sent = Len(c.in) => most = Len(c.in)
<1>1. PICK len \in Nat : len = Len(c.in)
  <2>1. c.in \in Seq(Nat)  BY DEF FiConn
  <2> QED  BY <2>1, LenProperties
<1>2. PICK cl \in Int, sent \in Int : cl = c.file.cl /\ sent = c.file.sent  BY DEF FiConn, FiFile
<1>3. PICK left \in Nat : /\ left = (IF c.file.cl > c.file.sent THEN c.file.cl - c.file.sent ELSE 0)
                          /\ cl - sent = len => left = len
  BY <1>2
<1>4. FI!Min({left, len}) = IF left <= len THEN left ELSE len  BY FiMin
<1>5. PICK most \in Nat : most = FI!Min({left, len}) /\ (left = len => most = len)  BY <1>4
<1>6. FI!PutSizes(c) = 0..most  BY <1>1, <1>3, <1>5 DEF FI!PutSizes
<1>7. FI!Max(0..most) = most  BY FiMaxUpto
<1> QED  BY <1>1, <1>2, <1>3, <1>5, <1>6, <1>7

-----------------------------------------------------------------------------
\* What a request leaves: it is the last that was asked, no PUT was before it, and
\* a client that waits has the answers that were due.
FiAsked(r) ==
    /\ asked' \in Seq(FiReq) /\ asked' = Append(asked, r) /\ Len(asked') = Len(asked) + 1
    /\ Len(asked) \in Nat /\ Len(asked') <= MaxRequests
    /\ \A i \in 1..Len(asked') : asked'[i].op = "PUT" => i = Len(asked')
    /\ asked'[Len(asked')] = r
    /\ eager' \in BOOLEAN /\ (~eager' => ~eager /\ conn.out = <<>> /\ ~FI!Busy(conn))
    /\ ~closed /\ conn.file.fp # "DATA_PUT" /\ size' = size /\ gone' = gone /\ closed' = closed

LEMMA FiRequest ==
    ASSUME FiInv, NEW r \in FiReq, FI!Request(r)
    PROVE  FiAsked(r)
<1>1. asked' = Append(asked, r) /\ asked \in Seq(FiReq) /\ Len(asked) < MaxRequests
  BY DEF FI!Request, FiInv, FiTyped
<1>2. PICK n \in Nat : n = Len(asked)  BY <1>1, LenProperties
<1>3. /\ Append(asked, r) \in Seq(FiReq) /\ Len(Append(asked, r)) = n + 1
      /\ \A i \in 1..n : Append(asked, r)[i] = asked[i]
      /\ Append(asked, r)[n + 1] = r
  BY <1>1, <1>2, AppendProperties
<1>4. ~closed /\ ~conn.closing /\ conn.file.fp # "DATA_PUT" /\ size' = size /\ gone' = gone /\ closed' = closed
  BY DEF FI!Request, FI!DATA_PUT
<1>5. \A i \in 1..n : asked[i].op # "PUT"  BY <1>2, <1>4 DEF FiInv, FiPut
<1>6. \A i \in 1..(n + 1) : asked'[i].op = "PUT" => i = n + 1
  <2> SUFFICES ASSUME NEW i \in 1..(n + 1), i # n + 1 PROVE asked'[i].op # "PUT"  OBVIOUS
  <2>1. i \in 1..n  OBVIOUS
  <2> QED  BY <1>1, <1>3, <1>5, <2>1
<1>7. eager' \in BOOLEAN /\ (~eager' => ~eager /\ conn.out = <<>> /\ ~FI!Busy(conn))
  BY DEF FI!Request, FiInv, FiTyped
<1>8. n + 1 <= MaxRequests
  <2>1. MaxRequests \in Nat  BY ProtocolsAssumption
  <2> QED  BY <1>1, <1>2, <2>1
<1> QED  BY <1>1, <1>2, <1>3, <1>4, <1>6, <1>7, <1>8 DEF FiAsked

\* What is transferred before the request is handled.
LEMMA FiTransfers ==
    ASSUME FiInv
    PROVE  FiAfter(conn, FI!Transfer(conn))
<1>1. conn \in FiConn /\ size \in Nat  BY DEF FiInv, FiTyped
<1>2. FI!Transfer(conn) = FI!TransferFile(conn, size) \/ FI!Transfer(conn) = conn  BY DEF FI!Transfer
<1>3. FiAfter(conn, FI!TransferFile(conn, size))  BY <1>1, FiTransferTyped
<1>4. FiAfter(conn, conn)  BY <1>1 DEF FiAfter
<1> QED  BY <1>2, <1>3, <1>4

\* A client that waits has the whole answer, and the file is closed.
LEMMA FiWaited ==
    ASSUME FiInv, conn.out = <<>>, ~FI!Busy(conn), conn.file.fp # "DATA_PUT"
    PROVE  /\ FI!Transfer(conn).out = <<>>
           /\ FI!Transfer(conn).file = FI!NoFile \/ (FI!Transfer(conn) = conn /\ conn.file.fp = "NULL")
<1>1. conn \in FiConn /\ size \in Nat  BY DEF FiInv, FiTyped
<1>2. CASE conn.file.fp # "DATA_FILE"
  <2>1. FI!Transfer(conn) = conn  BY <1>2 DEF FI!Transfer, FI!DATA_FILE
  <2>2. conn.file.fp = "NULL"  BY <1>1, <1>2 DEF FiConn, FiFile
  <2> QED  BY <2>1, <2>2
<1>3. CASE conn.file.fp = "DATA_FILE"
  <2>1. FI!Transfer(conn) = FI!TransferFile(conn, size)  BY <1>3 DEF FI!Transfer, FI!DATA_FILE
  <2>2. FiMoves(conn, size, FI!TransferFile(conn, size))  BY <1>1, FiTransfer
  <2>3. Len(conn.out) = 0 /\ MaxSendMbuf \in Nat \ {0}
    <3>1. Len(<<>>) = 0  BY EmptySeq
    <3> QED  BY <3>1, ProtocolsAssumption
  <2>4. ~(Len(conn.out) >= MaxSendMbuf)  BY <2>3
  <2>5. conn.file.sent \in Int /\ conn.file.cl \in Int  BY <1>1 DEF FiConn, FiFile
  <2>6. ~(conn.file.sent < conn.file.cl)  BY <1>3 DEF FI!Busy, FI!DATA_FILE
  <2>7. \A n \in Nat : ~(n > 0 /\ n <= conn.file.cl - conn.file.sent)  BY <2>5, <2>6
  <2>8. FI!TransferFile(conn, size) = FI!Finished(conn)  BY <2>2, <2>4, <2>7 DEF FiMoves
  <2> QED  BY <1>1, <2>1, <2>8, FiFinished
<1> QED  BY <1>2, <1>3

\* For a client that waits, and a file that is as it was, the answers are out.
LEMMA FiAnswered ==
    ASSUME FiInv, ~eager, ~changed, ~closed, conn.out = <<>>, ~FI!Busy(conn), conn.file.fp # "DATA_PUT"
    PROVE  /\ leaked = 0 /\ gone = FI!Due(asked)
           /\ FI!Transfer(conn).out = <<>> /\ FI!Transfer(conn).file = FI!NoFile
<1>1. FiFits(conn, size) /\ leaked = 0 /\ (gone \o conn.out) \o FiRest(conn) = FI!Due(asked)
  BY DEF FiInv, FiFramed
<1>2. conn \in FiConn /\ gone \in Seq(FiElem)  BY DEF FiInv, FiTyped
<1>3. FiRest(conn) = <<>>
  <2>1. CASE conn.file.fp = "DATA_FILE"
    <3>1. conn.file.sent \in Int /\ conn.file.cl \in Int  BY <1>2 DEF FiConn, FiFile
    <3>2. conn.file.cl - conn.file.sent = 0  BY <1>1, <2>1, <3>1 DEF FI!Busy, FI!DATA_FILE, FiFits
    <3> QED  BY <2>1, <3>2, FiBytesNone DEF FiRest
  <2>2. CASE conn.file.fp # "DATA_FILE"  BY <2>2 DEF FiRest
  <2> QED  BY <2>1, <2>2
<1>4. (gone \o <<>>) \o <<>> = gone  BY <1>2, ConcatEmptySeq
<1>5. FI!Transfer(conn).file = FI!NoFile /\ FI!Transfer(conn).out = <<>>
  <2>1. conn.file.fp = "NULL" => conn.file = FI!NoFile  BY <1>1 DEF FiFits
  <2> QED  BY <2>1, FiWaited
<1> QED  BY <1>1, <1>3, <1>4, <1>5

LEMMA FiConcat == \A s, t, u \in Seq(FiElem) : (s \o t) \o u = s \o (t \o u)
<1> SUFFICES ASSUME NEW s \in Seq(FiElem), NEW t \in Seq(FiElem), NEW u \in Seq(FiElem)
             PROVE  (s \o t) \o u = s \o (t \o u)
  OBVIOUS
<1> QED  BY ConcatAssociative

\* An answer more, behind those that are out.
LEMMA FiOneMore ==
    ASSUME NEW r \in FiReq, NEW c \in FiConn, asked \in Seq(FiReq), asked' = Append(asked, r),
           gone = FI!Due(asked), gone \in Seq(FiElem), c.out \o FiRest(c) = FI!Answer(r),
           FiRest(c) \in Seq(FiElem)
    PROVE  (gone \o c.out) \o FiRest(c) = FI!Due(asked')
<1>1. FI!Due(Append(asked, r)) = FI!Due(asked) \o FI!Answer(r)  BY FiDueMore
<1>2. PICK x \in Seq(FiElem), y \in Seq(FiElem), z \in Seq(FiElem) : x = gone /\ y = c.out /\ z = FiRest(c)
  BY DEF FiConn
<1>3. (x \o y) \o z = x \o (y \o z)
  BY FiConcat, ZenonT(40)
<1> QED  BY <1>1, <1>2, <1>3

LEMMA FiRestTyped ==
    ASSUME NEW c \in FiConn, NEW length, FiFits(c, length)
    PROVE  FiRest(c) \in Seq(FiElem)
<1>1. CASE c.file.fp = "DATA_FILE"
  <2>1. c.file.at \in Int /\ c.file.cl \in Int /\ c.file.sent \in Int  BY DEF FiConn, FiFile
  <2>2. c.file.cl - c.file.sent \in Nat  BY <1>1, <2>1 DEF FiFits
  <2> QED  BY <1>1, <2>1, <2>2, FiBytesType DEF FiRest
<1>2. CASE c.file.fp # "DATA_FILE"
  <2>1. <<>> \in Seq(FiElem)  BY EmptySeq
  <2> QED  BY <1>2, <2>1 DEF FiRest
<1> QED  BY <1>1, <1>2

LEMMA FiGet ==
    ASSUME FiInv, NEW range \in FileRanges, NEW keepalive \in BOOLEAN, FI!Get(range, keepalive)
    PROVE  FiInv'
<1>1. PICK c : c = FI!Transfer(conn)  OBVIOUS
<1>2. PICK r : r = [op |-> "GET", range |-> range, size |-> size]  OBVIOUS
<1>3. range \in {x \in Seq(Int) : Len(x) <= 2}  BY ProtocolsAssumption
<1>4. r \in FiReq /\ r.op = "GET"
  <2>1. size \in Nat  BY DEF FiInv, FiTyped
  <2>2. r \in [op : {"GET", "MISSING"}, range : {x \in Seq(Int) : Len(x) <= 2}, size : Nat]
    BY <1>2, <1>3, <2>1
  <2> QED  BY Zenon, <1>2, <2>2 DEF FiReq
<1>5. FI!Request(r) /\ changed' = changed /\ stored' = stored
  BY <1>2 DEF FI!Get
<1>6. conn' = FI!Serve(c, range, keepalive) /\ leaked' = leaked + (IF c.file.fp = "NULL" THEN 0 ELSE 1)
  BY Zenon, <1>1 DEF FI!Get, FI!NULL
<1>7. FiAsked(r)  BY <1>4, <1>5, FiRequest
<1>8. FiAfter(conn, c)  BY <1>1, FiTransfers
<1>9. FiServed(c, range, keepalive, conn')
  <2>1. size \in Nat  BY DEF FiInv, FiTyped
  <2>2. c \in FiConn  BY <1>8 DEF FiAfter
  <2>3. FiServed(c, range, keepalive, FI!Serve(c, range, keepalive))  BY <1>3, <2>1, <2>2, FiServe
  <2> QED  BY <1>6, <2>3
<1>10. FiTyped'
  <2>1. leaked' \in Nat /\ leaked' <= Len(asked) + 1
    <3>1. leaked \in Nat /\ leaked <= Len(asked) /\ Len(asked) \in Nat  BY <1>7 DEF FiInv, FiTyped, FiAsked
    <3>2. leaked' = leaked \/ leaked' = leaked + 1  BY <1>6, <3>1
    <3> QED  BY <3>1, <3>2
  <2> QED  BY <1>5, <1>7, <1>9, <2>1 DEF FiInv, FiTyped, FiAsked, FiServed
<1>11. FiFramed'
  <2> SUFFICES ASSUME ~eager', ~changed'
               PROVE  leaked' = 0 /\ FiFits(conn', size') /\ ~closed'
                      /\ (gone' \o conn'.out) \o FiRest(conn') = FI!Due(asked')
    BY DEF FiFramed, FiFits, FiRest
  <2>1. ~eager /\ ~changed /\ ~closed /\ conn.out = <<>> /\ ~FI!Busy(conn) /\ conn.file.fp # "DATA_PUT"
    BY <1>5, <1>7 DEF FiAsked
  <2>2. leaked = 0 /\ gone = FI!Due(asked) /\ c.out = <<>> /\ c.file = FI!NoFile
    BY <1>1, <2>1, FiAnswered
  <2>3. leaked' = 0  BY <1>6, <2>2 DEF FI!NoFile, FI!NULL
  <2>4. FiFits(conn', size) /\ conn'.out \o FiRest(conn') = FI!Answer(r) /\ conn' \in FiConn
    BY <1>2, <1>9, <2>2 DEF FiServed
  <2>5. FiRest(conn') \in Seq(FiElem)  BY <2>4, FiRestTyped
  <2>6. asked \in Seq(FiReq) /\ gone \in Seq(FiElem)  BY DEF FiInv, FiTyped
  <2>7. asked' = Append(asked, r) /\ size' = size /\ gone' = gone /\ ~closed'  BY <1>7 DEF FiAsked
  <2>8. (gone \o conn'.out) \o FiRest(conn') = FI!Due(asked')
    <3>1. PICK d \in FiConn : d = conn'  BY <2>4
    <3>2. d.out \o FiRest(d) = FI!Answer(r) /\ FiRest(d) \in Seq(FiElem)  BY <2>4, <2>5, <3>1
    <3>3. (gone \o d.out) \o FiRest(d) = FI!Due(asked')  BY <1>4, <2>2, <2>6, <2>7, <3>2, FiOneMore
    <3> QED  BY <3>1, <3>3
  <2> QED  BY <2>3, <2>4, <2>7, <2>8
<1>12. FiBounded'
  <2> SUFFICES ASSUME ~eager' PROVE Len(conn'.out) <= MaxSendMbuf \/ Len(conn'.out) <= 2
    BY DEF FiBounded
  <2>1. conn.out = <<>> /\ ~FI!Busy(conn) /\ conn.file.fp # "DATA_PUT"  BY <1>7 DEF FiAsked
  <2>2. c.out = <<>>  BY <1>1, <2>1, FiWaited
  <2> QED  BY <1>9, <2>2 DEF FiServed
<1>13. FiPut'
  <2>1. \A i \in 1..Len(asked') : asked'[i].op # "PUT"
    <3> SUFFICES ASSUME NEW i \in 1..Len(asked'), asked'[i].op = "PUT" PROVE FALSE  OBVIOUS
    <3>1. i = Len(asked') /\ asked'[Len(asked')] = r  BY <1>7 DEF FiAsked
    <3> QED  BY <1>4, <3>1
  <2>2. conn'.file.fp # "DATA_PUT"  BY <1>9 DEF FiServed
  <2> QED  BY <2>1, <2>2 DEF FiPut
<1> QED  BY <1>10, <1>11, <1>12, <1>13 DEF FiInv

LEMMA FiGetMissing ==
    ASSUME FiInv, FI!GetMissing
    PROVE  FiInv'
<1>1. PICK c : c = FI!Transfer(conn)  OBVIOUS
<1>2. PICK r : r = [op |-> "MISSING", range |-> <<>>, size |-> size]  OBVIOUS
<1>3. r \in FiReq /\ r.op = "MISSING"
  <2>1. size \in Nat  BY DEF FiInv, FiTyped
  <2>2. <<>> \in Seq(Int) /\ Len(<<>>) = 0  BY EmptySeq
  <2>3. PICK none \in Seq(Int) : none = <<>> /\ Len(none) = 0  BY <2>2
  <2>4. none \in {x \in Seq(Int) : Len(x) <= 2}  BY <2>3
  <2>5. r \in [op : {"GET", "MISSING"}, range : {x \in Seq(Int) : Len(x) <= 2}, size : Nat]
    BY <1>2, <2>1, <2>3, <2>4
  <2> QED  BY Zenon, <1>2, <2>5 DEF FiReq
<1>4. /\ FI!Request(r) /\ changed' = changed /\ stored' = stored /\ leaked' = leaked
      /\ conn' = [c EXCEPT !.out = @ \o <<FI!Status(404, 1), FI!Byte(0)>>, !.closing = TRUE]
  BY <1>1, <1>2 DEF FI!GetMissing
<1>5. FiAsked(r)  BY <1>3, <1>4, FiRequest
<1>6. FiAfter(conn, c)  BY <1>1, FiTransfers
<1>7. c \in FiConn  BY <1>6 DEF FiAfter
<1>8. PICK error \in Seq(FiElem) : error = <<FI!Status(404, 1), FI!Byte(0)>> /\ Len(error) = 2
  <2>1. PICK x \in FiElem : x = FI!Status(404, 1)
    <3>1. FI!Status(404, 1) \in [head : Nat, cl : Int]  BY DEF FI!Status
    <3> QED  BY Zenon, <3>1 DEF FiElem
  <2>2. PICK y \in FiElem : y = FI!Byte(0)
    <3>1. FI!Byte(0) \in [byte : Int]  BY DEF FI!Byte
    <3> QED  BY Zenon, <3>1 DEF FiElem
  <2>3. <<x, y>> \in Seq(FiElem) /\ Len(<<x, y>>) = 2  OBVIOUS
  <2> QED  BY <2>1, <2>2, <2>3
<1>9. PICK o \in Seq(FiElem) : o = c.out \o error
  <2>1. PICK x \in Seq(FiElem) : x = c.out  BY <1>7 DEF FiConn
  <2>2. x \o error \in Seq(FiElem)  BY ConcatProperties
  <2> QED  BY <2>1, <2>2
<1>10. conn' \in FiConn /\ conn'.out = o /\ conn'.file = c.file /\ conn'.closing = TRUE
  <2>1. conn' = [c EXCEPT !.out = o, !.closing = TRUE]  BY <1>4, <1>8, <1>9
  <2> QED  BY <1>7, <2>1 DEF FiConn
<1>11. c.out = <<>> => o = error
  <2>1. <<>> \o error = error  BY ConcatEmptySeq
  <2> QED  BY <1>9, <2>1
<1>12. FiTyped'
  <2>1. leaked' \in Nat /\ leaked' <= Len(asked) + 1
    BY <1>4, <1>5 DEF FiInv, FiTyped, FiAsked
  <2> QED  BY <1>4, <1>5, <1>10, <2>1 DEF FiInv, FiTyped, FiAsked
<1>13. FiFramed'
  <2> SUFFICES ASSUME ~eager', ~changed'
               PROVE  leaked' = 0 /\ FiFits(conn', size') /\ ~closed'
                      /\ (gone' \o conn'.out) \o FiRest(conn') = FI!Due(asked')
    BY DEF FiFramed, FiFits, FiRest
  <2>1. ~eager /\ ~changed /\ ~closed /\ conn.out = <<>> /\ ~FI!Busy(conn) /\ conn.file.fp # "DATA_PUT"
    BY <1>4, <1>5 DEF FiAsked
  <2>2. leaked = 0 /\ gone = FI!Due(asked) /\ c.out = <<>> /\ c.file = FI!NoFile
    BY <1>1, <2>1, FiAnswered
  <2>3. FiFits(conn', size) /\ FiRest(conn') = <<>>
    BY <1>10, <2>2 DEF FiFits, FiRest, FI!NoFile, FI!NULL
  <2>4. conn'.out \o FiRest(conn') = FI!Answer(r)
    <3>1. error \o <<>> = error  BY ConcatEmptySeq
    <3>2. FI!Answer(r) = error  BY <1>3, <1>8 DEF FI!Answer
    <3> QED  BY <1>10, <1>11, <2>2, <2>3, <3>1, <3>2
  <2>5. FiRest(conn') \in Seq(FiElem)  BY <2>3, EmptySeq
  <2>6. asked \in Seq(FiReq) /\ gone \in Seq(FiElem)  BY DEF FiInv, FiTyped
  <2>7. asked' = Append(asked, r) /\ size' = size /\ gone' = gone /\ ~closed'  BY <1>5 DEF FiAsked
  <2>8. (gone \o conn'.out) \o FiRest(conn') = FI!Due(asked')
    <3>1. PICK d \in FiConn : d = conn'  BY <1>10
    <3>2. d.out \o FiRest(d) = FI!Answer(r) /\ FiRest(d) \in Seq(FiElem)  BY <2>4, <2>5, <3>1
    <3>3. (gone \o d.out) \o FiRest(d) = FI!Due(asked')  BY <1>3, <2>2, <2>6, <2>7, <3>2, FiOneMore
    <3> QED  BY <3>1, <3>3
  <2> QED  BY <1>4, <2>2, <2>3, <2>7, <2>8
<1>14. FiBounded'
  <2> SUFFICES ASSUME ~eager' PROVE Len(conn'.out) <= MaxSendMbuf \/ Len(conn'.out) <= 2
    BY DEF FiBounded
  <2>1. conn.out = <<>> /\ ~FI!Busy(conn) /\ conn.file.fp # "DATA_PUT"  BY <1>5 DEF FiAsked
  <2>2. c.out = <<>>  BY <1>1, <2>1, FiWaited
  <2>3. Len(conn'.out) = 2  BY <1>8, <1>10, <1>11, <2>2
  <2> QED  BY <2>3
<1>15. FiPut'
  <2>1. \A i \in 1..Len(asked') : asked'[i].op # "PUT"
    <3> SUFFICES ASSUME NEW i \in 1..Len(asked'), asked'[i].op = "PUT" PROVE FALSE  OBVIOUS
    <3>1. i = Len(asked') /\ asked'[Len(asked')] = r  BY <1>5 DEF FiAsked
    <3> QED  BY <1>3, <3>1
  <2>2. conn'.file.fp # "DATA_PUT"
    BY <1>5, <1>6, <1>10 DEF FiAsked, FiAfter, FI!NoFile, FI!NULL
  <2> QED  BY <2>1, <2>2 DEF FiPut
<1> QED  BY <1>12, <1>13, <1>14, <1>15 DEF FiInv

\* What a file that was emptied holds when the whole body has been written.
LEMMA FiWritten ==
    ASSUME NEW c, NEW body \in Seq(Nat), NEW n, n = Len(body), c.in = body, c.file.at = 0
    PROVE  SubSeq(FI!Written(<<>>, c, n), 1, Len(body)) = body
<1>1. n \in Nat  BY LenProperties
<1>2. FI!Max({Len(<<>>), 0 + n}) = n
  <2>1. Len(<<>>) = 0 /\ 0 + n = n  BY <1>1, EmptySeq
  <2>2. FI!Max({0, n}) = n  BY <1>1, FiMax
  <2> QED  BY <2>1, <2>2
<1>3. FI!Written(<<>>, c, n) = [i \in 1..n |-> body[i]]
  <2>1. FI!Written(<<>>, c, n) = [i \in 1..FI!Max({Len(<<>>), 0 + n}) |->
            IF i - 0 \in 1..n THEN body[i - 0] ELSE IF i <= Len(<<>>) THEN <<>>[i] ELSE 0]
    BY DEF FI!Written
  <2>2. \A i \in 1..n : i - 0 \in 1..n /\ i - 0 = i  BY <1>1
  <2> QED  BY <1>2, <2>1, <2>2
<1>4. [i \in 1..n |-> body[i]] = body
  <2>1. body \in [1..n -> Nat]  BY LenProperties
  <2> QED  BY <2>1
<1> QED  BY <1>3, <1>4, SubSeqFull

LEMMA FiPutStep ==
    ASSUME FiInv, NEW body \in Seq(Nat), NEW range \in FileRanges, FI!Put(body, range)
    PROVE  FiInv'
<1>1. PICK c0 : c0 = FI!Transfer(conn)  OBVIOUS
<1>2. PICK r : r = [op |-> "PUT", range |-> range, body |-> body]  OBVIOUS
<1>3. range \in {x \in Seq(Int) : Len(x) <= 2}  BY ProtocolsAssumption
<1>4. r \in FiReq /\ r.op = "PUT" /\ r.range = range /\ r.body = body
  <2>1. r \in [op : {"PUT"}, range : {x \in Seq(Int) : Len(x) <= 2}, body : Seq(Nat)]
    BY <1>2, <1>3
  <2> QED  BY Zenon, <1>2, <2>1 DEF FiReq
<1> DEFINE r1 == range[1]
           r2 == IF Len(range) = 2 THEN range[2] ELSE 0
           cl == IF range = <<>> THEN Len(body) ELSE IF r2 > r1 THEN r2 - r1 + 1 ELSE Len(body) - r1
           at == IF range = <<>> THEN 0 ELSE r1
           code == IF range = <<>> THEN 200 ELSE 206
<1>5. /\ range = <<>> \/ (Len(range) = 2 /\ range[2] - range[1] + 1 = Len(body) /\ body # <<>>)
      /\ FI!Request(r) /\ leaked' = leaked
  BY <1>2 DEF FI!Put
<1>6. PICK cl0 \in Int, at0 \in Int :
          cl0 = cl /\ at0 = at /\ (range = <<>> => cl0 = Len(body) /\ at0 = 0)
  <2>1. Len(body) \in Nat  BY LenProperties
  <2>2. CASE range = <<>>  BY <2>1, <2>2
  <2>3. CASE range # <<>>
    <3>1. Len(range) = 2 /\ range \in Seq(Int)  BY <1>3, <1>5, <2>3
    <3>2. 1 \in 1..Len(range) /\ 2 \in 1..Len(range)  BY <3>1
    <3>3. range[1] \in Int /\ range[2] \in Int  BY <3>1, <3>2, ElementOfSeq
    <3> QED  BY <2>1, <2>3, <3>1, <3>3
  <2> QED  BY <2>2, <2>3
<1>7. PICK f : f = [fp |-> "DATA_PUT", cl |-> cl0, sent |-> 0, keepalive |-> FALSE, at |-> at0]  OBVIOUS
<1>8. f \in FiFile /\ f.fp = "DATA_PUT" /\ f.cl = cl0 /\ f.sent = 0 /\ f.keepalive = FALSE /\ f.at = at0
  BY <1>7 DEF FiFile
<1>9. PICK h \in FiElem : h = FI!Status(code, 0)
  <2>1. FI!Status(code, 0) \in [head : Nat, cl : Int]  BY DEF FI!Status
  <2> QED  BY Zenon, <2>1 DEF FiElem
<1>10. PICK c : c = FiGiven(c0, f, h, body)  OBVIOUS
<1>11. FiAfter(conn, c0)  BY <1>1, FiTransfers
<1>12. c \in FiConn /\ c.file = f /\ c.out = Append(c0.out, h) /\ c.in = body
  BY <1>8, <1>10, <1>11, FiGivenAre DEF FiAfter
<1>13. [FI!Transfer(conn) EXCEPT
                 !.file = [fp |-> FI!DATA_PUT, cl |-> cl, sent |-> 0, keepalive |-> FALSE,
                           at |-> IF range = <<>> THEN 0 ELSE r1],
                 !.out = Append(@, FI!Status(IF range = <<>> THEN 200 ELSE 206, 0)),
                 !.in = body] = c
  BY <1>1, <1>6, <1>7, <1>9, <1>10, ZenonT(40) DEF FiGiven, FI!DATA_PUT
<1>14. PICK n \in FI!PutSizes(c) :
          /\ conn' = FI!TransferPut(c, n)
          /\ stored' = FI!Written(<<>>, c, n)
          /\ changed' = (changed \/ n < FI!Max(FI!PutSizes(c)))
  <2> DEFINE Writes(e) == \E n \in FI!PutSizes(e) :
                             /\ conn' = FI!TransferPut(e, n)
                             /\ stored' = FI!Written(<<>>, e, n)
                             /\ changed' = (changed \/ n < FI!Max(FI!PutSizes(e)))
             given == [FI!Transfer(conn) EXCEPT
                 !.file = [fp |-> FI!DATA_PUT, cl |-> cl, sent |-> 0, keepalive |-> FALSE,
                           at |-> IF range = <<>> THEN 0 ELSE r1],
                 !.out = Append(@, FI!Status(IF range = <<>> THEN 200 ELSE 206, 0)),
                 !.in = body]
  <2>1. Writes(given)  BY Zenon DEF FI!Put
  <2>2. given = c  BY <1>13
  <2> HIDE DEF given, Writes
  <2>3. Writes(c)  BY <2>1, <2>2
  <2> QED  BY <2>3 DEF Writes
<1>15. PICK most \in Nat : /\ FI!PutSizes(c) = 0..most /\ FI!Max(FI!PutSizes(c)) = most
                           /\ c.file.cl - c.file.sent = Len(c.in) => most = Len(c.in)
  BY <1>12, FiPutSizes
<1>16. n \in Nat /\ n <= most  BY <1>14, <1>15
<1>17. FiPuts(c, n, conn')  BY <1>12, <1>14, <1>16, FiTransferPut
<1>18. FiAsked(r)  BY <1>4, <1>5, FiRequest
<1>19. /\ conn' \in FiConn /\ conn'.out = Append(c0.out, h)
       /\ \/ conn'.file = FI!NoFile /\ conn'.closing = TRUE
          \/ /\ conn'.file.fp = "DATA_PUT" /\ conn'.file.keepalive = FALSE
             /\ n # 0 /\ n < cl0
  <2>1. c.file.sent + n = n  BY <1>8, <1>12, <1>16
  <2>2. ~c.file.keepalive  BY <1>8, <1>12
  <2> QED  BY <1>8, <1>12, <1>17, <2>1, <2>2 DEF FiPuts
<1>20. c0.out = <<>> => conn'.out = <<h>> /\ Len(conn'.out) = 1
  <2>1. Append(<<>>, h) = <<h>> /\ Len(<<h>>) = 1  OBVIOUS
  <2> QED  BY <1>19, <2>1
<1>21. changed' \in BOOLEAN /\ (~changed' => ~changed /\ n = most)
  <2>1. changed \in BOOLEAN  BY DEF FiInv, FiTyped
  <2>2. changed' = (changed \/ n < FI!Max(FI!PutSizes(c)))  BY <1>14
  <2>3. changed' \in BOOLEAN  BY Zenon, <2>1, <2>2
  <2>4. ~changed' => ~changed /\ ~(n < FI!Max(FI!PutSizes(c)))  BY Zenon, <2>1, <2>2
  <2>5. FI!Max(FI!PutSizes(c)) = most  BY <1>15
  <2>6. ~(n < most) => n = most  BY <1>16
  <2> QED  BY <2>3, <2>4, <2>5, <2>6
<1>22. FiTyped'
  <2>1. leaked' \in Nat /\ leaked' <= Len(asked) + 1
    BY <1>5, <1>18 DEF FiInv, FiTyped, FiAsked
  <2> QED  BY <1>18, <1>19, <1>21, <2>1 DEF FiInv, FiTyped, FiAsked
<1>23. FiFramed'
  <2> SUFFICES ASSUME ~eager', ~changed'
               PROVE  leaked' = 0 /\ FiFits(conn', size') /\ ~closed'
                      /\ (gone' \o conn'.out) \o FiRest(conn') = FI!Due(asked')
    BY DEF FiFramed, FiFits, FiRest
  <2>1. ~eager /\ ~changed /\ ~closed /\ conn.out = <<>> /\ ~FI!Busy(conn) /\ conn.file.fp # "DATA_PUT"
    BY <1>18, <1>21 DEF FiAsked
  <2>2. leaked = 0 /\ gone = FI!Due(asked) /\ c0.out = <<>> /\ c0.file = FI!NoFile
    BY <1>1, <2>1, FiAnswered
  <2>3. FiFits(conn', size) /\ FiRest(conn') = <<>>
    BY <1>19 DEF FiFits, FiRest, FI!NoFile, FI!NULL
  <2>4. conn'.out \o FiRest(conn') = FI!Answer(r)
    <3>1. <<h>> \in Seq(FiElem)  OBVIOUS
    <3>2. <<h>> \o <<>> = <<h>>  BY <3>1, ConcatEmptySeq
    <3>3. FI!Answer(r) = <<h>>  BY <1>4, <1>9 DEF FI!Answer
    <3> QED  BY <1>20, <2>2, <2>3, <3>2, <3>3
  <2>5. FiRest(conn') \in Seq(FiElem)  BY <2>3, EmptySeq
  <2>6. asked \in Seq(FiReq) /\ gone \in Seq(FiElem)  BY DEF FiInv, FiTyped
  <2>7. asked' = Append(asked, r) /\ size' = size /\ gone' = gone /\ ~closed'  BY <1>18 DEF FiAsked
  <2>8. (gone \o conn'.out) \o FiRest(conn') = FI!Due(asked')
    <3>1. PICK d \in FiConn : d = conn'  BY <1>19
    <3>2. d.out \o FiRest(d) = FI!Answer(r) /\ FiRest(d) \in Seq(FiElem)  BY <2>4, <2>5, <3>1
    <3>3. (gone \o d.out) \o FiRest(d) = FI!Due(asked')  BY <1>4, <2>2, <2>6, <2>7, <3>2, FiOneMore
    <3> QED  BY <3>1, <3>3
  <2> QED  BY <1>5, <2>2, <2>3, <2>7, <2>8
<1>24. FiBounded'
  <2> SUFFICES ASSUME ~eager' PROVE Len(conn'.out) <= MaxSendMbuf \/ Len(conn'.out) <= 2
    BY DEF FiBounded
  <2>1. conn.out = <<>> /\ ~FI!Busy(conn) /\ conn.file.fp # "DATA_PUT"  BY <1>18 DEF FiAsked
  <2>2. c0.out = <<>>  BY <1>1, <2>1, FiWaited
  <2>3. Len(conn'.out) = 1  BY <1>20, <2>2
  <2> QED  BY <2>3
<1>25. FiPut'
  <2>1. conn'.file.fp = "DATA_PUT" => conn'.file.keepalive = FALSE
    BY <1>19 DEF FI!NoFile, FI!NULL
  <2>2. conn'.file.fp = "DATA_PUT" \/ conn'.closing  BY <1>19
  <2>3. ASSUME NEW i \in 1..Len(asked'), asked'[i].op = "PUT", ~changed', asked'[i].range = <<>>
        PROVE  conn'.file.fp # "DATA_PUT" /\ SubSeq(stored', 1, Len(asked'[i].body)) = asked'[i].body
    <3>1. asked'[i] = r  BY <1>18, <2>3 DEF FiAsked
    <3>2. range = <<>> /\ asked'[i].body = body  BY <1>4, <2>3, <3>1
    <3>3. n = Len(body) /\ cl0 = Len(body) /\ at0 = 0 /\ Len(body) \in Nat
      <4>1. cl0 = Len(body) /\ at0 = 0 /\ Len(body) \in Nat  BY <1>6, <3>2, LenProperties
      <4>2. c.file.cl - c.file.sent = Len(c.in)  BY <1>8, <1>12, <4>1
      <4> QED  BY <1>12, <1>15, <1>21, <2>3, <4>1, <4>2
    <3>4. conn'.file.fp # "DATA_PUT"  BY <1>19, <3>3 DEF FI!NoFile, FI!NULL
    <3>5. SubSeq(stored', 1, Len(body)) = body  BY <1>8, <1>12, <1>14, <3>3, FiWritten
    <3> QED  BY <3>2, <3>4, <3>5
  <2>4. \A i \in 1..Len(asked') : asked'[i].op = "PUT" => i = Len(asked')  BY <1>18 DEF FiAsked
  <2> QED  BY <2>1, <2>2, <2>3, <2>4 DEF FiPut
<1> QED  BY <1>22, <1>23, <1>24, <1>25 DEF FiInv

\* When the file is transferred between requests, for whatever is in send_mbuf.
LEMMA FiGoesOn ==
    ASSUME FiInv, ~closed, NEW c \in FiConn, c.file = conn.file, c.closing = conn.closing,
           conn' = FI!Transfer(c), gone' \in Seq(FiElem), gone' \o c.out = gone \o conn.out,
           Len(c.out) <= Len(conn.out),
           UNCHANGED <<size, stored, asked, eager, changed, leaked, closed>>
    PROVE  FiInv'
<1>1. conn \in FiConn /\ size \in Nat /\ gone \in Seq(FiElem)  BY DEF FiInv, FiTyped
<1>2. c.file.fp # "DATA_FILE" => conn' = c  BY DEF FI!Transfer, FI!DATA_FILE
<1>3. c.file.fp = "DATA_FILE" => conn' = FI!TransferFile(c, size)  BY DEF FI!Transfer, FI!DATA_FILE
<1>4. FiAfter(c, conn')
  <2>1. FiAfter(c, c)  BY DEF FiAfter
  <2>2. FiAfter(c, FI!TransferFile(c, size))  BY <1>1, FiTransferTyped
  <2> QED  BY <1>2, <1>3, <2>1, <2>2
<1>5. PICK d \in FiConn : d = conn'  BY <1>4 DEF FiAfter
<1>6. FiTyped'  BY <1>5 DEF FiInv, FiTyped
<1>7. FiFramed'
  <2> SUFFICES ASSUME ~eager, ~changed
               PROVE  leaked = 0 /\ FiFits(conn', size)
                      /\ (gone' \o conn'.out) \o FiRest(conn') = FI!Due(asked)
    BY DEF FiFramed, FiFits, FiRest
  <2>1. leaked = 0 /\ FiFits(conn, size) /\ (gone \o conn.out) \o FiRest(conn) = FI!Due(asked)
    BY DEF FiInv, FiFramed
  <2>2. FiFits(c, size) /\ FiRest(c) = FiRest(conn)  BY <2>1 DEF FiFits, FiRest
  <2>3. (gone' \o c.out) \o FiRest(c) = FI!Due(asked)  BY <2>1, <2>2
  <2>4. FiFits(d, size) /\ d.out \o FiRest(d) = c.out \o FiRest(c)
    <3>1. CASE c.file.fp = "DATA_FILE"  BY <1>1, <1>3, <1>5, <2>2, <3>1, FiTransferKept
    <3>2. CASE c.file.fp # "DATA_FILE"  BY <1>2, <1>5, <2>2, <3>2
    <3> QED  BY <3>1, <3>2
  <2>5. FiRest(c) \in Seq(FiElem) /\ FiRest(d) \in Seq(FiElem)  BY <2>2, <2>4, FiRestTyped
  <2>6. (gone' \o d.out) \o FiRest(d) = (gone' \o c.out) \o FiRest(c)
    <3>1. PICK g \in Seq(FiElem), x \in Seq(FiElem), y \in Seq(FiElem), u \in Seq(FiElem), v \in Seq(FiElem) :
              g = gone' /\ x = d.out /\ y = FiRest(d) /\ u = c.out /\ v = FiRest(c)
      BY <2>5 DEF FiConn
    <3>2. (g \o x) \o y = g \o (x \o y)  BY FiConcat, ZenonT(40)
    <3>3. (g \o u) \o v = g \o (u \o v)  BY FiConcat, ZenonT(40)
    <3> QED  BY <2>4, <3>1, <3>2, <3>3
  <2> QED  BY <1>5, <2>1, <2>3, <2>4, <2>6
<1>8. FiBounded'
  <2> SUFFICES ASSUME ~eager PROVE Len(conn'.out) <= MaxSendMbuf \/ Len(conn'.out) <= 2
    BY DEF FiBounded
  <2>1. Len(conn.out) <= MaxSendMbuf \/ Len(conn.out) <= 2  BY DEF FiInv, FiBounded
  <2>2. PICK n \in Nat, k \in Nat : n = Len(c.out) /\ k = Len(conn.out)
    <3>1. c.out \in Seq(FiElem) /\ conn.out \in Seq(FiElem)  BY <1>1 DEF FiConn
    <3> QED  BY <3>1, LenProperties
  <2>3. MaxSendMbuf \in Nat  BY ProtocolsAssumption
  <2>4. n <= MaxSendMbuf \/ n <= 2  BY <2>1, <2>2, <2>3
  <2>5. conn'.out = c.out \/ Len(conn'.out) <= MaxSendMbuf  BY <1>4 DEF FiAfter
  <2> QED  BY <2>2, <2>4, <2>5
<1>9. FiPut'
  <2>1. conn'.closing \/ ~conn.closing  BY <1>4 DEF FiAfter
  <2>2. c.file.fp # "DATA_FILE" => conn'.file = conn.file  BY <1>2
  <2>3. c.file.fp = "DATA_FILE" => conn'.file.fp # "DATA_PUT"  BY <1>4 DEF FiAfter, FI!NoFile, FI!NULL
  <2>4. conn'.file.fp = "DATA_PUT" => conn'.file.keepalive = FALSE
    BY <2>2, <2>3 DEF FiInv, FiPut
  <2>5. conn.file.fp = "DATA_PUT" => conn'.file.fp = "DATA_PUT"  BY <2>2
  <2>6. conn'.file.fp = "DATA_PUT" => conn.file.fp = "DATA_PUT"  BY <2>2, <2>3
  <2> QED  BY <2>1, <2>4, <2>5, <2>6 DEF FiInv, FiPut
<1> QED  BY <1>6, <1>7, <1>8, <1>9 DEF FiInv

LEMMA FiPoll ==
    ASSUME FiInv, FI!Poll
    PROVE  FiInv'
<1>1. /\ ~closed /\ conn.file.fp # "NULL"
      /\ UNCHANGED <<size, gone, asked, eager, changed, leaked, closed>>
  BY DEF FI!Poll, FI!NULL
<1>2. conn \in FiConn /\ size \in Nat /\ gone \in Seq(FiElem)  BY DEF FiInv, FiTyped
<1>3. CASE conn.file.fp # "DATA_PUT"
  <2>1. conn' = FI!Transfer(conn) /\ stored' = stored  BY <1>3 DEF FI!Poll, FI!DATA_PUT
  <2>2. Len(conn.out) <= Len(conn.out)
    <3>1. conn.out \in Seq(FiElem)  BY <1>2 DEF FiConn
    <3>2. Len(conn.out) \in Nat  BY <3>1, LenProperties
    <3> QED  BY <3>2
  <2> QED  BY <1>1, <1>2, <2>1, <2>2, FiGoesOn
<1>4. CASE conn.file.fp = "DATA_PUT"
  <2>1. PICK n \in Nat : n = FI!Max(FI!PutSizes(conn))  BY <1>2, FiPutSizes
  <2>2. conn' = FI!TransferPut(conn, n)  BY <1>4, <2>1 DEF FI!Poll, FI!DATA_PUT
  <2>3. FiPuts(conn, n, conn')  BY <1>2, <2>2, FiTransferPut
  <2>4. ~conn.file.keepalive  BY <1>4 DEF FiInv, FiPut
  <2>5. /\ conn' \in FiConn /\ conn'.out = conn.out
        /\ (conn'.file = FI!NoFile /\ conn'.closing) \/ (conn'.file.fp = "DATA_PUT" /\ conn'.file.keepalive = FALSE)
    BY <1>4, <2>3, <2>4 DEF FiPuts, FiInv, FiPut
  <2>6. FiTyped'  BY <1>1, <2>5 DEF FiInv, FiTyped
  <2>7. FiFramed'
    <3>1. FiRest(conn') = <<>> /\ FiRest(conn) = <<>> /\ FiFits(conn', size)
      BY <1>4, <2>5 DEF FiRest, FiFits, FI!NoFile, FI!NULL
    <3> SUFFICES ASSUME ~eager, ~changed
                 PROVE  leaked = 0 /\ (gone \o conn'.out) \o FiRest(conn') = FI!Due(asked)
      BY <1>1, <3>1 DEF FiFramed, FiFits, FiRest
    <3> QED  BY <1>1, <2>5, <3>1 DEF FiInv, FiFramed
  <2>8. FiBounded'  BY <1>1, <2>5 DEF FiInv, FiBounded
  <2>9. FiPut'
    <3>1. conn'.file.fp = "DATA_PUT" => conn'.file.keepalive = FALSE  BY <2>5 DEF FI!NoFile, FI!NULL
    <3>2. conn'.file.fp = "DATA_PUT" \/ conn'.closing  BY <2>5
    <3>3. \A i \in 1..Len(asked) : asked[i].op = "PUT" => i = Len(asked) /\ ~(~changed /\ asked[i].range = <<>>)
      BY <1>4 DEF FiInv, FiPut
    <3> QED  BY <1>1, <3>1, <3>2, <3>3 DEF FiPut
  <2> QED  BY <2>6, <2>7, <2>8, <2>9 DEF FiInv
<1> QED  BY <1>3, <1>4

LEMMA FiSent ==
    ASSUME FiInv, NEW n \in Nat, FI!Sent(n)
    PROVE  FiInv'
<1>1. /\ ~closed /\ n \in 1..Len(conn.out) /\ gone' = gone \o SubSeq(conn.out, 1, n)
      /\ UNCHANGED <<size, stored, asked, eager, changed, leaked, closed>>
  BY DEF FI!Sent
<1>2. conn \in FiConn /\ gone \in Seq(FiElem)  BY DEF FiInv, FiTyped
<1>3. PICK o \in Seq(FiElem), l \in Nat : o = conn.out /\ l = Len(o)
  <2>1. conn.out \in Seq(FiElem)  BY <1>2 DEF FiConn
  <2> QED  BY <2>1, LenProperties
<1>4. n >= 1 /\ n <= l  BY <1>1, <1>3
<1>5. PICK x \in Seq(FiElem) : x = SubSeq(o, 1, n)
  <2>1. \A i \in 1..n : o[i] \in FiElem
    <3> SUFFICES ASSUME NEW i \in 1..n PROVE o[i] \in FiElem  OBVIOUS
    <3>1. i \in 1..Len(o)  BY <1>3, <1>4
    <3> QED  BY <3>1, ElementOfSeq
  <2>2. SubSeq(o, 1, n) \in Seq(FiElem)  BY <2>1, SubSeqProperties
  <2> QED  BY <2>2
<1>6. PICK y \in Seq(FiElem) : y = SubSeq(o, n + 1, l) /\ Len(y) <= l
  <2>1. PICK m \in Int : m = n + 1 /\ m <= l + 1 /\ m >= 2  BY <1>4
  <2>2. \A i \in m..l : o[i] \in FiElem
    <3> SUFFICES ASSUME NEW i \in m..l PROVE o[i] \in FiElem  OBVIOUS
    <3>1. i \in 1..Len(o)  BY <1>3, <2>1
    <3> QED  BY <3>1, ElementOfSeq
  <2>3. SubSeq(o, m, l) \in Seq(FiElem) /\ Len(SubSeq(o, m, l)) = IF m <= l THEN l - m + 1 ELSE 0
    BY <2>2, SubSeqProperties
  <2>4. Len(SubSeq(o, m, l)) <= l  BY <2>1, <2>3
  <2> QED  BY <2>1, <2>3, <2>4
<1>7. x \o y = o
  <2>1. PICK m \in Int : m = n  OBVIOUS
  <2>2. 1 \in 1..(l + 1) /\ n \in (1 - 1)..l /\ l \in n..l  BY <1>4
  <2>3. SubSeq(o, 1, n) \o SubSeq(o, n + 1, l) = SubSeq(o, 1, l)  BY <1>3, <2>2, ConcatAdjacentSubSeq
  <2>4. SubSeq(o, 1, l) = o  BY <1>3, SubSeqFull
  <2> QED  BY <1>5, <1>6, <2>3, <2>4
<1>8. PICK c : c = [conn EXCEPT !.out = y]  OBVIOUS
<1>9. c \in FiConn /\ c.file = conn.file /\ c.closing = conn.closing /\ c.out = y
  BY <1>2, <1>8 DEF FiConn
<1>10. conn' = FI!Transfer(c)
  <2>1. [conn EXCEPT !.out = SubSeq(@, n + 1, Len(@))] = c  BY <1>3, <1>6, <1>8
  <2> QED  BY Zenon, <2>1 DEF FI!Sent
<1>11. gone' \in Seq(FiElem) /\ gone' \o c.out = gone \o conn.out
  <2>1. PICK g \in Seq(FiElem) : g = gone  BY <1>2
  <2>2. gone' = g \o x  BY <1>1, <1>3, <1>5, <2>1
  <2>3. g \o x \in Seq(FiElem)  BY ConcatProperties
  <2>4. (g \o x) \o y = g \o (x \o y)  BY FiConcat
  <2> QED  BY <1>3, <1>7, <1>9, <2>1, <2>2, <2>3, <2>4
<1>12. Len(c.out) <= Len(conn.out)  BY <1>3, <1>6, <1>9
<1> QED  BY <1>1, <1>9, <1>10, <1>11, <1>12, FiGoesOn

LEMMA FiClose ==
    ASSUME FiInv, FI!Close
    PROVE  FiInv'
<1>1. /\ ~closed /\ closed' = TRUE /\ conn' = [conn EXCEPT !.file = FI!NoFile]
      /\ UNCHANGED <<size, stored, gone, asked, eager, changed, leaked>>
  BY DEF FI!Close
<1>2. conn \in FiConn /\ gone \in Seq(FiElem)  BY DEF FiInv, FiTyped
<1>3. conn' \in FiConn /\ conn'.file = FI!NoFile /\ conn'.out = conn.out
  <2>1. FI!NoFile \in FiFile  BY DEF FI!NoFile, FI!NULL, FiFile
  <2> QED  BY <1>1, <1>2, <2>1 DEF FiConn
<1>4. FiTyped'  BY <1>1, <1>3 DEF FiInv, FiTyped
<1>5. FiFramed'
  <2>1. FiFits(conn', size)  BY <1>3 DEF FiFits, FI!NoFile, FI!NULL
  <2> SUFFICES ASSUME ~eager, ~changed
               PROVE  leaked = 0 /\ \E t \in Seq(FiElem) : (gone \o conn.out) \o t = FI!Due(asked)
    BY <1>1, <1>3, <2>1 DEF FiFramed, FiFits, FiRest
  <2>2. leaked = 0 /\ FiFits(conn, size) /\ (gone \o conn.out) \o FiRest(conn) = FI!Due(asked)
    BY <1>1 DEF FiInv, FiFramed
  <2>3. FiRest(conn) \in Seq(FiElem)  BY <1>2, <2>2, FiRestTyped
  <2> QED  BY <2>2, <2>3
<1>6. FiBounded'  BY <1>1, <1>3 DEF FiInv, FiBounded
<1>7. FiPut'
  <2>1. conn'.file.fp # "DATA_PUT"  BY <1>3 DEF FI!NoFile, FI!NULL
  <2> QED  BY <1>1, <2>1 DEF FiInv, FiPut
<1> QED  BY <1>4, <1>5, <1>6, <1>7 DEF FiInv

LEMMA FiResize ==
    ASSUME FiInv, NEW n \in FileSizes, FI!Resize(n)
    PROVE  FiInv'
<1>1. /\ ~closed /\ size' = n /\ changed' = (changed \/ conn.file.fp # "NULL")
      /\ UNCHANGED <<stored, conn, gone, asked, eager, leaked, closed>>
  BY DEF FI!Resize, FI!NULL
<1>2. n \in Nat  BY ProtocolsAssumption
<1>3. changed' \in BOOLEAN /\ (~changed' => ~changed /\ conn.file.fp = "NULL")
  <2>1. (changed \/ conn.file.fp # "NULL") \in BOOLEAN  OBVIOUS
  <2> QED  BY Zenon, <1>1, <2>1
<1>4. FiTyped'  BY <1>1, <1>2, <1>3 DEF FiInv, FiTyped
<1>5. FiFramed'
  <2> SUFFICES ASSUME ~eager, ~changed, conn.file.fp = "NULL"
               PROVE  leaked = 0 /\ FiFits(conn, size')
                      /\ (gone \o conn.out) \o FiRest(conn) = FI!Due(asked)
    BY <1>1, <1>3 DEF FiFramed, FiFits, FiRest
  <2>1. leaked = 0 /\ FiFits(conn, size) /\ (gone \o conn.out) \o FiRest(conn) = FI!Due(asked)
    BY <1>1 DEF FiInv, FiFramed
  <2> QED  BY <2>1 DEF FiFits
<1>6. FiBounded'  BY <1>1 DEF FiInv, FiBounded
<1>7. FiPut'  BY <1>1, <1>3 DEF FiInv, FiPut
<1> QED  BY <1>4, <1>5, <1>6, <1>7 DEF FiInv

LEMMA FiInitial == FI!Init => FiInv
<1> SUFFICES ASSUME FI!Init PROVE FiInv
  OBVIOUS
<1>1. /\ size \in FileSizes
      /\ conn = [file |-> FI!NoFile, out |-> <<>>, in |-> <<>>, closing |-> FALSE]
      /\ gone = <<>> /\ asked = <<>> /\ eager = FALSE /\ changed = FALSE /\ leaked = 0 /\ closed = FALSE
  BY DEF FI!Init
<1>2. size \in Nat /\ MaxRequests \in Nat /\ MaxSendMbuf \in Nat  BY <1>1, ProtocolsAssumption
<1>3. PICK none \in Seq(FiElem) : none = <<>> /\ Len(none) = 0  BY EmptySeq
<1>4. conn.file = FI!NoFile /\ conn.out = none /\ conn \in FiConn
  <2>1. FI!NoFile \in FiFile  BY DEF FI!NoFile, FI!NULL, FiFile
  <2>2. <<>> \in Seq(Nat) /\ <<>> \in Seq(FiElem)  BY EmptySeq
  <2>3. PICK in \in Seq(Nat) : in = <<>>  BY <2>2
  <2>4. conn = [file |-> FI!NoFile, out |-> none, in |-> in, closing |-> FALSE]  BY <1>1, <1>3, <2>3
  <2> QED  BY <2>1, <2>4 DEF FiConn
<1>5. asked \in Seq(FiReq) /\ Len(asked) = 0  BY <1>1, EmptySeq
<1>6. FiTyped
  <2>1. gone \in Seq(FiElem)  BY <1>1, <1>3
  <2>2. leaked \in Nat /\ leaked <= Len(asked) /\ Len(asked) <= MaxRequests  BY <1>1, <1>2, <1>5
  <2>3. eager \in BOOLEAN /\ changed \in BOOLEAN /\ closed \in BOOLEAN  BY <1>1
  <2> QED  BY <1>2, <1>4, <1>5, <2>1, <2>2, <2>3 DEF FiTyped
<1>7. FiFramed
  <2>1. FiFits(conn, size) /\ FiRest(conn) = <<>>  BY <1>4 DEF FiFits, FiRest, FI!NoFile, FI!NULL
  <2>2. <<>> \o <<>> = <<>>  BY <1>3, ConcatEmptySeq
  <2>3. (gone \o conn.out) \o FiRest(conn) = FI!Due(asked)  BY <1>1, <1>3, <1>4, <2>1, <2>2, FiDueNone
  <2> QED  BY <1>1, <2>1, <2>3 DEF FiFramed
<1>8. FiBounded  BY <1>2, <1>3, <1>4 DEF FiBounded
<1>9. FiPut  BY <1>4, <1>5 DEF FiPut, FI!NoFile, FI!NULL
<1> QED  BY <1>6, <1>7, <1>8, <1>9 DEF FiInv

LEMMA FiStep == FiInv /\ [FI!Next]_(FI!vars) => FiInv'
<1> SUFFICES ASSUME FiInv, [FI!Next]_(FI!vars) PROVE FiInv'
  OBVIOUS
<1>1. ASSUME NEW range \in FileRanges, NEW keepalive \in BOOLEAN, FI!Get(range, keepalive) PROVE FiInv'
  BY <1>1, FiGet
<1>2. CASE FI!GetMissing  BY <1>2, FiGetMissing
<1>3. ASSUME NEW range \in FileRanges, NEW n \in 0..3, FI!Put([i \in 1..n |-> 10 + i], range) PROVE FiInv'
  <2>1. \A i \in 1..n : 10 + i \in Nat  OBVIOUS
  <2>2. [i \in 1..n |-> 10 + i] \in Seq(Nat)  BY <2>1
  <2> QED  BY <1>3, <2>2, FiPutStep
<1>4. CASE FI!Poll  BY <1>4, FiPoll
<1>5. ASSUME NEW n \in 1..MaxSendMbuf, FI!Sent(n) PROVE FiInv'
  <2>1. MaxSendMbuf \in Nat  BY ProtocolsAssumption
  <2>2. n \in Nat  BY <2>1
  <2> QED  BY <1>5, <2>2, FiSent
<1>6. CASE FI!Close  BY <1>6, FiClose
<1>7. ASSUME NEW n \in FileSizes, FI!Resize(n) PROVE FiInv'  BY <1>7, FiResize
<1>8. CASE UNCHANGED FI!vars
  BY <1>8 DEF FI!vars, FiInv, FiTyped, FiFramed, FiFits, FiRest, FiBounded, FiPut
<1> QED  BY <1>1, <1>2, <1>3, <1>4, <1>5, <1>6, <1>7, <1>8 DEF FI!Next

LEMMA FiSound == FiInv => FI!TypeOK /\ FI!AnswersFramed /\ FI!SendMbufBounded /\ FI!PutStored
<1> SUFFICES ASSUME FiInv PROVE FI!TypeOK /\ FI!AnswersFramed /\ FI!SendMbufBounded /\ FI!PutStored
  OBVIOUS
<1>1. conn \in FiConn /\ gone \in Seq(FiElem) /\ asked \in Seq(FiReq)  BY DEF FiInv, FiTyped
<1>2. FI!TypeOK
  <2>1. conn.file.fp \in {"NULL", "DATA_FILE", "DATA_PUT"} /\ conn.closing \in BOOLEAN /\ conn.file.keepalive \in BOOLEAN
    BY <1>1 DEF FiConn, FiFile
  <2>2. leaked \in 0..MaxRequests
    <3>1. Len(asked) \in Nat /\ MaxRequests \in Nat  BY <1>1, LenProperties, ProtocolsAssumption
    <3>2. leaked \in Nat /\ leaked <= Len(asked) /\ Len(asked) <= MaxRequests  BY DEF FiInv, FiTyped
    <3> QED  BY <3>1, <3>2
  <2>3. eager \in BOOLEAN /\ changed \in BOOLEAN /\ closed \in BOOLEAN  BY DEF FiInv, FiTyped
  <2> QED  BY <2>1, <2>2, <2>3 DEF FI!TypeOK, FI!NULL, FI!DATA_FILE, FI!DATA_PUT
<1>3. FI!AnswersFramed
  <2> SUFFICES ASSUME ~eager, ~changed
               PROVE  /\ FI!IsPrefix(gone \o conn.out, FI!Due(asked))
                      /\ ~closed /\ ~FI!Busy(conn) => gone \o conn.out = FI!Due(asked)
                      /\ leaked = 0
    BY DEF FI!AnswersFramed
  <2>1. leaked = 0 /\ FiFits(conn, size)  BY DEF FiInv, FiFramed
  <2>2. PICK made \in Seq(FiElem) : made = gone \o conn.out
    <3>1. PICK g \in Seq(FiElem), o \in Seq(FiElem) : g = gone /\ o = conn.out  BY <1>1 DEF FiConn
    <3>2. g \o o \in Seq(FiElem)  BY ConcatProperties
    <3> QED  BY <3>1, <3>2
  <2>3. PICK t \in Seq(FiElem) : made \o t = FI!Due(asked)
    <3>1. FiRest(conn) \in Seq(FiElem)  BY <1>1, <2>1, FiRestTyped
    <3> QED  BY <2>2, <3>1 DEF FiInv, FiFramed
  <2>4. FI!IsPrefix(made, made \o t)
    <3>1. PICK n \in Nat, m \in Nat : n = Len(made) /\ m = Len(t)  BY LenProperties
    <3>2. Len(made \o t) = n + m /\ \A i \in 1..n : (made \o t)[i] = made[i]
      <4>1. /\ Len(made \o t) = n + m
            /\ \A i \in 1..(n + m) : (made \o t)[i] = IF i <= n THEN made[i] ELSE t[i - n]
        BY <3>1, ConcatProperties
      <4> QED  BY <4>1
    <3>3. SubSeq(made \o t, 1, n) = made
      <4>1. PICK u \in Seq(FiElem) : u = made \o t  BY ConcatProperties
      <4>2. \A i \in 1..n : u[i] = made[i]  BY <3>2, <4>1
      <4>3. \A i \in 1..n : made[i] \in FiElem  BY <3>1, ElementOfSeq
      <4>4. \A i \in 1..n : u[i] \in FiElem  BY <4>2, <4>3
      <4>5. /\ SubSeq(u, 1, n) \in Seq(FiElem) /\ Len(SubSeq(u, 1, n)) = IF 1 <= n THEN n - 1 + 1 ELSE 0
            /\ \A i \in 1..(n - 1 + 1) : SubSeq(u, 1, n)[i] = u[1 + i - 1]
        BY <4>4, SubSeqProperties
      <4>6. Len(SubSeq(u, 1, n)) = n  BY <4>5
      <4>7. \A i \in 1..n : SubSeq(u, 1, n)[i] = made[i]
        <5> SUFFICES ASSUME NEW i \in 1..n PROVE SubSeq(u, 1, n)[i] = made[i]  OBVIOUS
        <5>1. i \in 1..(n - 1 + 1) /\ 1 + i - 1 = i  OBVIOUS
        <5> QED  BY <4>2, <4>5, <5>1
      <4> QED  BY <3>1, <4>1, <4>5, <4>6, <4>7, SeqEqual
    <3> QED  BY <3>1, <3>2, <3>3 DEF FI!IsPrefix
  <2>5. ASSUME ~closed, ~FI!Busy(conn) PROVE made = FI!Due(asked)
    <3>1. made \o FiRest(conn) = FI!Due(asked)  BY <2>2, <2>5 DEF FiInv, FiFramed
    <3>2. FiRest(conn) = <<>>
      <4>1. conn.file.sent \in Int /\ conn.file.cl \in Int  BY <1>1 DEF FiConn, FiFile
      <4>2. conn.file.fp = "DATA_FILE" => conn.file.cl - conn.file.sent = 0
        BY <2>1, <2>5, <4>1 DEF FI!Busy, FI!DATA_FILE, FiFits
      <4> QED  BY <4>2, FiBytesNone DEF FiRest
    <3>3. made \o <<>> = made  BY ConcatEmptySeq
    <3> QED  BY <3>1, <3>2, <3>3
  <2> QED  BY <2>1, <2>2, <2>3, <2>4, <2>5
<1>4. FI!SendMbufBounded  BY DEF FiInv, FiBounded, FI!SendMbufBounded
<1>5. FI!PutStored
  <2> SUFFICES ASSUME ~changed, NEW i \in DOMAIN asked, asked[i].op = "PUT", asked[i].range = <<>>
               PROVE  SubSeq(stored, 1, Len(asked[i].body)) = asked[i].body
    BY DEF FI!PutStored
  <2>1. i \in 1..Len(asked)  BY <1>1, LenProperties
  <2> QED  BY <2>1 DEF FiInv, FiPut
<1> QED  BY <1>2, <1>3, <1>4, <1>5

\* A client that waits for its answers gets, one after the other, heads and as
\* many bytes of the file as they say, send_mbuf stays within its bound, and a
\* PUT that could be written is in the file (mg_http_serve_file, mg_handle_put,
\* mg_http_transfer_file_data), for every length, range and bound.
THEOREM FilesAnswered == FI!Spec => []FilesServed
<1>1. FiInv => FilesServed  BY FiSound DEF FilesServed
<1> QED  BY <1>1, FiInitial, FiStep, PTL DEF FI!Spec

=============================================================================
