---------------------------- MODULE Ports_proofs ----------------------------
(***************************************************************************)
(* Theorems about LuaBinding and the components of Ports, but LwipIf, the  *)
(* subject of Lwip_proofs, and SimpleLinkIf and SlFs, the subject of       *)
(* SimpleLink_proofs.                                                      *)
(***************************************************************************)
EXTENDS Ports, SimpleLink_proofs, TLAPS, FiniteSetTheorems, SequenceTheorems

-----------------------------------------------------------------------------
(* LuaBinding: whatever a script forgets, closes or lets fail, an event finds  *)
(* its callback, the registry keeps nothing too long, and no upload is left    *)
(* behind.                                                                     *)

LbUserdata == [kind : {"none", "client", "listener", "dns"}, registered : BOOLEAN, held : BOOLEAN,
             string : {"none", "held", "loose", "collected"},
             con : Conns \cup {Nil}, con2 : Conns \cup {Nil, "uninitialised"}]
LbUpload == [name : Names \cup {Nil}, fp : {"none", "open", "null", "closed"}]
LbConnection == [life : {"none", "live", "freed"}, listener : Conns \cup {Nil},
               user : Objs \cup {Nil}, upload : LbUpload, inPart : BOOLEAN]

LbTypes ==
    /\ obj \in [Objs -> LbUserdata] /\ con \in [Conns -> LbConnection]
    /\ files \subseteq Names /\ leaked \subseteq Objs /\ wild \in BOOLEAN

\* A live connection of its own has an object that is in the registry and knows it.
LbOwned ==
    \A c \in Conns : Live(c) /\ con[c].listener = Nil =>
        /\ con[c].user \in Objs
        /\ obj[con[c].user].kind \in {"client", "listener"}
        /\ obj[con[c].user].registered
        /\ obj[con[c].user].con = c

\* A child's listener was made before it, and is nobody's child.
LbDescended ==
    \A c \in Conns : con[c].listener # Nil =>
        /\ con[c].life # "none"
        /\ con[con[c].listener].life # "none"
        /\ con[con[c].listener].listener = Nil

\* A stored file is open in the part that it came with.
LbStored ==
    /\ \A c \in Conns : /\ con[c].upload.fp = "open" => con[c].inPart
                        /\ con[c].inPart => Live(c)
    /\ \A f \in files \ spoiled : \E c \in Conns :
          con[c].inPart /\ con[c].upload.name = f /\ con[c].upload.fp = "open"

LbInductive == LbTypes /\ LbOwned /\ LbDescended /\ RegistryIsExact /\ LbStored
-----------------------------------------------------------------------------
LEMMA LbNilApart ==
    /\ Nil \notin Objs /\ Nil \notin Conns /\ Nil \notin Names
    /\ "uninitialised" \notin Objs /\ "uninitialised" \notin Conns /\ Nil # "uninitialised"
BY LuaBindingAssumption

LEMMA LbBlankTypes ==
    /\ NoObj \in LbUserdata /\ NoObj.kind = "none" /\ ~NoObj.registered
    /\ NoCon \in LbConnection /\ NoUpload \in LbUpload /\ NoUpload.fp = "none"
    /\ NoCon.life = "none" /\ NoCon.listener = Nil /\ NoCon.upload = NoUpload /\ ~NoCon.inPart
BY DEF NoObj, NoCon, NoUpload, LbUserdata, LbConnection, LbUpload

LEMMA LbInitInductive == Init => LbInductive
<1> SUFFICES ASSUME Init PROVE LbInductive
  OBVIOUS
<1>1. \A o \in Objs : obj[o] = NoObj  BY DEF Init
<1>2. \A c \in Conns : con[c] = NoCon  BY DEF Init
<1>3. files = {} /\ leaked = {} /\ spoiled = {} /\ wild = FALSE  BY DEF Init
<1>4. LbTypes  BY <1>3, LbBlankTypes DEF Init, LbTypes
<1>5. LbOwned /\ LbDescended  BY <1>2, LbBlankTypes DEF LbOwned, LbDescended, Live
<1>6. RegistryIsExact  BY <1>1, LbBlankTypes DEF RegistryIsExact
<1>7. LbStored  BY <1>2, <1>3, LbBlankTypes DEF LbStored
<1> QED  BY <1>4, <1>5, <1>6, <1>7 DEF LbInductive

LEMMA LbInductiveIsKept == LbInductive => ObjectsKept
<1> SUFFICES ASSUME LbInductive PROVE ObjectsKept
  OBVIOUS
<1>1. CallbackReachable
  <2> SUFFICES ASSUME NEW c \in Conns, Live(c), con[c].listener # Nil => Live(con[c].listener)
               PROVE  Found(c) /\ (con[c].listener = Nil => obj[Owner(c)].con = c)
    BY DEF CallbackReachable
  <2>1. CASE con[c].listener = Nil
    BY <2>1 DEF LbInductive, LbOwned, Found, Owner
  <2>2. CASE con[c].listener # Nil
    <3> DEFINE l == con[c].listener
    <3>1. l \in Conns /\ Live(l) /\ con[l].listener = Nil
      BY <2>2 DEF LbInductive, LbTypes, LbConnection, LbDescended
    <3>2. obj[con[l].user].kind \in {"client", "listener"} /\ obj[con[l].user].registered
      BY <3>1 DEF LbInductive, LbOwned
    <3>3. Owner(c) = con[l].user  BY <2>2 DEF Owner
    <3> QED  BY <2>2, <3>1, <3>2, <3>3 DEF Found
  <2> QED  BY <2>1, <2>2
<1>2. UploadsCleanUp  BY DEF LbInductive, LbStored, UploadsCleanUp
<1> QED  BY <1>1, <1>2 DEF LbInductive, ObjectsKept

LEMMA LbInductiveTypes == LbInductive => TypeOK
<1> SUFFICES ASSUME LbInductive PROVE TypeOK
  OBVIOUS
<1>1. \A o \in Objs : Target(o) \in Conns \cup {Nil, "uninitialised"}
  BY DEF LbInductive, LbTypes, LbUserdata, Target
<1> QED  BY <1>1 DEF LbInductive, LbTypes, LbUserdata, LbConnection, TypeOK
-----------------------------------------------------------------------------
(* What the parts of the invariant depend on.                                  *)

LEMMA LbLinksFrame ==
  ASSUME LbInductive,
         \A o \in Objs : /\ obj'[o].kind = obj[o].kind /\ obj'[o].con = obj[o].con
                         /\ obj'[o].registered = obj[o].registered,
         \A c \in Conns : /\ con'[c].life = con[c].life /\ con'[c].user = con[c].user
                          /\ con'[c].listener = con[c].listener,
         leaked \subseteq leaked'
  PROVE  (LbOwned /\ LbDescended /\ RegistryIsExact)'
<1>1. LbOwned'  BY DEF LbInductive, LbOwned, Live
<1>2. LbDescended'  BY DEF LbInductive, LbTypes, LbConnection, LbDescended
<1>3. RegistryIsExact'  BY DEF LbInductive, RegistryIsExact, Live
<1> QED  BY <1>1, <1>2, <1>3

LEMMA LbStoredFrame ==
  ASSUME LbInductive, UNCHANGED <<files, spoiled>>,
         \A c \in Conns : /\ con'[c].life = con[c].life /\ con'[c].upload = con[c].upload
                          /\ con'[c].inPart = con[c].inPart
  PROVE  LbStored'
BY DEF LbInductive, LbStored, Live

\* Setting one field of one userdata keeps the type of obj.
LEMMA LbFieldTypes ==
  ASSUME NEW f \in [Objs -> LbUserdata], NEW w \in Objs, NEW b \in BOOLEAN,
         NEW str \in {"loose", "collected"}, NEW child \in Conns \cup {Nil}
  PROVE  /\ [f EXCEPT ![w].held = b] \in [Objs -> LbUserdata]
         /\ [f EXCEPT ![w].registered = b] \in [Objs -> LbUserdata]
         /\ [f EXCEPT ![w].string = str] \in [Objs -> LbUserdata]
         /\ [f EXCEPT ![w].con2 = child] \in [Objs -> LbUserdata]
<1> DEFINE u == f[w]
<1>1. u \in LbUserdata  OBVIOUS
<1> HIDE DEF u
<1>2. [u EXCEPT !.held = b] \in LbUserdata  BY <1>1 DEF LbUserdata
<1>3. [u EXCEPT !.registered = b] \in LbUserdata  BY <1>1 DEF LbUserdata
<1>4. [u EXCEPT !.string = str] \in LbUserdata  BY <1>1 DEF LbUserdata
<1>6. [u EXCEPT !.con2 = child] \in LbUserdata  BY <1>1 DEF LbUserdata
<1>5. \A v \in LbUserdata : [f EXCEPT ![w] = v] \in [Objs -> LbUserdata]  OBVIOUS
<1> QED  BY <1>2, <1>3, <1>4, <1>5, <1>6 DEF u

\* The userdata of an event that finds its callback, up to lua_pcall.
LEMMA LbCalledFrame ==
  ASSUME LbInductive, NEW c \in Conns, Live(c), Found(c), NEW kept \in BOOLEAN
  PROVE  /\ Owner(c) \in Objs
         /\ Called(c, kept) \in [Objs -> LbUserdata]
         /\ \A o \in Objs : /\ Called(c, kept)[o].kind = obj[o].kind
                            /\ Called(c, kept)[o].con = obj[o].con
                            /\ Called(c, kept)[o].registered = obj[o].registered
<1>1. Owner(c) \in Objs
  <2>1. CASE con[c].listener = Nil  BY <2>1 DEF LbInductive, LbOwned, Owner
  <2>2. CASE con[c].listener # Nil
    <3>1. con[c].listener \in Conns /\ con[con[c].listener].listener = Nil /\ Live(con[c].listener)
      BY <2>2 DEF LbInductive, LbTypes, LbConnection, LbDescended, Found
    <3> QED  BY <2>2, <3>1 DEF LbInductive, LbOwned, Owner
  <2> QED  BY <2>1, <2>2
<1> DEFINE w == Owner(c)
           child == IF con[c].listener = Nil THEN Nil ELSE c
           one == [obj EXCEPT ![w].con2 = child]
           two == [one EXCEPT ![w].held = @ \/ kept]
<1>2. obj \in [Objs -> LbUserdata] /\ child \in Conns \cup {Nil}  BY DEF LbInductive, LbTypes
<1>3. Called(c, kept) = two  BY DEF Called
<1> HIDE DEF w, child
<1>4. one \in [Objs -> LbUserdata]  BY <1>1, <1>2, LbFieldTypes DEF w
<1>5. \A o \in Objs : /\ one[o].kind = obj[o].kind /\ one[o].con = obj[o].con
                      /\ one[o].registered = obj[o].registered
  BY <1>2 DEF LbUserdata
<1> HIDE DEF one
<1>6. two \in [Objs -> LbUserdata]
  <2> DEFINE b == one[w].held \/ kept
  <2>1. b \in BOOLEAN  OBVIOUS
  <2> HIDE DEF b
  <2>2. [one EXCEPT ![w].held = b] \in [Objs -> LbUserdata]
    BY <1>1, <1>4, <2>1, LbFieldTypes DEF w
  <2> QED  BY <2>2, Zenon DEF two, b
<1>7. \A o \in Objs : /\ two[o].kind = one[o].kind /\ two[o].con = one[o].con
                      /\ two[o].registered = one[o].registered
  BY <1>4 DEF LbUserdata
<1> HIDE DEF two
<1> QED  BY <1>1, <1>3, <1>5, <1>6, <1>7
-----------------------------------------------------------------------------
(* What a script calls on the manager                                          *)

LEMMA LbNewObjType ==
  ASSUME NEW kind \in {"client", "listener", "dns"}, NEW n \in NewObj(kind)
  PROVE  /\ n \in LbUserdata /\ n.kind = kind /\ n.registered
         /\ [n EXCEPT !.held = FALSE] \in LbUserdata
         /\ [n EXCEPT !.held = FALSE].kind = kind
<1>1. PICK h \in BOOLEAN, str \in {"none", "held", "loose"} :
         n = [kind |-> kind, registered |-> TRUE, held |-> h, string |-> str,
              con |-> Nil, con2 |-> "uninitialised"]
  BY DEF NewObj
<1> QED  BY <1>1 DEF LbUserdata

\* A connection that is made was not listed, and is nobody's listener yet.
LEMMA LbFreshConn ==
  ASSUME LbInductive, NEW c \in Conns, con[c].life = "none"
  PROVE  /\ con[c].upload.fp # "open" /\ ~con[c].inPart
         /\ \A d \in Conns : con[d].listener # c
<1>1. ~con[c].inPart  BY DEF LbInductive, LbStored, Live
<1>2. con[c].upload.fp # "open"  BY <1>1 DEF LbInductive, LbStored
<1>3. \A d \in Conns : con[d].listener # c
  BY LbNilApart DEF LbInductive, LbDescended
<1> QED  BY <1>1, <1>2, <1>3

LEMMA LbNewConnStored ==
  ASSUME LbInductive, NEW c \in Conns, con[c].life = "none",
         NEW new \in LbConnection, new.upload = NoUpload, ~new.inPart,
         con' = [con EXCEPT ![c] = new], UNCHANGED <<files, spoiled>>
  PROVE  LbStored'
<1>1. con'[c] = new /\ \A d \in Conns : d # c => con'[d] = con[d]
  BY DEF LbInductive, LbTypes
<1>2. new.upload.fp # "open"  BY LbBlankTypes
<1>3. ~con[c].inPart  BY LbFreshConn
<1> QED  BY <1>1, <1>2, <1>3 DEF LbInductive, LbStored, Live

LEMMA LbMadeKeeps ==
  ASSUME LbInductive, NEW o \in Objs, NEW c \in Conns, NEW kind \in {"client", "listener"},
         Made(o, c, kind)
  PROVE  LbInductive'
<1>1. /\ obj[o].kind = "none" /\ con[c].life = "none"
      /\ con' = [con EXCEPT ![c] = [NoCon EXCEPT !.life = "live", !.user = o]]
      /\ UNCHANGED <<files, leaked, spoiled, wild>>
  BY DEF Made
<1>2. PICK n \in NewObj(kind) : obj' = [obj EXCEPT ![o] = [n EXCEPT !.con = c]]
  BY DEF Made
<1> DEFINE new == [NoCon EXCEPT !.life = "live", !.user = o]
           fresh == [n EXCEPT !.con = c]
<1>a. n \in LbUserdata /\ n.kind = kind /\ n.registered  BY LbNewObjType
<1>3. /\ fresh \in LbUserdata /\ fresh.kind = kind /\ fresh.registered /\ fresh.con = c
  BY <1>a DEF LbUserdata
<1>4. /\ new \in LbConnection /\ new.life = "live" /\ new.user = o /\ new.listener = Nil
      /\ new.upload = NoUpload /\ ~new.inPart
  BY LbBlankTypes DEF NoCon, LbConnection
<1> HIDE DEF new, fresh
<1>5. /\ obj' \in [Objs -> LbUserdata] /\ con' \in [Conns -> LbConnection]
      /\ obj'[o] = fresh /\ \A p \in Objs : p # o => obj'[p] = obj[p]
      /\ con'[c] = new /\ \A d \in Conns : d # c => con'[d] = con[d]
  BY <1>1, <1>2, <1>3, <1>4 DEF LbInductive, LbTypes, new, fresh
<1>6. LbTypes'  BY <1>1, <1>5 DEF LbInductive, LbTypes
<1>7. LbOwned'
  <2> SUFFICES ASSUME NEW d \in Conns, Live(d)', con'[d].listener = Nil
               PROVE  /\ con'[d].user \in Objs
                      /\ obj'[con'[d].user].kind \in {"client", "listener"}
                      /\ obj'[con'[d].user].registered
                      /\ obj'[con'[d].user].con = d
    BY DEF LbOwned
  <2>1. CASE d = c  BY <1>3, <1>4, <1>5, <2>1
  <2>2. CASE d # c
    <3>1. Live(d) /\ con[d].listener = Nil /\ con'[d].user = con[d].user
      BY <1>5, <2>2 DEF Live
    <3>2. con[d].user # o  BY <1>1, <3>1 DEF LbInductive, LbOwned
    <3> QED  BY <1>5, <3>1, <3>2 DEF LbInductive, LbOwned
  <2> QED  BY <2>1, <2>2
<1>b. \A d \in Conns : con[d].listener \in Conns \cup {Nil}
  BY DEF LbInductive, LbTypes, LbConnection
<1>8. LbDescended'
  <2> SUFFICES ASSUME NEW d \in Conns, con'[d].listener # Nil
               PROVE  con'[con'[d].listener] = con[con[d].listener] /\ con'[d] = con[d]
    BY <1>b DEF LbInductive, LbDescended
  <2>1. d # c /\ con'[d] = con[d]  BY <1>4, <1>5
  <2>2. con[d].listener \in Conns /\ con[d].listener # c
    BY <1>1, <1>b, <2>1, LbFreshConn
  <2> QED  BY <1>5, <2>1, <2>2
<1>9. RegistryIsExact'
  <2> SUFFICES ASSUME NEW p \in Objs, obj'[p].registered
               PROVE  \/ p \in leaked' \/ obj'[p].kind = "dns"
                      \/ \E d \in Conns : Live(d)' /\ con'[d].user = p /\ con'[d].listener = Nil
    BY DEF RegistryIsExact
  <2>1. CASE p = o  BY <1>4, <1>5, <2>1 DEF Live
  <2>2. CASE p # o
    <3>1. obj'[p] = obj[p]  BY <1>5, <2>2
    <3>2. \A d \in Conns : Live(d) => con'[d] = con[d]  BY <1>1, <1>5 DEF Live
    <3> QED  BY <1>1, <3>1, <3>2 DEF LbInductive, RegistryIsExact, Live
  <2> QED  BY <2>1, <2>2
<1>10. LbStored'  BY <1>1, <1>4, LbNewConnStored DEF new
<1> QED  BY <1>6, <1>7, <1>8, <1>9, <1>10 DEF LbInductive

\* An object put into the registry for a call that fails, or for a resolve.
LEMMA LbNewObjKeeps ==
  ASSUME LbInductive, NEW o \in Objs, NEW new \in LbUserdata, obj[o].kind = "none",
         obj' = [obj EXCEPT ![o] = new], leaked \subseteq leaked', leaked' \subseteq Objs,
         new.kind = "dns" \/ o \in leaked', UNCHANGED <<con, files, spoiled, wild>>
  PROVE  LbInductive'
<1>1. /\ obj' \in [Objs -> LbUserdata] /\ obj'[o] = new
      /\ \A p \in Objs : p # o => obj'[p] = obj[p]
  BY DEF LbInductive, LbTypes
<1>2. LbTypes'  BY <1>1 DEF LbInductive, LbTypes
<1>3. \A c \in Conns : Live(c) /\ con[c].listener = Nil => con[c].user # o
  BY DEF LbInductive, LbOwned
<1>4. LbOwned'  BY <1>1, <1>3 DEF LbInductive, LbOwned, Live
<1>5. LbDescended'  BY DEF LbInductive, LbDescended
<1>6. RegistryIsExact'  BY <1>1 DEF LbInductive, RegistryIsExact, Live
<1>7. LbStored'  BY LbStoredFrame
<1> QED  BY <1>2, <1>4, <1>5, <1>6, <1>7 DEF LbInductive

LEMMA LbFailsKeeps ==
  ASSUME LbInductive, NEW o \in Objs, NEW kind \in {"client", "listener", "dns"}, Fails(o, kind)
  PROVE  LbInductive'
<1>1. PICK n \in NewObj(kind) : obj' = [obj EXCEPT ![o] = [n EXCEPT !.held = FALSE]]
  BY DEF Fails
<1>2. /\ obj[o].kind = "none" /\ leaked' = leaked \cup {o}
      /\ UNCHANGED <<con, files, spoiled, wild>>
  BY DEF Fails
<1>3. [n EXCEPT !.held = FALSE] \in LbUserdata  BY LbNewObjType
<1>4. leaked' \subseteq Objs  BY <1>2 DEF LbInductive, LbTypes
<1> HIDE DEF LbInductive
<1> QED  BY <1>1, <1>2, <1>3, <1>4, LbNewObjKeeps

LEMMA LbResolveKeeps ==
  ASSUME LbInductive, NEW o \in Objs, Resolve(o)
  PROVE  LbInductive'
<1>1. PICK n \in NewObj("dns") : obj' = [obj EXCEPT ![o] = [n EXCEPT !.held = FALSE]]
  BY DEF Resolve
<1>2. obj[o].kind = "none" /\ UNCHANGED <<con, files, leaked, spoiled, wild>>
  BY DEF Resolve
<1> DEFINE new == [n EXCEPT !.held = FALSE]
<1>3. new \in LbUserdata /\ new.kind = "dns"  BY LbNewObjType
<1>4. leaked' \subseteq Objs  BY <1>2 DEF LbInductive, LbTypes
<1>5. obj' = [obj EXCEPT ![o] = new]  BY <1>1
<1> HIDE DEF new
<1> QED  BY <1>2, <1>3, <1>4, <1>5, LbNewObjKeeps

LEMMA LbResolvedKeeps ==
  ASSUME LbInductive, NEW o \in Objs, Resolved(o)
  PROVE  LbInductive'
<1>1. /\ obj[o].kind = "dns" /\ obj' = [obj EXCEPT ![o].registered = FALSE]
      /\ wild' \in BOOLEAN /\ UNCHANGED <<con, files, leaked, spoiled>>
  BY DEF Resolved
<1>a. obj \in [Objs -> LbUserdata]  BY DEF LbInductive, LbTypes
<1>b. obj' \in [Objs -> LbUserdata]  BY <1>1, <1>a, LbFieldTypes
<1>c. ~obj'[o].registered /\ \A p \in Objs : p # o => obj'[p] = obj[p]
  BY <1>1, <1>a DEF LbUserdata
<1>2. /\ obj' \in [Objs -> LbUserdata] /\ ~obj'[o].registered
      /\ \A p \in Objs : p # o => obj'[p] = obj[p]
  BY <1>b, <1>c
<1>3. LbTypes'  BY <1>1, <1>2 DEF LbInductive, LbTypes
<1>4. \A c \in Conns : Live(c) /\ con[c].listener = Nil => con[c].user # o
  BY <1>1 DEF LbInductive, LbOwned
<1>5. LbOwned'  BY <1>1, <1>2, <1>4 DEF LbInductive, LbOwned, Live
<1>6. LbDescended'  BY <1>1 DEF LbInductive, LbDescended
<1>7. RegistryIsExact'  BY <1>1, <1>2 DEF LbInductive, RegistryIsExact, Live
<1>8. LbStored'  BY <1>1, LbStoredFrame
<1> QED  BY <1>3, <1>5, <1>6, <1>7, <1>8 DEF LbInductive
-----------------------------------------------------------------------------
(* The methods, and the garbage collector                                      *)

LEMMA LbUseLaterKeeps ==
  ASSUME LbInductive, NEW o \in Objs, UseLater(o)
  PROVE  LbInductive'
<1>1. wild' \in BOOLEAN /\ UNCHANGED <<obj, con, files, leaked, spoiled>>  BY DEF UseLater
<1>2. LbTypes'  BY <1>1 DEF LbInductive, LbTypes
<1>3. (LbOwned /\ LbDescended /\ RegistryIsExact)'  BY <1>1, LbLinksFrame
<1>4. LbStored'  BY <1>1, LbStoredFrame
<1> QED  BY <1>2, <1>3, <1>4 DEF LbInductive

\* A change of held or string.
LEMMA LbLooseFrame ==
  ASSUME LbInductive, obj' \in [Objs -> LbUserdata],
         \A o \in Objs : /\ obj'[o].kind = obj[o].kind /\ obj'[o].con = obj[o].con
                         /\ obj'[o].registered = obj[o].registered,
         UNCHANGED <<con, files, leaked, spoiled, wild>>
  PROVE  LbInductive'
<1>1. LbTypes'  BY DEF LbInductive, LbTypes
<1>2. (LbOwned /\ LbDescended /\ RegistryIsExact)'  BY LbLinksFrame
<1>3. LbStored'  BY LbStoredFrame
<1> QED  BY <1>1, <1>2, <1>3 DEF LbInductive

LEMMA LbForgetKeeps ==
  ASSUME LbInductive, NEW o \in Objs, Forget(o)
  PROVE  LbInductive'
<1>1. UNCHANGED <<con, files, leaked, spoiled, wild>>  BY DEF Forget
<1>2. obj \in [Objs -> LbUserdata]  BY DEF LbInductive, LbTypes
<1>3. CASE obj' = [obj EXCEPT ![o].held = FALSE]
  <2>1. obj' \in [Objs -> LbUserdata]  BY <1>2, <1>3, LbFieldTypes
  <2>2. \A p \in Objs : /\ obj'[p].kind = obj[p].kind /\ obj'[p].con = obj[p].con
                        /\ obj'[p].registered = obj[p].registered
    BY <1>2, <1>3 DEF LbUserdata
  <2> QED  BY <1>1, <2>1, <2>2, LbLooseFrame
<1>4. CASE obj' = [obj EXCEPT ![o].string = "loose"]
  <2>1. obj' \in [Objs -> LbUserdata]  BY <1>2, <1>4, LbFieldTypes
  <2>2. \A p \in Objs : /\ obj'[p].kind = obj[p].kind /\ obj'[p].con = obj[p].con
                        /\ obj'[p].registered = obj[p].registered
    BY <1>2, <1>4 DEF LbUserdata
  <2> QED  BY <1>1, <2>1, <2>2, LbLooseFrame
<1> QED  BY <1>3, <1>4 DEF Forget

LEMMA LbCollectKeeps ==
  ASSUME LbInductive, NEW o \in Objs, Collect(o)
  PROVE  LbInductive'
<1>1. UNCHANGED <<con, files, leaked, spoiled, wild>>  BY DEF Collect
<1>2. obj \in [Objs -> LbUserdata]  BY DEF LbInductive, LbTypes
<1>3. CASE obj' = [obj EXCEPT ![o].string = "collected"]
  <2>1. obj' \in [Objs -> LbUserdata]  BY <1>2, <1>3, LbFieldTypes
  <2>2. \A p \in Objs : /\ obj'[p].kind = obj[p].kind /\ obj'[p].con = obj[p].con
                        /\ obj'[p].registered = obj[p].registered
    BY <1>2, <1>3 DEF LbUserdata
  <2> QED  BY <1>1, <2>1, <2>2, LbLooseFrame
<1>4. CASE ~obj[o].registered /\ obj' = [obj EXCEPT ![o] = NoObj]
  <2>1. /\ obj' \in [Objs -> LbUserdata] /\ ~obj'[o].registered
        /\ \A p \in Objs : p # o => obj'[p] = obj[p]
    BY <1>2, <1>4, LbBlankTypes
  <2>2. LbTypes'  BY <1>1, <2>1 DEF LbInductive, LbTypes
  <2>3. \A c \in Conns : Live(c) /\ con[c].listener = Nil => con[c].user # o
    BY <1>4 DEF LbInductive, LbOwned
  <2>4. LbOwned'  BY <1>1, <2>1, <2>3 DEF LbInductive, LbOwned, Live
  <2>5. LbDescended'  BY <1>1 DEF LbInductive, LbDescended
  <2>6. RegistryIsExact'  BY <1>1, <2>1 DEF LbInductive, RegistryIsExact, Live
  <2>7. LbStored'  BY <1>1, LbStoredFrame
  <2> QED  BY <2>2, <2>4, <2>5, <2>6, <2>7 DEF LbInductive
<1> QED  BY <1>3, <1>4 DEF Collect
-----------------------------------------------------------------------------
(* The event handler                                                           *)

LEMMA LbLostKeeps ==
  ASSUME LbInductive, NEW c \in Conns, Lost(c)
  PROVE  LbInductive'
<1>1. wild' \in BOOLEAN /\ UNCHANGED <<obj, con, files, leaked, spoiled>>  BY DEF Lost
<1>2. LbTypes'  BY <1>1 DEF LbInductive, LbTypes
<1>3. (LbOwned /\ LbDescended /\ RegistryIsExact)'  BY <1>1, LbLinksFrame
<1>4. LbStored'  BY <1>1, LbStoredFrame
<1> QED  BY <1>2, <1>3, <1>4 DEF LbInductive

LEMMA LbPlainKeeps ==
  ASSUME LbInductive, NEW c \in Conns, Plain(c)
  PROVE  LbInductive'
<1>1. CASE Lost(c)  BY <1>1, LbLostKeeps
<1>2. ASSUME NEW kept \in BOOLEAN, Found(c), obj' = Called(c, kept), wild' \in BOOLEAN,
             UNCHANGED <<con, order, files, ending, leaked, spoiled>>
      PROVE  LbInductive'
  <2>1. Live(c)  BY DEF Plain, Event
  <2>2. /\ obj' \in [Objs -> LbUserdata]
        /\ \A o \in Objs : /\ obj'[o].kind = obj[o].kind /\ obj'[o].con = obj[o].con
                           /\ obj'[o].registered = obj[o].registered
    BY <1>2, <2>1, LbCalledFrame
  <2>3. LbTypes'  BY <1>2, <2>2 DEF LbInductive, LbTypes
  <2>4. (LbOwned /\ LbDescended /\ RegistryIsExact)'  BY <1>2, <2>2, LbLinksFrame
  <2>5. LbStored'  BY <1>2, LbStoredFrame
  <2> QED  BY <2>3, <2>4, <2>5 DEF LbInductive
<1>3. ASSUME NEW kept \in BOOLEAN, NEW verdict \in Verdicts, Found(c), obj' = Called(c, kept),
             wild' = (verdict = "false" /\ con[c].listener # Nil /\ obj[Owner(c)].string = "collected"),
             UNCHANGED <<con, order, files, ending, leaked, spoiled>>
      PROVE  LbInductive'
  <2>1. wild' \in BOOLEAN  BY <1>3
  <2> QED  BY <1>2, <1>3, <2>1
<1> QED  BY <1>1, <1>3 DEF Plain

LEMMA LbAcceptKeeps ==
  ASSUME LbInductive, NEW l \in Conns, NEW c \in Conns, Accept(l, c)
  PROVE  LbInductive'
<1> DEFINE new == [NoCon EXCEPT !.life = "live", !.listener = l, !.user = con[l].user]
           u == con[l].user
<1>1. /\ Live(l) /\ con[l].listener = Nil /\ con[c].life = "none"
      /\ con' = [con EXCEPT ![c] = new]
      /\ UNCHANGED <<files, leaked, spoiled, wild>>
  BY DEF Accept, Event
<1>2. PICK kept \in BOOLEAN : obj' = [obj EXCEPT ![u].con2 = c, ![u].held = @ \/ kept]
  BY DEF Accept
<1>3. u \in Objs /\ obj \in [Objs -> LbUserdata] /\ con \in [Conns -> LbConnection]
  BY <1>1 DEF LbInductive, LbOwned, LbTypes
<1>4. /\ new \in LbConnection /\ new.life = "live" /\ new.listener = l
      /\ new.upload = NoUpload /\ ~new.inPart
  BY <1>3, LbBlankTypes DEF NoCon, LbConnection
<1> HIDE DEF new, u
<1>5. /\ obj' \in [Objs -> LbUserdata]
      /\ \A o \in Objs : /\ obj'[o].kind = obj[o].kind /\ obj'[o].con = obj[o].con
                         /\ obj'[o].registered = obj[o].registered
  <2> DEFINE one == [obj EXCEPT ![u].con2 = c]
  <2>1. /\ one \in [Objs -> LbUserdata]
        /\ \A o \in Objs : /\ one[o].kind = obj[o].kind /\ one[o].con = obj[o].con
                           /\ one[o].registered = obj[o].registered
    BY <1>3 DEF LbUserdata
  <2>2. obj' = [one EXCEPT ![u].held = @ \/ kept]  BY <1>2
  <2> HIDE DEF one
  <2> DEFINE h == one[u].held \/ kept
  <2>b. h \in BOOLEAN  OBVIOUS
  <2> HIDE DEF h
  <2>c. [one EXCEPT ![u].held = h] \in [Objs -> LbUserdata]
    BY <1>3, <2>1, <2>b, LbFieldTypes
  <2>a. [one EXCEPT ![u].held = @ \/ kept] \in [Objs -> LbUserdata]  BY <2>c, Zenon DEF h
  <2>3. obj' \in [Objs -> LbUserdata]  BY <2>2, <2>a, Zenon
  <2>4. \A o \in Objs : /\ obj'[o].kind = one[o].kind /\ obj'[o].con = one[o].con
                        /\ obj'[o].registered = one[o].registered
    BY <2>1, <2>2 DEF LbUserdata
  <2> QED  BY <2>1, <2>3, <2>4
<1>6. con'[c] = new /\ con' \in [Conns -> LbConnection] /\ \A d \in Conns : d # c => con'[d] = con[d]
  BY <1>1, <1>3, <1>4
<1>7. LbTypes'  BY <1>1, <1>5, <1>6 DEF LbInductive, LbTypes
<1>8. \A d \in Conns : Live(d)' /\ con'[d].listener = Nil => d # c /\ Live(d) /\ con[d].listener = Nil
  BY <1>4, <1>6, LbNilApart DEF Live
<1>9. LbOwned'  BY <1>5, <1>6, <1>8 DEF LbInductive, LbOwned
<1>10. LbDescended'
  <2>1. l # c /\ con[l].life # "none"  BY <1>1 DEF Live
  <2> QED  BY <1>1, <1>3, <1>4, <1>6, <2>1, LbFreshConn DEF LbInductive, LbConnection, LbDescended
<1>11. RegistryIsExact'
  <2>1. \A d \in Conns : Live(d) => con'[d] = con[d]  BY <1>1, <1>6 DEF Live
  <2> QED  BY <1>1, <1>5, <2>1 DEF LbInductive, RegistryIsExact, Live
<1>12. LbStored'  BY <1>1, <1>4, LbNewConnStored
<1> QED  BY <1>7, <1>9, <1>10, <1>11, <1>12 DEF LbInductive

\* Events of a part: they change the upload of one connection and the files.
LEMMA LbPartFrame ==
  ASSUME LbInductive, NEW c \in Conns, Live(c), Found(c), NEW kept \in BOOLEAN,
         obj' = Called(c, kept), con' \in [Conns -> LbConnection], wild' \in BOOLEAN,
         files' \subseteq Names, leaked' = leaked,
         \A d \in Conns : /\ con'[d].life = con[d].life /\ con'[d].user = con[d].user
                          /\ con'[d].listener = con[d].listener
  PROVE  (LbTypes /\ LbOwned /\ LbDescended /\ RegistryIsExact)'
<1>1. /\ obj' \in [Objs -> LbUserdata]
      /\ \A o \in Objs : /\ obj'[o].kind = obj[o].kind /\ obj'[o].con = obj[o].con
                         /\ obj'[o].registered = obj[o].registered
  BY LbCalledFrame
<1>2. LbTypes'  BY <1>1 DEF LbInductive, LbTypes
<1>3. (LbOwned /\ LbDescended /\ RegistryIsExact)'  BY <1>1, LbLinksFrame
<1> QED  BY <1>2, <1>3

\* A connection whose upload and part are set to new values.
LEMMA LbSetPart ==
  ASSUME LbInductive, NEW c \in Conns, NEW p \in BOOLEAN, NEW up \in LbUpload,
         con' = [con EXCEPT ![c].inPart = p, ![c].upload = up]
  PROVE  /\ con' \in [Conns -> LbConnection]
         /\ con'[c].inPart = p /\ con'[c].upload = up
         /\ \A d \in Conns : d # c => con'[d] = con[d]
         /\ \A d \in Conns : /\ con'[d].life = con[d].life /\ con'[d].user = con[d].user
                             /\ con'[d].listener = con[d].listener
<1> DEFINE one == [con EXCEPT ![c].inPart = p]
<1>1. /\ one \in [Conns -> LbConnection] /\ one[c].inPart = p
      /\ \A d \in Conns : d # c => one[d] = con[d]
      /\ \A d \in Conns : /\ one[d].life = con[d].life /\ one[d].user = con[d].user
                          /\ one[d].listener = con[d].listener
  BY DEF LbInductive, LbTypes, LbConnection
<1>2. con' = [one EXCEPT ![c].upload = up]  OBVIOUS
<1> HIDE DEF one
<1>a. [one EXCEPT ![c].upload = up] \in [Conns -> LbConnection]  BY <1>1 DEF LbConnection
<1>3. con' \in [Conns -> LbConnection]  BY <1>2, <1>a, Zenon
<1>4. \A d \in Conns : d # c => con'[d] = one[d]  BY <1>1, <1>2
<1>5. con'[c].inPart = one[c].inPart /\ con'[c].upload = up
  BY <1>1, <1>2 DEF LbConnection
<1>6. \A d \in Conns : /\ con'[d].life = one[d].life /\ con'[d].user = one[d].user
                       /\ con'[d].listener = one[d].listener
  BY <1>1, <1>2 DEF LbConnection
<1> QED  BY <1>1, <1>3, <1>4, <1>5, <1>6

LEMMA LbPartBeginKeeps ==
  ASSUME LbInductive, NEW c \in Conns, NEW name \in Names, NEW could \in BOOLEAN,
         PartBegin(c, name, could)
  PROVE  LbInductive'
<1>1. Live(c) /\ Found(c) /\ ~con[c].inPart /\ UNCHANGED <<leaked, spoiled, wild>>
  BY DEF PartBegin, Event
<1>2. PICK kept \in BOOLEAN, verdict \in Verdicts :
         /\ obj' = Called(c, kept)
         /\ con' = [con EXCEPT ![c].inPart = TRUE,
                               ![c].upload = IF verdict # "false" THEN @
                                             ELSE [name |-> name, fp |-> IF could THEN "open" ELSE "null"]]
         /\ files' = IF verdict = "false" /\ could THEN files \cup {name} ELSE files
  BY DEF PartBegin
<1> DEFINE up == IF verdict # "false" THEN con[c].upload
                 ELSE [name |-> name, fp |-> IF could THEN "open" ELSE "null"]
<1>3. up \in LbUpload /\ con \in [Conns -> LbConnection]
  BY DEF LbInductive, LbTypes, LbConnection, LbUpload
<1>4. con' = [con EXCEPT ![c].inPart = TRUE, ![c].upload = up]
  BY <1>2, <1>3 DEF LbConnection
<1>5. /\ verdict = "false" /\ could => up.name = name /\ up.fp = "open"
      /\ up.fp = "open" => con[c].upload.fp = "open" \/ (verdict = "false" /\ could)
  OBVIOUS
<1> HIDE DEF up
<1>6. /\ con' \in [Conns -> LbConnection]
      /\ con'[c].inPart /\ con'[c].upload = up
      /\ \A d \in Conns : d # c => con'[d] = con[d]
      /\ \A d \in Conns : /\ con'[d].life = con[d].life /\ con'[d].user = con[d].user
                          /\ con'[d].listener = con[d].listener
  BY <1>3, <1>4, LbSetPart
<1>7. files' \subseteq Names /\ wild' \in BOOLEAN
  BY <1>1, <1>2 DEF LbInductive, LbTypes
<1>8. (LbTypes /\ LbOwned /\ LbDescended /\ RegistryIsExact)'
  BY <1>1, <1>2, <1>6, <1>7, LbPartFrame
<1>9. LbStored'
  <2>1. \A d \in Conns : con'[d].inPart => Live(d)'
    BY <1>1, <1>6 DEF LbInductive, LbStored, Live
  <2>2. \A d \in Conns : con'[d].upload.fp = "open" => con'[d].inPart
    BY <1>6 DEF LbInductive, LbStored
  <2>3. ASSUME NEW f \in files' \ spoiled'
        PROVE  \E d \in Conns : con'[d].inPart /\ con'[d].upload.name = f /\ con'[d].upload.fp = "open"
    <3>1. CASE verdict = "false" /\ could /\ f = name  BY <1>5, <1>6, <3>1
    <3>2. CASE ~(verdict = "false" /\ could /\ f = name)
      <4>1. f \in files \ spoiled  BY <1>1, <1>2, <2>3, <3>2
      <4>2. PICK d \in Conns : con[d].inPart /\ con[d].upload.name = f /\ con[d].upload.fp = "open"
        BY <4>1 DEF LbInductive, LbStored
      <4> QED  BY <1>1, <1>6, <4>2
    <3> QED  BY <3>1, <3>2
  <2> QED  BY <2>1, <2>2, <2>3 DEF LbStored
<1> QED  BY <1>8, <1>9 DEF LbInductive

LEMMA LbPartDataKeeps ==
  ASSUME LbInductive, NEW c \in Conns, NEW written \in BOOLEAN, PartData(c, written)
  PROVE  LbInductive'
<1>1. Live(c) /\ Found(c) /\ con[c].inPart /\ UNCHANGED <<leaked, spoiled>>
  BY DEF PartData, Event
<1>2. PICK kept \in BOOLEAN, verdict \in Verdicts :
         LET broken == verdict # "error" /\ con[c].upload.fp = "open" /\ ~written
         IN  /\ obj' = Called(c, kept)
             /\ wild' = (verdict # "error" /\ con[c].upload.fp = "closed")
             /\ con' = [con EXCEPT ![c].upload.fp = IF broken THEN "null" ELSE @]
             /\ files' = IF broken THEN files \ {con[c].upload.name} ELSE files
  BY DEF PartData
<1> DEFINE broken == verdict # "error" /\ con[c].upload.fp = "open" /\ ~written
           fp == IF broken THEN "null" ELSE con[c].upload.fp
           up == [con[c].upload EXCEPT !.fp = fp]
<1>3. con \in [Conns -> LbConnection] /\ con[c].upload \in LbUpload
  BY DEF LbInductive, LbTypes, LbConnection
<1>4. /\ fp \in {"none", "open", "null", "closed"}
      /\ broken => fp # "open"
      /\ ~broken => fp = con[c].upload.fp
  BY <1>3 DEF LbUpload
<1>5. con' = [con EXCEPT ![c].upload.fp = fp] /\ wild' \in BOOLEAN /\ obj' = Called(c, kept)
  BY <1>2
<1>6. files' = IF broken THEN files \ {con[c].upload.name} ELSE files  BY <1>2
<1> HIDE DEF broken, fp
<1>7. up \in LbUpload /\ up.fp = fp /\ up.name = con[c].upload.name
  BY <1>3, <1>4 DEF LbUpload
<1>8. con' = [con EXCEPT ![c].inPart = TRUE, ![c].upload = up]
  BY <1>1, <1>3, <1>5 DEF LbConnection
<1> HIDE DEF up
<1>9. /\ con' \in [Conns -> LbConnection]
      /\ con'[c].inPart /\ con'[c].upload = up
      /\ \A d \in Conns : d # c => con'[d] = con[d]
      /\ \A d \in Conns : /\ con'[d].life = con[d].life /\ con'[d].user = con[d].user
                          /\ con'[d].listener = con[d].listener
  BY <1>7, <1>8, LbSetPart
<1>10. files' \subseteq Names  BY <1>6 DEF LbInductive, LbTypes
<1>11. (LbTypes /\ LbOwned /\ LbDescended /\ RegistryIsExact)'
  BY <1>1, <1>5, <1>9, <1>10, LbPartFrame
<1>12. LbStored'
  <2>1. \A d \in Conns : con'[d].inPart => Live(d)'
    BY <1>1, <1>9 DEF LbInductive, LbStored, Live
  <2>2. \A d \in Conns : con'[d].upload.fp = "open" => con'[d].inPart
    BY <1>9 DEF LbInductive, LbStored
  <2>3. ASSUME NEW f \in files' \ spoiled'
        PROVE  \E d \in Conns : con'[d].inPart /\ con'[d].upload.name = f /\ con'[d].upload.fp = "open"
    <3>1. f \in files \ spoiled  BY <1>1, <1>6, <2>3
    <3>2. PICK d \in Conns : con[d].inPart /\ con[d].upload.name = f /\ con[d].upload.fp = "open"
      BY <3>1 DEF LbInductive, LbStored
    <3>3. CASE d # c  BY <1>9, <3>2, <3>3
    <3>4. CASE d = c
      <4>1. ~broken  BY <1>6, <2>3, <3>2, <3>4
      <4> QED  BY <1>4, <1>7, <1>9, <3>2, <3>4, <4>1
    <3> QED  BY <3>3, <3>4
  <2> QED  BY <2>1, <2>2, <2>3 DEF LbStored
<1> QED  BY <1>11, <1>12 DEF LbInductive

LEMMA LbPartEndKeeps ==
  ASSUME LbInductive, NEW c \in Conns, PartEnd(c)
  PROVE  LbInductive'
<1>1. Live(c) /\ Found(c) /\ leaked' = leaked
  BY DEF PartEnd, Event
<1>2. PICK kept \in BOOLEAN, verdict \in Verdicts :
         LET up == con[c].upload
         IN  /\ obj' = Called(c, kept)
             /\ wild' = (up.fp = "closed")
             /\ con' = [con EXCEPT ![c].inPart = FALSE,
                                   ![c].upload = IF verdict # "error" THEN NoUpload
                                                 ELSE IF up.fp = "open" THEN [up EXCEPT !.fp = "closed"] ELSE up]
             /\ files' = IF verdict # "error" /\ up.fp # "null" THEN files \ {up.name} ELSE files
             /\ spoiled' = IF verdict = "error" /\ up.fp = "open" THEN spoiled \cup {up.name} ELSE spoiled
  BY DEF PartEnd
<1> DEFINE old == con[c].upload
           up == IF verdict # "error" THEN NoUpload
                 ELSE IF old.fp = "open" THEN [old EXCEPT !.fp = "closed"] ELSE old
<1>3. con \in [Conns -> LbConnection] /\ old \in LbUpload
  BY DEF LbInductive, LbTypes, LbConnection
<1>4. up \in LbUpload /\ up.fp # "open"  BY <1>3, LbBlankTypes DEF LbUpload
<1>5. con' = [con EXCEPT ![c].inPart = FALSE, ![c].upload = up]  BY <1>2
<1>6. /\ obj' = Called(c, kept) /\ wild' \in BOOLEAN
      /\ files' = IF verdict # "error" /\ old.fp # "null" THEN files \ {old.name} ELSE files
      /\ spoiled' = IF verdict = "error" /\ old.fp = "open" THEN spoiled \cup {old.name} ELSE spoiled
  BY <1>2
<1> HIDE DEF up
<1>7. /\ con' \in [Conns -> LbConnection]
      /\ con'[c].inPart = FALSE /\ con'[c].upload = up
      /\ \A d \in Conns : d # c => con'[d] = con[d]
      /\ \A d \in Conns : /\ con'[d].life = con[d].life /\ con'[d].user = con[d].user
                          /\ con'[d].listener = con[d].listener
  BY <1>4, <1>5, LbSetPart
<1>8. files' \subseteq Names  BY <1>6 DEF LbInductive, LbTypes
<1>9. (LbTypes /\ LbOwned /\ LbDescended /\ RegistryIsExact)'
  BY <1>1, <1>6, <1>7, <1>8, LbPartFrame
<1>10. LbStored'
  <2>1. \A d \in Conns : con'[d].inPart => Live(d)'
    BY <1>7 DEF LbInductive, LbStored, Live
  <2>2. \A d \in Conns : con'[d].upload.fp = "open" => con'[d].inPart
    BY <1>4, <1>7 DEF LbInductive, LbStored
  <2>3. ASSUME NEW f \in files' \ spoiled'
        PROVE  \E d \in Conns : con'[d].inPart /\ con'[d].upload.name = f /\ con'[d].upload.fp = "open"
    <3>1. f \in files \ spoiled  BY <1>6, <2>3
    <3>2. PICK d \in Conns : con[d].inPart /\ con[d].upload.name = f /\ con[d].upload.fp = "open"
      BY <3>1 DEF LbInductive, LbStored
    <3>3. d # c  BY <1>6, <2>3, <3>2
    <3> QED  BY <1>7, <3>2, <3>3
  <2> QED  BY <2>1, <2>2, <2>3 DEF LbStored
<1> QED  BY <1>9, <1>10 DEF LbInductive

LEMMA LbCloseKeeps ==
  ASSUME LbInductive, NEW c \in Conns, Close(c)
  PROVE  LbInductive'
<1>1. Live(c) /\ ~con[c].inPart  BY DEF Close
<1>2. CASE Lost(c)  BY <1>2, LbLostKeeps
<1>3. ASSUME NEW kept \in BOOLEAN, NEW verdict \in Verdicts, Found(c),
             obj' = [Called(c, kept) EXCEPT ![Owner(c)].registered =
                        @ /\ (verdict = "error" \/ con[c].listener # Nil)],
             leaked' = IF con[c].listener = Nil /\ verdict = "error"
                       THEN leaked \cup {Owner(c)} ELSE leaked,
             con' = [con EXCEPT ![c].life = "freed"],
             UNCHANGED <<files, ending, spoiled, wild>>
      PROVE  LbInductive'
  <2> DEFINE w == Owner(c)
             one == Called(c, kept)
             own == con[c].listener = Nil
             r == one[w].registered /\ (verdict = "error" \/ ~own)
  <2>1. /\ w \in Objs /\ one \in [Objs -> LbUserdata]
        /\ \A o \in Objs : /\ one[o].kind = obj[o].kind /\ one[o].con = obj[o].con
                           /\ one[o].registered = obj[o].registered
    BY <1>1, <1>3, LbCalledFrame
  <2>2. obj' = [one EXCEPT ![w].registered = r]  BY <1>3
  <2>3. r \in BOOLEAN /\ (r => verdict = "error" \/ ~own) /\ (~own => r = one[w].registered)
    <3>1. one[w].registered \in BOOLEAN  BY <2>1 DEF LbUserdata
    <3> QED  BY <3>1
  <2>4. own => w = con[c].user /\ obj[w].con = c /\ obj[w].kind \in {"client", "listener"}
    BY <1>1 DEF LbInductive, LbOwned, Owner
  <2> HIDE DEF w, one, r
  <2>5. obj' \in [Objs -> LbUserdata]
    <3>1. [one EXCEPT ![w].registered = r] \in [Objs -> LbUserdata]  BY <2>1, <2>3 DEF LbUserdata
    <3> QED  BY <2>2, <3>1, Zenon
  <2>6. /\ \A o \in Objs : obj'[o].kind = obj[o].kind /\ obj'[o].con = obj[o].con
        /\ \A o \in Objs : o # w => obj'[o].registered = obj[o].registered
    BY <2>1, <2>2 DEF LbUserdata
  <2>7. obj'[w].registered = r  BY <2>1, <2>2 DEF LbUserdata
  <2>8. /\ con' \in [Conns -> LbConnection] /\ con'[c].life = "freed"
        /\ \A d \in Conns : d # c => con'[d] = con[d]
        /\ \A d \in Conns : /\ con'[d].user = con[d].user /\ con'[d].listener = con[d].listener
                            /\ con'[d].inPart = con[d].inPart /\ con'[d].upload = con[d].upload
    BY <1>3 DEF LbInductive, LbTypes, LbConnection
  <2>9. leaked \subseteq leaked' /\ leaked' \subseteq Objs
        /\ (own /\ verdict = "error" => w \in leaked')
    BY <1>3, <2>1 DEF LbInductive, LbTypes, w
  <2>10. LbTypes'  BY <1>3, <2>5, <2>8, <2>9 DEF LbInductive, LbTypes
  <2>11. LbOwned'
    <3> SUFFICES ASSUME NEW d \in Conns, Live(d)', con'[d].listener = Nil
                 PROVE  /\ con'[d].user \in Objs
                        /\ obj'[con'[d].user].kind \in {"client", "listener"}
                        /\ obj'[con'[d].user].registered
                        /\ obj'[con'[d].user].con = d
      BY DEF LbOwned
    <3>1. d # c /\ Live(d) /\ con[d].listener = Nil /\ con'[d].user = con[d].user
      BY <2>8 DEF Live
    <3>2. /\ con[d].user \in Objs /\ obj[con[d].user].kind \in {"client", "listener"}
          /\ obj[con[d].user].registered /\ obj[con[d].user].con = d
      BY <3>1 DEF LbInductive, LbOwned
    <3>3. obj'[con[d].user].registered
      <4>1. CASE con[d].user # w  BY <2>6, <3>2, <4>1
      <4>2. CASE con[d].user = w
        <5>1. ~own  BY <2>4, <3>1, <3>2, <4>2
        <5> QED  BY <2>1, <2>3, <2>7, <3>2, <4>2, <5>1
      <4> QED  BY <4>1, <4>2
    <3> QED  BY <2>6, <3>1, <3>2, <3>3
  <2>12. LbDescended'  BY <2>8 DEF LbInductive, LbTypes, LbConnection, LbDescended
  <2>13. RegistryIsExact'
    <3> SUFFICES ASSUME NEW o \in Objs, obj'[o].registered
                 PROVE  \/ o \in leaked' \/ obj'[o].kind = "dns"
                        \/ \E d \in Conns : Live(d)' /\ con'[d].user = o /\ con'[d].listener = Nil
      BY DEF RegistryIsExact
    <3>1. CASE own /\ o = w  BY <2>3, <2>7, <2>9, <3>1
    <3>2. CASE ~(own /\ o = w)
      <4>1. obj[o].registered
        <5>1. CASE o # w  BY <2>6, <5>1
        <5>2. CASE o = w  BY <2>1, <2>3, <2>7, <3>2, <5>2
        <5> QED  BY <5>1, <5>2
      <4>2. CASE o \in leaked \/ obj[o].kind = "dns"  BY <2>6, <2>9, <4>2
      <4>3. ASSUME NEW d \in Conns, Live(d), con[d].user = o, con[d].listener = Nil
            PROVE  Live(d)' /\ con'[d].user = o /\ con'[d].listener = Nil
        <5>1. d # c  BY <2>4, <3>2, <4>3
        <5> QED  BY <2>8, <4>3, <5>1 DEF Live
      <4> QED  BY <4>1, <4>2, <4>3 DEF LbInductive, RegistryIsExact
    <3> QED  BY <3>1, <3>2
  <2>14. LbStored'
    <3>1. \A d \in Conns : con'[d].inPart => Live(d)'
      BY <1>1, <2>8 DEF LbInductive, LbStored, Live
    <3> QED  BY <1>3, <2>8, <3>1 DEF LbInductive, LbStored
  <2> QED  BY <2>10, <2>11, <2>12, <2>13, <2>14 DEF LbInductive
<1> QED  BY <1>2, <1>3 DEF Close

LEMMA LbMgrFreeKeeps ==
  ASSUME LbInductive, MgrFree
  PROVE  LbInductive'
<1>1. UNCHANGED <<obj, con, files, leaked, spoiled, wild>>  BY DEF MgrFree
<1>2. LbTypes'  BY <1>1 DEF LbInductive, LbTypes
<1>3. (LbOwned /\ LbDescended /\ RegistryIsExact)'  BY <1>1, LbLinksFrame
<1>4. LbStored'  BY <1>1, LbStoredFrame
<1> QED  BY <1>2, <1>3, <1>4 DEF LbInductive

LEMMA LbStepKeeps == LbInductive /\ [Next]_vars => LbInductive'
<1> SUFFICES ASSUME LbInductive, [Next]_vars PROVE LbInductive'
  OBVIOUS
<1>1. ASSUME NEW o \in Objs,
             Resolve(o) \/ Resolved(o) \/ UseLater(o) \/ Forget(o) \/ Collect(o)
      PROVE  LbInductive'
  BY <1>1, LbResolveKeeps, LbResolvedKeeps, LbUseLaterKeeps, LbForgetKeeps, LbCollectKeeps
<1>2. ASSUME NEW o \in Objs, NEW kind \in {"client", "listener", "dns"}, Fails(o, kind)
      PROVE  LbInductive'
  BY <1>2, LbFailsKeeps
<1>3. ASSUME NEW o \in Objs, NEW c \in Conns, Connect(o, c) \/ Listen(o, c)
      PROVE  LbInductive'
  <2>1. Made(o, c, "client") \/ Made(o, c, "listener")  BY <1>3 DEF Connect, Listen
  <2> QED  BY <2>1, LbMadeKeeps
<1>4. ASSUME NEW c \in Conns, Plain(c) \/ PartEnd(c) \/ Close(c)  PROVE LbInductive'
  BY <1>4, LbPlainKeeps, LbPartEndKeeps, LbCloseKeeps
<1>5. ASSUME NEW c \in Conns, NEW name \in Names, NEW could \in BOOLEAN,
             PartBegin(c, name, could)
      PROVE  LbInductive'
  BY <1>5, LbPartBeginKeeps
<1>6. ASSUME NEW c \in Conns, NEW written \in BOOLEAN, PartData(c, written)  PROVE LbInductive'
  BY <1>6, LbPartDataKeeps
<1>7. ASSUME NEW c \in Conns, NEW l \in Conns, Accept(l, c)  PROVE LbInductive'
  BY <1>7, LbAcceptKeeps
<1>8. CASE MgrFree  BY <1>8, LbMgrFreeKeeps
<1>9. CASE UNCHANGED vars
  <2>1. UNCHANGED <<obj, con, files, leaked, spoiled, wild>>  BY <1>9 DEF vars
  <2>2. LbTypes'  BY <2>1 DEF LbInductive, LbTypes
  <2>3. (LbOwned /\ LbDescended /\ RegistryIsExact)'  BY <2>1, LbLinksFrame
  <2>4. LbStored'  BY <2>1, LbStoredFrame
  <2> QED  BY <2>2, <2>3, <2>4 DEF LbInductive
<1> QED  BY <1>1, <1>2, <1>3, <1>4, <1>5, <1>6, <1>7, <1>8, <1>9 DEF Next
-----------------------------------------------------------------------------
\* Userdata and connections keep their types (lua_mongoose.c).
THEOREM LuaTypes == Spec => []TypeOK
BY LbInitInductive, LbStepKeeps, LbInductiveTypes, PTL DEF Spec

\* Whatever a script forgets, closes or lets fail, in whatever order, an event
\* finds its callback, the registry keeps no object longer than it is needed, and
\* every stored upload belongs to a part that is under way (lua_mg_ev_handler).
THEOREM LuaObjectsKept == Spec => []ObjectsKept
BY LbInitInductive, LbStepKeeps, LbInductiveIsKept, PTL DEF Spec
-----------------------------------------------------------------------------
(* Sntp: one outcome of a query.                                               *)

\* Before an outcome is told nothing was heard; once it was told, or the
\* application has closed, the connection is on its way out.
SnTold ==
    /\ outcomes \in {<<>>, <<"REPLY">>, <<"FAILED">>}
    /\ life \in {"connecting", "open"} => outcomes = <<>>
    /\ outcomes = <<>> => heard = <<>>
    /\ outcomes = <<>> /\ life = "closing" => quit
    /\ outcomes = <<>> /\ life = "closed" => failed \/ quit

\* Requests are counted by the client and by the history alike.
SnCounted ==
    /\ count = requests
    /\ life = "connecting" => requests = 0

SnInductive == SN!TypeOK /\ SnTold /\ SnCounted /\ SN!OneOutcome
-----------------------------------------------------------------------------
LEMMA SnInit == SN!Init => SnInductive
<1> SUFFICES ASSUME SN!Init PROVE SnInductive
  OBVIOUS
<1>a. 0 \in 0..(SN!SNTP_ATTEMPTS + 1)  BY DEF SN!SNTP_ATTEMPTS
<1>1. SN!TypeOK  BY <1>a, Zenon DEF SN!Init, SN!TypeOK
<1>2. SnTold /\ SnCounted  BY DEF SN!Init, SnTold, SnCounted
<1>3. outcomes = <<>> /\ Len(outcomes) = 0 /\ life = "connecting"  BY DEF SN!Init
<1>4. SN!OneOutcome  BY <1>3 DEF SN!OneOutcome
<1> QED  BY <1>1, <1>2, <1>4 DEF SnInductive

\* What the handler does on TIMER, and on a CONNECT that went well.
LEMMA SnAsk ==
  ASSUME SnInductive, SN!AskOrGiveUp, life \in {"connecting", "open"},
         life = "connecting" \/ timers,
         UNCHANGED <<timers, replies, heard, quit>>
  PROVE  SnInductive'
<1>1. outcomes = <<>> /\ heard = <<>>  BY DEF SnInductive, SnTold
<1>2. CASE count <= SN!SNTP_ATTEMPTS
  <2>1. /\ requests' = requests + 1 /\ count' = count + 1 /\ timer' = TRUE
        /\ failed' \in BOOLEAN /\ life' = "open" /\ outcomes' = outcomes
    BY <1>2 DEF SN!AskOrGiveUp
  <2>2. SN!TypeOK'  BY <2>1, <1>2 DEF SnInductive, SN!TypeOK, SnCounted, SN!SNTP_ATTEMPTS
  <2>3. SnTold' /\ SnCounted'  BY <2>1, <1>1 DEF SnInductive, SnTold, SnCounted
  <2>4. SN!OneOutcome'  BY <2>1, <1>1 DEF SN!OneOutcome
  <2> QED  BY <2>2, <2>3, <2>4 DEF SnInductive
<1>3. CASE ~(count <= SN!SNTP_ATTEMPTS)
  <2>1. /\ outcomes' = <<"FAILED">> /\ life' = "closing" /\ timer' = FALSE
        /\ UNCHANGED <<requests, count, failed>>
    BY <1>1, <1>3 DEF SN!AskOrGiveUp, SN!Tell
  <2>2. requests = SN!SNTP_ATTEMPTS + 1 /\ timers
    BY <1>3 DEF SnInductive, SN!TypeOK, SnCounted, SN!SNTP_ATTEMPTS
  <2>3. SN!TypeOK'  BY <2>1 DEF SnInductive, SN!TypeOK
  <2>4. SnTold' /\ SnCounted'  BY <2>1 DEF SnInductive, SnTold, SnCounted
  <2>5. outcomes' # <<"REPLY">> /\ outcomes' # <<>> /\ Len(outcomes') <= 1  BY <2>1
  <2>6. timers' /\ requests' = SN!SNTP_ATTEMPTS + 1  BY <2>1, <2>2
  <2>7. SN!OneOutcome'  BY <2>5, <2>6, Zenon DEF SN!OneOutcome
  <2> QED  BY <2>3, <2>4, <2>7 DEF SnInductive
<1> QED  BY <1>2, <1>3

LEMMA SnConnect ==
  ASSUME SnInductive, NEW ok \in BOOLEAN, SN!Connect(ok), timers' = timers
  PROVE  SnInductive'
<1>1. life = "connecting" /\ UNCHANGED <<replies, heard, quit>>  BY DEF SN!Connect
<1>2. CASE ok
  <2>1. SN!AskOrGiveUp  BY <1>2 DEF SN!Connect
  <2> QED  BY <1>1, <2>1, SnAsk
<1>3. CASE ~ok
  <2>1. /\ outcomes' = <<"FAILED">> /\ life' = "closing"
        /\ UNCHANGED <<timer, count, failed, requests>>
    BY <1>1, <1>3 DEF SN!Connect, SN!Tell, SnInductive, SnTold
  <2>2. requests = 0  BY <1>1 DEF SnInductive, SnCounted
  <2>3. SN!TypeOK' /\ SnTold' /\ SnCounted'
    BY <1>1, <2>1 DEF SnInductive, SN!TypeOK, SnTold, SnCounted
  <2>4. SN!OneOutcome'  BY <2>1, <2>2 DEF SN!OneOutcome
  <2> QED  BY <2>3, <2>4 DEF SnInductive
<1> QED  BY <1>2, <1>3

LEMMA SnRecv ==
  ASSUME SnInductive, NEW d \in Datagrams, SN!Recv(d), timers' = timers
  PROVE  SnInductive'
<1>1. UNCHANGED <<timer, count, failed, requests, quit>>  BY DEF SN!Recv
<1>2. CASE life = "open"
  <2>1. /\ heard' = <<d>> /\ life' = "closing"
        /\ outcomes' = IF SN!Parsed(d) THEN <<"REPLY">> ELSE <<"FAILED">>
    BY <1>2 DEF SN!Recv, SN!Delivered, SN!Tell, SnInductive, SnTold
  <2>2. SN!TypeOK' /\ SnTold' /\ SnCounted'
    BY <1>1, <2>1 DEF SnInductive, SN!TypeOK, SnTold, SnCounted
  <2>3. CASE SN!Parsed(d)
    <3>1. heard'[1].len >= 48 /\ heard'[1].version = 4 /\ heard'[1].mode \in {4, 5}  BY <2>1, <2>3 DEF SN!Parsed
    <3>2. outcomes' = <<"REPLY">>  BY <2>1, <2>3
    <3>3. SN!OneOutcome'  BY <2>1, <3>1, <3>2 DEF SN!OneOutcome
    <3> QED  BY <2>2, <3>3 DEF SnInductive
  <2>4. CASE ~SN!Parsed(d)
    <3>1. outcomes' = <<"FAILED">> /\ heard' # <<>>  BY <2>1, <2>4
    <3>2. SN!OneOutcome'  BY <3>1 DEF SN!OneOutcome
    <3> QED  BY <2>2, <3>2 DEF SnInductive
  <2> QED  BY <2>3, <2>4
<1>3. CASE life # "open"
  <2>1. UNCHANGED <<heard, outcomes, life>>  BY <1>3 DEF SN!Recv, SN!Delivered
  <2> QED  BY <1>1, <2>1 DEF SnInductive, SN!TypeOK, SnTold, SnCounted, SN!OneOutcome
<1> QED  BY <1>2, <1>3

LEMMA SnStep ==
  ASSUME SnInductive, [SN!Next]_(SN!vars)
  PROVE  SnInductive'
<1>a. CASE UNCHANGED SN!vars
  BY <1>a DEF SN!vars, SnInductive, SN!TypeOK, SnTold, SnCounted, SN!OneOutcome
<1> SUFFICES ASSUME SN!Next PROVE SnInductive'
  BY <1>a
<1>0. timers' = timers  BY DEF SN!Next
<1>1. ASSUME NEW ok \in BOOLEAN, SN!Connect(ok)  PROVE SnInductive'
  BY <1>0, <1>1, SnConnect
<1>2. CASE SN!Timer
  <2>1. timers /\ life = "open" /\ SN!AskOrGiveUp /\ UNCHANGED <<replies, heard, quit>>
    BY <1>2 DEF SN!Timer
  <2> QED  BY <1>0, <2>1, SnAsk
<1>3. ASSUME NEW d \in Datagrams, SN!Recv(d)  PROVE SnInductive'
  BY <1>0, <1>3, SnRecv
<1>4. CASE SN!UserClose
  BY <1>0, <1>4 DEF SN!UserClose, SnInductive, SN!TypeOK, SnTold, SnCounted, SN!OneOutcome
<1>5. CASE SN!Close
  BY <1>0, <1>5 DEF SN!Close, SnInductive, SN!TypeOK, SnTold, SnCounted, SN!OneOutcome
<1> QED  BY <1>1, <1>2, <1>3, <1>4, <1>5 DEF SN!Next
-----------------------------------------------------------------------------
\* With timers or without, and whatever comes back and how often, the application
\* is told one outcome of a query (mg_sntp_util_ev_handler).
THEOREM OutcomeOnce == SN!Spec => []TimeToldOnce
<1>1. SnInductive /\ [SN!Next]_(SN!vars) => SnInductive'  BY SnStep
<1>2. SnInductive => TimeToldOnce  BY DEF SnInductive, TimeToldOnce
<1> QED  BY <1>1, <1>2, SnInit, PTL DEF SN!Spec
-----------------------------------------------------------------------------
(* SslContext: the types, the shapes of the three kinds of connections, and    *)
(* where every reference to a configuration comes from.                        *)

ScPsks == {<<>>} \cup {SC!Psk(s) : s \in Settings}
ScCtx == [conf : SslConns \cup {"NULL"}, ssl : BOOLEAN, psk : ScPsks]
ScConn == [life : {"none", "live", "closed"}, kind : {"listener", "client", "accepted"},
           lc : SslConns \cup {"NULL"}, flags : SUBSET {"SSL", "HANDSHAKE_DONE", "CLOSE_IMMEDIATELY"},
           ctx : ScCtx]

ScTyped ==
    /\ conn \in [SslConns -> ScConn] /\ refs \in [SslConns -> Int] /\ leaked \subseteq SslConns
    /\ wild \in BOOLEAN /\ orphaned \in BOOLEAN /\ library \in {"OPENSSL", "MBEDTLS"}

\* A client or a listener has a configuration of its own, an accepted connection
\* a session on that of its listener.
ScFits(c, k) ==
    /\ k.life # "live" => k.ctx.conf = "NULL" /\ ~k.ctx.ssl
    /\ k.life = "none" => "SSL" \notin k.flags
    /\ k.flags # {} => "SSL" \in k.flags
    /\ k.kind # "accepted" =>
          /\ k.lc = "NULL" /\ k.ctx.conf \in {"NULL", c}
          /\ k.ctx.ssl => k.ctx.conf = c /\ k.kind = "client"
          /\ k.life = "live" /\ "SSL" \in k.flags => k.ctx.conf = c /\ (k.kind = "client" => k.ctx.ssl)
    /\ k.kind = "accepted" =>
          /\ k.lc \in SslConns \ {c} /\ k.life # "none" /\ "SSL" \in k.flags
          /\ k.life = "live" => k.ctx.ssl /\ k.ctx.conf = IF SC!OpenSsl THEN k.lc ELSE "NULL"

ScListens(l) == conn[l].kind = "listener" /\ "SSL" \in conn[l].flags

ScShaped ==
    \A c \in SslConns :
        /\ ScFits(c, conn[c])
        /\ conn[c].kind = "accepted" =>
              /\ ScListens(conn[c].lc)
              /\ conn[c].life = "live" /\ ~orphaned => conn[conn[c].lc].life = "live"

ScOwn(c) == IF conn[c].ctx.conf = c THEN 1 ELSE 0
ScHolds(d, c) == conn[d].ctx.ssl /\ conn[d].ctx.conf = c
ScHolders(c) == {d \in SslConns : ScHolds(d, c)}

\* The owner has one reference, and with OpenSSL every session has one.
ScCounted ==
    \A c \in SslConns : refs[c] = ScOwn(c) + (IF SC!OpenSsl THEN Cardinality(ScHolders(c)) ELSE 0)

ScInductive == ScTyped /\ ScShaped /\ ScCounted
-----------------------------------------------------------------------------
LEMMA ScHoldersFinite ==
  ASSUME NEW c \in SslConns
  PROVE  /\ IsFiniteSet(ScHolders(c)) /\ Cardinality(ScHolders(c)) \in 0..Cardinality(SslConns)
         /\ Cardinality(SslConns) \in Nat
<1>1. ScHolders(c) \subseteq SslConns  BY DEF ScHolders
<1>2. IsFiniteSet(SslConns)  BY PortsAssumption
<1>3. IsFiniteSet(ScHolders(c)) /\ Cardinality(ScHolders(c)) <= Cardinality(SslConns)
  BY <1>1, <1>2, FS_Subset
<1>4. Cardinality(ScHolders(c)) \in Nat /\ Cardinality(SslConns) \in Nat
  BY <1>2, <1>3, FS_CardinalityType
<1> QED  BY <1>3, <1>4

\* Until a connection has SSL, nobody else uses a configuration of its own.
LEMMA ScAlone ==
  ASSUME ScTyped, ScShaped, NEW c \in SslConns, "SSL" \notin conn[c].flags
  PROVE  /\ \A d \in SslConns : ScHolds(d, c) => d = c
         /\ Cardinality(ScHolders(c)) = IF ScHolds(c, c) THEN 1 ELSE 0
<1>1. ASSUME NEW d \in SslConns, ScHolds(d, c), d # c  PROVE FALSE
  <2>1. c # "NULL" /\ conn[d].ctx.conf = c  BY <1>1, PortsAssumption DEF ScHolds
  <2>2. ScFits(d, conn[d])  BY DEF ScShaped
  <2>3. conn[d].kind = "accepted" /\ conn[d].life = "live" /\ conn[d].lc = c
    BY <1>1, <2>1, <2>2 DEF ScFits
  <2>4. ScListens(c)  BY <2>3 DEF ScShaped
  <2> QED  BY <2>4 DEF ScListens
<1>2. CASE ScHolds(c, c)
  <2>1. ScHolders(c) = {c}  BY <1>1, <1>2 DEF ScHolders
  <2> QED  BY <1>1, <1>2, <2>1, FS_Singleton
<1>3. CASE ~ScHolds(c, c)
  <2>1. ScHolders(c) = {}  BY <1>1, <1>3 DEF ScHolders
  <2> QED  BY <1>1, <1>3, <2>1, FS_EmptySet
<1> QED  BY <1>2, <1>3

\* One connection changes: the configuration it used is held by one less, the
\* one it uses now by one more.
LEMMA ScHoldersChange ==
  ASSUME ScTyped, NEW c \in SslConns, NEW k \in ScConn, conn' = [conn EXCEPT ![c] = k], NEW x \in SslConns
  PROVE  Cardinality(ScHolders(x)') = Cardinality(ScHolders(x))
            + (IF k.ctx.ssl /\ k.ctx.conf = x THEN 1 ELSE 0) - (IF ScHolds(c, x) THEN 1 ELSE 0)
<1>1. conn'[c] = k /\ \A d \in SslConns : d # c => conn'[d] = conn[d]  BY DEF ScTyped
<1>2. IsFiniteSet(ScHolders(x)) /\ Cardinality(ScHolders(x)) \in Nat  BY ScHoldersFinite
<1> DEFINE now == k.ctx.ssl /\ k.ctx.conf = x
           others == ScHolders(x) \ {c}
<1>3. c \in ScHolders(x) <=> ScHolds(c, x)  BY DEF ScHolders
<1>4. ScHolders(x)' = IF now THEN others \cup {c} ELSE others
  BY <1>1 DEF ScHolders, ScHolds
<1>5. /\ IsFiniteSet(others)
      /\ Cardinality(others) = Cardinality(ScHolders(x)) - (IF ScHolds(c, x) THEN 1 ELSE 0)
  BY <1>2, <1>3, FS_RemoveElement
<1>6. c \notin others  OBVIOUS
<1>7. Cardinality(others \cup {c}) = Cardinality(others) + 1  BY <1>5, <1>6, FS_AddElement
<1>8. Cardinality(others) \in Nat  BY <1>5, FS_CardinalityType
<1> HIDE DEF others, now
<1>9. CASE now
  <2>1. Cardinality(ScHolders(x)') = Cardinality(others) + 1  BY <1>4, <1>7, <1>9
  <2> QED  BY <1>2, <1>5, <1>8, <1>9, <2>1 DEF now
<1>10. CASE ~now
  <2>1. Cardinality(ScHolders(x)') = Cardinality(others)  BY <1>4, <1>10
  <2> QED  BY <1>2, <1>5, <1>8, <1>10, <2>1 DEF now
<1> QED  BY <1>9, <1>10

\* The change of the references that keeps them counted.
ScDelta(c, k, x) ==
    (IF x = c THEN (IF k.ctx.conf = c THEN 1 ELSE 0) - ScOwn(c) ELSE 0)
    + (IF SC!OpenSsl THEN (IF k.ctx.ssl /\ k.ctx.conf = x THEN 1 ELSE 0) - (IF ScHolds(c, x) THEN 1 ELSE 0)
       ELSE 0)

LEMMA ScCount ==
  ASSUME ScTyped, ScCounted, NEW c \in SslConns, NEW k \in ScConn, conn' = [conn EXCEPT ![c] = k],
         library' = library, \A x \in SslConns : refs'[x] = refs[x] + ScDelta(c, k, x)
  PROVE  ScCounted'
<1> SUFFICES ASSUME NEW x \in SslConns
             PROVE  refs'[x] = ScOwn(x)' + (IF SC!OpenSsl' THEN Cardinality(ScHolders(x)') ELSE 0)
  BY DEF ScCounted
<1>1. SC!OpenSsl' = SC!OpenSsl  BY DEF SC!OpenSsl
<1>2. conn'[c] = k /\ \A d \in SslConns : d # c => conn'[d] = conn[d]  BY DEF ScTyped
<1>3. ScOwn(x)' = ScOwn(x) + IF x = c THEN (IF k.ctx.conf = c THEN 1 ELSE 0) - ScOwn(c) ELSE 0
  BY <1>2 DEF ScOwn
<1>4. refs[x] = ScOwn(x) + (IF SC!OpenSsl THEN Cardinality(ScHolders(x)) ELSE 0)  BY DEF ScCounted
<1>5. refs'[x] = refs[x] + ScDelta(c, k, x)  OBVIOUS
<1>6. ScOwn(x) \in {0, 1} /\ ScOwn(c) \in {0, 1}  BY DEF ScOwn
<1>7. Cardinality(ScHolders(x)) \in Nat  BY ScHoldersFinite
<1>8. Cardinality(ScHolders(x)') = Cardinality(ScHolders(x))
            + (IF k.ctx.ssl /\ k.ctx.conf = x THEN 1 ELSE 0) - (IF ScHolds(c, x) THEN 1 ELSE 0)
  BY ScHoldersChange
<1>9. CASE SC!OpenSsl
  BY <1>1, <1>3, <1>4, <1>5, <1>6, <1>7, <1>8, <1>9 DEF ScDelta
<1>10. CASE ~SC!OpenSsl
  BY <1>1, <1>3, <1>4, <1>5, <1>6, <1>10 DEF ScDelta
<1> QED  BY <1>9, <1>10

LEMMA ScShape ==
  ASSUME ScTyped, ScShaped, NEW c \in SslConns, NEW k \in ScConn, conn' = [conn EXCEPT ![c] = k],
         library' = library, ScFits(c, k),
         "SSL" \in conn[c].flags => "SSL" \in k.flags /\ k.kind = conn[c].kind,
         k.kind = "accepted" => k.lc \in SslConns /\ ScListens(k.lc) /\
                                (k.life = "live" /\ ~orphaned' => conn[k.lc].life = "live"),
         orphaned => orphaned',
         k.life # "live" /\ ~orphaned' =>
            \A d \in SslConns : conn[d].kind = "accepted" /\ conn[d].life = "live" /\ conn[d].lc = c => d = c
                             \/ conn[c].life # "live"
  PROVE  ScShaped'
<1>1. conn'[c] = k /\ \A d \in SslConns : d # c => conn'[d] = conn[d]  BY DEF ScTyped
<1>2. \A l \in SslConns : ScListens(l) => ScListens(l)'  BY <1>1 DEF ScListens
<1> SUFFICES ASSUME NEW d \in SslConns
             PROVE  (/\ ScFits(d, conn[d])
                     /\ conn[d].kind = "accepted" =>
                          /\ ScListens(conn[d].lc)
                          /\ conn[d].life = "live" /\ ~orphaned => conn[conn[d].lc].life = "live")'
  BY DEF ScShaped
<1>3. ASSUME NEW e \in ScConn, conn'[d] = e, ScFits(d, e)  PROVE ScFits(d, conn[d])'
  BY <1>3 DEF ScFits, SC!OpenSsl
<1>4. CASE d = c
  <2>1. k.kind = "accepted" => k.lc \in SslConns /\ k.lc # c  BY DEF ScFits
  <2>2. k.kind = "accepted" => ScListens(k.lc)' /\ conn'[k.lc] = conn[k.lc]  BY <1>1, <1>2, <2>1
  <2>3. ScFits(d, conn[d])'  BY <1>1, <1>3, <1>4
  <2>4. conn'[d] = k  BY <1>1, <1>4
  <2>5. k.kind = "accepted" => ScListens(conn[d].lc)'  BY <2>2, <2>4 DEF ScListens
  <2> QED  BY <2>2, <2>3, <2>4, <2>5
<1>5. CASE d # c
  <2>1. /\ conn'[d] = conn[d] /\ ScFits(d, conn[d]) /\ conn[d] \in ScConn
        /\ conn[d].kind = "accepted" =>
             /\ ScListens(conn[d].lc)
             /\ conn[d].life = "live" /\ ~orphaned => conn[conn[d].lc].life = "live"
    BY <1>1, <1>5 DEF ScShaped, ScTyped
  <2>2. conn[d].kind = "accepted" => conn[d].lc \in SslConns  BY <2>1 DEF ScFits
  <2>3. conn[d].kind = "accepted" => ScListens(conn[d].lc)'
    BY <1>2, <2>1, <2>2 DEF ScListens
  <2>4. ASSUME conn[d].kind = "accepted", conn[d].life = "live", ~orphaned'
        PROVE  conn'[conn[d].lc].life = "live"
    <3>1. conn[conn[d].lc].life = "live"  BY <2>1, <2>4
    <3>2. CASE conn[d].lc = c  BY <1>1, <1>5, <2>4, <3>1, <3>2
    <3>3. CASE conn[d].lc # c  BY <1>1, <2>2, <2>4, <3>1, <3>3
    <3> QED  BY <3>2, <3>3
  <2>5. ScFits(d, conn[d])'  BY <1>3, <2>1
  <2> QED  BY <2>1, <2>3, <2>4, <2>5
<1> QED  BY <1>4, <1>5

LEMMA ScBecomes ==
  ASSUME ScInductive, NEW c \in SslConns, NEW k \in ScConn, conn' = [conn EXCEPT ![c] = k],
         library' = library, ScFits(c, k),
         "SSL" \in conn[c].flags => "SSL" \in k.flags /\ k.kind = conn[c].kind,
         k.kind = "accepted" => k.lc \in SslConns /\ ScListens(k.lc) /\
                                (k.life = "live" /\ ~orphaned' => conn[k.lc].life = "live"),
         orphaned => orphaned', orphaned' \in BOOLEAN, wild' \in BOOLEAN, leaked' \subseteq SslConns,
         k.life # "live" /\ ~orphaned' =>
            \A d \in SslConns : conn[d].kind = "accepted" /\ conn[d].life = "live" /\ conn[d].lc = c => d = c
                             \/ conn[c].life # "live",
         refs' \in [SslConns -> Int], \A x \in SslConns : refs'[x] = refs[x] + ScDelta(c, k, x)
  PROVE  ScInductive'
<1>1. ScTyped /\ ScShaped /\ ScCounted  BY DEF ScInductive
<1>2. ScShaped'  BY <1>1, ScShape
<1>3. ScCounted'  BY <1>1, ScCount
<1>4. conn' \in [SslConns -> ScConn]  BY <1>1 DEF ScTyped
<1>5. ScTyped'  BY <1>1, <1>4 DEF ScTyped
<1> QED  BY <1>2, <1>3, <1>5 DEF ScInductive

\* While its context stays, a connection leaves the references alone.
LEMMA ScSameContext ==
  ASSUME ScTyped, NEW c \in SslConns, NEW k \in ScConn, k.ctx = conn[c].ctx, NEW x \in SslConns
  PROVE  ScDelta(c, k, x) = 0
BY DEF ScDelta, ScOwn, ScHolds

\* mg_ssl_begin, mg_ssl_if_read, mg_ssl_if_write: a flag is set.
LEMMA ScFlag ==
  ASSUME ScInductive, NEW c \in SslConns, conn[c].life = "live", "SSL" \in conn[c].flags,
         NEW f \in {"HANDSHAKE_DONE", "CLOSE_IMMEDIATELY"},
         conn' = [conn EXCEPT ![c].flags = @ \cup {f}], wild' \in BOOLEAN,
         UNCHANGED <<library, refs, leaked, orphaned>>
  PROVE  ScInductive'
<1> DEFINE k == [conn[c] EXCEPT !.flags = @ \cup {f}]
<1>1. ScTyped /\ ScShaped  BY DEF ScInductive
<1>2. conn[c] \in ScConn /\ conn' = [conn EXCEPT ![c] = k]  BY <1>1 DEF ScTyped
<1>3. /\ k.life = conn[c].life /\ k.kind = conn[c].kind /\ k.lc = conn[c].lc /\ k.ctx = conn[c].ctx
      /\ k.flags = conn[c].flags \cup {f}
  BY <1>2 DEF ScConn
<1>4. k \in ScConn  BY <1>2 DEF ScConn
<1> HIDE DEF k
<1>5. ScFits(c, conn[c]) /\ (k.kind = "accepted" => conn[c].lc \in SslConns /\ ScListens(k.lc) /\
                                (k.life = "live" /\ ~orphaned => conn[k.lc].life = "live"))
  BY <1>1, <1>3 DEF ScShaped, ScFits
<1>6. ScFits(c, k)  BY <1>3, <1>5 DEF ScFits
<1>7. \A x \in SslConns : refs'[x] = refs[x] + ScDelta(c, k, x)
  BY <1>1, <1>3, <1>4, ScSameContext DEF ScTyped
<1>8. refs' \in [SslConns -> Int] /\ leaked' \subseteq SslConns /\ orphaned' \in BOOLEAN /\ library' = library
  BY <1>1 DEF ScTyped
<1>9. "SSL" \in k.flags /\ k.life = "live" /\ (orphaned => orphaned') /\ (~orphaned' => ~orphaned)
  BY <1>3
<1>10. k.kind = "accepted" => k.lc \in SslConns /\ ScListens(k.lc) /\
                              (k.life = "live" /\ ~orphaned' => conn[k.lc].life = "live")
  BY <1>3, <1>5, <1>9
<1>11. k.kind = conn[c].kind /\ wild' \in BOOLEAN  BY <1>3
<1> QED  BY <1>2, <1>4, <1>6, <1>7, <1>8, <1>9, <1>10, <1>11, ScBecomes

LEMMA ScHandshake ==
  ASSUME ScInductive, NEW c \in SslConns, SC!Handshake(c), library' = library
  PROVE  ScInductive'
<1>1. PICK f \in {"HANDSHAKE_DONE", "CLOSE_IMMEDIATELY"} : conn' = [conn EXCEPT ![c].flags = @ \cup {f}]
  BY DEF SC!Handshake
<1>2. conn[c].life = "live" /\ "SSL" \in conn[c].flags /\ wild' = ~SC!Usable(c)
  BY DEF SC!Handshake, SC!Live
<1>3. UNCHANGED <<library, refs, leaked, orphaned>>  BY DEF SC!Handshake
<1> QED  BY <1>1, <1>2, <1>3, ScFlag

LEMMA ScReadWrite ==
  ASSUME ScInductive, NEW c \in SslConns, SC!ReadWrite(c), library' = library
  PROVE  ScInductive'
<1>1. conn[c].life = "live" /\ "HANDSHAKE_DONE" \in conn[c].flags /\ wild' = ~SC!Usable(c)
  BY DEF SC!ReadWrite, SC!Live
<1>2. UNCHANGED <<library, refs, leaked, orphaned>>  BY DEF SC!ReadWrite
<1>3. CASE conn' = conn
  <2>1. ScShaped' /\ ScCounted'
    BY <1>2, <1>3 DEF ScInductive, ScShaped, ScCounted, ScFits, ScListens, ScOwn, ScHolders, ScHolds, SC!OpenSsl
  <2>2. ScTyped'  BY <1>1, <1>2, <1>3 DEF ScInductive, ScTyped
  <2> QED  BY <2>1, <2>2 DEF ScInductive
<1>4. CASE conn' = [conn EXCEPT ![c].flags = @ \cup {"CLOSE_IMMEDIATELY"}]
  <2>1. "SSL" \in conn[c].flags
    BY <1>1 DEF ScInductive, ScShaped, ScFits
  <2>2. wild' \in BOOLEAN  BY <1>1
  <2>3. PICK f \in {"HANDSHAKE_DONE", "CLOSE_IMMEDIATELY"} : conn' = [conn EXCEPT ![c].flags = @ \cup {f}]
    BY <1>4
  <2> QED  BY <1>1, <1>2, <2>1, <2>2, <2>3, ScFlag
<1> QED  BY <1>3, <1>4 DEF SC!ReadWrite

\* mg_ssl_if_conn_free takes back what the context had been given.
LEMMA ScClose ==
  ASSUME ScInductive, NEW c \in SslConns, SC!Close(c), library' = library
  PROVE  ScInductive'
<1> DEFINE k == [conn[c] EXCEPT !.life = "closed", !.ctx = SC!NoContext]
           ctx == conn[c].ctx
<1>1. ScTyped /\ ScShaped /\ ScCounted  BY DEF ScInductive
<1>2. conn[c] \in ScConn /\ conn' = [conn EXCEPT ![c] = k]  BY <1>1 DEF ScTyped, SC!Close
<1>a. SC!NoContext \in ScCtx /\ SC!NoContext.conf = "NULL" /\ ~SC!NoContext.ssl
  BY DEF SC!NoContext, SC!Context, SC!NULL, ScCtx, ScPsks
<1>3. /\ k.life = "closed" /\ k.kind = conn[c].kind /\ k.lc = conn[c].lc /\ k.flags = conn[c].flags
      /\ k.ctx = SC!NoContext /\ k \in ScConn
  BY <1>2, <1>a DEF ScConn
<1> HIDE DEF k
<1>4. conn[c].life = "live" /\ ~wild /\ UNCHANGED <<asked, leaked, wild>>  BY DEF SC!Close, SC!Live
<1>5. /\ ScFits(c, conn[c])
      /\ conn[c].kind = "accepted" => conn[c].lc \in SslConns /\ ScListens(conn[c].lc)
  BY <1>1 DEF ScShaped, ScFits
<1>6. ScFits(c, k)  BY <1>3, <1>4, <1>5, <1>a DEF ScFits
<1>7. orphaned' = (orphaned \/ \E d \in SslConns : SC!Live(d) /\ conn[d].lc = c)  BY DEF SC!Close
<1>8. orphaned' \in BOOLEAN /\ (orphaned => orphaned') /\ leaked' \subseteq SslConns /\ wild' \in BOOLEAN
  BY <1>1, <1>4, <1>7 DEF ScTyped
<1>9. ~orphaned' => \A d \in SslConns : ~(conn[d].life = "live" /\ conn[d].lc = c)
  BY <1>4, <1>7 DEF SC!Live
<1>10. refs' \in [SslConns -> Int] /\ \A x \in SslConns : refs'[x] = refs[x] + ScDelta(c, k, x)
  <2>1. refs' = SC!ConnFree(refs, ctx, conn[c].lc)  BY DEF SC!Close
  <2>2. ctx \in ScCtx /\ refs \in [SslConns -> Int] /\ c # "NULL"
    BY <1>1, <1>2, PortsAssumption DEF ScTyped, ScConn
  <2>3. \A x \in SslConns : ScDelta(c, k, x) =
           (IF x = c THEN 0 - ScOwn(c) ELSE 0) + (IF SC!OpenSsl THEN 0 - (IF ScHolds(c, x) THEN 1 ELSE 0) ELSE 0)
    BY <1>3, <1>a, <2>2 DEF ScDelta
  <2>4. CASE ctx.conf = "NULL"
    <3>1. refs' = refs  BY <2>1, <2>4 DEF SC!ConnFree, SC!HasConf, SC!NULL
    <3>2. ScOwn(c) = 0 /\ \A x \in SslConns : ~ScHolds(c, x)
      BY <2>2, <2>4, PortsAssumption DEF ScOwn, ScHolds
    <3> QED  BY <2>2, <2>3, <3>1, <3>2
  <2>5. CASE ctx.conf # "NULL"
    <3> DEFINE own == IF conn[c].lc = "NULL" \/ ~SC!OpenSsl THEN 1 ELSE 0
    <3>1. ctx.conf \in SslConns  BY <2>2, <2>5 DEF ScCtx
    <3>2. refs' = [refs EXCEPT ![ctx.conf] = @ - SC!SessionRef(ctx) - own]
      BY <2>1, <2>5 DEF SC!ConnFree, SC!HasConf, SC!NULL
    <3>3. SC!SessionRef(ctx) = (IF SC!OpenSsl /\ ctx.ssl THEN 1 ELSE 0)  BY DEF SC!SessionRef
    <3>4. /\ refs' \in [SslConns -> Int] /\ refs'[ctx.conf] = refs[ctx.conf] - SC!SessionRef(ctx) - own
          /\ \A x \in SslConns : x # ctx.conf => refs'[x] = refs[x]
      BY <2>2, <3>1, <3>2, <3>3
    <3>5. CASE conn[c].kind = "accepted"
      <4>1. conn[c].lc = ctx.conf /\ SC!OpenSsl /\ ctx.ssl /\ ctx.conf # c /\ own = 0
        BY <1>4, <1>5, <2>5, <3>1, <3>5, PortsAssumption DEF ScFits
      <4>2. ScOwn(c) = 0 /\ \A x \in SslConns : ScHolds(c, x) <=> x = ctx.conf
        BY <4>1 DEF ScOwn, ScHolds
      <4> HIDE DEF own, ctx
      <4> QED  BY <2>2, <2>3, <3>1, <3>3, <3>4, <4>1, <4>2
    <3>6. CASE conn[c].kind # "accepted"
      <4>1. conn[c].lc = "NULL" /\ ctx.conf = c /\ own = 1
        BY <1>4, <1>5, <2>5, <3>6 DEF ScFits
      <4>2. ScOwn(c) = 1 /\ \A x \in SslConns : ScHolds(c, x) <=> (x = c /\ ctx.ssl)
        BY <4>1 DEF ScOwn, ScHolds
      <4> HIDE DEF own, ctx
      <4> QED  BY <2>2, <2>3, <3>1, <3>3, <3>4, <4>1, <4>2
    <3> QED  BY <3>5, <3>6
  <2> QED  BY <2>4, <2>5
<1>11. "SSL" \in conn[c].flags => "SSL" \in k.flags /\ k.kind = conn[c].kind  BY <1>3
<1>12. k.kind = "accepted" => k.lc \in SslConns /\ ScListens(k.lc)  BY <1>3, <1>5
<1> QED  BY <1>2, <1>3, <1>6, <1>8, <1>9, <1>10, <1>11, <1>12, ScBecomes
-----------------------------------------------------------------------------
(* Opening.                                                                    *)

\* What mg_ssl_if_conn_init leaves behind.
LEMMA ScConnInit ==
  ASSUME NEW c \in SslConns, NEW kind \in {"listener", "client"}, NEW s, SC!Psk(s) \in ScPsks,
         NEW r \in SC!ConnInit(c, kind, s)
  PROVE  /\ r.ok \in BOOLEAN /\ r.ctx \in ScCtx
         /\ r.ctx.conf = "NULL" => r.ctx = SC!NoContext /\ ~r.ok
         /\ r.ctx.conf # "NULL" => r.ctx.conf = c
         /\ r.ctx.ssl => r.ctx.conf = c /\ kind = "client"
         /\ r.ok /\ kind = "client" => r.ctx.ssl
<1> DEFINE Ctx(conf, ssl, psk) == [conf |-> conf, ssl |-> ssl, psk |-> psk]
<1>1. \/ r = [ok |-> FALSE, ctx |-> Ctx("NULL", FALSE, <<>>)]
      \/ r = [ok |-> FALSE, ctx |-> Ctx(c, FALSE, <<>>)]
      \/ kind = "client" /\ r = [ok |-> FALSE, ctx |-> Ctx(c, ~SC!OpenSsl, SC!Psk(s))]
      \/ r = [ok |-> TRUE, ctx |-> Ctx(c, kind = "client", SC!Psk(s))]
  BY Zenon DEF SC!ConnInit, SC!NoContext, SC!Context, SC!NULL
<1>2. c # "NULL" /\ <<>> \in ScPsks  BY PortsAssumption DEF ScPsks
<1>3. ASSUME NEW conf \in SslConns \cup {"NULL"}, NEW ssl \in BOOLEAN, NEW psk \in ScPsks,
             r.ctx = Ctx(conf, ssl, psk)
      PROVE  r.ctx.conf = conf /\ r.ctx.ssl = ssl /\ r.ctx \in ScCtx
  BY <1>3 DEF ScCtx
<1>4. CASE r = [ok |-> FALSE, ctx |-> Ctx("NULL", FALSE, <<>>)]
  <2>1. r.ok = FALSE /\ r.ctx = Ctx("NULL", FALSE, <<>>)  BY <1>4
  <2>2. r.ctx = SC!NoContext  BY <2>1 DEF SC!NoContext, SC!Context, SC!NULL
  <2>3. r.ctx.conf = "NULL" /\ r.ctx.ssl = FALSE /\ r.ctx \in ScCtx  BY <1>2, <1>3, <2>1
  <2> QED  BY <1>2, <2>1, <2>2, <2>3
<1>5. CASE r = [ok |-> FALSE, ctx |-> Ctx(c, FALSE, <<>>)]
  <2>1. r.ok = FALSE /\ r.ctx = Ctx(c, FALSE, <<>>)  BY <1>5
  <2>2. r.ctx.conf = c /\ r.ctx.ssl = FALSE /\ r.ctx \in ScCtx  BY <1>2, <1>3, <2>1
  <2> QED  BY <1>2, <2>1, <2>2
<1>6. CASE kind = "client" /\ r = [ok |-> FALSE, ctx |-> Ctx(c, ~SC!OpenSsl, SC!Psk(s))]
  <2>1. PICK ssl \in BOOLEAN : ssl = ~SC!OpenSsl  OBVIOUS
  <2>2. r.ok = FALSE /\ r.ctx = Ctx(c, ssl, SC!Psk(s))  BY <1>6, <2>1
  <2>3. r.ctx.conf = c /\ r.ctx.ssl = ssl /\ r.ctx \in ScCtx  BY <1>2, <1>3, <2>2
  <2> QED  BY <1>2, <1>6, <2>2, <2>3
<1>7. CASE r = [ok |-> TRUE, ctx |-> Ctx(c, kind = "client", SC!Psk(s))]
  <2>1. PICK ssl \in BOOLEAN : ssl = (kind = "client")  OBVIOUS
  <2>2. r.ok = TRUE /\ r.ctx = Ctx(c, ssl, SC!Psk(s))  BY <1>7, <2>1
  <2>3. r.ctx.conf = c /\ r.ctx.ssl = ssl /\ r.ctx \in ScCtx  BY <1>2, <1>3, <2>2
  <2> QED  BY <1>2, <2>1, <2>2, <2>3
<1> QED  BY <1>1, <1>4, <1>5, <1>6, <1>7

\* mg_bind_opt, mg_connect_opt: nothing used the name, so it had no references.
LEMMA ScOpen ==
  ASSUME ScInductive, NEW c \in SslConns, NEW kind \in {"listener", "client"}, SC!Open(c, kind),
         library' = library
  PROVE  ScInductive'
<1>1. ScTyped /\ ScShaped /\ ScCounted  BY DEF ScInductive
<1>2. conn[c].life = "none" /\ UNCHANGED <<leaked, orphaned, wild>>  BY DEF SC!Open
<1>3. PICK s \in Settings : \E r \in SC!ConnInit(c, kind, s) :
        LET new == [SC!Unused EXCEPT !.life = "live", !.kind = kind]
            counted == SC!Referenced(refs, c, r.ctx)
        IN  \/ conn' = [conn EXCEPT ![c] = new] /\ refs' = refs
            \/ /\ r.ok /\ refs' = counted
               /\ conn' = [conn EXCEPT ![c] = [new EXCEPT !.ctx = r.ctx, !.flags = {"SSL"}]]
            \/ /\ ~r.ok /\ refs' = SC!ConnFree(counted, r.ctx, SC!NULL)
               /\ conn' = [conn EXCEPT ![c] = [new EXCEPT !.life = "closed"]]
  BY Zenon DEF SC!Open
<1>4. PICK r \in SC!ConnInit(c, kind, s) :
        LET new == [SC!Unused EXCEPT !.life = "live", !.kind = kind]
            counted == SC!Referenced(refs, c, r.ctx)
        IN  \/ conn' = [conn EXCEPT ![c] = new] /\ refs' = refs
            \/ /\ r.ok /\ refs' = counted
               /\ conn' = [conn EXCEPT ![c] = [new EXCEPT !.ctx = r.ctx, !.flags = {"SSL"}]]
            \/ /\ ~r.ok /\ refs' = SC!ConnFree(counted, r.ctx, SC!NULL)
               /\ conn' = [conn EXCEPT ![c] = [new EXCEPT !.life = "closed"]]
  BY <1>3
<1> DEFINE Rec(lf, flags, ctx) == [life |-> lf, kind |-> kind, lc |-> "NULL", flags |-> flags, ctx |-> ctx]
           counted == SC!Referenced(refs, c, r.ctx)
<1>5. \/ conn' = [conn EXCEPT ![c] = Rec("live", {}, SC!NoContext)] /\ refs' = refs
      \/ conn' = [conn EXCEPT ![c] = Rec("live", {"SSL"}, r.ctx)] /\ refs' = counted /\ r.ok
      \/ /\ conn' = [conn EXCEPT ![c] = Rec("closed", {}, SC!NoContext)]
         /\ refs' = SC!ConnFree(counted, r.ctx, SC!NULL)
  BY <1>4 DEF SC!Unused, SC!NULL
<1>6. /\ r.ok \in BOOLEAN /\ r.ctx \in ScCtx
      /\ r.ctx.conf = "NULL" => r.ctx = SC!NoContext /\ ~r.ok
      /\ r.ctx.conf # "NULL" => r.ctx.conf = c
      /\ r.ctx.ssl => r.ctx.conf = c /\ kind = "client"
      /\ r.ok /\ kind = "client" => r.ctx.ssl
  <2>1. SC!Psk(s) \in ScPsks  BY DEF ScPsks
  <2> QED  BY <2>1, ScConnInit
<1>7. SC!NoContext \in ScCtx /\ SC!NoContext.conf = "NULL" /\ ~SC!NoContext.ssl
  BY DEF SC!NoContext, SC!Context, SC!NULL, ScCtx, ScPsks
<1>8. ScFits(c, conn[c]) /\ conn[c] \in ScConn /\ refs \in [SslConns -> Int] /\ c # "NULL"
  BY <1>1, PortsAssumption DEF ScShaped, ScTyped
<1>9. "SSL" \notin conn[c].flags /\ conn[c].ctx.conf = "NULL" /\ ~conn[c].ctx.ssl
  BY <1>2, <1>8 DEF ScFits
<1>10. refs[c] = 0 /\ ScOwn(c) = 0 /\ \A x \in SslConns : ~ScHolds(c, x)
  <2>1. ScOwn(c) = 0 /\ \A x \in SslConns : ~ScHolds(c, x)  BY <1>8, <1>9 DEF ScOwn, ScHolds
  <2>2. Cardinality(ScHolders(c)) = 0  BY <1>1, <1>9, <2>1, ScAlone
  <2> QED  BY <1>1, <2>1, <2>2 DEF ScCounted
<1>11. ASSUME NEW lf \in {"live", "closed"}, NEW flags \in {{}, {"SSL"}}, NEW ctx \in ScCtx,
              conn' = [conn EXCEPT ![c] = Rec(lf, flags, ctx)],
              ctx = SC!NoContext \/ (ctx = r.ctx /\ lf = "live"),
              "SSL" \in flags => r.ok /\ ctx = r.ctx,
              refs' \in [SslConns -> Int],
              refs'[c] = (IF ctx.conf = c THEN 1 ELSE 0) + (IF SC!OpenSsl /\ ctx.ssl THEN 1 ELSE 0),
              \A x \in SslConns : x # c => refs'[x] = refs[x]
       PROVE  ScInductive'
  <2> DEFINE k == Rec(lf, flags, ctx)
  <2>1. /\ k.life = lf /\ k.kind = kind /\ k.lc = "NULL" /\ k.flags = flags /\ k.ctx = ctx
        /\ k \in ScConn
    BY <1>11 DEF ScConn
  <2>2. conn' = [conn EXCEPT ![c] = k]  BY <1>11
  <2> HIDE DEF k
  <2>3. /\ ctx.conf \in {"NULL", c} /\ (ctx.ssl => ctx.conf = c /\ kind = "client")
        /\ lf # "live" => ctx.conf = "NULL" /\ ~ctx.ssl
        /\ "SSL" \in flags => ctx.conf = c /\ (kind = "client" => ctx.ssl)
    BY <1>6, <1>7, <1>11
  <2>4. ScFits(c, k)  BY <2>1, <2>3 DEF ScFits
  <2>5. \A x \in SslConns : refs'[x] = refs[x] + ScDelta(c, k, x)
    BY <1>8, <1>10, <1>11, <2>1, <2>3 DEF ScDelta
  <2>6. (orphaned => orphaned') /\ orphaned' \in BOOLEAN /\ wild' \in BOOLEAN /\ leaked' \subseteq SslConns
    BY <1>1, <1>2 DEF ScTyped
  <2>7. conn[c].life # "live" /\ k.kind # "accepted" /\ refs' \in [SslConns -> Int]  BY <1>2, <1>11, <2>1
  <2> QED  BY <1>9, <2>1, <2>2, <2>4, <2>5, <2>6, <2>7, ScBecomes
<1> HIDE DEF Rec
<1>12. SC!SessionRef(r.ctx) = IF SC!OpenSsl /\ r.ctx.ssl THEN 1 ELSE 0  BY DEF SC!SessionRef
<1>13. /\ counted \in [SslConns -> Int] /\ \A x \in SslConns : x # c => counted[x] = refs[x]
       /\ r.ctx.conf = "NULL" => counted = refs
       /\ r.ctx.conf # "NULL" => counted = [refs EXCEPT ![c] = 1 + SC!SessionRef(r.ctx)]
  BY <1>8, <1>12 DEF SC!Referenced, SC!HasConf, SC!NULL
<1>14. CASE conn' = [conn EXCEPT ![c] = Rec("live", {}, SC!NoContext)] /\ refs' = refs
  <2>1. /\ refs' \in [SslConns -> Int] /\ \A x \in SslConns : x # c => refs'[x] = refs[x]
        /\ refs'[c] = (IF SC!NoContext.conf = c THEN 1 ELSE 0) + (IF SC!OpenSsl /\ SC!NoContext.ssl THEN 1 ELSE 0)
    BY <1>7, <1>8, <1>10, <1>14
  <2> QED  BY <1>7, <1>11, <1>14, <2>1, Zenon
<1>15. CASE conn' = [conn EXCEPT ![c] = Rec("live", {"SSL"}, r.ctx)] /\ refs' = counted /\ r.ok
  <2>1. r.ctx.conf = c  BY <1>6, <1>15
  <2> HIDE DEF counted
  <2>2. refs'[c] = (IF r.ctx.conf = c THEN 1 ELSE 0) + (IF SC!OpenSsl /\ r.ctx.ssl THEN 1 ELSE 0)
    BY <1>8, <1>12, <1>13, <1>15, <2>1
  <2>3. refs' \in [SslConns -> Int] /\ \A x \in SslConns : x # c => refs'[x] = refs[x]  BY <1>13, <1>15
  <2> QED  BY <1>6, <1>11, <1>15, <2>2, <2>3, Zenon
<1>16. CASE /\ conn' = [conn EXCEPT ![c] = Rec("closed", {}, SC!NoContext)]
            /\ refs' = SC!ConnFree(counted, r.ctx, SC!NULL)
  <2>1. refs' \in [SslConns -> Int] /\ refs'[c] = 0 /\ \A x \in SslConns : x # c => refs'[x] = refs[x]
    <3>1. CASE r.ctx.conf = "NULL"
      <4>1. refs' = refs  BY <1>13, <1>16, <3>1 DEF SC!ConnFree, SC!HasConf, SC!NULL
      <4> QED  BY <1>8, <1>10, <4>1
    <3>2. CASE r.ctx.conf # "NULL"
      <4>1. counted = [refs EXCEPT ![c] = 1 + SC!SessionRef(r.ctx)]  BY <1>13, <3>2
      <4> HIDE DEF counted
      <4>2. refs' = [counted EXCEPT ![c] = @ - SC!SessionRef(r.ctx) - 1]
        BY <1>6, <1>16, <3>2 DEF SC!ConnFree, SC!HasConf, SC!NULL
      <4> QED  BY <1>8, <1>12, <1>13, <4>1, <4>2
    <3> QED  BY <3>1, <3>2
  <2>2. refs'[c] = (IF SC!NoContext.conf = c THEN 1 ELSE 0) + (IF SC!OpenSsl /\ SC!NoContext.ssl THEN 1 ELSE 0)
    BY <1>7, <1>8, <2>1
  <2> QED  BY <1>7, <1>11, <1>16, <2>1, <2>2, Zenon
<1> QED  BY <1>5, <1>14, <1>15, <1>16

\* mg_set_ssl: a configuration of an earlier call that failed is forgotten.
LEMMA ScSetSsl ==
  ASSUME ScInductive, NEW c \in SslConns, SC!SetSsl(c), library' = library
  PROVE  ScInductive'
<1>1. ScTyped /\ ScShaped /\ ScCounted  BY DEF ScInductive
<1>2. /\ conn[c].life = "live" /\ conn[c].kind # "accepted" /\ "SSL" \notin conn[c].flags
      /\ UNCHANGED <<orphaned, wild>>
  BY DEF SC!SetSsl, SC!Live
<1>3. PICK r \in SC!ConnInit(c, conn[c].kind, SC!NoKey) :
        /\ refs' = SC!Referenced(IF r.ctx = SC!NoContext THEN refs ELSE [refs EXCEPT ![c] = 0], c, r.ctx)
        /\ leaked' = IF r.ctx # SC!NoContext /\ SC!HasConf(conn[c].ctx) THEN leaked \cup {c} ELSE leaked
        /\ conn' = [conn EXCEPT ![c].ctx = IF r.ctx = SC!NoContext THEN @ ELSE r.ctx,
                                ![c].flags = IF r.ok THEN @ \cup {"SSL"} ELSE @]
  BY Zenon DEF SC!SetSsl
<1>4. ScFits(c, conn[c]) /\ conn[c] \in ScConn /\ refs \in [SslConns -> Int] /\ c # "NULL"
  BY <1>1, PortsAssumption DEF ScShaped, ScTyped
<1>5. conn[c].kind \in {"listener", "client"}  BY <1>2, <1>4 DEF ScConn
<1>6. /\ r.ok \in BOOLEAN /\ r.ctx \in ScCtx
      /\ r.ctx.conf = "NULL" => r.ctx = SC!NoContext /\ ~r.ok
      /\ r.ctx.conf # "NULL" => r.ctx.conf = c
      /\ r.ctx.ssl => r.ctx.conf = c /\ conn[c].kind = "client"
      /\ r.ok /\ conn[c].kind = "client" => r.ctx.ssl
  <2>1. SC!Psk(SC!NoKey) \in ScPsks  BY DEF SC!Psk, ScPsks
  <2> QED  BY <1>5, <2>1, ScConnInit
<1> DEFINE ctx == IF r.ctx = SC!NoContext THEN conn[c].ctx ELSE r.ctx
           k == [conn[c] EXCEPT !.ctx = ctx, !.flags = IF r.ok THEN @ \cup {"SSL"} ELSE @]
<1>7. conn' = [conn EXCEPT ![c] = k]  BY <1>1, <1>3 DEF ScTyped
<1>8. /\ k.life = "live" /\ k.kind = conn[c].kind /\ k.lc = conn[c].lc /\ k.ctx = ctx
      /\ k.flags = IF r.ok THEN conn[c].flags \cup {"SSL"} ELSE conn[c].flags
  BY <1>2, <1>4 DEF ScConn
<1>9. k \in ScConn  BY <1>4, <1>6 DEF ScConn
<1>10. SC!NoContext.conf = "NULL" /\ ~SC!NoContext.ssl
  BY DEF SC!NoContext, SC!Context, SC!NULL
<1> HIDE DEF k
<1>11. ScFits(c, k)
  <2>1. ctx.conf \in {"NULL", c} /\ (ctx.ssl => ctx.conf = c /\ k.kind = "client")
    BY <1>2, <1>4, <1>6, <1>8 DEF ScFits
  <2>2. "SSL" \in k.flags => ctx.conf = c /\ (k.kind = "client" => ctx.ssl)
    BY <1>2, <1>4, <1>6, <1>8, <1>10
  <2>3. conn[c].lc = "NULL" /\ conn[c].flags = {}  BY <1>2, <1>4 DEF ScFits
  <2>4. k.flags # {} => "SSL" \in k.flags  BY <1>8, <2>3
  <2> HIDE DEF ctx
  <2> QED  BY <1>2, <1>8, <2>1, <2>2, <2>3, <2>4 DEF ScFits
<1>12. SC!SessionRef(r.ctx) = IF SC!OpenSsl /\ r.ctx.ssl THEN 1 ELSE 0  BY DEF SC!SessionRef
<1>13. refs' \in [SslConns -> Int] /\ \A x \in SslConns : refs'[x] = refs[x] + ScDelta(c, k, x)
  <2>1. CASE r.ctx = SC!NoContext
    <3>1. refs' = refs  BY <1>3, <1>10, <2>1 DEF SC!Referenced, SC!HasConf, SC!NULL
    <3>2. k.ctx = conn[c].ctx  BY <1>8, <2>1
    <3>3. \A x \in SslConns : ScDelta(c, k, x) = 0  BY <1>1, <1>9, <3>2, ScSameContext
    <3> QED  BY <1>4, <3>1, <3>3
  <2>2. CASE r.ctx # SC!NoContext
    <3>1. r.ctx.conf = c /\ k.ctx = r.ctx  BY <1>6, <1>8, <2>2
    <3>2. refs' = [[refs EXCEPT ![c] = 0] EXCEPT ![c] = 1 + SC!SessionRef(r.ctx)]
      BY <1>3, <1>4, <2>2, <3>1 DEF SC!Referenced, SC!HasConf, SC!NULL
    <3>3. /\ refs' \in [SslConns -> Int] /\ refs'[c] = 1 + SC!SessionRef(r.ctx)
          /\ \A x \in SslConns : x # c => refs'[x] = refs[x]
      BY <1>4, <1>12, <3>2
    <3>4. refs[c] = ScOwn(c) + (IF SC!OpenSsl THEN (IF ScHolds(c, c) THEN 1 ELSE 0) ELSE 0)
      BY <1>1, <1>2, ScAlone DEF ScCounted
    <3>5. ScOwn(c) \in {0, 1} /\ \A x \in SslConns : x # c => ~ScHolds(c, x)
      <4>1. conn[c].ctx.conf \in {"NULL", c}  BY <1>2, <1>4 DEF ScFits
      <4> QED  BY <1>4, <4>1, PortsAssumption DEF ScOwn, ScHolds
    <3>6. \A x \in SslConns : x # c => ScDelta(c, k, x) = 0  BY <3>1, <3>5 DEF ScDelta
    <3>7. ScDelta(c, k, c) = 1 - ScOwn(c) + (IF SC!OpenSsl THEN (IF r.ctx.ssl THEN 1 ELSE 0) - (IF ScHolds(c, c) THEN 1 ELSE 0) ELSE 0)
      BY <3>1, <3>5 DEF ScDelta
    <3>8. refs'[c] = refs[c] + ScDelta(c, k, c)  BY <1>12, <3>3, <3>4, <3>5, <3>7
    <3> QED  BY <1>4, <3>3, <3>6, <3>8
  <2> QED  BY <2>1, <2>2
<1>14. /\ (orphaned => orphaned') /\ orphaned' \in BOOLEAN /\ wild' \in BOOLEAN /\ leaked' \subseteq SslConns
       /\ k.kind # "accepted" /\ "SSL" \notin conn[c].flags
  BY <1>1, <1>2, <1>3, <1>8 DEF ScTyped
<1> QED  BY <1>7, <1>8, <1>9, <1>11, <1>13, <1>14, ScBecomes

\* mg_accept_conn: the session takes a reference with OpenSSL and none with mbedTLS.
LEMMA ScAccept ==
  ASSUME ScInductive, NEW c \in SslConns, NEW l \in SslConns, SC!Accept(c, l), library' = library
  PROVE  ScInductive'
<1>1. ScTyped /\ ScShaped /\ ScCounted  BY DEF ScInductive
<1>2. /\ conn[l].life = "live" /\ ScListens(l) /\ conn[c].life = "none" /\ c # l
      /\ UNCHANGED <<leaked, orphaned>>
  BY DEF SC!Accept, SC!Live, ScListens
<1>3. /\ ScFits(c, conn[c]) /\ ScFits(l, conn[l]) /\ conn[c] \in ScConn /\ conn[l] \in ScConn
      /\ refs \in [SslConns -> Int] /\ c # "NULL" /\ l # "NULL"
  BY <1>1, PortsAssumption DEF ScShaped, ScTyped
<1>4. conn[l].ctx.conf = l  BY <1>2, <1>3 DEF ScFits, ScListens
<1>5. "SSL" \notin conn[c].flags /\ conn[c].ctx.conf = "NULL" /\ ~conn[c].ctx.ssl
  BY <1>2, <1>3 DEF ScFits
<1>6. ScOwn(c) = 0 /\ \A x \in SslConns : ~ScHolds(c, x)  BY <1>3, <1>5 DEF ScOwn, ScHolds
<1> DEFINE Rec(lf, ctx) == [life |-> lf, kind |-> "accepted", lc |-> l, flags |-> {"SSL"}, ctx |-> ctx]
           used == SC!Context(IF SC!OpenSsl THEN l ELSE "NULL", TRUE, <<>>)
<1>7. \/ /\ conn' = [conn EXCEPT ![c] = Rec("live", used)]
         /\ refs' = IF SC!OpenSsl THEN [refs EXCEPT ![l] = @ + 1] ELSE refs
         /\ wild' = wild
      \/ conn' = [conn EXCEPT ![c] = Rec("closed", SC!NoContext)] /\ wild' = TRUE /\ refs' = refs
  BY <1>4 DEF SC!Accept, SC!Unused, SC!NULL
<1>8. /\ used.conf = (IF SC!OpenSsl THEN l ELSE "NULL") /\ used.ssl /\ used \in ScCtx
      /\ SC!NoContext.conf = "NULL" /\ ~SC!NoContext.ssl /\ SC!NoContext \in ScCtx
  BY <1>3 DEF SC!NoContext, SC!Context, SC!NULL, ScCtx, ScPsks
<1> HIDE DEF used
<1>9. ASSUME NEW lf \in {"live", "closed"}, NEW ctx \in ScCtx, conn' = [conn EXCEPT ![c] = Rec(lf, ctx)],
             lf = "live" => ctx = used, lf = "closed" => ctx = SC!NoContext,
             refs' \in [SslConns -> Int], wild' \in BOOLEAN,
             \A x \in SslConns : refs'[x] = refs[x] + (IF SC!OpenSsl /\ lf = "live" /\ x = l THEN 1 ELSE 0)
      PROVE  ScInductive'
  <2> DEFINE k == Rec(lf, ctx)
  <2>1. /\ k.life = lf /\ k.kind = "accepted" /\ k.lc = l /\ k.flags = {"SSL"} /\ k.ctx = ctx
        /\ k \in ScConn
    BY <1>9 DEF ScConn
  <2>2. conn' = [conn EXCEPT ![c] = k]  BY <1>9
  <2> HIDE DEF k
  <2>3. ScFits(c, k)  BY <1>2, <1>8, <1>9, <2>1 DEF ScFits
  <2>4. \A x \in SslConns : ScDelta(c, k, x) = IF SC!OpenSsl /\ lf = "live" /\ x = l THEN 1 ELSE 0
    <3>1. k.ctx.conf # c  BY <1>2, <1>3, <1>8, <1>9, <2>1
    <3>2. \A x \in SslConns : (SC!OpenSsl /\ k.ctx.ssl /\ k.ctx.conf = x) <=> (SC!OpenSsl /\ lf = "live" /\ x = l)
      BY <1>8, <1>9, <2>1
    <3> QED  BY <1>6, <3>1, <3>2 DEF ScDelta
  <2>5. \A x \in SslConns : refs'[x] = refs[x] + ScDelta(c, k, x)  BY <1>9, <2>4
  <2>6. (orphaned => orphaned') /\ orphaned' \in BOOLEAN /\ leaked' \subseteq SslConns
    BY <1>1, <1>2 DEF ScTyped
  <2>7. /\ conn[c].life # "live" /\ refs' \in [SslConns -> Int] /\ wild' \in BOOLEAN
        /\ k.lc \in SslConns /\ ScListens(k.lc) /\ conn[k.lc].life = "live"
    BY <1>2, <1>9, <2>1
  <2> QED  BY <1>5, <2>1, <2>2, <2>3, <2>5, <2>6, <2>7, ScBecomes
<1> HIDE DEF Rec
<1>10. CASE /\ conn' = [conn EXCEPT ![c] = Rec("live", used)]
            /\ refs' = IF SC!OpenSsl THEN [refs EXCEPT ![l] = @ + 1] ELSE refs
            /\ wild' = wild
  <2>1. /\ refs' \in [SslConns -> Int] /\ wild' \in BOOLEAN
        /\ \A x \in SslConns : refs'[x] = refs[x] + (IF SC!OpenSsl /\ "live" = "live" /\ x = l THEN 1 ELSE 0)
    BY <1>1, <1>3, <1>10 DEF ScTyped
  <2> QED  BY <1>8, <1>9, <1>10, <2>1
<1>11. CASE conn' = [conn EXCEPT ![c] = Rec("closed", SC!NoContext)] /\ wild' = TRUE /\ refs' = refs
  <2>1. /\ refs' \in [SslConns -> Int] /\ wild' \in BOOLEAN
        /\ \A x \in SslConns : refs'[x] = refs[x] + (IF SC!OpenSsl /\ "closed" = "live" /\ x = l THEN 1 ELSE 0)
    BY <1>3, <1>11
  <2> QED  BY <1>8, <1>9, <1>11, <2>1
<1> QED  BY <1>7, <1>10, <1>11

LEMMA ScInit == SC!Init => ScInductive
<1> SUFFICES ASSUME SC!Init PROVE ScInductive
  OBVIOUS
<1> DEFINE u == SC!Unused
<1>1. /\ u.life = "none" /\ u.kind = "client" /\ u.lc = "NULL" /\ u.flags = {} /\ u.ctx.conf = "NULL"
      /\ ~u.ctx.ssl /\ u \in ScConn
  BY DEF SC!Unused, SC!NoContext, SC!Context, SC!NULL, ScConn, ScCtx, ScPsks
<1>2. conn = [c \in SslConns |-> u] /\ refs = [c \in SslConns |-> 0]  BY DEF SC!Init
<1> HIDE DEF u
<1>a. conn \in [SslConns -> ScConn] /\ refs \in [SslConns -> Int]  BY <1>1, <1>2
<1>b. leaked = {} /\ wild = FALSE /\ orphaned = FALSE /\ library \in {"OPENSSL", "MBEDTLS"}
  BY Zenon DEF SC!Init
<1>3. ScTyped  BY <1>a, <1>b DEF ScTyped
<1>4. ScShaped  BY <1>1, <1>2 DEF ScShaped, ScFits
<1>5. \A c \in SslConns : ScOwn(c) = 0 /\ ScHolders(c) = {}
  BY <1>1, <1>2, PortsAssumption DEF ScOwn, ScHolders, ScHolds
<1>6. ScCounted  BY <1>2, <1>5, FS_EmptySet DEF ScCounted
<1> QED  BY <1>3, <1>4, <1>6 DEF ScInductive

LEMMA ScStep ==
  ASSUME ScInductive, [SC!Next]_(SC!vars)
  PROVE  ScInductive'
<1>1. CASE UNCHANGED SC!vars
  BY <1>1 DEF SC!vars, ScInductive, ScTyped, ScShaped, ScCounted, ScFits, ScListens, ScOwn, ScHolders,
              ScHolds, SC!OpenSsl
<1>2. CASE SC!Next
  <2>1. library' = library  BY <1>2 DEF SC!Next
  <2>2. PICK c \in SslConns :
            \/ SC!Open(c, "listener") \/ SC!Open(c, "client") \/ SC!SetSsl(c) \/ SC!Handshake(c)
            \/ SC!ReadWrite(c) \/ SC!Close(c) \/ \E l \in SslConns : SC!Accept(c, l)
    BY <1>2 DEF SC!Next
  <2>3. CASE SC!Open(c, "listener")  BY <2>1, <2>3, ScOpen
  <2>4. CASE SC!Open(c, "client")  BY <2>1, <2>4, ScOpen
  <2>5. CASE SC!SetSsl(c)  BY <2>1, <2>5, ScSetSsl
  <2>6. CASE SC!Handshake(c)  BY <2>1, <2>6, ScHandshake
  <2>7. CASE SC!ReadWrite(c)  BY <2>1, <2>7, ScReadWrite
  <2>8. CASE SC!Close(c)  BY <2>1, <2>8, ScClose
  <2>9. ASSUME NEW l \in SslConns, SC!Accept(c, l)  PROVE ScInductive'  BY <2>1, <2>9, ScAccept
  <2> QED  BY <2>2, <2>3, <2>4, <2>5, <2>6, <2>7, <2>8, <2>9
<1> QED  BY <1>1, <1>2

LEMMA ScSound ==
  ASSUME ScInductive
  PROVE  SC!TypeOK /\ SC!ConfigurationsLive
<1>1. ScTyped /\ ScShaped /\ ScCounted  BY DEF ScInductive
<1>2. \A c \in SslConns : /\ ScOwn(c) \in {0, 1} /\ Cardinality(ScHolders(c)) \in 0..Cardinality(SslConns)
                          /\ Cardinality(SslConns) \in Nat
  BY ScHoldersFinite DEF ScOwn
<1>3. \A c \in SslConns : refs[c] \in 0..(1 + Cardinality(SslConns))  BY <1>1, <1>2 DEF ScCounted
<1>a. \A c \in SslConns : conn[c].life \in {"none", "live", "closed"}  BY <1>1 DEF ScTyped, ScConn
<1>b. leaked \subseteq SslConns /\ wild \in BOOLEAN /\ library \in {"OPENSSL", "MBEDTLS"}
  BY <1>1 DEF ScTyped
<1>c. \A c \in SslConns : conn[c].life \in {"none", "live", "closed"} /\ refs[c] \in 0..(1 + Cardinality(SslConns))
  BY <1>3, <1>a
<1>d. SC!Cardinality(SslConns) = Cardinality(SslConns)  BY Zenon DEF SC!Cardinality, Cardinality
<1>4. SC!TypeOK  BY <1>b, <1>c, <1>d DEF SC!TypeOK
<1>5. ASSUME NEW c \in SslConns, SC!Live(c), "SSL" \in conn[c].flags, conn[c].kind # "listener",
             SC!OpenSsl \/ ~orphaned
      PROVE  SC!Usable(c)
  <2>1. ScFits(c, conn[c]) /\ conn[c] \in ScConn /\ conn[c].life = "live"
    BY <1>1, <1>5 DEF ScShaped, ScTyped, SC!Live
  <2>2. CASE conn[c].kind = "accepted"
    <3> DEFINE l == conn[c].lc
    <3>1. l \in SslConns /\ conn[c].ctx.ssl /\ ScListens(l)  BY <1>1, <2>1, <2>2 DEF ScFits, ScShaped
    <3>2. refs[l] > 0
      <4>1. CASE SC!OpenSsl
        <5>1. c \in ScHolders(l)  BY <2>1, <2>2, <4>1 DEF ScFits, ScHolders, ScHolds
        <5>2. Cardinality(ScHolders(l)) # 0  BY <3>1, <5>1, ScHoldersFinite, FS_EmptySet
        <5>3. refs[l] = ScOwn(l) + Cardinality(ScHolders(l))  BY <1>1, <3>1, <4>1 DEF ScCounted
        <5> QED  BY <1>2, <3>1, <5>2, <5>3
      <4>2. CASE ~SC!OpenSsl
        <5>1. conn[l].life = "live"  BY <1>1, <1>5, <2>1, <2>2, <4>2 DEF ScShaped
        <5>2. ScFits(l, conn[l])  BY <1>1, <3>1 DEF ScShaped
        <5>3. conn[l].ctx.conf = l  BY <3>1, <5>1, <5>2 DEF ScFits, ScListens
        <5>4. refs[l] = 1  BY <1>1, <3>1, <4>2, <5>3 DEF ScCounted, ScOwn
        <5> QED  BY <5>4
      <4> QED  BY <4>1, <4>2
    <3> QED  BY <2>2, <3>1, <3>2 DEF SC!Usable, SC!ConfOf
  <2>3. CASE conn[c].kind = "client"
    <3>1. conn[c].ctx.ssl /\ conn[c].ctx.conf = c  BY <1>5, <2>1, <2>3 DEF ScFits
    <3>2. ScOwn(c) = 1  BY <3>1 DEF ScOwn
    <3>3. refs[c] > 0  BY <1>1, <1>2, <3>2 DEF ScCounted
    <3> QED  BY <2>3, <3>1, <3>3 DEF SC!Usable, SC!ConfOf
  <2> QED  BY <1>5, <2>1, <2>2, <2>3 DEF ScConn
<1>6. ASSUME NEW c \in SslConns, ~wild, refs[c] > 0
      PROVE  \E d \in SslConns : SC!Live(d) /\ (c = d \/ conn[d].lc = c)
  <2>1. c # "NULL" /\ \A d \in SslConns : ScFits(d, conn[d])  BY <1>1, PortsAssumption DEF ScShaped
  <2>2. PICK d \in SslConns : conn[d].ctx.conf = c
    <3>1. CASE ScOwn(c) = 1  BY <3>1 DEF ScOwn
    <3>2. CASE ScOwn(c) # 1
      <4>1. Cardinality(ScHolders(c)) # 0  BY <1>1, <1>2, <1>6, <3>2 DEF ScCounted
      <4>2. ScHolders(c) # {}  BY <4>1, FS_EmptySet
      <4> QED  BY <4>2 DEF ScHolders, ScHolds
    <3> QED  BY <3>1, <3>2
  <2>3. conn[d].life = "live"  BY <2>1, <2>2 DEF ScFits
  <2>4. d = c \/ conn[d].lc = c  BY <2>1, <2>2, <2>3 DEF ScFits
  <2> QED  BY <1>6, <2>3, <2>4 DEF SC!Live
<1>7. SC!ConfigurationsLive  BY <1>5, <1>6 DEF SC!ConfigurationsLive
<1> QED  BY <1>4, <1>7
-----------------------------------------------------------------------------
\* The key that is read from n pairs of digits has a byte for each.
LEMMA ScKeyOf ==
    ASSUME NEW d \in Seq(Nat), NEW n \in Nat, Len(d) = 2 * n
    PROVE  SC!KeyOf(d) = [j \in 1..n |-> 16 * d[2 * j - 1] + d[2 * j]]
<1> DEFINE Half(i) == [j \in 1..n |-> IF 2 * j <= i THEN 16 * d[2 * j - 1] + d[2 * j]
                                      ELSE IF 2 * j = i + 1 THEN d[2 * j - 1] ELSE 0]
           Body(g) == [i \in 0..Len(d) |->
                          IF i = 0 THEN [j \in 1..(Len(d) \div 2) |-> 0]
                          ELSE [g[i - 1] EXCEPT ![(i + 1) \div 2] = @ * 16 + d[i]]]
           Step(h, i) == [h EXCEPT ![(i + 1) \div 2] = @ * 16 + d[i]]
           all == [i \in 0..Len(d) |-> Half(i)]
           after == CHOOSE g : g = Body(g)
<1>1. /\ Len(d) \div 2 = n /\ Len(d) \in Nat
      /\ \A i \in 1..(2 * n) : d[i] \in Nat
  <2>1. Len(d) \div 2 = n /\ Len(d) \in Nat
    OBVIOUS
  <2>2. DOMAIN d = 1..(2 * n)
    BY LenProperties
  <2> QED BY <2>1, <2>2, ElementOfSeq
<1>2. Half(0) = [j \in 1..n |-> 0]
  OBVIOUS
<1>3. ASSUME NEW i \in 1..(2 * n) PROVE Step(Half(i - 1), i) = Half(i)
  <2>1. PICK k \in 1..n : i = 2 * k \/ i = 2 * k - 1
    <3>1. (i + 1) \div 2 \in 1..n /\ (i = 2 * ((i + 1) \div 2) \/ i = 2 * ((i + 1) \div 2) - 1)
      OBVIOUS
    <3> QED BY <3>1
  <2>2. (i + 1) \div 2 = k
    BY <2>1
  <2>3. d[i] \in Nat /\ d[2 * k - 1] \in Nat /\ d[2 * k] \in Nat
    BY <1>1
  <2>4. Half(i - 1)[k] * 16 + d[i] = Half(i)[k]
    <3>1. CASE i = 2 * k
      <4>1. Half(i - 1)[k] = d[2 * k - 1]
        BY <3>1
      <4>2. Half(i)[k] = 16 * d[2 * k - 1] + d[2 * k]
        BY <3>1
      <4> QED BY <4>1, <4>2, <3>1, <2>3
    <3>2. CASE i = 2 * k - 1
      <4>1. Half(i - 1)[k] = 0
        BY <3>2
      <4>2. Half(i)[k] = d[2 * k - 1]
        BY <3>2
      <4> QED BY <4>1, <4>2, <3>2, <2>3
    <3> QED BY <2>1, <3>1, <3>2
  <2>5. \A j \in 1..n : j # k => Half(i - 1)[j] = Half(i)[j]
    <3> SUFFICES ASSUME NEW j \in 1..n, j # k PROVE Half(i - 1)[j] = Half(i)[j]
      OBVIOUS
    <3>1. (2 * j <= i - 1 <=> 2 * j <= i) /\ 2 * j # i /\ (2 * j = i + 1 => FALSE)
      BY <2>1
    <3> QED BY <3>1
  <2>6. DOMAIN Half(i - 1) = 1..n /\ DOMAIN Half(i) = 1..n
    OBVIOUS
  <2>7. Half(i) = [j \in 1..n |-> Half(i)[j]] /\ Half(i - 1) = [j \in 1..n |-> Half(i - 1)[j]]
    OBVIOUS
  <2> HIDE DEF Half
  <2> QED BY <2>2, <2>4, <2>5, <2>7
<1>4. all = Body(all)
  <2>1. \A i \in 0..Len(d) : all[i] = Body(all)[i]
    <3> SUFFICES ASSUME NEW i \in 0..Len(d) PROVE all[i] = Body(all)[i]
      OBVIOUS
    <3> HIDE DEF Half
    <3>1. CASE i = 0
      BY <3>1, <1>1, <1>2
    <3>2. CASE i # 0
      <4>1. i \in 1..(2 * n) /\ i - 1 \in 0..Len(d)
        BY <3>2
      <4> QED BY <4>1, <3>2, <1>3
    <3> QED BY <3>1, <3>2
  <2> HIDE DEF Half
  <2> QED BY <2>1
<1>5. after = Body(after)
  <2> HIDE DEF Body, all
  <2> QED BY <1>4
<1>6. \A i \in 0..Len(d) : after[i] = IF i = 0 THEN [j \in 1..n |-> 0] ELSE Step(after[i - 1], i)
  <2> HIDE DEF after
  <2> QED BY <1>5, <1>1
<1>7. \A i \in Nat : i \in {k \in Nat : k <= Len(d) => after[k] = Half(k)}
  <2> DEFINE S == {k \in Nat : k <= Len(d) => after[k] = Half(k)}
  <2> HIDE DEF after, Half, Step
  <2>1. 0 \in S
    BY <1>6, <1>2, <1>1
  <2>2. ASSUME NEW i \in Nat, i \in S PROVE i + 1 \in S
    <3>1. CASE i + 1 <= Len(d)
      <4>1. after[i] = Half(i)
        BY <2>2, <3>1, <1>1
      <4>2. i + 1 \in 1..(2 * n) /\ i + 1 \in 0..Len(d) /\ i + 1 # 0 /\ (i + 1) - 1 = i
        BY <3>1
      <4>3. after[i + 1] = Step(after[i], i + 1)
        BY <4>2, <1>6
      <4>4. Step(Half(i), i + 1) = Half(i + 1)
        BY <4>2, <1>3
      <4> QED BY <4>1, <4>3, <4>4
    <3>2. CASE ~(i + 1 <= Len(d))
      BY <3>2
    <3> QED BY <3>1, <3>2
  <2> HIDE DEF S
  <2>3. \A i \in Nat : i \in S
    BY <2>1, <2>2, NatSet
  <2> QED BY <2>3 DEF S
<1>8. after[Len(d)] = Half(Len(d))
  <2> HIDE DEF after, Half
  <2> QED BY <1>7, <1>1
<1>9. SC!KeyOf(d) = after[Len(d)]
  BY DEF SC!KeyOf
<1>10. Half(Len(d)) = [j \in 1..n |-> 16 * d[2 * j - 1] + d[2 * j]]
  OBVIOUS
<1> QED BY <1>8, <1>9, <1>10

\* What each connection was asked for last, and that a client with SSL has it.
ScAsked == Settings \cup {SC!NoKey}
ScKeyed(c, k, s) ==
    k.life = "live" /\ k.kind = "client" /\ "SSL" \in k.flags =>
        ~SC!PskFails(s) /\ k.ctx.psk = SC!Psk(s)
ScKeys ==
    asked \in [SslConns -> ScAsked] /\ \A c \in SslConns : ScKeyed(c, conn[c], asked[c])

\* The steps change one connection and what it was asked for.
LEMMA ScKeyStep ==
    ASSUME ScTyped, ScKeys, NEW c \in SslConns, NEW k, NEW s \in ScAsked, ScKeyed(c, k, s),
           conn' = [conn EXCEPT ![c] = k], asked' = [asked EXCEPT ![c] = s]
    PROVE  ScKeys'
<1>1. asked' \in [SslConns -> ScAsked]  BY DEF ScKeys
<1>2. asked'[c] = s /\ conn'[c] = k  BY DEF ScKeys, ScTyped
<1>3. \A d \in SslConns : d # c => asked'[d] = asked[d] /\ conn'[d] = conn[d]  BY DEF ScKeys, ScTyped
<1>4. \A d \in SslConns : ScKeyed(d, conn'[d], asked'[d])
  <2> SUFFICES ASSUME NEW d \in SslConns PROVE ScKeyed(d, conn'[d], asked'[d])  OBVIOUS
  <2>1. CASE d = c  BY <1>2, <2>1
  <2>2. CASE d # c
    <3>1. ScKeyed(d, conn[d], asked[d])  BY DEF ScKeys
    <3> QED  BY <1>3, <2>2, <3>1
  <2> QED  BY <2>1, <2>2
<1> QED  BY <1>1, <1>4 DEF ScKeys, ScKeyed

\* A configuration that was made has the key that was asked for.
LEMMA ScKeyMade ==
    ASSUME NEW c, NEW kind, NEW s, NEW r \in SC!ConnInit(c, kind, s), r.ok
    PROVE  ~SC!PskFails(s) /\ r.ctx.psk = SC!Psk(s)
<1> DEFINE Ctx(conf, ssl, psk) == [conf |-> conf, ssl |-> ssl, psk |-> psk]
<1>1. \/ r = [ok |-> FALSE, ctx |-> Ctx("NULL", FALSE, <<>>)]
      \/ r = [ok |-> FALSE, ctx |-> Ctx(c, FALSE, <<>>)]
      \/ r = [ok |-> FALSE, ctx |-> Ctx(c, ~SC!OpenSsl, SC!Psk(s))]
      \/ ~SC!PskFails(s) /\ r = [ok |-> TRUE, ctx |-> Ctx(c, kind = "client", SC!Psk(s))]
  BY Zenon DEF SC!ConnInit, SC!NoContext, SC!Context, SC!NULL
<1>2. PICK ssl : ssl = (kind = "client")  OBVIOUS
<1>3. ~SC!PskFails(s) /\ r = [ok |-> TRUE, ctx |-> Ctx(c, ssl, SC!Psk(s))]
  <2>1. ~(r = [ok |-> FALSE, ctx |-> Ctx("NULL", FALSE, <<>>)]) /\ ~(r = [ok |-> FALSE, ctx |-> Ctx(c, FALSE, <<>>)])
    OBVIOUS
  <2>2. ~(r = [ok |-> FALSE, ctx |-> Ctx(c, ~SC!OpenSsl, SC!Psk(s))])
    <3>1. PICK b : b = ~SC!OpenSsl  OBVIOUS
    <3>2. ~(r = [ok |-> FALSE, ctx |-> Ctx(c, b, SC!Psk(s))])  OBVIOUS
    <3> QED  BY <3>1, <3>2, Zenon
  <2> QED  BY <1>1, <1>2, <2>1, <2>2, Zenon
<1> QED  BY <1>3

LEMMA ScKeysKept ==
    ASSUME ScInductive, ScKeys, [SC!Next]_(SC!vars)
    PROVE  ScKeys'
<1>0. ScTyped  BY DEF ScInductive
<1>1. CASE UNCHANGED SC!vars
  BY <1>1 DEF SC!vars, ScKeys, ScKeyed
<1>2. ASSUME NEW c \in SslConns, NEW k, ScKeyed(c, k, asked[c]), conn' = [conn EXCEPT ![c] = k], asked' = asked
      PROVE  ScKeys'
  <2>1. asked' = [asked EXCEPT ![c] = asked[c]] /\ asked[c] \in ScAsked  BY <1>2 DEF ScKeys
  <2> QED  BY <1>0, <1>2, <2>1, ScKeyStep
<1>3. ASSUME NEW c \in SslConns, NEW kind \in {"listener", "client"}, SC!Open(c, kind)  PROVE ScKeys'
  <2> DEFINE new == [SC!Unused EXCEPT !.life = "live", !.kind = kind]
  <2>1. PICK s \in Settings : \E r \in SC!ConnInit(c, kind, s) :
            \/ conn' = [conn EXCEPT ![c] = new] /\ asked' = asked
            \/ /\ r.ok /\ asked' = [asked EXCEPT ![c] = s]
               /\ conn' = [conn EXCEPT ![c] = [new EXCEPT !.ctx = r.ctx, !.flags = {"SSL"}]]
            \/ /\ asked' = [asked EXCEPT ![c] = s]
               /\ conn' = [conn EXCEPT ![c] = [new EXCEPT !.life = "closed"]]
    BY <1>3, Zenon DEF SC!Open
  <2>2. PICK r \in SC!ConnInit(c, kind, s) :
            \/ conn' = [conn EXCEPT ![c] = new] /\ asked' = asked
            \/ /\ r.ok /\ asked' = [asked EXCEPT ![c] = s]
               /\ conn' = [conn EXCEPT ![c] = [new EXCEPT !.ctx = r.ctx, !.flags = {"SSL"}]]
            \/ /\ asked' = [asked EXCEPT ![c] = s]
               /\ conn' = [conn EXCEPT ![c] = [new EXCEPT !.life = "closed"]]
    BY <2>1
  <2>3. s \in ScAsked  BY DEF ScAsked
  <2>4. CASE conn' = [conn EXCEPT ![c] = new] /\ asked' = asked
    <3>1. new.flags = {}  BY DEF SC!Unused
    <3>2. ScKeyed(c, new, asked[c])  BY <3>1 DEF ScKeyed
    <3> QED  BY <1>2, <2>4, <3>2
  <2>5. CASE /\ r.ok /\ asked' = [asked EXCEPT ![c] = s]
             /\ conn' = [conn EXCEPT ![c] = [new EXCEPT !.ctx = r.ctx, !.flags = {"SSL"}]]
    <3> DEFINE k == [new EXCEPT !.ctx = r.ctx, !.flags = {"SSL"}]
    <3>1. k.ctx = r.ctx  BY DEF SC!Unused
    <3>2. ~SC!PskFails(s) /\ r.ctx.psk = SC!Psk(s)  BY <2>5, ScKeyMade
    <3> HIDE DEF k
    <3>3. ScKeyed(c, k, s)  BY <3>1, <3>2 DEF ScKeyed
    <3>4. conn' = [conn EXCEPT ![c] = k]  BY <2>5 DEF k
    <3> QED  BY <1>0, <2>3, <2>5, <3>3, <3>4, ScKeyStep
  <2>6. CASE /\ asked' = [asked EXCEPT ![c] = s]
             /\ conn' = [conn EXCEPT ![c] = [new EXCEPT !.life = "closed"]]
    <3> DEFINE k == [new EXCEPT !.life = "closed"]
    <3>1. k.life = "closed"  BY DEF SC!Unused
    <3> HIDE DEF k
    <3>3. ScKeyed(c, k, s)  BY <3>1 DEF ScKeyed
    <3>4. conn' = [conn EXCEPT ![c] = k]  BY <2>6 DEF k
    <3> QED  BY <1>0, <2>3, <2>6, <3>3, <3>4, ScKeyStep
  <2> QED  BY <2>2, <2>4, <2>5, <2>6
<1>4. ASSUME NEW c \in SslConns, SC!SetSsl(c)  PROVE ScKeys'
  <2>1. PICK r \in SC!ConnInit(c, conn[c].kind, SC!NoKey) :
        /\ asked' = [asked EXCEPT ![c] = SC!NoKey]
        /\ conn' = [conn EXCEPT ![c].ctx = IF r.ctx = SC!NoContext THEN @ ELSE r.ctx,
                                ![c].flags = IF r.ok THEN @ \cup {"SSL"} ELSE @]
    BY <1>4, Zenon DEF SC!SetSsl
  <2>2. "SSL" \notin conn[c].flags /\ conn[c] \in ScConn  BY <1>4, <1>0 DEF SC!SetSsl, ScTyped
  <2>3. SC!NoKey \in ScAsked  BY DEF ScAsked
  <2> DEFINE ctx == IF r.ctx = SC!NoContext THEN conn[c].ctx ELSE r.ctx
             k == [conn[c] EXCEPT !.ctx = ctx, !.flags = IF r.ok THEN @ \cup {"SSL"} ELSE @]
  <2>4. conn' = [conn EXCEPT ![c] = k]  BY <1>0, <2>1 DEF ScTyped
  <2>5. k.ctx = ctx /\ k.flags = IF r.ok THEN conn[c].flags \cup {"SSL"} ELSE conn[c].flags
    BY <2>2 DEF ScConn
  <2> HIDE DEF k
  <2>6. ScKeyed(c, k, SC!NoKey)
    <3>1. CASE ~r.ok  BY <2>2, <2>5, <3>1 DEF ScKeyed
    <3>2. CASE r.ok
      <4>1. ~SC!PskFails(SC!NoKey) /\ r.ctx.psk = SC!Psk(SC!NoKey)  BY <3>2, ScKeyMade
      <4>2. k.kind = conn[c].kind /\ k.life = conn[c].life  BY <2>2 DEF k, ScConn
      <4>3. r.ctx.conf # "NULL"
        <5>1. conn[c].kind \in {"listener", "client"}
          BY <1>4, <2>2 DEF SC!SetSsl, ScConn
        <5>2. SC!Psk(SC!NoKey) \in ScPsks  BY DEF SC!Psk, ScPsks
        <5> QED  BY <3>2, <5>1, <5>2, ScConnInit
      <4>4. r.ctx # SC!NoContext  BY <4>3 DEF SC!NoContext, SC!Context, SC!NULL
      <4> QED  BY <2>5, <4>1, <4>4 DEF ScKeyed
    <3> QED  BY <3>1, <3>2
  <2> QED  BY <1>0, <2>1, <2>3, <2>4, <2>6, ScKeyStep
<1>5. ASSUME NEW c \in SslConns, NEW f \in {"HANDSHAKE_DONE", "CLOSE_IMMEDIATELY"},
             conn' = [conn EXCEPT ![c].flags = @ \cup {f}], asked' = asked
      PROVE  ScKeys'
  <2> DEFINE k == [conn[c] EXCEPT !.flags = @ \cup {f}]
  <2>1. conn[c] \in ScConn  BY <1>0 DEF ScTyped
  <2>2. /\ k.life = conn[c].life /\ k.kind = conn[c].kind /\ k.ctx = conn[c].ctx
        /\ k.flags = conn[c].flags \cup {f}
    BY <2>1 DEF ScConn
  <2>3. conn' = [conn EXCEPT ![c] = k]  BY <1>0, <1>5 DEF ScTyped
  <2> HIDE DEF k
  <2>4. ScKeyed(c, conn[c], asked[c])  BY DEF ScKeys
  <2>5. ScKeyed(c, k, asked[c])  BY <2>2, <2>4 DEF ScKeyed
  <2> QED  BY <1>2, <1>5, <2>3, <2>5
<1>6. ASSUME NEW c \in SslConns, SC!Handshake(c)  PROVE ScKeys'
  BY <1>5, <1>6 DEF SC!Handshake
<1>7. ASSUME NEW c \in SslConns, SC!ReadWrite(c)  PROVE ScKeys'
  <2>1. asked' = asked /\ (conn' = conn \/ conn' = [conn EXCEPT ![c].flags = @ \cup {"CLOSE_IMMEDIATELY"}])
    BY <1>7, Zenon DEF SC!ReadWrite
  <2>2. CASE conn' = conn  BY <2>1, <2>2 DEF ScKeys, ScKeyed
  <2> QED  BY <1>5, <2>1, <2>2
<1>8. ASSUME NEW c \in SslConns, SC!Close(c)  PROVE ScKeys'
  <2> DEFINE k == [conn[c] EXCEPT !.life = "closed", !.ctx = SC!NoContext]
  <2>1. asked' = asked /\ conn' = [conn EXCEPT ![c].life = "closed", ![c].ctx = SC!NoContext]
    BY <1>8 DEF SC!Close
  <2>2. conn[c] \in ScConn  BY <1>0 DEF ScTyped
  <2>3. conn' = [conn EXCEPT ![c] = k] /\ k.life = "closed"  BY <1>0, <2>1, <2>2 DEF ScTyped, ScConn
  <2> HIDE DEF k
  <2>4. ScKeyed(c, k, asked[c])  BY <2>3 DEF ScKeyed
  <2> QED  BY <1>2, <2>1, <2>3, <2>4
<1>9. ASSUME NEW c \in SslConns, NEW l \in SslConns, SC!Accept(c, l)  PROVE ScKeys'
  <2> DEFINE new == [SC!Unused EXCEPT !.life = "live", !.kind = "accepted", !.lc = l, !.flags = {"SSL"},
                         !.ctx = SC!Context(IF SC!OpenSsl THEN conn[l].ctx.conf ELSE SC!NULL, TRUE, <<>>)]
             gone == [new EXCEPT !.life = "closed", !.ctx = SC!NoContext]
  <2>1. asked' = asked /\ (conn' = [conn EXCEPT ![c] = new] \/ conn' = [conn EXCEPT ![c] = gone])
    BY <1>9, Zenon DEF SC!Accept
  <2>2. new.kind = "accepted" /\ gone.kind = "accepted"  BY DEF SC!Unused
  <2> HIDE DEF new, gone
  <2>3. ScKeyed(c, new, asked[c]) /\ ScKeyed(c, gone, asked[c])  BY <2>2 DEF ScKeyed
  <2> QED  BY <1>2, <2>1, <2>3
<1>10. CASE SC!Next
  <2>2. PICK c \in SslConns :
            \/ SC!Open(c, "listener") \/ SC!Open(c, "client") \/ SC!SetSsl(c) \/ SC!Handshake(c)
            \/ SC!ReadWrite(c) \/ SC!Close(c) \/ \E l \in SslConns : SC!Accept(c, l)
    BY <1>10 DEF SC!Next
  <2> QED  BY <2>2, <1>3, <1>4, <1>6, <1>7, <1>8, <1>9
<1> QED  BY <1>1, <1>10

LEMMA ScKeysInit == SC!Init => ScKeys
<1> SUFFICES ASSUME SC!Init PROVE ScKeys
  OBVIOUS
<1>1. conn = [c \in SslConns |-> SC!Unused] /\ asked = [c \in SslConns |-> SC!NoKey]  BY DEF SC!Init
<1>2. SC!Unused.flags = {} /\ SC!NoKey \in ScAsked  BY DEF SC!Unused, ScAsked
<1> QED  BY <1>1, <1>2 DEF ScKeys, ScKeyed

\* What is not more than 15 is a digit of a key.
LEMMA ScNibble == \A x \in Nat : ~(x > 15) => x \in 0..15
  OBVIOUS


\* A client has the key of the digits it was asked for, 32 or 64 of them, or none.
LEMMA ScKeysSound == ScKeys => SC!KeyAsAsked
<1> SUFFICES ASSUME ScKeys, NEW c \in SslConns, SC!Live(c), conn[c].kind = "client",
                    "SSL" \in conn[c].flags
             PROVE  LET s == asked[c]
                        psk == conn[c].ctx.psk
                        key == [j \in 1..(Len(s.key) \div 2) |-> 16 * s.key[2 * j - 1] + s.key[2 * j]]
                    IN  IF s.key = <<>> THEN psk = <<>>
                        ELSE /\ Len(s.key) \in {32, 64} /\ \A i \in DOMAIN s.key : s.key[i] \in 0..15
                             /\ SC!PskCb(psk, 128, 32) = IF Len(s.identity) < 128 THEN <<s.identity, key>> ELSE <<>>
  BY DEF SC!KeyAsAsked
<1> DEFINE s == asked[c]
           psk == conn[c].ctx.psk
           key == [j \in 1..(Len(s.key) \div 2) |-> 16 * s.key[2 * j - 1] + s.key[2 * j]]
<1>1. s \in [identity : Seq(Nat), key : Seq(Nat)]
  <2>1. s \in Settings \/ s = SC!NoKey  BY DEF ScKeys, ScAsked
  <2>2. SC!NoKey \in [identity : Seq(Nat), key : Seq(Nat)]
    <3>1. <<>> \in Seq(Nat)  BY EmptySeq
    <3> QED  BY <3>1 DEF SC!NoKey
  <2> QED  BY <2>1, <2>2, PortsAssumption
<1>2. ~SC!PskFails(s) /\ psk = SC!Psk(s)  BY DEF ScKeys, ScKeyed, SC!Live
<1>3. PICK id \in Seq(Nat), d \in Seq(Nat) : s = [identity |-> id, key |-> d]  BY <1>1
<1> HIDE DEF s, psk
<1>4. s.identity = id /\ s.key = d  BY <1>3
<1>5. CASE d = <<>>
  <2>1. id = <<>>  BY <1>2, <1>4, <1>5, Zenon DEF SC!PskFails
  <2>2. psk = <<>>  BY <1>2, <1>3, <1>5, <2>1 DEF SC!Psk, SC!NoKey
  <2> QED  BY <1>4, <1>5, <2>2 DEF s, psk
<1>6. CASE d # <<>>
  <2>1. (Len(d) = 32 \/ Len(d) = 64) /\ \A i \in DOMAIN d : ~(d[i] > 15)
    BY <1>2, <1>4, <1>6 DEF SC!PskFails
  <2>2. \A i \in DOMAIN d : d[i] \in 0..15
    <3> SUFFICES ASSUME NEW i \in DOMAIN d PROVE d[i] \in 0..15
      OBVIOUS
    <3>1. d[i] \in Nat  BY ElementOfSeq, LenProperties
    <3>2. ~(d[i] > 15)  BY <2>1
    <3> QED  BY <3>1, <3>2, ScNibble, Zenon
  <2>3. PICK n \in Nat : Len(d) = 2 * n /\ n <= 32 /\ Len(d) \div 2 = n
    <3>1. CASE Len(d) = 32
      <4>1. 16 \in Nat /\ Len(d) = 2 * 16 /\ 16 <= 32 /\ Len(d) \div 2 = 16  BY <3>1
      <4> QED  BY <4>1
    <3>2. CASE Len(d) = 64
      <4>1. 32 \in Nat /\ Len(d) = 2 * 32 /\ 32 <= 32 /\ Len(d) \div 2 = 32  BY <3>2
      <4> QED  BY <4>1
    <3> QED  BY <2>1, <3>1, <3>2
  <2> DEFINE bytes == [j \in 1..n |-> 16 * d[2 * j - 1] + d[2 * j]]
  <2>4. SC!KeyOf(d) = bytes  BY <2>3, ScKeyOf
  <2>5. Len(bytes) = n  BY <2>3
  <2>6. s # SC!NoKey  BY <1>3, <1>6 DEF SC!NoKey
  <2> HIDE DEF bytes
  <2>7. psk = <<id, bytes>>  BY <1>2, <1>4, <2>4, <2>6 DEF SC!Psk
  <2>8. psk[1] = id /\ psk[2] = bytes  BY <2>7
  <2>9. SC!PskCb(psk, 128, 32) = IF Len(id) + 1 > 128 THEN <<>> ELSE psk
    BY <2>3, <2>5, <2>8 DEF SC!PskCb
  <2>10. Len(id) \in Nat  BY LenProperties
  <2>11. SC!PskCb(psk, 128, 32) = IF Len(id) < 128 THEN <<id, bytes>> ELSE <<>>
    BY <2>7, <2>9, <2>10
  <2>12. key = bytes  BY <1>4, <2>3 DEF bytes
  <2>13. Len(d) \in {32, 64}  BY <2>1
  <2> QED  BY <1>4, <1>6, <2>2, <2>11, <2>12, <2>13 DEF s, psk
<1> QED  BY <1>5, <1>6
-----------------------------------------------------------------------------
\* For any number of connections, with OpenSSL and with mbedTLS, the configuration
\* of a session that is used has not been freed, in whatever order the listener
\* and its connections are closed (with mbedTLS while no listener goes first),
\* and one nobody can reach has been (mg_ssl_if_conn_init, mg_ssl_if_conn_accept,
\* mg_ssl_if_conn_free, mg_set_ssl); and a client that uses SSL has the identity
\* and the key that were given for it, whatever their length, or no key
\* (mg_ssl_if_ossl_set_psk, mg_ssl_if_ossl_psk_cb).
THEOREM ConfigurationsCounted == SC!Spec => []SslConfigurations
<1>1. ScInductive /\ ScKeys /\ [SC!Next]_(SC!vars) => (ScInductive /\ ScKeys)'  BY ScStep, ScKeysKept
<1>2. ScInductive /\ ScKeys => SslConfigurations  BY ScSound, ScKeysSound DEF SslConfigurations
<1>3. SC!Init => ScInductive /\ ScKeys  BY ScInit, ScKeysInit
<1> QED  BY <1>1, <1>2, <1>3, PTL DEF SC!Spec
-----------------------------------------------------------------------------
(* Tun: the dispatcher connections are used one after another, and the frames  *)
(* of a stream come in the order in which they were sent.                      *)

TnFrame == [stream : TN!Streams, body : Nat, end : BOOLEAN]
TnTunnel == [stream : TN!Streams, session : TN!Sessions, closing : BOOLEAN, got : Seq(Nat)]

TnClient == [live : BOOLEAN, disp : 0..MaxSessions, last : 0..MaxStreams, timer : BOOLEAN,
             reconnect : {"open", "closing", "gone"}]

TnTyped ==
    /\ client \in TnClient
    /\ disps \in [TN!Sessions -> [life : {"none", "open", "closed"}, closing : BOOLEAN, user : BOOLEAN]]
    /\ tunnels \subseteq TnTunnel /\ pipe \in Seq(TnFrame) /\ sent \in [TN!Streams -> Nat]
    /\ frames \in 0..MaxFrames /\ Len(pipe) <= frames

TnLatest == Cardinality(TN!Used)

\* Only the last dispatcher connection may be open, and it is the client's.
TnDispatcher ==
    /\ TnLatest \in 0..MaxSessions /\ TN!Used = 1..TnLatest
    /\ \A s \in TN!Sessions : disps[s].life = "open" =>
          /\ s = client.disp /\ s = TnLatest
          /\ client.live => disps[s].user
          /\ ~client.live => disps[s].closing /\ ~disps[s].user
    /\ client.live => (client.disp # 0 => disps[client.disp].life = "open") /\ (client.timer => client.disp = 0)

TnBodies(i) == {pipe[k].body : k \in TN!UnderWay(i)}

TnOrdered ==
    /\ \A j, k \in DOMAIN pipe : j < k /\ pipe[j].stream = pipe[k].stream => pipe[j].body < pipe[k].body
    /\ \A k \in DOMAIN pipe : pipe[k].body \in 1..sent[pipe[k].stream]

\* The connection of a stream has what came, and the rest is under way.
TnHas(t) ==
    /\ t.session = client.disp /\ Len(t.got) <= sent[t.stream]
    /\ t.got = [i \in 1..Len(t.got) |-> i]
    /\ TnBodies(t.stream) = (Len(t.got) + 1)..sent[t.stream]

TnStreams ==
    /\ \A t, u \in tunnels : t.stream = u.stream => t = u
    /\ \A t \in tunnels : t.stream <= client.last
    /\ client.live => \A t \in tunnels : ~t.closing => client.disp # 0 /\ TnHas(t)
    /\ client.live /\ client.disp # 0 => \A i \in TN!Streams : i > client.last => TnBodies(i) = 1..sent[i]

TnInductive == TnTyped /\ TnDispatcher /\ TnOrdered /\ TnStreams
-----------------------------------------------------------------------------
LEMMA TnCardinality == \A S : TN!Cardinality(S) = Cardinality(S)
BY Zenon DEF TN!Cardinality, Cardinality

\* What the functions of the tunnel say is used depends on disps alone.
LEMMA TnLatestIs ==
  ASSUME NEW n \in Nat, TN!Used = 1..n
  PROVE  TnLatest = n
BY FS_Interval DEF TnLatest

LEMMA TnInit == TN!Init => TnInductive
<1> SUFFICES ASSUME TN!Init PROVE TnInductive
  OBVIOUS
<1>a. MaxSessions \in Nat /\ MaxStreams \in Nat /\ MaxFrames \in Nat  BY PortsAssumption
<1>1. /\ client = [live |-> TRUE, disp |-> 0, last |-> 0, timer |-> TRUE, reconnect |-> "open"]
      /\ disps = [s \in TN!Sessions |-> TN!NoDisp] /\ tunnels = {} /\ pipe = <<>>
      /\ sent = [i \in TN!Streams |-> 0] /\ frames = 0
  BY DEF TN!Init
<1>2. TnTyped
  <2>1. client \in TnClient  BY <1>a, <1>1 DEF TnClient
  <2>2. disps \in [TN!Sessions -> [life : {"none", "open", "closed"}, closing : BOOLEAN, user : BOOLEAN]]
    BY <1>1 DEF TN!NoDisp
  <2>3. tunnels \subseteq TnTunnel /\ sent \in [TN!Streams -> Nat]  BY <1>1
  <2>4. pipe \in Seq(TnFrame) /\ frames \in 0..MaxFrames /\ Len(pipe) <= frames  BY <1>a, <1>1
  <2> QED  BY <2>1, <2>2, <2>3, <2>4 DEF TnTyped
<1>3. TnDispatcher
  <2>1. TN!Used = 1..0  BY <1>1 DEF TN!Used, TN!NoDisp
  <2>2. TnLatest = 0  BY <2>1, TnLatestIs
  <2>3. \A s \in TN!Sessions : disps[s].life # "open"  BY <1>1 DEF TN!NoDisp
  <2>4. client.disp = 0  BY <1>1
  <2> QED  BY <1>a, <2>1, <2>2, <2>3, <2>4 DEF TnDispatcher
<1>4. TnOrdered  BY <1>1 DEF TnOrdered
<1>5. TnStreams  BY <1>1 DEF TnStreams
<1> QED  BY <1>2, <1>3, <1>4, <1>5 DEF TnInductive

\* The client's dispatcher and its timer change.
LEMMA TnClientSet ==
  ASSUME NEW k \in TnClient, NEW d \in 0..MaxSessions, NEW b \in BOOLEAN
  PROVE  LET new == [k EXCEPT !.timer = b, !.disp = d]
         IN  /\ new \in TnClient /\ new = [k EXCEPT !.disp = d, !.timer = b]
             /\ new.live = k.live /\ new.disp = d /\ new.last = k.last /\ new.timer = b
BY DEF TnClient

\* A connection of the dispatcher changes without being a new one.
LEMMA TnSameUsed ==
  ASSUME disps \in [TN!Sessions -> [life : {"none", "open", "closed"}, closing : BOOLEAN, user : BOOLEAN]],
         \A s \in TN!Sessions : disps'[s].life = "none" <=> disps[s].life = "none"
  PROVE  TN!Used' = TN!Used /\ TnLatest' = TnLatest
<1>1. TN!Used' = TN!Used  BY DEF TN!Used
<1> QED  BY <1>1 DEF TnLatest

\* A frame is taken from the pipe.
LEMMA TnTaken ==
  ASSUME pipe \in Seq(TnFrame), pipe # <<>>, TnOrdered, pipe' = Tail(pipe), sent' = sent
  PROVE  /\ pipe' \in Seq(TnFrame) /\ Len(pipe') = Len(pipe) - 1 /\ TnOrdered'
         /\ \A i : TnBodies(i)' = IF i = Head(pipe).stream THEN TnBodies(i) \ {Head(pipe).body} ELSE TnBodies(i)
         /\ Head(pipe).body \in TnBodies(Head(pipe).stream)
         /\ \A b \in TnBodies(Head(pipe).stream) : Head(pipe).body <= b
<1>1. /\ Len(pipe) \in Nat /\ Len(pipe) >= 1 /\ pipe' \in Seq(TnFrame) /\ Len(pipe') = Len(pipe) - 1
      /\ DOMAIN pipe = 1..Len(pipe) /\ DOMAIN pipe' = 1..(Len(pipe) - 1)
      /\ \A k \in 1..(Len(pipe) - 1) : pipe'[k] = pipe[k + 1]
      /\ Head(pipe) = pipe[1]
  OBVIOUS
<1>a. \A k \in DOMAIN pipe : pipe[k] \in TnFrame  OBVIOUS
<1>2. \A k \in DOMAIN pipe : pipe[k] \in TnFrame /\ pipe[k].body \in Nat  BY <1>a DEF TnFrame
<1>3. \A j, k \in DOMAIN pipe : j < k /\ pipe[j].stream = pipe[k].stream => pipe[j].body < pipe[k].body
  BY DEF TnOrdered
<1>4. TnOrdered'
  <2>1. \A j, k \in DOMAIN pipe' : j < k /\ pipe'[j].stream = pipe'[k].stream => pipe'[j].body < pipe'[k].body
    BY <1>1, <1>3
  <2>2. \A k \in DOMAIN pipe' : pipe'[k].body \in 1..sent'[pipe'[k].stream]  BY <1>1 DEF TnOrdered
  <2> QED  BY <2>1, <2>2 DEF TnOrdered
<1>5. \A b \in TnBodies(Head(pipe).stream) : Head(pipe).body <= b
  BY <1>1, <1>2, <1>3 DEF TnBodies, TN!UnderWay
<1>6. Head(pipe).body \in TnBodies(Head(pipe).stream)  BY <1>1 DEF TnBodies, TN!UnderWay
<1>7. ASSUME NEW i
      PROVE  TnBodies(i)' = IF i = Head(pipe).stream THEN TnBodies(i) \ {Head(pipe).body} ELSE TnBodies(i)
  <2>1. TnBodies(i)' = {pipe[k].body : k \in {k \in 2..Len(pipe) : pipe[k].stream = i}}
    <3>1. ASSUME NEW b \in TnBodies(i)'  PROVE \E k \in 2..Len(pipe) : pipe[k].stream = i /\ b = pipe[k].body
      <4>1. PICK k \in 1..(Len(pipe) - 1) : pipe'[k].stream = i /\ b = pipe'[k].body
        BY <1>1 DEF TnBodies, TN!UnderWay
      <4> QED  BY <1>1, <4>1
    <3>2. ASSUME NEW k \in 2..Len(pipe), pipe[k].stream = i  PROVE pipe[k].body \in TnBodies(i)'
      <4>1. k - 1 \in 1..(Len(pipe) - 1) /\ pipe'[k - 1] = pipe[k]  BY <1>1
      <4> QED  BY <1>1, <3>2, <4>1 DEF TnBodies, TN!UnderWay
    <3> QED  BY <3>1, <3>2
  <2>2. TnBodies(i) = {pipe[k].body : k \in {k \in 1..Len(pipe) : pipe[k].stream = i}}
    BY <1>1 DEF TnBodies, TN!UnderWay
  <2>3. \A k \in 2..Len(pipe) : pipe[k].stream = Head(pipe).stream => pipe[k].body # Head(pipe).body
    BY <1>1, <1>2, <1>3
  <2>4. \A k \in 1..Len(pipe) : k = 1 \/ k \in 2..Len(pipe)  BY <1>1
  <2>5. \A k \in 2..Len(pipe) : k \in 1..Len(pipe)  BY <1>1
  <2>6. 1 \in 1..Len(pipe)  BY <1>1
  <2>7. CASE i = Head(pipe).stream
    BY <1>1, <2>1, <2>2, <2>3, <2>4, <2>5, <2>6, <2>7
  <2>8. CASE i # Head(pipe).stream
    BY <1>1, <2>1, <2>2, <2>4, <2>5, <2>8
  <2> QED  BY <2>7, <2>8
<1> QED  BY <1>1, <1>4, <1>5, <1>6, <1>7

\* A frame is put into the pipe, the next of its stream.
LEMMA TnSent ==
  ASSUME pipe \in Seq(TnFrame), sent \in [TN!Streams -> Nat], TnOrdered,
         NEW n \in TN!Streams, NEW end \in BOOLEAN,
         pipe' = Append(pipe, [stream |-> n, body |-> sent[n] + 1, end |-> end]),
         sent' = [sent EXCEPT ![n] = @ + 1]
  PROVE  /\ pipe' \in Seq(TnFrame) /\ Len(pipe') = Len(pipe) + 1 /\ TnOrdered'
         /\ \A i : TnBodies(i)' = IF i = n THEN TnBodies(i) \cup {sent[n] + 1} ELSE TnBodies(i)
         /\ sent' \in [TN!Streams -> Nat] /\ \A i \in TN!Streams : sent'[i] = IF i = n THEN sent[i] + 1 ELSE sent[i]
<1> DEFINE f == [stream |-> n, body |-> sent[n] + 1, end |-> end]
<1>1. f \in TnFrame /\ f.stream = n /\ f.body = sent[n] + 1  BY DEF TnFrame
<1>2. pipe' = Append(pipe, f)  OBVIOUS
<1> HIDE DEF f
<1>3. /\ Len(pipe) \in Nat /\ pipe' \in Seq(TnFrame) /\ Len(pipe') = Len(pipe) + 1
      /\ DOMAIN pipe = 1..Len(pipe) /\ DOMAIN pipe' = 1..(Len(pipe) + 1)
      /\ \A k \in 1..Len(pipe) : pipe'[k] = pipe[k]
      /\ pipe'[Len(pipe) + 1] = f
  BY <1>1, <1>2
<1>4. /\ sent' \in [TN!Streams -> Nat]
      /\ \A i \in TN!Streams : sent'[i] = IF i = n THEN sent[i] + 1 ELSE sent[i]
  OBVIOUS
<1>5. \A k \in 1..Len(pipe) : pipe[k] \in TnFrame  BY <1>3
<1>6. \A k \in 1..Len(pipe) : /\ pipe[k].stream \in TN!Streams /\ pipe[k].body \in 1..sent[pipe[k].stream]
  BY <1>3, <1>5 DEF TnOrdered, TnFrame
<1>7. TnOrdered'
  <2>1. ASSUME NEW j \in 1..(Len(pipe) + 1), NEW k \in 1..(Len(pipe) + 1), j < k,
               pipe'[j].stream = pipe'[k].stream
        PROVE  pipe'[j].body < pipe'[k].body
    <3>1. j \in 1..Len(pipe)  BY <1>3, <2>1
    <3>2. CASE k = Len(pipe) + 1
      <4>1. pipe[j].stream = n  BY <1>1, <1>3, <2>1, <3>1, <3>2
      <4>2. pipe[j].body \in 1..sent[n] /\ sent[n] \in Nat  BY <1>6, <3>1, <4>1
      <4> QED  BY <1>1, <1>3, <3>1, <3>2, <4>2
    <3>3. CASE k \in 1..Len(pipe)
      BY <1>3, <2>1, <3>1, <3>3 DEF TnOrdered
    <3> QED  BY <1>3, <3>2, <3>3
  <2>2. ASSUME NEW k \in 1..(Len(pipe) + 1)  PROVE pipe'[k].body \in 1..sent'[pipe'[k].stream]
    <3>1. CASE k = Len(pipe) + 1  BY <1>1, <1>3, <1>4, <3>1
    <3>2. CASE k \in 1..Len(pipe)
      <4>1. pipe'[k] = pipe[k] /\ pipe[k].stream \in TN!Streams /\ pipe[k].body \in 1..sent[pipe[k].stream]
        BY <1>3, <1>6, <3>2
      <4>2. sent[pipe[k].stream] \in Nat /\ sent'[pipe[k].stream] \in Nat /\ sent[pipe[k].stream] <= sent'[pipe[k].stream]
        BY <1>4, <4>1
      <4> QED  BY <4>1, <4>2
    <3> QED  BY <1>3, <3>1, <3>2
  <2> QED  BY <1>3, <2>1, <2>2 DEF TnOrdered
<1>8. ASSUME NEW i
      PROVE  TnBodies(i)' = IF i = n THEN TnBodies(i) \cup {sent[n] + 1} ELSE TnBodies(i)
  <2>1. TnBodies(i) = {pipe[k].body : k \in {k \in 1..Len(pipe) : pipe[k].stream = i}}
    BY <1>3 DEF TnBodies, TN!UnderWay
  <2>2. TnBodies(i)' = {pipe'[k].body : k \in {k \in 1..(Len(pipe) + 1) : pipe'[k].stream = i}}
    BY <1>3 DEF TnBodies, TN!UnderWay
  <2>3. \A k \in 1..(Len(pipe) + 1) : k = Len(pipe) + 1 \/ k \in 1..Len(pipe)  BY <1>3
  <2>4. Len(pipe) + 1 \in 1..(Len(pipe) + 1) /\ \A k \in 1..Len(pipe) : k \in 1..(Len(pipe) + 1)  BY <1>3
  <2>5. CASE i = n  BY <1>1, <1>3, <2>1, <2>2, <2>3, <2>4, <2>5
  <2>6. CASE i # n  BY <1>1, <1>3, <2>1, <2>2, <2>3, <2>4, <2>6
  <2> QED  BY <2>5, <2>6
<1> QED  BY <1>3, <1>4, <1>7, <1>8

LEMMA TnSends ==
  ASSUME TnInductive, NEW n \in TN!Streams, NEW end \in BOOLEAN, TN!DispatcherSends(n, end)
  PROVE  TnInductive'
<1>1. TnTyped /\ TnDispatcher /\ TnOrdered /\ TnStreams  BY DEF TnInductive
<1>2. /\ frames < MaxFrames /\ TN!Cardinality(TN!Used) > 0 /\ disps[TN!Cardinality(TN!Used)].life = "open"
      /\ pipe' = Append(pipe, [stream |-> n, body |-> sent[n] + 1, end |-> end])
      /\ sent' = [sent EXCEPT ![n] = @ + 1] /\ frames' = frames + 1
      /\ UNCHANGED <<client, suppress, disps, tunnels, wild>>
  BY DEF TN!DispatcherSends
<1>3. /\ pipe' \in Seq(TnFrame) /\ Len(pipe') = Len(pipe) + 1 /\ TnOrdered'
      /\ \A i : TnBodies(i)' = IF i = n THEN TnBodies(i) \cup {sent[n] + 1} ELSE TnBodies(i)
      /\ sent' \in [TN!Streams -> Nat] /\ \A i \in TN!Streams : sent'[i] = IF i = n THEN sent[i] + 1 ELSE sent[i]
  BY <1>1, <1>2, TnSent DEF TnTyped
<1>4. TnTyped'
  <2>1. frames' \in 0..MaxFrames /\ Len(pipe') <= frames'
    BY <1>1, <1>2, <1>3, PortsAssumption DEF TnTyped
  <2> QED  BY <1>1, <1>2, <1>3, <2>1 DEF TnTyped
<1>5. TnDispatcher'  BY <1>1, <1>2 DEF TnDispatcher, TnLatest, TN!Used
<1>6. TnStreams'
  <2>1. ASSUME client.live, NEW t \in tunnels, ~t.closing  PROVE client.disp # 0 /\ TnHas(t)'
    <3>1. client.disp # 0 /\ TnHas(t) /\ t \in TnTunnel  BY <1>1, <2>1 DEF TnStreams, TnTyped
    <3>2. t.stream \in TN!Streams /\ t.got \in Seq(Nat)  BY <3>1 DEF TnTunnel
    <3>3. Len(t.got) \in Nat /\ sent[t.stream] \in Nat  BY <1>1, <3>2 DEF TnTyped
    <3>4. Len(t.got) <= sent'[t.stream] /\ TnBodies(t.stream)' = (Len(t.got) + 1)..sent'[t.stream]
      <4>1. CASE t.stream = n
        <5>1. TnBodies(n)' = ((Len(t.got) + 1)..sent[n]) \cup {sent[n] + 1} /\ sent'[n] = sent[n] + 1
              /\ Len(t.got) <= sent[n]
          BY <1>3, <3>1, <4>1 DEF TnHas
        <5> QED  BY <3>3, <4>1, <5>1
      <4>2. CASE t.stream # n  BY <1>3, <3>1, <3>2, <4>2 DEF TnHas
      <4> QED  BY <4>1, <4>2
    <3> QED  BY <1>2, <3>1, <3>4 DEF TnHas
  <2>2. ASSUME client.live, client.disp # 0, NEW i \in TN!Streams, i > client.last
        PROVE  TnBodies(i)' = 1..sent'[i]
    <3>1. TnBodies(i) = 1..sent[i] /\ sent[i] \in Nat  BY <1>1, <2>2 DEF TnStreams, TnTyped
    <3>2. CASE i = n
      <4>1. TnBodies(i)' = (1..sent[n]) \cup {sent[n] + 1} /\ sent'[i] = sent[n] + 1 /\ sent[n] \in Nat
        BY <1>3, <3>1, <3>2
      <4> QED  BY <4>1
    <3>3. CASE i # n  BY <1>3, <3>1, <3>3
    <3> QED  BY <3>2, <3>3
  <2>3. /\ \A t, u \in tunnels' : t.stream = u.stream => t = u
        /\ \A t \in tunnels' : t.stream <= client'.last
    BY <1>1, <1>2 DEF TnStreams
  <2>4. client' = client /\ tunnels' = tunnels  BY <1>2
  <2> QED  BY <2>1, <2>2, <2>3, <2>4 DEF TnStreams
<1> QED  BY <1>3, <1>4, <1>5, <1>6 DEF TnInductive

\* What goes on with the client while the frames under way and the dispatcher's
\* account of them stay: a tunnel is closed or told to close.
LEMMA TnTunnels ==
  ASSUME TnInductive, tunnels' \subseteq TnTunnel,
         \A t \in tunnels' : t \in tunnels \/ (t.closing /\ \E u \in tunnels : t.stream = u.stream),
         \A t, u \in tunnels' : t.stream = u.stream => t = u,
         UNCHANGED <<client, suppress, disps, pipe, sent, frames>>
  PROVE  TnInductive'
<1>1. TnTyped'  BY DEF TnInductive, TnTyped
<1>2. TnDispatcher' /\ TnOrdered'
  BY DEF TnInductive, TnDispatcher, TnOrdered, TnLatest, TN!Used
<1>3. \A t : TnHas(t)' <=> TnHas(t)  BY DEF TnHas, TnBodies, TN!UnderWay
<1>4. \A i : TnBodies(i)' = TnBodies(i)  BY DEF TnBodies, TN!UnderWay
<1>5. TnStreams'
  <2>1. \A t \in tunnels' : t.stream <= client.last  BY DEF TnInductive, TnStreams
  <2>2. client.live => \A t \in tunnels' : ~t.closing => client.disp # 0 /\ TnHas(t)
    BY DEF TnInductive, TnStreams
  <2>3. client.live /\ client.disp # 0 => \A i \in TN!Streams : i > client.last => TnBodies(i) = 1..sent[i]
    BY DEF TnInductive, TnStreams
  <2> QED  BY <1>3, <1>4, <2>1, <2>2, <2>3 DEF TnStreams
<1> QED  BY <1>1, <1>2, <1>5 DEF TnInductive

LEMMA TnFlagged ==
  ASSUME NEW T \in SUBSET TnTunnel
  PROVE  /\ TN!Flagged(T) \subseteq TnTunnel
         /\ \A f \in TN!Flagged(T) : f.closing /\ \E t \in T : f.stream = t.stream /\ f = [t EXCEPT !.closing = TRUE]
BY DEF TN!Flagged, TnTunnel

LEMMA TnUserClose ==
  ASSUME TnInductive, NEW t \in tunnels, TN!UserClose(t)
  PROVE  TnInductive'
<1>1. tunnels' = (tunnels \ {t}) \cup TN!Flagged({t})  BY DEF TN!UserClose
<1>2. t \in TnTunnel /\ tunnels \subseteq TnTunnel  BY DEF TnInductive, TnTyped
<1>3. /\ TN!Flagged({t}) \subseteq TnTunnel
      /\ \A f \in TN!Flagged({t}) : f.closing /\ f.stream = t.stream /\ f = [t EXCEPT !.closing = TRUE]
  BY <1>2, TnFlagged
<1>4. \A u, v \in tunnels : u.stream = v.stream => u = v  BY DEF TnInductive, TnStreams
<1>5. tunnels' \subseteq TnTunnel  BY <1>1, <1>2, <1>3
<1>6. \A u \in tunnels' : u \in tunnels \/ (u.closing /\ \E v \in tunnels : u.stream = v.stream)
  BY <1>1, <1>3
<1>7. \A u, v \in tunnels' : u.stream = v.stream => u = v  BY <1>1, <1>3, <1>4
<1>8. UNCHANGED <<client, suppress, disps, pipe, sent, frames>>  BY DEF TN!UserClose
<1> QED  BY <1>5, <1>6, <1>7, <1>8, TnTunnels

LEMMA TnTunnelClose ==
  ASSUME TnInductive, NEW t \in tunnels, TN!TunnelClose(t)
  PROVE  TnInductive'
<1>1. tunnels' = tunnels \ {t} /\ UNCHANGED <<client, suppress, disps, pipe, sent, frames>>
  BY DEF TN!TunnelClose
<1>2. tunnels' \subseteq TnTunnel  BY <1>1 DEF TnInductive, TnTyped
<1>3. \A u, v \in tunnels : u.stream = v.stream => u = v  BY DEF TnInductive, TnStreams
<1>4. \A u, v \in tunnels' : u.stream = v.stream => u = v  BY <1>1, <1>3
<1>5. \A u \in tunnels' : u \in tunnels  BY <1>1
<1> QED  BY <1>1, <1>2, <1>4, <1>5, TnTunnels

\* mg_tun_do_reconnect: a new session starts with nothing under way.
LEMMA TnTimer ==
  ASSUME TnInductive, TN!Timer
  PROVE  TnInductive'
<1>1. TnTyped /\ TnDispatcher /\ TnOrdered /\ TnStreams  BY DEF TnInductive
<1> DEFINE n == TnLatest + 1
<1>2. TN!Cardinality(TN!Used) = TnLatest  BY TnCardinality DEF TnLatest
<1>3. client.timer /\ (client.live => n \in TN!Sessions) /\ UNCHANGED <<suppress, tunnels>>
  BY <1>2 DEF TN!Timer
<1>4. CASE UNCHANGED <<client, disps, pipe, sent, frames>>
  <2>1. tunnels' \subseteq TnTunnel /\ \A t, u \in tunnels' : t.stream = u.stream => t = u
    BY <1>1, <1>3 DEF TnTyped, TnStreams
  <2>2. \A t \in tunnels' : t \in tunnels  BY <1>3
  <2> QED  BY <1>3, <1>4, <2>1, <2>2, TnTunnels
<1>5. client.live => client.disp = 0  BY <1>1, <1>3 DEF TnDispatcher
<1>6. CASE client.live /\ client' = [client EXCEPT !.timer = FALSE] /\ UNCHANGED <<disps, pipe, sent, frames>>
  <2>1. /\ client'.live = client.live /\ client'.disp = client.disp /\ client'.last = client.last
        /\ client'.timer = FALSE
    BY <1>1, <1>6 DEF TnTyped, TnClient
  <2>2. TnTyped'  BY <1>1, <1>3, <1>6 DEF TnTyped, TnClient
  <2>3. TnDispatcher'  BY <1>1, <1>6, <2>1 DEF TnDispatcher, TnLatest, TN!Used
  <2>4. TnOrdered'  BY <1>1, <1>6 DEF TnOrdered
  <2>5. \A t \in tunnels : t.closing  BY <1>1, <1>5, <1>6 DEF TnStreams
  <2>6. \A t \in tunnels : t.stream <= client.last  BY <1>1 DEF TnStreams
  <2>7. \A t, u \in tunnels : t.stream = u.stream => t = u  BY <1>1 DEF TnStreams
  <2>8. TnStreams'  BY <1>3, <1>5, <1>6, <2>1, <2>5, <2>6, <2>7 DEF TnStreams
  <2> QED  BY <2>2, <2>3, <2>4, <2>8 DEF TnInductive
<1>7. CASE /\ client.live /\ disps' = [disps EXCEPT ![n] = [life |-> "open", closing |-> FALSE, user |-> TRUE]]
           /\ client' = [client EXCEPT !.timer = FALSE, !.disp = n]
           /\ pipe' = <<>> /\ sent' = [i \in TN!Streams |-> 0] /\ frames' = 0
  <2> DEFINE d == [life |-> "open", closing |-> FALSE, user |-> TRUE]
  <2>a. d.life = "open" /\ d.closing = FALSE /\ d.user = TRUE
        /\ d \in [life : {"none", "open", "closed"}, closing : BOOLEAN, user : BOOLEAN]
    OBVIOUS
  <2>b. disps' = [disps EXCEPT ![n] = d]  BY <1>7
  <2> HIDE DEF d
  <2>0. n \in 1..MaxSessions /\ n \in TN!Sessions /\ TnLatest \in Nat /\ MaxSessions \in Nat
    BY <1>1, <1>3, <1>7, PortsAssumption DEF TnDispatcher, TN!Sessions
  <2>1. /\ client'.live = client.live /\ client'.disp = n /\ client'.last = client.last
        /\ client'.timer = FALSE
    BY <1>1, <1>7 DEF TnTyped, TnClient
  <2>2. disps'[n] = d /\ \A s \in TN!Sessions : s # n => disps'[s] = disps[s]
    BY <1>1, <2>0, <2>b DEF TnTyped
  <2>3. TnTyped'
    <3>0. n \in 0..MaxSessions /\ client \in TnClient  BY <1>1, <2>0 DEF TnTyped
    <3>1. client' \in TnClient  BY <1>7, <3>0, TnClientSet
    <3>2. disps' \in [TN!Sessions -> [life : {"none", "open", "closed"}, closing : BOOLEAN, user : BOOLEAN]]
      BY <1>1, <2>0, <2>a, <2>b DEF TnTyped
    <3>3. pipe' \in Seq(TnFrame) /\ sent' \in [TN!Streams -> Nat] /\ frames' \in 0..MaxFrames /\ Len(pipe') <= frames'
      BY <1>7, PortsAssumption
    <3> QED  BY <1>1, <1>3, <3>1, <3>2, <3>3 DEF TnTyped
  <2>4. TN!Used' = 1..n /\ TnLatest' = n
    <3>1. \A s \in TN!Sessions : s \in TN!Used <=> s \in 1..TnLatest  BY <1>1 DEF TnDispatcher
    <3>2. TN!Used' = {s \in TN!Sessions : disps'[s].life # "none"}  BY DEF TN!Used
    <3>3. TN!Used = {s \in TN!Sessions : disps[s].life # "none"}  BY DEF TN!Used
    <3>4. \A s \in TN!Sessions : s \in TN!Used' <=> s = n \/ s \in TN!Used
      BY <2>0, <2>2, <2>a, <3>2, <3>3
    <3>5. \A s \in 1..n : s \in TN!Sessions /\ (s = n \/ s \in 1..TnLatest)  BY <2>0 DEF TN!Sessions
    <3>6. \A s \in 1..TnLatest : s \in 1..n  BY <2>0
    <3>7. n \in 1..n  BY <2>0
    <3>8. TN!Used' = 1..n
      <4> HIDE DEF n
      <4> QED  BY <3>1, <3>2, <3>4, <3>5, <3>6, <3>7
    <3>9. IsFiniteSet(1..n) /\ Cardinality(1..n) = n  BY <2>0, FS_Interval
    <3> QED  BY <3>8, <3>9 DEF TnLatest
  <2>5. TnDispatcher'
    <3>1. \A s \in TN!Sessions : disps[s].life # "open"
      BY <1>1, <1>5, <1>7 DEF TnDispatcher, TN!Sessions
    <3>2. \A s \in TN!Sessions : disps'[s].life = "open" => s = n  BY <2>2, <3>1
    <3>3. n \in 0..MaxSessions /\ n # 0  BY <2>0
    <3> HIDE DEF n
    <3> QED  BY <1>7, <2>0, <2>1, <2>2, <2>4, <2>a, <3>2, <3>3 DEF TnDispatcher
  <2>6. TnOrdered'  BY <1>7 DEF TnOrdered
  <2>7. TnStreams'
    <3>1. \A t \in tunnels : t.closing  BY <1>1, <1>5, <1>7 DEF TnStreams
    <3>2. \A i \in TN!Streams : TnBodies(i)' = {} /\ sent'[i] = 0  BY <1>7 DEF TnBodies, TN!UnderWay
    <3>3. \A i \in TN!Streams : TnBodies(i)' = 1..sent'[i]  BY <3>2
    <3>4. \A t \in tunnels : t.stream <= client.last  BY <1>1 DEF TnStreams
    <3>5. \A t, u \in tunnels : t.stream = u.stream => t = u  BY <1>1 DEF TnStreams
    <3> QED  BY <1>3, <2>1, <3>1, <3>3, <3>4, <3>5 DEF TnStreams
  <2> QED  BY <2>3, <2>5, <2>6, <2>7 DEF TnInductive
<1> QED  BY <1>2, <1>4, <1>6, <1>7, Zenon DEF TN!Timer

\* mg_tun_client_handler at MG_EV_CLOSE: every tunnel is told to close.
LEMMA TnDispClose ==
  ASSUME TnInductive, NEW s \in TN!Sessions, TN!DispClose(s)
  PROVE  TnInductive'
<1>1. TnTyped /\ TnDispatcher /\ TnOrdered /\ TnStreams  BY DEF TnInductive
<1>2. /\ disps[s].life = "open" /\ disps' = [disps EXCEPT ![s].life = "closed"] /\ pipe' = <<>>
      /\ IF ~disps[s].user THEN UNCHANGED <<client, tunnels>>
         ELSE tunnels' = TN!Flagged(tunnels) /\ client' = [client EXCEPT !.disp = 0, !.timer = TRUE]
      /\ UNCHANGED <<suppress, sent, frames, wild>>
  BY DEF TN!DispClose
<1>3. s = client.disp /\ s = TnLatest /\ (client.live <=> disps[s].user)  BY <1>1, <1>2 DEF TnDispatcher
<1>4. /\ disps' \in [TN!Sessions -> [life : {"none", "open", "closed"}, closing : BOOLEAN, user : BOOLEAN]]
      /\ disps'[s].life = "closed" /\ \A x \in TN!Sessions : x # s => disps'[x] = disps[x]
  BY <1>1, <1>2 DEF TnTyped
<1>5. TN!Used' = TN!Used /\ TnLatest' = TnLatest
  <2>1. \A x \in TN!Sessions : disps'[x].life = "none" <=> disps[x].life = "none"  BY <1>2, <1>4
  <2> QED  BY <1>1, <2>1, TnSameUsed DEF TnTyped
<1>6. \A x \in TN!Sessions : disps'[x].life # "open"  BY <1>1, <1>3, <1>4 DEF TnDispatcher
<1>7. TnOrdered'  BY <1>2 DEF TnOrdered
<1>8. pipe' \in Seq(TnFrame) /\ Len(pipe') = 0 /\ frames' \in 0..MaxFrames /\ Len(pipe') <= frames' /\ sent' = sent
  BY <1>1, <1>2, PortsAssumption DEF TnTyped
<1>9. CASE ~disps[s].user
  <2>1. client' = client /\ tunnels' = tunnels /\ ~client.live  BY <1>2, <1>3, <1>9
  <2>2. TnTyped'  BY <1>1, <1>4, <1>8, <2>1 DEF TnTyped
  <2>3. TnDispatcher'  BY <1>1, <1>5, <1>6, <2>1 DEF TnDispatcher
  <2>4. TnStreams'  BY <1>1, <2>1 DEF TnStreams
  <2> QED  BY <1>7, <2>2, <2>3, <2>4 DEF TnInductive
<1>10. CASE disps[s].user
  <2>1. /\ client' = [client EXCEPT !.disp = 0, !.timer = TRUE] /\ tunnels' = TN!Flagged(tunnels)
    BY <1>2, <1>10
  <2>0. 0 \in 0..MaxSessions /\ client \in TnClient  BY <1>1, PortsAssumption DEF TnTyped
  <2>2. /\ client'.live = client.live /\ client'.disp = 0 /\ client'.last = client.last
        /\ client' \in TnClient
    <3> DEFINE new == [client EXCEPT !.disp = 0, !.timer = TRUE]
    <3>1. new.live = client.live /\ new.disp = 0 /\ new.last = client.last /\ new \in TnClient
      BY <2>0 DEF TnClient
    <3> QED  BY Zenon, <2>1, <3>1
  <2>3. tunnels \in SUBSET TnTunnel  BY <1>1 DEF TnTyped
  <2>4. /\ tunnels' \subseteq TnTunnel
        /\ \A f \in tunnels' : f.closing /\ \E t \in tunnels : f.stream = t.stream /\ f = [t EXCEPT !.closing = TRUE]
    BY <2>1, <2>3, TnFlagged
  <2>5. TnTyped'  BY <1>1, <1>4, <1>8, <2>2, <2>4 DEF TnTyped
  <2>6. TnDispatcher'  BY <1>1, <1>5, <1>6, <2>2 DEF TnDispatcher
  <2>7. \A t, u \in tunnels : t.stream = u.stream => t = u  BY <1>1 DEF TnStreams
  <2>8. \A t \in tunnels : t.stream <= client.last  BY <1>1 DEF TnStreams
  <2>9. ASSUME NEW t \in tunnels', NEW u \in tunnels', t.stream = u.stream  PROVE t = u
    <3>1. PICK x \in tunnels : t.stream = x.stream /\ t = [x EXCEPT !.closing = TRUE]  BY <2>4
    <3>2. PICK y \in tunnels : u.stream = y.stream /\ u = [y EXCEPT !.closing = TRUE]  BY <2>4
    <3>3. x = y  BY <2>7, <2>9, <3>1, <3>2
    <3> QED  BY <3>1, <3>2, <3>3
  <2>10. \A t \in tunnels' : t.stream <= client.last  BY <2>4, <2>8
  <2>11. TnStreams'  BY <2>2, <2>4, <2>9, <2>10 DEF TnStreams
  <2> QED  BY <1>7, <2>5, <2>6, <2>11 DEF TnInductive
<1> QED  BY <1>9, <1>10

LEMMA TnListenerClose ==
  ASSUME TnInductive, TN!ListenerClose
  PROVE  TnInductive'
<1>1. TnTyped /\ TnDispatcher /\ TnOrdered /\ TnStreams  BY DEF TnInductive
<1> DEFINE Gone(s) == [disps[s] EXCEPT !.closing = TRUE, !.user = FALSE]
<1>2. /\ client.live /\ UNCHANGED <<suppress, tunnels, pipe, sent, frames, wild>>
      /\ disps' = [s \in TN!Sessions |-> IF s = client.disp THEN Gone(s) ELSE disps[s]]
      /\ client' = [client EXCEPT !.live = FALSE, !.reconnect = "closing"]
  BY DEF TN!ListenerClose
<1>3. /\ client'.live = FALSE /\ client'.disp = client.disp /\ client'.last = client.last /\ client' \in TnClient
  BY <1>1, <1>2 DEF TnTyped, TnClient
<1>4. \A s \in TN!Sessions : /\ Gone(s).life = disps[s].life /\ Gone(s).closing = TRUE /\ Gone(s).user = FALSE
                             /\ Gone(s) \in [life : {"none", "open", "closed"}, closing : BOOLEAN, user : BOOLEAN]
  BY <1>1 DEF TnTyped
<1> HIDE DEF Gone
<1>5. /\ disps' \in [TN!Sessions -> [life : {"none", "open", "closed"}, closing : BOOLEAN, user : BOOLEAN]]
      /\ \A s \in TN!Sessions : disps'[s] = IF s = client.disp THEN Gone(s) ELSE disps[s]
  BY <1>1, <1>2, <1>4 DEF TnTyped
<1>6. TN!Used' = TN!Used /\ TnLatest' = TnLatest
  <2>1. \A s \in TN!Sessions : disps'[s].life = "none" <=> disps[s].life = "none"  BY <1>4, <1>5
  <2> QED  BY <1>1, <2>1, TnSameUsed DEF TnTyped
<1>7. TnTyped'  BY <1>1, <1>2, <1>3, <1>5 DEF TnTyped
<1>8. TnDispatcher'
  <2>1. ASSUME NEW s \in TN!Sessions, disps'[s].life = "open"
        PROVE  s = client.disp /\ s = TnLatest /\ disps'[s].closing = TRUE /\ disps'[s].user = FALSE
    <3>1. disps[s].life = "open"  BY <1>4, <1>5, <2>1
    <3>2. s = client.disp /\ s = TnLatest  BY <1>1, <3>1 DEF TnDispatcher
    <3> QED  BY <1>4, <1>5, <3>2
  <2> QED  BY <1>1, <1>3, <1>6, <2>1 DEF TnDispatcher
<1>9. TnOrdered'  BY <1>1, <1>2 DEF TnOrdered
<1>10. TnStreams'  BY <1>1, <1>2, <1>3 DEF TnStreams
<1> QED  BY <1>7, <1>8, <1>9, <1>10 DEF TnInductive

\* What is read of the client stays.
LEMMA TnReconnectClose ==
  ASSUME TnInductive, TN!ReconnectClose
  PROVE  TnInductive'
<1>1. TnTyped /\ TnDispatcher /\ TnOrdered /\ TnStreams  BY DEF TnInductive
<1>2. client' = [client EXCEPT !.reconnect = "gone"] /\ UNCHANGED <<suppress, disps, tunnels, pipe, sent, frames, wild>>
  BY DEF TN!ReconnectClose
<1>3. /\ client'.live = client.live /\ client'.disp = client.disp /\ client'.last = client.last
      /\ client'.timer = client.timer /\ client' \in TnClient
  BY <1>1, <1>2 DEF TnTyped, TnClient
<1>4. TnTyped'  BY <1>1, <1>2, <1>3 DEF TnTyped
<1>5. TnDispatcher'  BY <1>1, <1>2, <1>3 DEF TnDispatcher, TnLatest, TN!Used
<1>6. TnOrdered'  BY <1>1, <1>2 DEF TnOrdered
<1>7. \A i : TnBodies(i)' = TnBodies(i)  BY <1>2 DEF TnBodies, TN!UnderWay
<1>8. \A t : TnHas(t)' <=> TnHas(t)  BY <1>2, <1>3, <1>7 DEF TnHas
<1>9. TnStreams'  BY <1>1, <1>2, <1>3, <1>7, <1>8 DEF TnStreams
<1> QED  BY <1>4, <1>5, <1>6, <1>9 DEF TnInductive

\* One more body after those in order.
LEMMA TnNext ==
  ASSUME NEW g \in Seq(Nat), g = [i \in 1..Len(g) |-> i], NEW b, b = Len(g) + 1
  PROVE  LET h == Append(g, b)
         IN  h \in Seq(Nat) /\ Len(h) = Len(g) + 1 /\ h = [i \in 1..Len(h) |-> i]
OBVIOUS

\* mg_tun_client_handler at a frame.
LEMMA TnFrameComes ==
  ASSUME TnInductive, TN!Frame
  PROVE  TnInductive'
<1>1. TnTyped /\ TnDispatcher /\ TnOrdered /\ TnStreams  BY DEF TnInductive
<1> DEFINE f == Head(pipe)
           n == f.stream
           tc == TN!FindConn(n)
           Got(t) == [t EXCEPT !.got = IF t.closing THEN @ ELSE Append(@, f.body)]
           new == [stream |-> n, session |-> client.disp, closing |-> FALSE, got |-> <<>>]
<1>2. /\ pipe # <<>> /\ TnLatest > 0 /\ disps[TnLatest].life = "open" /\ ~disps[TnLatest].closing
      /\ pipe' = Tail(pipe)
      /\ client' = [client EXCEPT !.last = IF tc # {} /\ tc \cap tunnels = {} THEN n ELSE @]
      /\ tunnels' = (tunnels \ tc) \cup {Got(t) : t \in {x \in tc : ~f.end}}
      /\ UNCHANGED <<suppress, disps, sent, frames, wild>>
  BY TnCardinality DEF TN!Frame, TnLatest
<1>3. f \in TnFrame /\ n \in TN!Streams /\ f.body \in Nat
  <2>1. pipe \in Seq(TnFrame) /\ pipe # <<>>  BY <1>1, <1>2 DEF TnTyped
  <2>2. f \in TnFrame  BY <2>1
  <2> HIDE DEF f
  <2> QED  BY <2>2 DEF TnFrame
<1>4. /\ pipe' \in Seq(TnFrame) /\ Len(pipe') = Len(pipe) - 1 /\ TnOrdered'
      /\ \A i : TnBodies(i)' = IF i = n THEN TnBodies(i) \ {f.body} ELSE TnBodies(i)
      /\ f.body \in TnBodies(n)
      /\ \A b \in TnBodies(n) : f.body <= b
  BY <1>1, <1>2, TnTaken DEF TnTyped
<1>5. client.live /\ client.disp = TnLatest /\ client.disp # 0 /\ client.disp \in TN!Sessions
  <2>1. TnLatest \in TN!Sessions  BY <1>1, <1>2, PortsAssumption DEF TnDispatcher, TN!Sessions
  <2> QED  BY <1>1, <1>2, <2>1 DEF TnDispatcher, TnTyped, TnClient
<1> DEFINE found == {t \in tunnels : t.stream = n}
<1>6. tc = IF found # {} THEN found ELSE IF n > client.last THEN {new} ELSE {}
  BY DEF TN!FindConn
<1>7. /\ new.stream = n /\ new.session = client.disp /\ new.closing = FALSE /\ new.got = <<>> /\ new \in TnTunnel
  BY <1>3, <1>5 DEF TnTunnel
<1>8. ASSUME NEW t \in TnTunnel
      PROVE  /\ Got(t) \in TnTunnel /\ Got(t).stream = t.stream /\ Got(t).session = t.session
             /\ Got(t).closing = t.closing /\ Got(t).got = IF t.closing THEN t.got ELSE Append(t.got, f.body)
  <2> HIDE DEF f
  <2>1. t.got \in Seq(Nat) /\ t.closing \in BOOLEAN  BY DEF TnTunnel
  <2> DEFINE got == IF t.closing THEN t.got ELSE Append(t.got, f.body)
  <2>2. got \in Seq(Nat)  BY <1>3, <2>1
  <2>3. Got(t) = [t EXCEPT !.got = got]  OBVIOUS
  <2> HIDE DEF got
  <2>4. /\ [t EXCEPT !.got = got] \in TnTunnel
        /\ [t EXCEPT !.got = got].stream = t.stream /\ [t EXCEPT !.got = got].session = t.session
        /\ [t EXCEPT !.got = got].closing = t.closing /\ [t EXCEPT !.got = got].got = got
    BY <2>2 DEF TnTunnel
  <2> HIDE DEF Got
  <2>5. Got(t).got = IF t.closing THEN t.got ELSE Append(t.got, f.body)  BY <2>3, <2>4 DEF got
  <2> QED  BY <2>3, <2>4, <2>5
<1> HIDE DEF Got, f, new
<1>9. /\ tc \subseteq TnTunnel /\ \A t \in tc : t.stream = n
      /\ \A t, u \in tc : t = u
  BY <1>1, <1>6, <1>7 DEF TnTyped, TnStreams
<1>10. \A t \in tunnels : t.stream = n => t \in tc  BY <1>6
<1> DEFINE last == IF tc # {} /\ tc \cap tunnels = {} THEN n ELSE client.last
<1>11. n \in 1..MaxStreams /\ client \in TnClient  BY <1>1, <1>3 DEF TnTyped, TN!Streams
<1>12. last \in 0..MaxStreams /\ client.last <= last /\ client.last \in Nat /\ (tc # {} => n <= last)
  <2>1. client.last \in 0..MaxStreams /\ MaxStreams \in Nat  BY <1>11, PortsAssumption DEF TnClient
  <2>2. CASE tc # {} /\ tc \cap tunnels = {}
    <3>1. found = {}  BY <1>6, <2>2
    <3>2. n > client.last  BY <1>6, <2>2, <3>1
    <3> QED  BY <1>11, <2>1, <2>2, <3>2
  <2>3. CASE ~(tc # {} /\ tc \cap tunnels = {})
    <3>1. tc # {} => \E t \in tunnels : t.stream = n  BY <1>9, <2>3
    <3>2. tc # {} => n <= client.last  BY <1>1, <3>1 DEF TnStreams
    <3> QED  BY <2>1, <2>3, <3>2
  <2> QED  BY <2>2, <2>3
<1>13. /\ client'.live = client.live /\ client'.disp = client.disp /\ client'.last = last
       /\ client'.timer = client.timer /\ client' \in TnClient
  <2> HIDE DEF tc, n
  <2>1. client' = [client EXCEPT !.last = last]  BY <1>2
  <2> HIDE DEF last
  <2> QED  BY <1>11, <1>12, <2>1 DEF TnClient
<1>14. \A t \in tunnels' : \/ t \in tunnels /\ t.stream # n
                           \/ \E x \in tc : t = Got(x)
  BY <1>2, <1>10
<1>15. tunnels' \subseteq TnTunnel
  <2> HIDE DEF tc, n
  <2> QED  BY <1>1, <1>8, <1>9, <1>14 DEF TnTyped
<1>16. TnTyped'
  <2>1. Len(pipe') <= frames /\ frames' = frames  BY <1>1, <1>2, <1>4 DEF TnTyped
  <2> QED  BY <1>1, <1>2, <1>4, <1>13, <1>15, <2>1 DEF TnTyped
<1>17. TnDispatcher'
  BY <1>1, <1>2, <1>13 DEF TnDispatcher, TnLatest, TN!Used
<1>18. \A t, u \in tunnels' : t.stream = u.stream => t = u
  <2>1. \A x \in tc : Got(x).stream = n  BY <1>8, <1>9
  <2>2. \A t, u \in tunnels : t.stream = u.stream => t = u  BY <1>1 DEF TnStreams
  <2> HIDE DEF tc, n
  <2> QED  BY <1>9, <1>14, <2>1, <2>2
<1>19. \A t \in tunnels' : t.stream <= last
  <2>1. \A x \in tc : Got(x).stream = n /\ n <= last  BY <1>8, <1>9, <1>12
  <2>2. \A t \in tunnels : t.stream <= last
    <3>1. \A t \in tunnels : t.stream <= client.last /\ t.stream \in Nat
      BY <1>1 DEF TnStreams, TnTyped, TnTunnel, TN!Streams
    <3>2. last \in Nat  BY <1>12
    <3> HIDE DEF last
    <3> QED  BY <1>12, <3>1, <3>2
  <2> HIDE DEF last, tc
  <2> QED  BY <1>14, <2>1, <2>2
<1>20. \A b \in TnBodies(n) : b \in 1..sent[n]
  BY <1>1 DEF TnBodies, TN!UnderWay, TnOrdered
<1>21. ASSUME NEW t \in tunnels', ~t.closing
       PROVE  TnHas(t)'
  <2>1. CASE t \in tunnels /\ t.stream # n
    <3>1. TnHas(t)  BY <1>1, <1>5, <1>21, <2>1 DEF TnStreams
    <3> QED  BY <1>2, <1>4, <1>13, <2>1, <3>1 DEF TnHas
  <2>2. ASSUME NEW x \in tc, t = Got(x)  PROVE TnHas(t)'
    <3>1. x \in TnTunnel /\ x.stream = n /\ x.got \in Seq(Nat)  BY <1>9 DEF TnTunnel
    <3>2. ~x.closing /\ t.stream = n /\ t.session = x.session /\ t.got = Append(x.got, f.body)
      BY <1>8, <1>21, <2>2, <3>1
    <3>3. /\ x.session = client.disp /\ x.got = [i \in 1..Len(x.got) |-> i]
          /\ TnBodies(n) = (Len(x.got) + 1)..sent[n]
      <4>1. CASE x \in tunnels  BY <1>1, <1>5, <3>1, <3>2, <4>1 DEF TnStreams, TnHas
      <4>2. CASE x \notin tunnels
        <5>1. x = new /\ n > client.last  BY <1>6, <2>2, <4>2
        <5>2. TnBodies(n) = 1..sent[n]  BY <1>1, <1>3, <1>5, <5>1 DEF TnStreams
        <5>3. x.got = <<>> /\ Len(x.got) = 0 /\ x.session = client.disp  BY <1>7, <5>1
        <5>4. x.got = [i \in 1..Len(x.got) |-> i]  BY <5>3
        <5> QED  BY <5>2, <5>3, <5>4
      <4> QED  BY <4>1, <4>2
    <3>4. Len(x.got) \in Nat /\ sent[n] \in Nat  BY <1>1, <1>3, <3>1 DEF TnTyped
    <3>5. f.body = Len(x.got) + 1 /\ Len(x.got) + 1 <= sent[n]
      <4>1. f.body \in (Len(x.got) + 1)..sent[n]  BY <1>4, <3>3
      <4>2. Len(x.got) + 1 \in TnBodies(n)  BY <3>3, <3>4, <4>1
      <4> QED  BY <1>3, <1>4, <3>4, <4>1, <4>2
    <3>6. t.got \in Seq(Nat) /\ Len(t.got) = Len(x.got) + 1 /\ t.got = [i \in 1..Len(t.got) |-> i]
      BY <3>1, <3>2, <3>3, <3>5, TnNext
    <3>7. TnBodies(t.stream)' = (Len(t.got) + 1)..sent[n]
      <4>1. TnBodies(t.stream)' = TnBodies(n) \ {f.body}  BY <1>4, <3>2
      <4>2. TnBodies(t.stream)' = ((Len(x.got) + 1)..sent[n]) \ {Len(x.got) + 1}  BY Zenon, <3>3, <3>5, <4>1
      <4> QED  BY <3>4, <3>6, <4>2
    <3>8. t.session = client'.disp /\ sent' = sent /\ Len(t.got) <= sent[n]
      BY <1>2, <1>13, <3>2, <3>3, <3>5, <3>6
    <3>9. TnBodies(t.stream)' = (Len(t.got) + 1)..sent'[t.stream] /\ Len(t.got) <= sent'[t.stream]
      BY Zenon, <3>2, <3>7, <3>8
    <3> QED  BY Zenon, <3>6, <3>8, <3>9 DEF TnHas
  <2> QED  BY <1>14, <2>1, <2>2
<1>22. ASSUME NEW i \in TN!Streams, i > last  PROVE TnBodies(i)' = 1..sent'[i]
  <2>1. i \in Nat /\ last \in Nat  BY <1>12 DEF TN!Streams
  <2>2. i > client.last  BY <1>12, <1>22, <2>1
  <2>3. i # n
    <3>1. SUFFICES ASSUME i = n PROVE FALSE
      OBVIOUS
    <3>2. tc # {}  BY <1>6, <2>2, <3>1
    <3> QED  BY <1>12, <1>22, <2>1, <3>1, <3>2
  <2> QED  BY <1>1, <1>2, <1>4, <1>5, <2>2, <2>3 DEF TnStreams
<1>23. TnStreams'
  <2> HIDE DEF last
  <2> QED  BY <1>5, <1>13, <1>18, <1>19, <1>21, <1>22 DEF TnStreams
<1> QED  BY <1>4, <1>16, <1>17, <1>23 DEF TnInductive

LEMMA TnStep ==
  ASSUME TnInductive, [TN!Next]_(TN!vars)
  PROVE  TnInductive'
<1>1. ASSUME UNCHANGED <<client, disps, tunnels, pipe, sent, frames>>  PROVE TnInductive'
  BY <1>1 DEF TnInductive, TnTyped, TnDispatcher, TnOrdered, TnStreams, TnLatest, TN!Used, TnHas,
              TnBodies, TN!UnderWay
<1>2. CASE UNCHANGED TN!vars  BY <1>1, <1>2 DEF TN!vars
<1>3. CASE TN!Timer  BY <1>3, TnTimer
<1>4. CASE TN!ReconnectClose  BY <1>4, TnReconnectClose
<1>5. CASE TN!Frame  BY <1>5, TnFrameComes
<1>6. CASE TN!ListenerClose  BY <1>6, TnListenerClose
<1>7. ASSUME NEW on \in BOOLEAN, TN!Suppress(on)  PROVE TnInductive'
  BY <1>1, <1>7 DEF TN!Suppress
<1>8. ASSUME NEW n \in TN!Streams, NEW end \in BOOLEAN, TN!DispatcherSends(n, end)  PROVE TnInductive'
  BY <1>8, TnSends
<1>9. ASSUME NEW s \in TN!Sessions, TN!DispClose(s)  PROVE TnInductive'
  BY <1>9, TnDispClose
<1>10. ASSUME NEW t \in tunnels, TN!TunnelSend(t) \/ TN!UserClose(t) \/ TN!TunnelClose(t)  PROVE TnInductive'
  <2>1. CASE TN!TunnelSend(t)  BY <1>1, <2>1 DEF TN!TunnelSend
  <2>2. CASE TN!UserClose(t)  BY <2>2, TnUserClose
  <2>3. CASE TN!TunnelClose(t)  BY <2>3, TnTunnelClose
  <2> QED  BY <1>10, <2>1, <2>2, <2>3
<1> QED  BY <1>2, <1>3, <1>4, <1>5, <1>6, <1>7, <1>8, <1>9, <1>10 DEF TN!Next

LEMMA TnSound ==
  ASSUME TnInductive
  PROVE  TN!TypeOK /\ TN!OneDispatcher /\ TN!StreamsApart
<1>1. TnTyped /\ TnDispatcher /\ TnOrdered /\ TnStreams  BY DEF TnInductive
<1>2. TN!TypeOK
  <2>1. client.disp \in 0..MaxSessions /\ client.last \in 0..MaxStreams /\ client.reconnect \in {"open", "closing", "gone"}
    BY <1>1 DEF TnTyped, TnClient
  <2>2. \A s \in TN!Sessions : disps[s].life \in {"none", "open", "closed"}  BY <1>1 DEF TnTyped
  <2>3. \A t \in tunnels : t.stream \in TN!Streams /\ t.session \in TN!Sessions  BY <1>1 DEF TnTyped, TnTunnel
  <2>4. Len(pipe) <= MaxFrames  BY <1>1, PortsAssumption DEF TnTyped
  <2> QED  BY <2>1, <2>2, <2>3, <2>4 DEF TN!TypeOK
<1>3. TN!OneDispatcher
  <2> DEFINE now == {s \in TN!Sessions : disps[s].life = "open"}
  <2>1. now \subseteq {client.disp}  BY <1>1 DEF TnDispatcher
  <2>2. Cardinality(now) <= 1
    <3>1. Cardinality({}) = 0  BY FS_EmptySet
    <3>2. Cardinality({client.disp}) = 1  BY FS_Singleton
    <3>3. now = {} \/ now = {client.disp}  BY <2>1
    <3> HIDE DEF now
    <3> QED  BY <3>1, <3>2, <3>3
  <2>3. ASSUME client.live  PROVE now = {client.disp} \ {0} /\ (client.timer => now = {})
    <3>1. CASE client.disp = 0  BY <1>1, <2>1, <3>1, PortsAssumption DEF TN!Sessions
    <3>2. CASE client.disp # 0
      <4>1. client.disp \in TN!Sessions  BY <1>1, <3>2, PortsAssumption DEF TnTyped, TnClient, TN!Sessions
      <4>2. client.disp \in now /\ ~client.timer  BY <1>1, <2>3, <3>2, <4>1 DEF TnDispatcher
      <4> QED  BY <2>1, <3>2, <4>2
    <3> QED  BY <3>1, <3>2
  <2>4. TN!Cardinality(now) <= 1  BY <2>2, TnCardinality
  <2> QED  BY <2>3, <2>4 DEF TN!OneDispatcher
<1>4. TN!StreamsApart
  BY <1>1 DEF TN!StreamsApart, TnStreams, TnHas, TnBodies
<1> QED  BY <1>2, <1>3, <1>4
-----------------------------------------------------------------------------
\* For any number of sessions, streams and frames, a tunnel has one dispatcher
\* connection at a time, and a stream of the present session has got, in order and
\* once, what the dispatcher sent on it up to what is under way, and nothing of an
\* earlier session (mg_tun_client_handler, mg_tun_if_find_conn, mg_tun_do_reconnect).
THEOREM StreamsKeptApart == TN!Spec => []TunnelStreams
<1>1. TnInductive /\ [TN!Next]_(TN!vars) => TnInductive'  BY TnStep
<1>2. TnInductive => TunnelStreams  BY TnSound DEF TunnelStreams
<1> QED  BY <1>1, <1>2, TnInit, PTL DEF TN!Spec
=============================================================================
