----------------------------- MODULE Lwip_proofs ----------------------------
(***************************************************************************)
(* Theorems about LwipIf, as an instance in Ports: the signals between     *)
(* lwIP's task and Mongoose's lose nothing and keep the events in order,   *)
(* with lwIP's task at work between any two steps of Mongoose's.           *)
(*                                                                         *)
(* The argument takes one connection with the signals of it that wait and  *)
(* the one, if any, that is being handled (LwView): each step of either    *)
(* task moves the two together.                                            *)
(***************************************************************************)
EXTENDS Ports, TLAPS, FiniteSetTheorems, FunctionTheorems, SequenceTheorems
-----------------------------------------------------------------------------
(* LwipIf: what the queue holds for one connection, then what the connection   *)
(* and the queue owe each other.                                               *)

LwSigs == {"CONNECT_RESULT", "CLOSE_CONN", "RECV", "SENT_CB", "ACCEPT"}
LwSignal == [sig : LwSigs \cup {"TOMBSTONE"}, nc : LwipConns]

\* Of the signals of c in the queue q: which there are, which have no other before
\* them, which are there only once, and whether data come before an end.
LwAt(q, i, s, c) == q[i].nc = c /\ q[i].sig = s
LwHas(q, c) == {s \in LwSigs : \E i \in 1..Len(q) : LwAt(q, i, s, c)}
LwLeads(q, c) == {s \in LwSigs : \A i \in 1..Len(q) : LwAt(q, i, s, c) =>
                      \A j \in 1..(i - 1) : q[j].nc = c => q[j].sig \notin LwSigs}
LwOnce(q, c) == {s \in LwSigs : \A i, j \in 1..Len(q) : LwAt(q, i, s, c) /\ LwAt(q, j, s, c) => i = j}
LwEnds(q, c) == \E i, j \in 1..Len(q) : i < j /\ LwAt(q, i, "RECV", c) /\ LwAt(q, j, "CLOSE_CONN", c)

\* And whether Mongoose's task is in the middle of one, which tn says.
LwTurn == [at : {"none", "drained", "reading", "telling"}, nc : LwipConns \cup {LW!NULL}, n : Nat]
LwView(q, tn, c) == [has |-> LwHas(q, c), leads |-> LwLeads(q, c), once |-> LwOnce(q, c), ends |-> LwEnds(q, c),
                     at |-> IF tn.nc = c THEN tn.at ELSE "none", n |-> IF tn.nc = c THEN tn.n ELSE 0]
LwViews == [has : SUBSET LwSigs, leads : SUBSET LwSigs, once : SUBSET LwSigs, ends : BOOLEAN,
            at : {"none", "drained", "reading", "telling"}, n : Nat]

\* From the view v to the view w a signal is posted, or the first is taken.
LwPosts(v, w, s) ==
    /\ w \in LwViews /\ w.has = v.has \cup {s} /\ w.at = v.at /\ w.n = v.n
    /\ \A t \in LwSigs \ {s} : (t \in w.leads <=> t \in v.leads) /\ (t \in w.once <=> t \in v.once)
    /\ v.has = {} => s \in w.leads
    /\ s \notin v.has => s \in w.once
    /\ w.ends <=> v.ends \/ (s = "CLOSE_CONN" /\ "RECV" \in v.has)
LwTakes(v, w, s) ==
    /\ w \in LwViews /\ s \in v.has /\ v.has \ {s} \subseteq w.has /\ w.has \subseteq v.has
    /\ v.leads \subseteq w.leads /\ v.once \subseteq w.once
    /\ s \in v.once \cup v.leads => s \notin w.has
    /\ s # "RECV" /\ v.ends => w.ends
    /\ \A t \in v.leads : t # s => t \notin v.has
-----------------------------------------------------------------------------
LEMMA LwViewType == \A q, c : \A tn \in LwTurn : LwView(q, tn, c) \in LwViews
<1> SUFFICES ASSUME NEW q, NEW c, NEW tn \in LwTurn  PROVE LwView(q, tn, c) \in LwViews
  OBVIOUS
<1>1. /\ LwHas(q, c) \in SUBSET LwSigs /\ LwLeads(q, c) \in SUBSET LwSigs /\ LwOnce(q, c) \in SUBSET LwSigs
      /\ LwEnds(q, c) \in BOOLEAN
  BY DEF LwHas, LwLeads, LwOnce, LwEnds
<1>2. tn.at \in {"none", "drained", "reading", "telling"} /\ tn.n \in Nat  BY DEF LwTurn
<1> QED  BY <1>1, <1>2 DEF LwView, LwViews

\* Queues with the same signals of c, at places in the same order.
LwMoved(q, r, c, k) ==
    /\ \A s \in LwSigs, j \in 1..Len(q) : LwAt(q, j, s, c) => j - k \in 1..Len(r) /\ LwAt(r, j - k, s, c)
    /\ \A s \in LwSigs, i \in 1..Len(r) : LwAt(r, i, s, c) => i + k \in 1..Len(q) /\ LwAt(q, i + k, s, c)

LEMMA LwMovedViews ==
  ASSUME NEW q, NEW r, NEW tn, NEW c, NEW k \in Nat, Len(q) \in Nat, Len(r) \in Nat, LwMoved(q, r, c, k)
  PROVE  LwView(r, tn, c) = LwView(q, tn, c)
<1>1. \A s \in LwSigs, j \in 1..Len(q) : LwAt(q, j, s, c) => j - k \in 1..Len(r) /\ LwAt(r, j - k, s, c)
  BY Zenon DEF LwMoved
<1>2. \A s \in LwSigs, i \in 1..Len(r) : LwAt(r, i, s, c) => i + k \in 1..Len(q) /\ LwAt(q, i + k, s, c)
  BY Zenon DEF LwMoved
<1>3. LwHas(r, c) = LwHas(q, c)  BY <1>1, <1>2, Zenon DEF LwHas
<1>4. LwLeads(r, c) = LwLeads(q, c)
  <2>1. ASSUME NEW s \in LwLeads(q, c)  PROVE s \in LwLeads(r, c)
    <3>1. s \in LwSigs  BY <2>1 DEF LwLeads
    <3> SUFFICES ASSUME NEW i \in 1..Len(r), LwAt(r, i, s, c), NEW j \in 1..(i - 1), r[j].nc = c,
                        r[j].sig \in LwSigs
                 PROVE  FALSE
      BY <3>1, Zenon DEF LwLeads
    <3> DEFINE t == r[j].sig
    <3>2. LwAt(r, j, t, c) /\ t \in LwSigs  BY DEF LwAt
    <3> HIDE DEF t
    <3>3. j \in 1..Len(r)  OBVIOUS
    <3>4. j + k \in 1..Len(q) /\ LwAt(q, j + k, t, c)  BY <1>2, <3>2, <3>3
    <3>5. i + k \in 1..Len(q) /\ LwAt(q, i + k, s, c)  BY <1>2, <3>1
    <3>6. j + k \in 1..((i + k) - 1)  OBVIOUS
    <3>7. q[j + k].nc = c /\ q[j + k].sig \in LwSigs  BY <3>2, <3>4 DEF LwAt
    <3> QED  BY <2>1, <3>5, <3>6, <3>7, Zenon DEF LwLeads
  <2>2. ASSUME NEW s \in LwLeads(r, c)  PROVE s \in LwLeads(q, c)
    <3>1. s \in LwSigs  BY <2>2 DEF LwLeads
    <3> SUFFICES ASSUME NEW i \in 1..Len(q), LwAt(q, i, s, c), NEW j \in 1..(i - 1), q[j].nc = c,
                        q[j].sig \in LwSigs
                 PROVE  FALSE
      BY <3>1, Zenon DEF LwLeads
    <3> DEFINE t == q[j].sig
    <3>2. LwAt(q, j, t, c) /\ t \in LwSigs  BY DEF LwAt
    <3> HIDE DEF t
    <3>3. j \in 1..Len(q)  OBVIOUS
    <3>4. j - k \in 1..Len(r) /\ LwAt(r, j - k, t, c)  BY <1>1, <3>2, <3>3
    <3>5. i - k \in 1..Len(r) /\ LwAt(r, i - k, s, c)  BY <1>1, <3>1
    <3>6. j - k \in 1..((i - k) - 1)  BY <3>4
    <3>7. r[j - k].nc = c /\ r[j - k].sig \in LwSigs  BY <3>2, <3>4 DEF LwAt
    <3> QED  BY <2>2, <3>5, <3>6, <3>7, Zenon DEF LwLeads
  <2> QED  BY <2>1, <2>2
<1>5. LwOnce(r, c) = LwOnce(q, c)
  <2>1. ASSUME NEW s \in LwOnce(q, c)  PROVE s \in LwOnce(r, c)
    <3>1. s \in LwSigs  BY <2>1 DEF LwOnce
    <3> SUFFICES ASSUME NEW i \in 1..Len(r), NEW j \in 1..Len(r), LwAt(r, i, s, c), LwAt(r, j, s, c)
                 PROVE  i = j
      BY <3>1, Zenon DEF LwOnce
    <3>2. i + k = j + k  BY <1>2, <2>1, <3>1, Zenon DEF LwOnce
    <3> QED  BY <3>2
  <2>2. ASSUME NEW s \in LwOnce(r, c)  PROVE s \in LwOnce(q, c)
    <3>1. s \in LwSigs  BY <2>2 DEF LwOnce
    <3> SUFFICES ASSUME NEW i \in 1..Len(q), NEW j \in 1..Len(q), LwAt(q, i, s, c), LwAt(q, j, s, c)
                 PROVE  i = j
      BY <3>1, Zenon DEF LwOnce
    <3>2. i - k = j - k  BY <1>1, <2>2, <3>1, Zenon DEF LwOnce
    <3> QED  BY <3>2
  <2> QED  BY <2>1, <2>2
<1>6. LwEnds(r, c) = LwEnds(q, c)
  <2>0. "RECV" \in LwSigs /\ "CLOSE_CONN" \in LwSigs  BY DEF LwSigs
  <2>1. LwEnds(r, c) => LwEnds(q, c)
    <3> SUFFICES ASSUME NEW i \in 1..Len(r), NEW j \in 1..Len(r), i < j, LwAt(r, i, "RECV", c),
                        LwAt(r, j, "CLOSE_CONN", c)
                 PROVE  LwEnds(q, c)
      BY DEF LwEnds
    <3>1. i + k < j + k  OBVIOUS
    <3> QED  BY <1>2, <2>0, <3>1, Zenon DEF LwEnds
  <2>2. LwEnds(q, c) => LwEnds(r, c)
    <3> SUFFICES ASSUME NEW i \in 1..Len(q), NEW j \in 1..Len(q), i < j, LwAt(q, i, "RECV", c),
                        LwAt(q, j, "CLOSE_CONN", c)
                 PROVE  LwEnds(r, c)
      BY DEF LwEnds
    <3>1. i - k < j - k  OBVIOUS
    <3> QED  BY <1>1, <2>0, <3>1, Zenon DEF LwEnds
  <2>3. LwEnds(r, c) \in BOOLEAN /\ LwEnds(q, c) \in BOOLEAN  BY Zenon DEF LwEnds
  <2> QED  BY <2>1, <2>2, <2>3
<1> QED  BY <1>3, <1>4, <1>5, <1>6, Zenon DEF LwView

LEMMA LwPosted ==
  ASSUME NEW q \in Seq(LwSignal), NEW tn \in LwTurn, NEW s \in LwSigs \cup {"TOMBSTONE"}, NEW c \in LwipConns
  PROVE  LET r == Append(q, [sig |-> s, nc |-> c])
         IN  /\ r \in Seq(LwSignal) /\ Len(r) = Len(q) + 1
             /\ s # "TOMBSTONE" => LwPosts(LwView(q, tn, c), LwView(r, tn, c), s)
             /\ \A x \in LwipConns : x # c => LwView(r, tn, x) = LwView(q, tn, x)
<1> DEFINE e == [sig |-> s, nc |-> c]
           n == Len(q)
           r == Append(q, e)
<1>1. e \in LwSignal /\ e.nc = c /\ e.sig = s  BY DEF LwSignal
<1> HIDE DEF e
<1>2. r \in Seq(LwSignal) /\ Len(r) = n + 1 /\ n \in Nat /\ r[n + 1] = e /\ \A i \in 1..n : r[i] = q[i]
  BY <1>1, AppendProperties, LenProperties
<1> HIDE DEF r, n
<1>3. \A i \in 1..n : \A t, x : LwAt(r, i, t, x) <=> LwAt(q, i, t, x)  BY <1>2 DEF LwAt
<1>4. \A t, x : LwAt(r, n + 1, t, x) <=> t = s /\ x = c  BY <1>1, <1>2 DEF LwAt
<1>5. \A i \in 1..(n + 1) : i \in 1..n \/ i = n + 1  BY <1>2
<1>6. \A x \in LwipConns : x # c => LwView(r, tn, x) = LwView(q, tn, x)
  <2> TAKE x \in LwipConns
  <2> HAVE x # c
  <2>1. LwMoved(q, r, x, 0)
    <3>1. \A j \in 1..n : j - 0 = j /\ j \in 1..(n + 1)  BY <1>2
    <3>2. \A i \in 1..(n + 1) : i + 0 = i  BY <1>2
    <3>3. \A t \in LwSigs, j \in 1..n : LwAt(q, j, t, x) => j - 0 \in 1..(n + 1) /\ LwAt(r, j - 0, t, x)
      BY <1>3, <3>1
    <3>4. \A t \in LwSigs, i \in 1..(n + 1) : LwAt(r, i, t, x) => i + 0 \in 1..n /\ LwAt(q, i + 0, t, x)
      BY <1>3, <1>4, <1>5, <3>2
    <3> QED  BY <1>2, <3>3, <3>4 DEF LwMoved, n
  <2>2. Len(q) \in Nat /\ Len(r) \in Nat  BY <1>2 DEF n
  <2> QED  BY <2>1, <2>2, LwMovedViews
<1>7. ASSUME s # "TOMBSTONE"  PROVE LwPosts(LwView(q, tn, c), LwView(r, tn, c), s)
  <2>0. s \in LwSigs  BY <1>7
  <2> DEFINE v == LwView(q, tn, c)
             w == LwView(r, tn, c)
  <2>1. /\ v.has = LwHas(q, c) /\ v.leads = LwLeads(q, c) /\ v.once = LwOnce(q, c) /\ v.ends = LwEnds(q, c)
        /\ w.has = LwHas(r, c) /\ w.leads = LwLeads(r, c) /\ w.once = LwOnce(r, c) /\ w.ends = LwEnds(r, c)
        /\ w.at = v.at /\ w.n = v.n
    BY DEF LwView
  <2>2. w \in LwViews  BY LwViewType
  <2> HIDE DEF v, w
  <2>3. w.has = v.has \cup {s}
    <3>1. \A t \in LwSigs : (\E i \in 1..(n + 1) : LwAt(r, i, t, c)) <=> (\E i \in 1..n : LwAt(q, i, t, c)) \/ t = s
      <4>1. n + 1 \in 1..(n + 1) /\ \A i \in 1..n : i \in 1..(n + 1)  BY <1>2
      <4> QED  BY <1>3, <1>4, <1>5, <4>1, Zenon
    <3> QED  BY <1>2, <2>0, <2>1, <3>1 DEF LwHas, n
  <2>4. ASSUME NEW t \in LwSigs
        PROVE  /\ t # s => (t \in LwLeads(r, c) <=> t \in LwLeads(q, c))
               /\ v.has = {} => s \in LwLeads(r, c)
    <3>1. \A i \in 1..n : \A j \in 1..(i - 1) : r[j] = q[j]  BY <1>2
    <3>2. ASSUME t # s  PROVE t \in LwLeads(r, c) <=> t \in LwLeads(q, c)
      <4>1. \A i \in 1..(n + 1) : LwAt(r, i, t, c) => i \in 1..n /\ LwAt(q, i, t, c)
        BY <1>3, <1>4, <1>5, <3>2
      <4>2. \A i \in 1..n : LwAt(q, i, t, c) => i \in 1..(n + 1) /\ LwAt(r, i, t, c)  BY <1>2, <1>3
      <4> QED  BY <1>2, <3>1, <4>1, <4>2 DEF LwLeads, n
    <3>3. ASSUME v.has = {}  PROVE s \in LwLeads(r, c)
      <4>1. \A u \in LwSigs, i \in 1..n : ~LwAt(q, i, u, c)  BY <2>1, <3>3 DEF LwHas, n
      <4>2. \A u \in LwSigs, i \in 1..n : ~LwAt(r, i, u, c)  BY <1>3, <4>1
      <4>3. \A i \in 1..(n + 1) : LwAt(r, i, s, c) => i = n + 1  BY <1>5, <2>0, <4>2
      <4>4. \A j \in 1..n : r[j].nc = c => r[j].sig \notin LwSigs  BY <4>2 DEF LwAt
      <4>5. (n + 1) - 1 = n  BY <1>2
      <4>6. \A i \in 1..(n + 1) : LwAt(r, i, s, c) => \A j \in 1..(i - 1) : r[j].nc = c => r[j].sig \notin LwSigs
        BY <4>3, <4>4, <4>5, Zenon
      <4> QED  BY <1>2, <2>0, <4>6, Zenon DEF LwLeads
    <3> QED  BY <3>2, <3>3
  <2>5. ASSUME NEW t \in LwSigs
        PROVE  /\ t # s => (t \in LwOnce(r, c) <=> t \in LwOnce(q, c))
               /\ s \notin v.has => s \in LwOnce(r, c)
    <3>1. ASSUME t # s  PROVE t \in LwOnce(r, c) <=> t \in LwOnce(q, c)
      <4>1. \A i \in 1..(n + 1) : LwAt(r, i, t, c) => i \in 1..n /\ LwAt(q, i, t, c)
        BY <1>3, <1>4, <1>5, <3>1
      <4>2. \A i \in 1..n : LwAt(q, i, t, c) => i \in 1..(n + 1) /\ LwAt(r, i, t, c)  BY <1>2, <1>3
      <4> QED  BY <1>2, <4>1, <4>2 DEF LwOnce, n
    <3>2. ASSUME s \notin v.has  PROVE s \in LwOnce(r, c)
      <4>1. \A i \in 1..n : ~LwAt(r, i, s, c)  BY <1>3, <2>0, <2>1, <3>2 DEF LwHas, n
      <4>2. \A i \in 1..(n + 1) : LwAt(r, i, s, c) => i = n + 1  BY <1>5, <4>1
      <4> QED  BY <1>2, <2>0, <4>2 DEF LwOnce
    <3> QED  BY <3>1, <3>2
  <2>6. w.ends <=> v.ends \/ (s = "CLOSE_CONN" /\ "RECV" \in v.has)
    <3>1. ASSUME NEW i \in 1..(n + 1), NEW j \in 1..(n + 1), i < j, LwAt(r, i, "RECV", c), LwAt(r, j, "CLOSE_CONN", c)
          PROVE  LwEnds(q, c) \/ (s = "CLOSE_CONN" /\ "RECV" \in v.has)
      <4>1. i \in 1..n /\ LwAt(q, i, "RECV", c)  BY <1>2, <1>3, <3>1
      <4>2. CASE j \in 1..n  BY <1>3, <3>1, <4>1, <4>2 DEF LwEnds, n
      <4>3. CASE j = n + 1
        <5>1. s = "CLOSE_CONN"  BY <1>4, <3>1, <4>3
        <5>2. "RECV" \in v.has  BY <2>1, <4>1 DEF LwHas, LwSigs, n
        <5> QED  BY <5>1, <5>2
      <4> QED  BY <1>5, <4>2, <4>3
    <3>2. LwEnds(q, c) => LwEnds(r, c)
      <4>1. \A i \in 1..n : i \in 1..(n + 1)  BY <1>2
      <4> QED  BY <1>2, <1>3, <4>1, Zenon DEF LwEnds, n
    <3>3. ASSUME s = "CLOSE_CONN", "RECV" \in v.has  PROVE LwEnds(r, c)
      <4>1. PICK i \in 1..n : LwAt(q, i, "RECV", c)  BY <2>1, <3>3 DEF LwHas, n
      <4>2. i \in 1..(n + 1) /\ i < n + 1 /\ n + 1 \in 1..(n + 1)  BY <1>2
      <4>3. LwAt(r, i, "RECV", c) /\ LwAt(r, n + 1, "CLOSE_CONN", c)  BY <1>3, <1>4, <3>3, <4>1
      <4> QED  BY <1>2, <4>2, <4>3 DEF LwEnds
    <3>4. LwEnds(r, c) => LwEnds(q, c) \/ (s = "CLOSE_CONN" /\ "RECV" \in v.has)
      BY <1>2, <3>1, Zenon DEF LwEnds
    <3> QED  BY <2>1, <3>2, <3>3, <3>4, Zenon
  <2>7. /\ \A t \in LwSigs \ {s} : (t \in w.leads <=> t \in v.leads) /\ (t \in w.once <=> t \in v.once)
        /\ v.has = {} => s \in w.leads
        /\ s \notin v.has => s \in w.once
    <3>1. ASSUME NEW t \in LwSigs \ {s}
          PROVE  (t \in w.leads <=> t \in v.leads) /\ (t \in w.once <=> t \in v.once)
      BY <2>1, <2>4, <2>5, Zenon
    <3>2. v.has = {} => s \in w.leads  BY <2>0, <2>1, <2>4, Zenon
    <3>3. s \notin v.has => s \in w.once  BY <2>0, <2>1, <2>5, Zenon
    <3> QED  BY <3>1, <3>2, <3>3, Zenon
  <2> QED  BY <2>1, <2>2, <2>3, <2>6, <2>7 DEF LwPosts, v, w
<1>8. s # "TOMBSTONE" => LwPosts(LwView(q, tn, c), LwView(r, tn, c), s)  BY <1>7
<1>9. Len(r) = Len(q) + 1  BY <1>2 DEF n
<1> QED  BY <1>2, <1>6, <1>8, <1>9, Zenon DEF r, e

LEMMA LwTaken ==
  ASSUME NEW q \in Seq(LwSignal), NEW tn \in LwTurn, q # <<>>
  PROVE  LET h == q[1]
         IN  /\ h \in LwSignal /\ Tail(q) \in Seq(LwSignal) /\ Len(q) \in Nat /\ Len(Tail(q)) = Len(q) - 1
             /\ \A x \in LwipConns : x # h.nc \/ h.sig = "TOMBSTONE" => LwView(Tail(q), tn, x) = LwView(q, tn, x)
             /\ h.sig # "TOMBSTONE" => LwTakes(LwView(q, tn, h.nc), LwView(Tail(q), tn, h.nc), h.sig)
<1> DEFINE n == Len(q)
           r == Tail(q)
           h == q[1]
           c == h.nc
           s == h.sig
<1>1. n \in Nat /\ n > 0  BY LenProperties, EmptySeq
<1>2. r \in Seq(LwSignal) /\ Len(r) = n - 1 /\ \A i \in 1..(n - 1) : r[i] = q[i + 1]
  BY HeadTailProperties
<1>3. h \in LwSignal  BY <1>1, ElementOfSeq
<1> HIDE DEF r, n
<1>4. \A i \in 1..(n - 1) : \A t, x : LwAt(r, i, t, x) <=> LwAt(q, i + 1, t, x)  BY <1>2 DEF LwAt
<1>5. \A t, x : LwAt(q, 1, t, x) <=> t = s /\ x = c  BY DEF LwAt
<1>6. \A j \in 1..n : j = 1 \/ (j - 1 \in 1..(n - 1) /\ (j - 1) + 1 = j)  BY <1>1
<1>7. \A j \in 1..n : \A t, x : LwAt(q, j, t, x) => (j = 1 /\ t = s /\ x = c) \/ (j - 1 \in 1..(n - 1) /\ LwAt(r, j - 1, t, x))
  BY <1>4, <1>5, <1>6
<1>8. \A i \in 1..(n - 1) : i + 1 \in 1..n  BY <1>1
<1>a. s \in LwSigs \cup {"TOMBSTONE"} /\ "TOMBSTONE" \notin LwSigs  BY <1>3 DEF LwSignal, LwSigs
<1> HIDE DEF c, s, h
<1>9. \A x \in LwipConns : x # c \/ s = "TOMBSTONE" => LwView(r, tn, x) = LwView(q, tn, x)
  <2> TAKE x \in LwipConns
  <2> HAVE x # c \/ s = "TOMBSTONE"
  <2>1. LwMoved(q, r, x, 1)
    <3>1. \A t \in LwSigs, j \in 1..n : LwAt(q, j, t, x) => j - 1 \in 1..(n - 1) /\ LwAt(r, j - 1, t, x)
      BY <1>7, <1>a
    <3>2. \A t \in LwSigs, i \in 1..(n - 1) : LwAt(r, i, t, x) => i + 1 \in 1..n /\ LwAt(q, i + 1, t, x)
      BY <1>4, <1>8
    <3> QED  BY <1>2, <3>1, <3>2 DEF LwMoved, n
  <2>2. Len(q) \in Nat /\ Len(r) \in Nat  BY <1>1, <1>2 DEF n
  <2> QED  BY <2>1, <2>2, LwMovedViews
<1>10. ASSUME s # "TOMBSTONE"  PROVE LwTakes(LwView(q, tn, c), LwView(r, tn, c), s)
  <2> DEFINE v == LwView(q, tn, c)
             w == LwView(r, tn, c)
  <2>1. /\ v.has = LwHas(q, c) /\ v.leads = LwLeads(q, c) /\ v.once = LwOnce(q, c) /\ v.ends = LwEnds(q, c)
        /\ w.has = LwHas(r, c) /\ w.leads = LwLeads(r, c) /\ w.once = LwOnce(r, c) /\ w.ends = LwEnds(r, c)
    BY DEF LwView
  <2>2. w \in LwViews  BY LwViewType
  <2> HIDE DEF v, w
  <2>3. s \in LwSigs  BY <1>10, <1>a
  <2>4. 1 \in 1..n /\ LwAt(q, 1, s, c)  BY <1>1, <1>5
  <2>5. s \in v.has  BY <2>1, <2>3, <2>4 DEF LwHas, n
  <2>6. w.has \subseteq v.has
    <3> SUFFICES ASSUME NEW t \in LwSigs, NEW i \in 1..(n - 1), LwAt(r, i, t, c)  PROVE t \in v.has
      BY <1>2, <2>1 DEF LwHas
    <3> QED  BY <1>4, <1>8, <2>1 DEF LwHas, n
  <2>7. v.has \ {s} \subseteq w.has
    <3> SUFFICES ASSUME NEW t \in LwSigs, t # s, NEW i \in 1..n, LwAt(q, i, t, c)  PROVE t \in w.has
      BY <2>1 DEF LwHas, n
    <3>1. i - 1 \in 1..(n - 1) /\ LwAt(r, i - 1, t, c)  BY <1>7
    <3> QED  BY <1>2, <2>1, <3>1 DEF LwHas
  <2>8. v.leads \subseteq w.leads
    <3> SUFFICES ASSUME NEW t \in LwLeads(q, c)  PROVE t \in LwLeads(r, c)
      BY <2>1
    <3>1. t \in LwSigs  BY DEF LwLeads
    <3> SUFFICES ASSUME NEW i \in 1..(n - 1), LwAt(r, i, t, c), NEW j \in 1..(i - 1), r[j].nc = c
                 PROVE  r[j].sig \notin LwSigs
      BY <1>2, <3>1, Zenon DEF LwLeads
    <3>2. i + 1 \in 1..n /\ LwAt(q, i + 1, t, c) /\ j + 1 \in 1..((i + 1) - 1)  BY <1>4, <1>8
    <3>3. r[j] = q[j + 1]  BY <1>2
    <3> QED  BY <3>2, <3>3 DEF LwLeads, n
  <2>9. v.once \subseteq w.once
    <3> SUFFICES ASSUME NEW t \in LwOnce(q, c)  PROVE t \in LwOnce(r, c)
      BY <2>1
    <3>1. t \in LwSigs  BY DEF LwOnce
    <3> SUFFICES ASSUME NEW i \in 1..(n - 1), NEW j \in 1..(n - 1), LwAt(r, i, t, c), LwAt(r, j, t, c)  PROVE i = j
      BY <1>2, <3>1, Zenon DEF LwOnce
    <3>2. i + 1 \in 1..n /\ LwAt(q, i + 1, t, c) /\ j + 1 \in 1..n /\ LwAt(q, j + 1, t, c)  BY <1>4, <1>8
    <3>3. i + 1 = j + 1  BY <3>2, Zenon DEF LwOnce, n
    <3> QED  BY <3>3
  <2>10. ASSUME s \in v.once \cup v.leads, s \in w.has  PROVE FALSE
    <3>1. PICK i \in 1..(n - 1) : LwAt(r, i, s, c)  BY <1>2, <2>1, <2>10 DEF LwHas
    <3>2. i + 1 \in 1..n /\ LwAt(q, i + 1, s, c) /\ i + 1 # 1 /\ 1 \in 1..((i + 1) - 1)  BY <1>4, <1>8, <3>1
    <3>3. CASE s \in v.once  BY <2>1, <2>4, <3>2, <3>3, Zenon DEF LwOnce, n
    <3>4. CASE s \in v.leads
      <4>1. q[1].nc = c /\ q[1].sig = s  BY <2>4 DEF LwAt
      <4> QED  BY <2>1, <2>3, <3>2, <3>4, <4>1, Zenon DEF LwLeads, n
    <3> QED  BY <2>10, <3>3, <3>4
  <2>11. ASSUME s # "RECV", v.ends  PROVE w.ends
    <3>1. PICK i \in 1..n, j \in 1..n : i < j /\ LwAt(q, i, "RECV", c) /\ LwAt(q, j, "CLOSE_CONN", c)
      BY <2>1, <2>11 DEF LwEnds, n
    <3>2. i - 1 \in 1..(n - 1) /\ LwAt(r, i - 1, "RECV", c)  BY <1>7, <2>11, <3>1
    <3>3. j # 1  BY <3>1
    <3>4. j - 1 \in 1..(n - 1) /\ LwAt(r, j - 1, "CLOSE_CONN", c)  BY <1>7, <3>1, <3>3
    <3>5. i - 1 < j - 1  BY <3>1
    <3> QED  BY <1>2, <2>1, <3>2, <3>4, <3>5 DEF LwEnds
  <2>12. ASSUME NEW t \in v.leads, t # s, t \in v.has  PROVE FALSE
    <3>1. t \in LwSigs /\ t \in LwLeads(q, c)  BY <2>1, <2>12 DEF LwLeads
    <3>2. PICK i \in 1..n : LwAt(q, i, t, c)  BY <2>1, <2>12 DEF LwHas, n
    <3>3. i # 1  BY <1>5, <2>12, <3>2
    <3>4. 1 \in 1..(i - 1)  BY <3>3
    <3>5. q[1].nc = c /\ q[1].sig = s  BY <2>4 DEF LwAt
    <3> QED  BY <2>3, <3>1, <3>2, <3>4, <3>5, Zenon DEF LwLeads, n
  <2> QED  BY <2>2, <2>5, <2>6, <2>7, <2>8, <2>9, <2>10, <2>11, <2>12 DEF LwTakes, v, w
<1> QED  BY <1>1, <1>2, <1>3, <1>9, <1>10 DEF r, n, c, s, h

LEMMA LwTombstoned ==
  ASSUME NEW q \in Seq(LwSignal), NEW tn \in LwTurn, NEW c \in LwipConns
  PROVE  LET r == LW!Tombstoned(q, c)
         IN  /\ r \in Seq(LwSignal) /\ Len(r) = Len(q)
             /\ LwView(r, tn, c).has = {}
             /\ \A x \in LwipConns : x # c => LwView(r, tn, x) = LwView(q, tn, x)
<1> DEFINE n == Len(q)
           r == LW!Tombstoned(q, c)
<1>1. n \in Nat /\ DOMAIN q = 1..n /\ \A i \in 1..n : q[i] \in LwSignal  BY LenProperties, ElementOfSeq
<1>2. \A i \in 1..n : r[i] = IF q[i].nc = c THEN [q[i] EXCEPT !.sig = "TOMBSTONE"] ELSE q[i]
  BY <1>1 DEF LW!Tombstoned
<1>3. \A i \in 1..n : r[i] \in LwSignal  BY <1>1, <1>2 DEF LwSignal
<1>4. r = [i \in 1..n |-> r[i]]  BY <1>1 DEF LW!Tombstoned
<1> HIDE DEF r, n
<1>5. r \in Seq(LwSignal) /\ Len(r) = n
  <2>1. r \in [1..n -> LwSignal]  BY <1>3, <1>4
  <2> QED  BY <1>1, <2>1, LenProperties, SeqDef
<1>6. \A i \in 1..n : r[i].nc = q[i].nc /\ (q[i].nc = c => r[i].sig = "TOMBSTONE") /\ (q[i].nc # c => r[i].sig = q[i].sig)
  BY <1>1, <1>2 DEF LwSignal
<1>7. LwView(r, tn, c).has = {}
  <2>1. \A t \in LwSigs, i \in 1..n : ~LwAt(r, i, t, c)  BY <1>6 DEF LwAt, LwSigs
  <2> QED  BY <1>5, <2>1 DEF LwView, LwHas
<1>8. \A x \in LwipConns : x # c => LwView(r, tn, x) = LwView(q, tn, x)
  <2> TAKE x \in LwipConns
  <2> HAVE x # c
  <2>1. \A i \in 1..n : \A t : LwAt(r, i, t, x) <=> LwAt(q, i, t, x)  BY <1>6 DEF LwAt
  <2>2. \A i \in 1..n : i - 0 = i /\ i + 0 = i  BY <1>1
  <2>3. LwMoved(q, r, x, 0)  BY <1>5, <2>1, <2>2 DEF LwMoved, n
  <2>4. Len(q) \in Nat /\ Len(r) \in Nat  BY <1>1, <1>5 DEF n
  <2> QED  BY <2>3, <2>4, LwMovedViews
<1> QED  BY <1>5, <1>7, <1>8 DEF r, n
-----------------------------------------------------------------------------
(* LwipIf: a connection d with the view v of its signals. *)

LwFlags == {"CONNECTING", "CLOSE_IMMEDIATELY", "SEND_AND_CLOSE", "HANDSHAKE_DONE", "WANT_READ", "WANT_WRITE"}
LwConn == [life : {"none", "live", "freed"}, kind : {"client", "accepted"},
           pcb : {"none", "syn", "established", "unused"}, flags : SUBSET LwFlags, rx : Nat,
           recvPending : BOOLEAN, err : BOOLEAN, numSent : Nat, slen : Nat,
           ssl : {"none", "new", "started", "failed"}, unacked : Nat, fin : BOOLEAN, came : Nat, asked : Nat,
           told : Nat, missed : BOOLEAN, seen : Seq(LW!Events)]

\* Nothing is forgotten.
LwKept(d, ssl, v) ==
    /\ d.recvPending => "RECV" \in v.has
    /\ d.rx > 0 /\ ~ssl => d.recvPending \/ v.at = "reading"
    /\ d.numSent > 0 => "SENT_CB" \in v.has \/ v.at = "telling"
    /\ v.at = "telling" /\ d.numSent # v.n => "SENT_CB" \in v.has /\ d.missed
    /\ ~ssl /\ ~d.missed => d.slen + d.unacked + d.numSent + d.told = d.asked
    /\ d.fin => "CLOSE_CONN" \in v.has
    /\ d.fin /\ d.recvPending => v.ends
    /\ d.pcb = "none" /\ ~ssl => \/ "CLOSE_CONN" \in v.has \/ "CLOSE_IMMEDIATELY" \in d.flags
                                 \/ ("CONNECT_RESULT" \in v.has /\ d.err)

\* The events are in order so far; over: the connection has been freed.
LwSeen(s, ssl, over) ==
    \A i \in 1..Len(s) :
        /\ s[i] = "CLOSE" => i = Len(s) /\ over
        /\ i = 1 /\ s[i] # "CLOSE" => s[i] \in {"ACCEPT", "CONNECT", "FAILED"}
        /\ i > 1 /\ s[i] # "CLOSE" => s[i] \in {"RECV", "SEND"} \/ (ssl /\ s[i] = "FAILED" /\ s[i - 1] = "FAILED")
LwAllFailed(s) == \A i \in 1..Len(s) : s[i] = "FAILED"

LwConnecting(d) == "CONNECTING" \in d.flags
LwDone(d) == "HANDSHAKE_DONE" \in d.flags
LwClosing(d) == "CLOSE_IMMEDIATELY" \in d.flags

\* What is still to come of an accepted connection and of a client.
LwAccepted(d, ssl, v) ==
    /\ ~LwConnecting(d) /\ "CONNECT_RESULT" \notin v.has /\ d.pcb \in {"established", "none"}
    /\ ~ssl => /\ "ACCEPT" \in v.has <=> d.seen = <<>>
               /\ "ACCEPT" \in v.leads
               /\ d.pcb = "none" => "ACCEPT" \notin v.has
               /\ v.at = "reading" => d.seen # <<>>
    /\ ssl => /\ LwDone(d) <=> d.seen # <<>>
              /\ d.pcb = "none" => LwDone(d)
              /\ d.ssl = "none" => ~LwDone(d) /\ "ACCEPT" \in v.has /\ "ACCEPT" \in v.leads /\ v.at # "reading"

LwSslNew(d, v) ==
    /\ ~LwDone(d) /\ "WANT_READ" \notin d.flags /\ "WANT_WRITE" \notin d.flags
    /\ "CONNECT_RESULT" \in v.leads /\ "RECV" \notin v.has /\ v.at # "reading"
    /\ LwConnecting(d) /\ d.pcb # "syn" => "CONNECT_RESULT" \in v.has \/ LwClosing(d)
    /\ ~LwConnecting(d) => LwClosing(d) /\ "CONNECT_RESULT" \notin v.has
    /\ d.pcb \in {"none", "unused"} => d.err
    /\ d.pcb = "established" => ~d.err
    /\ d.pcb \in {"syn", "established"} => d.rx = 0
    /\ LwAllFailed(d.seen)
LwSslStarted(d, v) ==
    "CONNECT_RESULT" \notin v.has /\ LwConnecting(d) /\ d.pcb = "established" /\ ~d.err
LwSslFailed(d) ==
    /\ ~LwDone(d) /\ d.err /\ d.pcb = "established" /\ LwAllFailed(d.seen)
    /\ ~LwConnecting(d) => LwClosing(d)
LwSslDone(d, v) ==
    /\ ~d.err /\ (LwConnecting(d) <=> "CONNECT_RESULT" \in v.has)
    /\ LwConnecting(d) => "CONNECT_RESULT" \in v.once /\ d.pcb = "established"

LwClient(d, ssl, v) ==
    /\ "ACCEPT" \notin v.has /\ (LwConnecting(d) <=> d.seen = <<>>) /\ d.ssl # "none"
    /\ d.pcb = "syn" => LwConnecting(d) /\ v.has = {} /\ d.ssl = "new"
    /\ d.pcb = "unused" => /\ d.err /\ v.has \subseteq {"CONNECT_RESULT"}
                           /\ ~LwConnecting(d) => LwClosing(d)
    /\ ~ssl => /\ "CONNECT_RESULT" \in v.leads
               /\ "CONNECT_RESULT" \in v.has => LwConnecting(d)
               /\ LwConnecting(d) /\ d.pcb # "syn" => "CONNECT_RESULT" \in v.has
               /\ v.at = "reading" => d.seen # <<>>
    /\ ssl => /\ d.ssl = "new" => LwSslNew(d, v)
              /\ d.ssl = "started" /\ ~LwDone(d) => LwSslStarted(d, v)
              /\ d.ssl = "failed" => LwSslFailed(d)
              /\ d.ssl = "started" /\ LwDone(d) => LwSslDone(d, v)

LwOrder(d, ssl, v) ==
    /\ LwSeen(d.seen, ssl, FALSE)
    /\ ssl /\ LwDone(d) /\ d.pcb = "none" => "CLOSE_CONN" \in v.has
    /\ d.kind = "accepted" => LwAccepted(d, ssl, v)
    /\ d.kind = "client" => LwClient(d, ssl, v)

\* A step of a connection keeps what is owed to it; its order under the condition p.
LwGood(d, e, ssl, v, w, p) ==
    /\ e \in LwConn /\ e.life = "live" /\ (e.ssl = "none" => d.ssl = "none")
    /\ LwKept(d, ssl, v) => LwKept(e, ssl, w)
    /\ p /\ LwOrder(d, ssl, v) => LwOrder(e, ssl, w)

\* The application is told ev.
LwCalls(d, e, ev) ==
    /\ e \in LwConn /\ e.seen = Append(d.seen, ev)
    /\ \E f \in {{}, {"CLOSE_IMMEDIATELY"}, {"SEND_AND_CLOSE"}} : e.flags = d.flags \cup f
    /\ e.life = d.life /\ e.kind = d.kind /\ e.pcb = d.pcb /\ e.err = d.err /\ e.rx = d.rx
    /\ e.recvPending = d.recvPending /\ e.numSent = d.numSent /\ e.slen = d.slen /\ e.ssl = d.ssl
    /\ e.unacked = d.unacked /\ e.fin = d.fin /\ e.came = d.came /\ e.asked = d.asked /\ e.told = d.told /\ e.missed = d.missed

\* The handler asks for a close, or does not.
LwFlaggedAs(d, e) ==
    /\ e \in LwConn
    /\ \E f \in {{}, {"CLOSE_IMMEDIATELY"}, {"SEND_AND_CLOSE"}} : e.flags = d.flags \cup f
    /\ e.life = d.life /\ e.kind = d.kind /\ e.pcb = d.pcb /\ e.err = d.err /\ e.rx = d.rx
    /\ e.recvPending = d.recvPending /\ e.numSent = d.numSent /\ e.slen = d.slen /\ e.ssl = d.ssl
    /\ e.unacked = d.unacked /\ e.fin = d.fin /\ e.came = d.came /\ e.asked = d.asked /\ e.told = d.told
    /\ e.missed = d.missed /\ e.seen = d.seen

LEMMA LwFlagged ==
  ASSUME NEW d \in LwConn, NEW e \in LW!Flagged(d)
  PROVE  LwFlaggedAs(d, e)
<1>1. PICK f \in {{}, {"CLOSE_IMMEDIATELY"}, {"SEND_AND_CLOSE"}} : e = [d EXCEPT !.flags = @ \cup f]
  BY DEF LW!Flagged
<1>2. d.flags \cup f \in SUBSET LwFlags  BY DEF LwConn, LwFlags
<1> QED  BY <1>1, <1>2 DEF LwConn, LwFlaggedAs

LEMMA LwCalled ==
  ASSUME NEW d \in LwConn, NEW ev \in LW!Events, NEW e \in LW!Called(d, ev)
  PROVE  LwCalls(d, e, ev)
<1>1. PICK m : m = [d EXCEPT !.seen = Append(@, ev)]  OBVIOUS
<1>2. Append(d.seen, ev) \in Seq(LW!Events)  BY DEF LwConn
<1>3. /\ m \in LwConn /\ m.seen = Append(d.seen, ev) /\ m.flags = d.flags
      /\ m.life = d.life /\ m.kind = d.kind /\ m.pcb = d.pcb /\ m.err = d.err /\ m.rx = d.rx
      /\ m.recvPending = d.recvPending /\ m.numSent = d.numSent /\ m.slen = d.slen /\ m.ssl = d.ssl
      /\ m.unacked = d.unacked /\ m.fin = d.fin /\ m.came = d.came /\ m.asked = d.asked /\ m.told = d.told
      /\ m.missed = d.missed
  BY <1>1, <1>2 DEF LwConn
<1>4. e \in LW!Flagged(m)  BY <1>1 DEF LW!Called
<1>5. LwFlaggedAs(m, e)  BY <1>3, <1>4, LwFlagged
<1> QED  BY <1>3, <1>5 DEF LwFlaggedAs, LwCalls

LEMMA LwAppended ==
  ASSUME NEW s \in Seq(LW!Events), NEW ev \in LW!Events
  PROVE  /\ Append(s, ev) # <<>> /\ Append(s, ev) \in Seq(LW!Events)
         /\ ev = "FAILED" /\ LwAllFailed(s) => LwAllFailed(Append(s, ev))
<1> DEFINE n == Len(s)
           t == Append(s, ev)
<1>1. n \in Nat /\ t \in Seq(LW!Events) /\ Len(t) = n + 1 /\ t[n + 1] = ev /\ \A i \in 1..n : t[i] = s[i]
  BY AppendProperties, LenProperties
<1>2. t # <<>>  BY <1>1, AppendProperties
<1> HIDE DEF t, n
<1>3. \A i \in 1..(n + 1) : i \in 1..n \/ i = n + 1  BY <1>1
<1>4. ev = "FAILED" /\ LwAllFailed(s) => LwAllFailed(t)  BY <1>1, <1>3 DEF LwAllFailed, n
<1> QED  BY <1>1, <1>2, <1>4 DEF t

LEMMA LwSeenAnd ==
  ASSUME NEW s \in Seq(LW!Events), NEW ev \in LW!Events, NEW ssl, NEW over, LwSeen(s, ssl, FALSE),
         ev = "CLOSE" => over,
         s = <<>> => ev \in {"ACCEPT", "CONNECT", "FAILED", "CLOSE"},
         s # <<>> => ev \in {"RECV", "SEND", "CLOSE"} \/ (ssl /\ LwAllFailed(s) /\ ev = "FAILED")
  PROVE  LwSeen(Append(s, ev), ssl, over)
<1> DEFINE n == Len(s)
           t == Append(s, ev)
<1>1. n \in Nat /\ Len(t) = n + 1 /\ t[n + 1] = ev /\ \A i \in 1..n : t[i] = s[i]
  BY AppendProperties, LenProperties
<1>2. s = <<>> <=> n = 0  BY EmptySeq
<1> HIDE DEF t, n
<1>3. \A i \in 1..(n + 1) : i \in 1..n \/ i = n + 1  BY <1>1
<1>4. ASSUME NEW i \in 1..n
      PROVE  /\ t[i] # "CLOSE"
             /\ i = 1 => t[i] \in {"ACCEPT", "CONNECT", "FAILED"}
             /\ i > 1 => t[i] \in {"RECV", "SEND"} \/ (ssl /\ t[i] = "FAILED" /\ t[i - 1] = "FAILED")
  <2>1. i > 1 => i - 1 \in 1..n  BY <1>1
  <2> QED  BY <1>1, <2>1 DEF LwSeen, n
<1>5. n + 1 = 1 /\ ev # "CLOSE" => ev \in {"ACCEPT", "CONNECT", "FAILED"}  BY <1>1, <1>2
<1>6. n + 1 > 1 /\ ev # "CLOSE" => ev \in {"RECV", "SEND"} \/ (ssl /\ ev = "FAILED" /\ t[(n + 1) - 1] = "FAILED")
  <2> SUFFICES ASSUME n + 1 > 1, ev # "CLOSE", ev \notin {"RECV", "SEND"}
               PROVE  ssl /\ ev = "FAILED" /\ t[(n + 1) - 1] = "FAILED"
    OBVIOUS
  <2>1. ssl /\ LwAllFailed(s) /\ ev = "FAILED"  BY <1>1, <1>2
  <2>2. (n + 1) - 1 = n /\ n \in 1..n  BY <1>1
  <2> QED  BY <1>1, <2>1, <2>2 DEF LwAllFailed, n
<1>7. LwSeen(t, ssl, over)  BY <1>1, <1>3, <1>4, <1>5, <1>6 DEF LwSeen
<1> QED  BY <1>7 DEF t

LEMMA LwSeenMore ==
  ASSUME NEW s \in Seq(LW!Events), NEW ev \in LW!Events, NEW ssl \in BOOLEAN, LwSeen(s, ssl, FALSE),
         \/ s = <<>> /\ ev \in {"ACCEPT", "CONNECT", "FAILED"}
         \/ s # <<>> /\ ev \in {"RECV", "SEND"}
         \/ ssl /\ LwAllFailed(s) /\ ev = "FAILED"
  PROVE  LwSeen(Append(s, ev), ssl, FALSE)
BY LwSeenAnd

LEMMA LwSeenLast ==
  ASSUME NEW s \in Seq(LW!Events), NEW ssl, LwSeen(s, ssl, FALSE)
  PROVE  LwSeen(Append(s, "CLOSE"), ssl, TRUE)
<1>1. "CLOSE" \in LW!Events  BY DEF LW!Events
<1> QED  BY <1>1, LwSeenAnd
-----------------------------------------------------------------------------

LEMMA LwConnCb ==
  ASSUME NEW d \in LwConn, d.life = "live", NEW ssl \in BOOLEAN, NEW v \in LwViews, NEW w,
         d.pcb = "syn", LwPosts(v, w, "CONNECT_RESULT")
  PROVE  LwGood(d, [d EXCEPT !.pcb = "established", !.err = FALSE], ssl, v, w, TRUE)
<1>t. /\ d.rx \in Nat /\ d.numSent \in Nat /\ d.slen \in Nat /\ d.unacked \in Nat /\ d.came \in Nat /\ d.asked \in Nat /\ d.told \in Nat
      /\ d.missed \in BOOLEAN
      /\ d.recvPending \in BOOLEAN /\ d.err \in BOOLEAN /\ d.fin \in BOOLEAN /\ d.flags \in SUBSET LwFlags
      /\ d.kind \in {"client", "accepted"} /\ d.pcb \in {"none", "syn", "established", "unused"}
      /\ d.ssl \in {"none", "new", "started", "failed"}
  BY DEF LwConn
<1> PICK e : e = [d EXCEPT !.pcb = "established", !.err = FALSE]  OBVIOUS
<1>e. e = [d EXCEPT !.pcb = "established", !.err = FALSE]  OBVIOUS
<1>1. /\ e \in LwConn /\ e.pcb = "established" /\ e.err = FALSE /\ e.life = d.life /\ e.kind = d.kind
      /\ e.flags = d.flags /\ e.rx = d.rx /\ e.recvPending = d.recvPending /\ e.numSent = d.numSent
      /\ e.slen = d.slen /\ e.ssl = d.ssl /\ e.unacked = d.unacked /\ e.fin = d.fin
      /\ e.came = d.came /\ e.asked = d.asked /\ e.told = d.told /\ e.missed = d.missed /\ e.seen = d.seen
  BY DEF LwConn
<1>2. w.has = v.has \cup {"CONNECT_RESULT"} /\ w.at = v.at /\ w.n = v.n /\ (w.ends <=> v.ends) /\ (v.has = {} => "CONNECT_RESULT" \in w.leads)  BY DEF LwPosts, LwViews, LwSigs
<1>3. LwKept(d, ssl, v) => LwKept(e, ssl, w)  BY <1>1, <1>2, <1>t DEF LwKept, LwClosing
<1>4. ASSUME TRUE, LwOrder(d, ssl, v)  PROVE LwOrder(e, ssl, w)
  <2>1. (LwConnecting(e) <=> LwConnecting(d)) /\ (LwDone(e) <=> LwDone(d)) /\ (LwClosing(e) <=> LwClosing(d))
    BY <1>1 DEF LwConnecting, LwDone, LwClosing
  <2>2. e.kind = "accepted" => LwAccepted(e, ssl, w)
    BY <1>1, <1>2, <1>t, <1>4, <2>1 DEF LwOrder, LwAccepted
  <2>3. e.kind = "client" => LwClient(e, ssl, w)
    BY <1>1, <1>2, <1>t, <1>4, <2>1 DEF LwOrder, LwClient, LwSslNew, LwSslStarted, LwSslFailed, LwSslDone
  <2>4. LwSeen(e.seen, ssl, FALSE)
    BY <1>1, <1>4, <2>1 DEF LwOrder
  <2>6. ssl /\ LwDone(e) /\ e.pcb = "none" => "CLOSE_CONN" \in w.has
    BY <1>1, <1>2, <1>t, <1>4, <2>1 DEF LwOrder, LwAccepted, LwClient, LwSslNew
  <2> QED
    BY <2>2, <2>3, <2>4, <2>6 DEF LwOrder
<1> QED  BY <1>1, <1>3, <1>4, <1>e DEF LwGood

\* What a failing connection posts and becomes; its opening has been told, if it was open.
LwFailSig(d) == IF LwConnecting(d) THEN "CONNECT_RESULT" ELSE "CLOSE_CONN"
LwFails(d, e) == e = [d EXCEPT !.pcb = "none", !.err = @ \/ LwConnecting(d)]
LwTold(d) == d.pcb = "established" => d.seen # <<>> /\ ~LwAllFailed(d.seen)

LEMMA LwErrorCb ==
  ASSUME NEW d \in LwConn, d.life = "live", NEW ssl \in BOOLEAN, NEW v \in LwViews, NEW w,
         d.pcb \in {"syn", "established"},
         LwPosts(v, w, LwFailSig(d)), NEW e, LwFails(d, e),
         NEW p \in BOOLEAN, p => LwTold(d)
  PROVE  LwGood(d, e, ssl, v, w, p)
<1>t. /\ d.rx \in Nat /\ d.numSent \in Nat /\ d.slen \in Nat /\ d.unacked \in Nat /\ d.came \in Nat /\ d.asked \in Nat /\ d.told \in Nat
      /\ d.missed \in BOOLEAN
      /\ d.recvPending \in BOOLEAN /\ d.err \in BOOLEAN /\ d.fin \in BOOLEAN /\ d.flags \in SUBSET LwFlags
      /\ d.kind \in {"client", "accepted"} /\ d.pcb \in {"none", "syn", "established", "unused"}
      /\ d.ssl \in {"none", "new", "started", "failed"}
  BY DEF LwConn
<1> DEFINE zpcb == "none"
           zerr == (d.err \/ LwConnecting(d))
<1>z. zpcb \in {"none", "syn", "established", "unused"} /\ zerr \in BOOLEAN  BY <1>t DEF LwFlags, LwConnecting
<1>e. e = [d EXCEPT !.pcb = zpcb, !.err = zerr]  BY DEF LwFails
<1> HIDE DEF zpcb, zerr
<1>s. /\ e \in LwConn /\ e.pcb = zpcb /\ e.err = zerr /\ e.life = d.life /\ e.kind = d.kind
      /\ e.flags = d.flags /\ e.rx = d.rx /\ e.recvPending = d.recvPending /\ e.numSent = d.numSent
      /\ e.slen = d.slen /\ e.ssl = d.ssl /\ e.unacked = d.unacked /\ e.fin = d.fin
      /\ e.came = d.came /\ e.asked = d.asked /\ e.told = d.told /\ e.missed = d.missed /\ e.seen = d.seen
  BY <1>e, <1>z DEF LwConn
<1>1. /\ e \in LwConn /\ e.pcb = "none" /\ e.err = (d.err \/ LwConnecting(d)) /\ e.life = d.life
      /\ e.kind = d.kind /\ e.flags = d.flags /\ e.rx = d.rx /\ e.recvPending = d.recvPending
      /\ e.numSent = d.numSent /\ e.slen = d.slen /\ e.ssl = d.ssl /\ e.unacked = d.unacked
      /\ e.fin = d.fin /\ e.came = d.came /\ e.asked = d.asked /\ e.told = d.told /\ e.missed = d.missed /\ e.seen = d.seen
  BY <1>s DEF zpcb, zerr
<1>2. /\ w.has = v.has \cup {IF LwConnecting(d) THEN "CONNECT_RESULT" ELSE "CLOSE_CONN"} /\ (v.ends => w.ends)
      /\ w.at = v.at /\ w.n = v.n
      /\ LwConnecting(d) /\ v.has = {} => "CONNECT_RESULT" \in w.leads
      /\ ~LwConnecting(d) => \A t \in {"CONNECT_RESULT", "ACCEPT"} : (t \in w.leads <=> t \in v.leads) /\ (t \in w.once <=> t \in v.once)
  BY DEF LwPosts, LwViews, LwSigs, LwFailSig
<1>3. LwKept(d, ssl, v) => LwKept(e, ssl, w)  BY <1>1, <1>2, <1>t DEF LwKept, LwClosing
<1>4. ASSUME p, LwOrder(d, ssl, v)  PROVE LwOrder(e, ssl, w)
  <2>1. (LwConnecting(e) <=> LwConnecting(d)) /\ (LwDone(e) <=> LwDone(d)) /\ (LwClosing(e) <=> LwClosing(d))
    BY <1>1 DEF LwConnecting, LwDone, LwClosing
  <2>2. e.kind = "accepted" => LwAccepted(e, ssl, w)
    BY <1>1, <1>2, <1>t, <1>4, <2>1 DEF LwOrder, LwAccepted, LwTold
  <2>3. e.kind = "client" => LwClient(e, ssl, w)
    BY <1>1, <1>2, <1>t, <1>4, <2>1 DEF LwOrder, LwClient, LwSslNew, LwSslStarted, LwSslFailed, LwSslDone, LwTold
  <2>4. LwSeen(e.seen, ssl, FALSE)
    BY <1>1, <1>4, <2>1 DEF LwOrder
  <2>6. ssl /\ LwDone(e) /\ e.pcb = "none" => "CLOSE_CONN" \in w.has
    BY <1>1, <1>2, <1>t, <1>4, <2>1 DEF LwOrder, LwAccepted, LwClient, LwSslNew, LwTold
  <2> QED
    BY <2>2, <2>3, <2>4, <2>6 DEF LwOrder
<1> QED  BY <1>1, <1>3, <1>4 DEF LwGood

LEMMA LwRecvCb ==
  ASSUME NEW d \in LwConn, d.life = "live", NEW ssl \in BOOLEAN, NEW v \in LwViews, NEW w,
         d.pcb = "established", ~d.fin, ssl => d.ssl # "new" \/ d.kind = "accepted",
         IF d.recvPending THEN w = v ELSE LwPosts(v, w, "RECV")
  PROVE  LwGood(d, [d EXCEPT !.rx = @ + 1, !.came = @ + 1, !.recvPending = TRUE], ssl, v, w, TRUE)
<1>t. /\ d.rx \in Nat /\ d.numSent \in Nat /\ d.slen \in Nat /\ d.unacked \in Nat /\ d.came \in Nat /\ d.asked \in Nat /\ d.told \in Nat
      /\ d.missed \in BOOLEAN
      /\ d.recvPending \in BOOLEAN /\ d.err \in BOOLEAN /\ d.fin \in BOOLEAN /\ d.flags \in SUBSET LwFlags
      /\ d.kind \in {"client", "accepted"} /\ d.pcb \in {"none", "syn", "established", "unused"}
      /\ d.ssl \in {"none", "new", "started", "failed"}
  BY DEF LwConn
<1> DEFINE zrx == (d.rx + 1)
           zcame == (d.came + 1)
           zrecvPending == TRUE
<1>z. zrx \in Nat /\ zcame \in Nat /\ zrecvPending \in BOOLEAN  BY <1>t DEF LwFlags, LwConnecting
<1> PICK e : e = [d EXCEPT !.rx = zrx, !.came = zcame, !.recvPending = zrecvPending]  OBVIOUS
<1>e. e = [d EXCEPT !.rx = @ + 1, !.came = @ + 1, !.recvPending = TRUE]  OBVIOUS
<1> HIDE DEF zrx, zcame, zrecvPending
<1>s. /\ e \in LwConn /\ e.rx = zrx /\ e.came = zcame /\ e.recvPending = zrecvPending /\ e.life = d.life
      /\ e.kind = d.kind /\ e.pcb = d.pcb /\ e.flags = d.flags /\ e.err = d.err
      /\ e.numSent = d.numSent /\ e.slen = d.slen /\ e.ssl = d.ssl /\ e.unacked = d.unacked
      /\ e.fin = d.fin /\ e.asked = d.asked /\ e.told = d.told /\ e.missed = d.missed /\ e.seen = d.seen
  BY <1>z DEF LwConn
<1>1. /\ e \in LwConn /\ e.rx = (d.rx + 1) /\ e.came = (d.came + 1) /\ e.recvPending = TRUE
      /\ e.life = d.life /\ e.kind = d.kind /\ e.pcb = d.pcb /\ e.flags = d.flags /\ e.err = d.err
      /\ e.numSent = d.numSent /\ e.slen = d.slen /\ e.ssl = d.ssl /\ e.unacked = d.unacked
      /\ e.fin = d.fin /\ e.asked = d.asked /\ e.told = d.told /\ e.missed = d.missed /\ e.seen = d.seen
  BY <1>s DEF zrx, zcame, zrecvPending
<1>2. /\ w.at = v.at /\ w.n = v.n /\ v.has \subseteq w.has /\ w.has \subseteq v.has \cup {"RECV"} /\ (~d.recvPending => "RECV" \in w.has)
      /\ \A t \in {"CONNECT_RESULT", "ACCEPT"} : (t \in w.leads <=> t \in v.leads) /\ (t \in w.once <=> t \in v.once)
  BY DEF LwPosts, LwViews, LwSigs
<1>3. LwKept(d, ssl, v) => LwKept(e, ssl, w)  BY <1>1, <1>2, <1>t DEF LwKept, LwClosing
<1>4. ASSUME TRUE, LwOrder(d, ssl, v)  PROVE LwOrder(e, ssl, w)
  <2>1. (LwConnecting(e) <=> LwConnecting(d)) /\ (LwDone(e) <=> LwDone(d)) /\ (LwClosing(e) <=> LwClosing(d))
    BY <1>1 DEF LwConnecting, LwDone, LwClosing
  <2>2. e.kind = "accepted" => LwAccepted(e, ssl, w)
    BY <1>1, <1>2, <1>t, <1>4, <2>1 DEF LwOrder, LwAccepted
  <2>3. e.kind = "client" => LwClient(e, ssl, w)
    BY <1>1, <1>2, <1>t, <1>4, <2>1 DEF LwOrder, LwClient, LwSslNew, LwSslStarted, LwSslFailed, LwSslDone
  <2>4. LwSeen(e.seen, ssl, FALSE)
    BY <1>1, <1>4, <2>1 DEF LwOrder
  <2>6. ssl /\ LwDone(e) /\ e.pcb = "none" => "CLOSE_CONN" \in w.has
    BY <1>1, <1>2, <1>t, <1>4, <2>1 DEF LwOrder, LwAccepted, LwClient, LwSslNew
  <2> QED
    BY <2>2, <2>3, <2>4, <2>6 DEF LwOrder
<1> QED  BY <1>1, <1>3, <1>4, <1>e DEF LwGood

LEMMA LwFinCb ==
  ASSUME NEW d \in LwConn, d.life = "live", NEW ssl \in BOOLEAN, NEW v \in LwViews, NEW w,
         d.pcb = "established", LwPosts(v, w, "CLOSE_CONN")
  PROVE  LwGood(d, [d EXCEPT !.fin = TRUE], ssl, v, w, TRUE)
<1>t. /\ d.rx \in Nat /\ d.numSent \in Nat /\ d.slen \in Nat /\ d.unacked \in Nat /\ d.came \in Nat /\ d.asked \in Nat /\ d.told \in Nat
      /\ d.missed \in BOOLEAN
      /\ d.recvPending \in BOOLEAN /\ d.err \in BOOLEAN /\ d.fin \in BOOLEAN /\ d.flags \in SUBSET LwFlags
      /\ d.kind \in {"client", "accepted"} /\ d.pcb \in {"none", "syn", "established", "unused"}
      /\ d.ssl \in {"none", "new", "started", "failed"}
  BY DEF LwConn
<1> PICK e : e = [d EXCEPT !.fin = TRUE]  OBVIOUS
<1>e. e = [d EXCEPT !.fin = TRUE]  OBVIOUS
<1>1. /\ e \in LwConn /\ e.fin = TRUE /\ e.life = d.life /\ e.kind = d.kind /\ e.pcb = d.pcb
      /\ e.flags = d.flags /\ e.rx = d.rx /\ e.recvPending = d.recvPending /\ e.err = d.err
      /\ e.numSent = d.numSent /\ e.slen = d.slen /\ e.ssl = d.ssl /\ e.unacked = d.unacked
      /\ e.came = d.came /\ e.asked = d.asked /\ e.told = d.told /\ e.missed = d.missed /\ e.seen = d.seen
  BY DEF LwConn
<1>2. /\ w.has = v.has \cup {"CLOSE_CONN"} /\ w.at = v.at /\ w.n = v.n /\ ("RECV" \in v.has => w.ends)
      /\ \A t \in {"CONNECT_RESULT", "ACCEPT"} : (t \in w.leads <=> t \in v.leads) /\ (t \in w.once <=> t \in v.once)
  BY DEF LwPosts, LwViews, LwSigs
<1>3. LwKept(d, ssl, v) => LwKept(e, ssl, w)  BY <1>1, <1>2, <1>t DEF LwKept, LwClosing
<1>4. ASSUME TRUE, LwOrder(d, ssl, v)  PROVE LwOrder(e, ssl, w)
  <2>1. (LwConnecting(e) <=> LwConnecting(d)) /\ (LwDone(e) <=> LwDone(d)) /\ (LwClosing(e) <=> LwClosing(d))
    BY <1>1 DEF LwConnecting, LwDone, LwClosing
  <2>2. e.kind = "accepted" => LwAccepted(e, ssl, w)
    BY <1>1, <1>2, <1>t, <1>4, <2>1 DEF LwOrder, LwAccepted
  <2>3. e.kind = "client" => LwClient(e, ssl, w)
    BY <1>1, <1>2, <1>t, <1>4, <2>1 DEF LwOrder, LwClient, LwSslNew, LwSslStarted, LwSslFailed, LwSslDone
  <2>4. LwSeen(e.seen, ssl, FALSE)
    BY <1>1, <1>4, <2>1 DEF LwOrder
  <2>6. ssl /\ LwDone(e) /\ e.pcb = "none" => "CLOSE_CONN" \in w.has
    BY <1>1, <1>2, <1>t, <1>4, <2>1 DEF LwOrder, LwAccepted, LwClient, LwSslNew
  <2> QED
    BY <2>2, <2>3, <2>4, <2>6 DEF LwOrder
<1> QED  BY <1>1, <1>3, <1>4, <1>e DEF LwGood

LEMMA LwSentCb ==
  ASSUME NEW d \in LwConn, d.life = "live", NEW ssl \in BOOLEAN, NEW v \in LwViews, NEW w,
         d.pcb = "established", d.unacked > 0, LwPosts(v, w, "SENT_CB")
  PROVE  LwGood(d, [d EXCEPT !.numSent = @ + d.unacked, !.unacked = 0, !.missed = @ \/ v.at = "telling"], ssl, v, w, TRUE)
<1>t. /\ d.rx \in Nat /\ d.numSent \in Nat /\ d.slen \in Nat /\ d.unacked \in Nat /\ d.came \in Nat /\ d.asked \in Nat /\ d.told \in Nat
      /\ d.missed \in BOOLEAN
      /\ d.recvPending \in BOOLEAN /\ d.err \in BOOLEAN /\ d.fin \in BOOLEAN /\ d.flags \in SUBSET LwFlags
      /\ d.kind \in {"client", "accepted"} /\ d.pcb \in {"none", "syn", "established", "unused"}
      /\ d.ssl \in {"none", "new", "started", "failed"}
  BY DEF LwConn
<1> DEFINE znumSent == (d.numSent + d.unacked)
           zunacked == 0
           zmissed == (d.missed \/ v.at = "telling")
<1>z. znumSent \in Nat /\ zunacked \in Nat /\ zmissed \in BOOLEAN  BY <1>t DEF LwFlags, LwConnecting
<1> PICK e : e = [d EXCEPT !.numSent = znumSent, !.unacked = zunacked, !.missed = zmissed]  OBVIOUS
<1>e. e = [d EXCEPT !.numSent = @ + d.unacked, !.unacked = 0, !.missed = @ \/ v.at = "telling"]  OBVIOUS
<1> HIDE DEF znumSent, zunacked, zmissed
<1>s. /\ e \in LwConn /\ e.numSent = znumSent /\ e.unacked = zunacked /\ e.missed = zmissed /\ e.life = d.life
      /\ e.kind = d.kind /\ e.pcb = d.pcb /\ e.flags = d.flags /\ e.rx = d.rx
      /\ e.recvPending = d.recvPending /\ e.err = d.err /\ e.slen = d.slen /\ e.ssl = d.ssl
      /\ e.fin = d.fin /\ e.came = d.came /\ e.asked = d.asked /\ e.told = d.told /\ e.seen = d.seen
  BY <1>z DEF LwConn
<1>1. /\ e \in LwConn /\ e.numSent = (d.numSent + d.unacked) /\ e.unacked = 0 /\ (e.missed <=> d.missed \/ v.at = "telling") /\ e.life = d.life
      /\ e.kind = d.kind /\ e.pcb = d.pcb /\ e.flags = d.flags /\ e.rx = d.rx
      /\ e.recvPending = d.recvPending /\ e.err = d.err /\ e.slen = d.slen /\ e.ssl = d.ssl
      /\ e.fin = d.fin /\ e.came = d.came /\ e.asked = d.asked /\ e.told = d.told /\ e.seen = d.seen
  BY <1>s DEF znumSent, zunacked, zmissed
<1>2. /\ w.has = v.has \cup {"SENT_CB"} /\ w.at = v.at /\ w.n = v.n /\ (v.ends => w.ends)
      /\ \A t \in {"CONNECT_RESULT", "ACCEPT"} : (t \in w.leads <=> t \in v.leads) /\ (t \in w.once <=> t \in v.once)
  BY DEF LwPosts, LwViews, LwSigs
<1>3. ASSUME LwKept(d, ssl, v)  PROVE LwKept(e, ssl, w)
  <2>1. ASSUME ~ssl, ~e.missed  PROVE e.slen + e.unacked + e.numSent + e.told = e.asked
    <3>1. d.slen + d.unacked + d.numSent + d.told = d.asked  BY <1>1, <1>3, <2>1 DEF LwKept
    <3> QED  BY <1>1, <1>t, <3>1
  <2>2. v.at = "telling" => e.missed  BY <1>1
  <2> QED  BY <1>1, <1>2, <1>3, <1>t, <2>1, <2>2 DEF LwKept, LwClosing
<1>4. ASSUME TRUE, LwOrder(d, ssl, v)  PROVE LwOrder(e, ssl, w)
  <2>1. (LwConnecting(e) <=> LwConnecting(d)) /\ (LwDone(e) <=> LwDone(d)) /\ (LwClosing(e) <=> LwClosing(d))
    BY <1>1 DEF LwConnecting, LwDone, LwClosing
  <2>2. e.kind = "accepted" => LwAccepted(e, ssl, w)
    BY <1>1, <1>2, <1>t, <1>4, <2>1 DEF LwOrder, LwAccepted
  <2>3. e.kind = "client" => LwClient(e, ssl, w)
    BY <1>1, <1>2, <1>t, <1>4, <2>1 DEF LwOrder, LwClient, LwSslNew, LwSslStarted, LwSslFailed, LwSslDone
  <2>4. LwSeen(e.seen, ssl, FALSE)
    BY <1>1, <1>4, <2>1 DEF LwOrder
  <2>6. ssl /\ LwDone(e) /\ e.pcb = "none" => "CLOSE_CONN" \in w.has
    BY <1>1, <1>2, <1>t, <1>4, <2>1 DEF LwOrder, LwAccepted, LwClient, LwSslNew
  <2> QED
    BY <2>2, <2>3, <2>4, <2>6 DEF LwOrder
<1> QED  BY <1>1, <1>3, <1>4, <1>e DEF LwGood

LEMMA LwUserSend ==
  ASSUME NEW d \in LwConn, d.life = "live", NEW ssl \in BOOLEAN, NEW v \in LwViews, NEW w,
         w = v
  PROVE  LwGood(d, [d EXCEPT !.slen = @ + 1, !.asked = @ + 1], ssl, v, w, TRUE)
<1>t. /\ d.rx \in Nat /\ d.numSent \in Nat /\ d.slen \in Nat /\ d.unacked \in Nat /\ d.came \in Nat /\ d.asked \in Nat /\ d.told \in Nat
      /\ d.missed \in BOOLEAN
      /\ d.recvPending \in BOOLEAN /\ d.err \in BOOLEAN /\ d.fin \in BOOLEAN /\ d.flags \in SUBSET LwFlags
      /\ d.kind \in {"client", "accepted"} /\ d.pcb \in {"none", "syn", "established", "unused"}
      /\ d.ssl \in {"none", "new", "started", "failed"}
  BY DEF LwConn
<1> DEFINE zslen == (d.slen + 1)
           zasked == (d.asked + 1)
<1>z. zslen \in Nat /\ zasked \in Nat  BY <1>t DEF LwFlags, LwConnecting
<1> PICK e : e = [d EXCEPT !.slen = zslen, !.asked = zasked]  OBVIOUS
<1>e. e = [d EXCEPT !.slen = @ + 1, !.asked = @ + 1]  OBVIOUS
<1> HIDE DEF zslen, zasked
<1>s. /\ e \in LwConn /\ e.slen = zslen /\ e.asked = zasked /\ e.life = d.life /\ e.kind = d.kind
      /\ e.pcb = d.pcb /\ e.flags = d.flags /\ e.rx = d.rx /\ e.recvPending = d.recvPending
      /\ e.err = d.err /\ e.numSent = d.numSent /\ e.ssl = d.ssl /\ e.unacked = d.unacked
      /\ e.fin = d.fin /\ e.came = d.came /\ e.told = d.told /\ e.missed = d.missed /\ e.seen = d.seen
  BY <1>z DEF LwConn
<1>1. /\ e \in LwConn /\ e.slen = (d.slen + 1) /\ e.asked = (d.asked + 1) /\ e.life = d.life
      /\ e.kind = d.kind /\ e.pcb = d.pcb /\ e.flags = d.flags /\ e.rx = d.rx
      /\ e.recvPending = d.recvPending /\ e.err = d.err /\ e.numSent = d.numSent /\ e.ssl = d.ssl
      /\ e.unacked = d.unacked /\ e.fin = d.fin /\ e.came = d.came /\ e.told = d.told /\ e.missed = d.missed /\ e.seen = d.seen
  BY <1>s DEF zslen, zasked
<1>2. w = v  BY DEF LwPosts, LwViews, LwSigs
<1>3. LwKept(d, ssl, v) => LwKept(e, ssl, w)  BY <1>1, <1>2, <1>t DEF LwKept, LwClosing
<1>4. ASSUME TRUE, LwOrder(d, ssl, v)  PROVE LwOrder(e, ssl, w)
  <2>1. (LwConnecting(e) <=> LwConnecting(d)) /\ (LwDone(e) <=> LwDone(d)) /\ (LwClosing(e) <=> LwClosing(d))
    BY <1>1 DEF LwConnecting, LwDone, LwClosing
  <2>2. e.kind = "accepted" => LwAccepted(e, ssl, w)
    BY <1>1, <1>2, <1>t, <1>4, <2>1 DEF LwOrder, LwAccepted
  <2>3. e.kind = "client" => LwClient(e, ssl, w)
    BY <1>1, <1>2, <1>t, <1>4, <2>1 DEF LwOrder, LwClient, LwSslNew, LwSslStarted, LwSslFailed, LwSslDone
  <2>4. LwSeen(e.seen, ssl, FALSE)
    BY <1>1, <1>4, <2>1 DEF LwOrder
  <2>6. ssl /\ LwDone(e) /\ e.pcb = "none" => "CLOSE_CONN" \in w.has
    BY <1>1, <1>2, <1>t, <1>4, <2>1 DEF LwOrder, LwAccepted, LwClient, LwSslNew
  <2> QED
    BY <2>2, <2>3, <2>4, <2>6 DEF LwOrder
<1> QED  BY <1>1, <1>3, <1>4, <1>e DEF LwGood

\* Connections that are new: what is posted is all there is.
LwFresh(e, ssl, v, w) ==
    /\ e \in LwConn /\ e.life = "live" /\ LwKept(e, ssl, w)
    /\ v.has = {} => LwOrder(e, ssl, w)

LEMMA LwUnused ==
  LET u == LW!Unused
  IN  /\ u \in LwConn /\ u.life = "none" /\ u.kind = "client" /\ u.pcb = "none"
      /\ u.rx = 0 /\ u.flags = {} /\ u.recvPending = FALSE /\ u.err = FALSE /\ u.numSent = 0 /\ u.slen = 0
      /\ u.ssl = "new" /\ u.unacked = 0 /\ u.fin = FALSE /\ u.came = 0 /\ u.asked = 0 /\ u.told = 0 /\ u.missed = FALSE /\ u.seen = <<>>
<1> PICK u : u = LW!Unused  OBVIOUS
<1>1. /\ u.life = "none" /\ u.kind = "client" /\ u.pcb = "none"
      /\ u.rx = 0 /\ u.flags = {} /\ u.recvPending = FALSE /\ u.err = FALSE /\ u.numSent = 0 /\ u.slen = 0
      /\ u.ssl = "new" /\ u.unacked = 0 /\ u.fin = FALSE /\ u.came = 0 /\ u.asked = 0 /\ u.told = 0 /\ u.missed = FALSE /\ u.seen = <<>>
  BY DEF LW!Unused
<1>2. u \in LwConn  BY DEF LwConn, LW!Unused
<1> QED  BY <1>1, <1>2

LEMMA LwAcceptCb ==
  ASSUME NEW ssl \in BOOLEAN, NEW v \in LwViews, NEW w, v.at = "none", LwPosts(v, w, "ACCEPT")
  PROVE  LwFresh([LW!Unused EXCEPT !.life = "live", !.kind = "accepted", !.pcb = "established",
                                   !.ssl = "none"], ssl, v, w)
<1> PICK u : u = LW!Unused  OBVIOUS
<1>u. /\ u \in LwConn
      /\ u.rx = 0 /\ u.flags = {} /\ u.recvPending = FALSE /\ u.err = FALSE /\ u.numSent = 0 /\ u.slen = 0
      /\ u.ssl = "new" /\ u.unacked = 0 /\ u.fin = FALSE /\ u.came = 0 /\ u.asked = 0 /\ u.told = 0 /\ u.missed = FALSE /\ u.seen = <<>>
  BY LwUnused
<1> PICK e : e = [u EXCEPT !.life = "live", !.kind = "accepted", !.pcb = "established", !.ssl = "none"]  OBVIOUS
<1>a. /\ e \in LwConn /\ e.life = "live" /\ e.kind = "accepted" /\ e.pcb = "established"
      /\ e.rx = 0 /\ e.flags = {} /\ e.recvPending = FALSE /\ e.err = FALSE /\ e.numSent = 0 /\ e.slen = 0
      /\ e.ssl = "none" /\ e.unacked = 0 /\ e.fin = FALSE /\ e.asked = 0 /\ e.told = 0 /\ e.seen = <<>>
  BY <1>u DEF LwConn
<1>2. w.at = "none" /\ (v.has = {} => w.has = {"ACCEPT"} /\ "ACCEPT" \in w.leads)  BY DEF LwPosts
<1>3. LwSeen(<<>>, ssl, FALSE)  BY DEF LwSeen
<1>4. LwKept(e, ssl, w)  BY <1>a, <1>2 DEF LwKept
<1>5. ASSUME v.has = {}  PROVE LwOrder(e, ssl, w)
  <2>1. ~LwConnecting(e) /\ ~LwDone(e)  BY <1>a DEF LwConnecting, LwDone
  <2>2. LwAccepted(e, ssl, w)  BY <1>a, <1>2, <1>5, <2>1 DEF LwAccepted
  <2> QED  BY <1>a, <1>3, <2>1, <2>2 DEF LwOrder
<1> QED  BY <1>a, <1>4, <1>5 DEF LwFresh

LEMMA LwConnect ==
  ASSUME NEW ssl \in BOOLEAN, NEW v \in LwViews, NEW w, v.at = "none", v.has = {} => "CONNECT_RESULT" \in v.leads,
         NEW ok \in BOOLEAN, IF ok THEN w = v ELSE LwPosts(v, w, "CONNECT_RESULT")
  PROVE  LwFresh([LW!Unused EXCEPT !.life = "live", !.flags = {"CONNECTING"},
                                   !.pcb = IF ok THEN "syn" ELSE "unused", !.err = ~ok], ssl, v, w)
<1> PICK u : u = LW!Unused  OBVIOUS
<1>u. /\ u \in LwConn /\ u.kind = "client"
      /\ u.rx = 0 /\ u.flags = {} /\ u.recvPending = FALSE /\ u.numSent = 0 /\ u.slen = 0
      /\ u.ssl = "new" /\ u.unacked = 0 /\ u.fin = FALSE /\ u.came = 0 /\ u.asked = 0 /\ u.told = 0 /\ u.missed = FALSE /\ u.seen = <<>>
  BY LwUnused
<1> DEFINE pcb == IF ok THEN "syn" ELSE "unused"
           err == ~ok
           flags == {"CONNECTING"}
<1>p. pcb \in {"none", "syn", "established", "unused"} /\ flags \in SUBSET LwFlags /\ err \in BOOLEAN  BY DEF LwFlags
<1>q. pcb \in {"syn", "unused"} /\ (err <=> pcb = "unused") /\ (ok <=> pcb = "syn")  OBVIOUS
<1> PICK e : e = [u EXCEPT !.life = "live", !.flags = flags, !.pcb = pcb, !.err = err]  OBVIOUS
<1>e. e = [LW!Unused EXCEPT !.life = "live", !.flags = {"CONNECTING"},
                            !.pcb = IF ok THEN "syn" ELSE "unused", !.err = ~ok]
  OBVIOUS
<1> HIDE DEF pcb, err, flags
<1>a. /\ e \in LwConn /\ e.life = "live" /\ e.kind = "client" /\ e.pcb = pcb
      /\ e.rx = 0 /\ e.flags = flags /\ e.recvPending = FALSE /\ e.err = err /\ e.numSent = 0 /\ e.slen = 0
      /\ e.ssl = "new" /\ e.unacked = 0 /\ e.fin = FALSE /\ e.asked = 0 /\ e.told = 0 /\ e.seen = <<>>
  BY <1>u, <1>p DEF LwConn
<1>2. w.at = "none"  BY DEF LwPosts
<1>3. v.has = {} => w.has = (IF ok THEN {} ELSE {"CONNECT_RESULT"}) /\ "CONNECT_RESULT" \in w.leads  BY DEF LwPosts
<1>4. LwSeen(<<>>, ssl, FALSE) /\ LwAllFailed(<<>>)  BY DEF LwSeen, LwAllFailed
<1>5. LwKept(e, ssl, w)  BY <1>a, <1>2, <1>q DEF LwKept
<1>6. LwConnecting(e) /\ ~LwDone(e)  BY <1>a DEF LwConnecting, LwDone, flags
<1>7. "WANT_READ" \notin e.flags /\ "WANT_WRITE" \notin e.flags
  BY <1>a DEF flags
<1>8. ASSUME v.has = {}  PROVE LwOrder(e, ssl, w)
  <2>1. e.pcb = "unused" => e.err /\ "CONNECT_RESULT" \in w.has  BY <1>8, <1>a, <1>q, <1>3
  <2>2. e.pcb = "syn" => w.has = {}  BY <1>8, <1>a, <1>q, <1>3
  <2>3. w.has \subseteq {"CONNECT_RESULT"} /\ e.pcb \in {"syn", "unused"}  BY <1>8, <1>a, <1>q, <1>3
  <2>4. LwSslNew(e, w)  BY <1>8, <1>a, <1>2, <1>3, <1>4, <1>6, <1>7, <2>1, <2>2, <2>3 DEF LwSslNew
  <2>5. LwClient(e, ssl, w)  BY <1>8, <1>a, <1>2, <1>3, <1>4, <1>6, <2>1, <2>2, <2>3, <2>4 DEF LwClient
  <2> QED  BY <1>a, <1>4, <1>6, <1>7, <2>5 DEF LwOrder
<1>9. LwFresh(e, ssl, v, w)  BY <1>a, <1>5, <1>8 DEF LwFresh
<1> QED  BY <1>e, <1>9
-----------------------------------------------------------------------------
\* A handshake that is under way, in order.
LwShaking(d, v) ==
    /\ ~LwDone(d) /\ d.pcb = "established" /\ d.ssl # "none" /\ LwSeen(d.seen, TRUE, FALSE)
    /\ d.kind = "accepted" => ~LwConnecting(d) /\ "CONNECT_RESULT" \notin v.has /\ d.seen = <<>>
    /\ d.kind = "client" =>
         /\ "ACCEPT" \notin v.has /\ (LwConnecting(d) <=> d.seen = <<>>)
         /\ d.ssl \in {"new", "started"} => "CONNECT_RESULT" \notin v.has /\ LwConnecting(d) /\ ~d.err
         /\ d.ssl = "failed" => d.err /\ LwAllFailed(d.seen) /\ (~LwConnecting(d) => LwClosing(d))

\* What a step that ends in r.d, posting r.sig if it is one, has to do.
LwResult(d, r, v, w) ==
    /\ r.d \in LwConn /\ r.d.life = "live" /\ (r.d.ssl = "none" => d.ssl = "none")
    /\ LwKept(d, TRUE, v) => LwKept(r.d, TRUE, w)
LwPostsIf(v, w, s) == IF s = LW!NULL THEN w = v ELSE LwPosts(v, w, s)

LEMMA LwShaken ==
  ASSUME NEW d \in LwConn, d.life = "live", NEW v \in LwViews, NEW w,
         NEW r \in LW!Shaken(d), LwPostsIf(v, w, r.sig)
  PROVE  LwResult(d, r, v, w) /\ (LwShaking(d, v) => LwOrder(r.d, TRUE, w))
<1>t. /\ d.rx \in Nat /\ d.numSent \in Nat /\ d.slen \in Nat /\ d.unacked \in Nat /\ d.came \in Nat /\ d.asked \in Nat /\ d.told \in Nat
      /\ d.missed \in BOOLEAN
      /\ d.recvPending \in BOOLEAN /\ d.err \in BOOLEAN /\ d.fin \in BOOLEAN /\ d.flags \in SUBSET LwFlags
      /\ d.kind \in {"client", "accepted"} /\ d.pcb \in {"none", "syn", "established", "unused"}
      /\ d.ssl \in {"none", "new", "started", "failed"}
  BY DEF LwConn
<1> DEFINE done == [d EXCEPT !.err = FALSE, !.rx = @ - 1,
                          !.flags = (@ \ {"WANT_WRITE"}) \cup {"HANDSHAKE_DONE", "WANT_READ"}]
           wantWrite == [d EXCEPT !.flags = @ \cup {"WANT_WRITE"}, !.err = FALSE, !.ssl = "started"]
           wantRead == [d EXCEPT !.flags = @ \ {"WANT_READ"}, !.err = FALSE, !.rx = 0, !.ssl = "started"]
           fail == [d EXCEPT !.err = TRUE, !.ssl = "failed", !.rx = 0]
           refused == [d |-> fail,
                      sig |-> IF d.kind = "accepted" THEN "CLOSE_CONN" ELSE "CONNECT_RESULT"]
<1>q. \A e : LW!Quietly(e).d = e /\ LW!Quietly(e).sig = LW!NULL  BY DEF LW!Quietly
<1>0. \/ r = refused
      \/ d.ssl # "failed" /\ r = LW!Quietly(wantWrite)
      \/ d.ssl # "failed" /\ r = LW!Quietly(wantRead)
      \/ /\ d.ssl \notin {"new", "failed"} /\ d.rx # 0 /\ d.kind = "accepted"
         /\ \E e \in LW!Called(done, "ACCEPT") : r = LW!Quietly(e)
      \/ d.ssl \notin {"new", "failed"} /\ d.rx # 0 /\ d.kind = "client" /\ r = [d |-> done, sig |-> "CONNECT_RESULT"]
  BY <1>t DEF LW!Shaken
<1>2. ASSUME r = refused
      PROVE  LwResult(d, r, v, w) /\ (LwShaking(d, v) => LwOrder(r.d, TRUE, w))
  <2> DEFINE s == IF d.kind = "accepted" THEN "CLOSE_CONN" ELSE "CONNECT_RESULT"
  <2> PICK e : e = fail  OBVIOUS
  <2>1. r.d = e /\ r.sig = s  BY <1>2
  <2>2. /\ e \in LwConn /\ e.err = TRUE /\ e.ssl = "failed" /\ e.rx = 0
        /\ e.life = d.life /\ e.kind = d.kind /\ e.pcb = d.pcb /\ e.flags = d.flags
        /\ e.recvPending = d.recvPending /\ e.numSent = d.numSent /\ e.slen = d.slen
        /\ e.unacked = d.unacked /\ e.fin = d.fin /\ e.came = d.came /\ e.asked = d.asked /\ e.told = d.told /\ e.missed = d.missed /\ e.seen = d.seen
    BY DEF LwConn
  <2>3. s \in {"CLOSE_CONN", "CONNECT_RESULT"} /\ LwPosts(v, w, s)  BY <2>1 DEF LwPostsIf, LW!NULL
  <2>4. w.has = v.has \cup {s} /\ w.at = v.at /\ w.n = v.n /\ (v.ends => w.ends)  BY <2>3 DEF LwPosts, LwViews
  <2>5. (LwConnecting(e) <=> LwConnecting(d)) /\ (LwDone(e) <=> LwDone(d)) /\ (LwClosing(e) <=> LwClosing(d))
    BY <2>2 DEF LwConnecting, LwDone, LwClosing
  <2>6. d.kind = "client" => w.has = v.has \cup {"CONNECT_RESULT"}  BY <2>4
  <2>7. d.kind = "accepted" => w.has = v.has \cup {"CLOSE_CONN"}  BY <2>4
  <2> HIDE DEF done, wantWrite, wantRead, refused, fail, s
  <2>8. LwResult(d, r, v, w)  BY <1>t, <2>1, <2>2, <2>3, <2>4 DEF LwResult, LwKept
  <2>9. LwAllFailed(<<>>)  BY DEF LwAllFailed
  <2>10. ASSUME LwShaking(d, v)  PROVE LwOrder(e, TRUE, w)
    <3>1. d.kind = "client" => LwAllFailed(d.seen)  BY <2>9, <2>10, <1>t DEF LwShaking
    <3>2. e.kind = "accepted" => LwAccepted(e, TRUE, w)
      BY <2>2, <2>5, <2>7, <2>10 DEF LwShaking, LwAccepted
    <3>3. e.kind = "client" => LwClient(e, TRUE, w)
      BY <1>t, <2>2, <2>5, <2>6, <2>10, <3>1 DEF LwShaking, LwClient, LwSslFailed
    <3> QED  BY <2>2, <2>5, <2>10, <3>2, <3>3 DEF LwShaking, LwOrder
  <2> QED  BY <2>1, <2>8, <2>10
<1>3. ASSUME NEW e, r = LW!Quietly(e), d.ssl # "failed", e = wantWrite \/ e = wantRead
      PROVE  LwResult(d, r, v, w) /\ (LwShaking(d, v) => LwOrder(r.d, TRUE, w))
  <2>1. r.d = e /\ w = v  BY <1>3, <1>q DEF LwPostsIf
  <2>2. PICK z \in {d.flags \cup {"WANT_WRITE"}, d.flags \ {"WANT_READ"}}, n \in {0, d.rx} :
           e = [d EXCEPT !.flags = z, !.err = FALSE, !.rx = n, !.ssl = "started"]
    <3>1. CASE e = wantWrite
      <4>1. wantWrite = [d EXCEPT !.flags = d.flags \cup {"WANT_WRITE"}, !.err = FALSE, !.rx = d.rx, !.ssl = "started"]
        BY DEF LwConn
      <4> HIDE DEF wantWrite
      <4> QED  BY <3>1, <4>1
    <3>2. CASE e = wantRead  BY <3>2
    <3> QED  BY <1>3, <3>1, <3>2
  <2>3. z \in SUBSET LwFlags /\ n \in Nat  BY <2>2, <1>t DEF LwFlags
  <2>4. /\ e \in LwConn /\ e.err = FALSE /\ e.ssl = "started" /\ e.flags = z
        /\ e.life = d.life /\ e.kind = d.kind /\ e.pcb = d.pcb
        /\ e.recvPending = d.recvPending /\ e.numSent = d.numSent /\ e.slen = d.slen
        /\ e.unacked = d.unacked /\ e.fin = d.fin /\ e.came = d.came /\ e.asked = d.asked /\ e.told = d.told /\ e.missed = d.missed /\ e.seen = d.seen
    BY <2>2, <2>3 DEF LwConn
  <2>5. /\ LwConnecting(e) <=> LwConnecting(d)
        /\ LwDone(e) <=> LwDone(d)
        /\ LwClosing(e) <=> LwClosing(d)
    BY <2>2, <2>4 DEF LwConnecting, LwDone, LwClosing
  <2> HIDE DEF done, wantWrite, wantRead, refused, fail
  <2>6. LwResult(d, r, v, w)  BY <1>t, <2>1, <2>4, <2>5 DEF LwResult, LwKept
  <2>7. LwShaking(d, v) => LwOrder(e, TRUE, v)
    BY <1>t, <1>3, <2>4, <2>5 DEF LwShaking, LwOrder, LwAccepted, LwClient, LwSslStarted
  <2> QED  BY <2>1, <2>6, <2>7
<1>4. ASSUME d.ssl \notin {"new", "failed"}, d.rx # 0
      PROVE  /\ done \in LwConn /\ done.err = FALSE /\ done.rx = d.rx - 1
             /\ done.flags = (d.flags \ {"WANT_WRITE"}) \cup {"HANDSHAKE_DONE", "WANT_READ"}
             /\ done.life = d.life /\ done.kind = d.kind /\ done.pcb = d.pcb /\ done.ssl = d.ssl
             /\ done.recvPending = d.recvPending /\ done.numSent = d.numSent /\ done.slen = d.slen
             /\ done.unacked = d.unacked /\ done.fin = d.fin /\ done.came = d.came /\ done.asked = d.asked
             /\ done.told = d.told /\ done.missed = d.missed
             /\ done.seen = d.seen
  <2> PICK n : n = d.rx - 1  OBVIOUS
  <2> PICK z : z = (d.flags \ {"WANT_WRITE"}) \cup {"HANDSHAKE_DONE", "WANT_READ"}  OBVIOUS
  <2>1. n \in Nat  BY <1>t, <1>4
  <2>2. z \in SUBSET LwFlags  BY <1>t DEF LwFlags
  <2> PICK e : e = [d EXCEPT !.err = FALSE, !.rx = n, !.flags = z]  OBVIOUS
  <2>3. e = done  BY DEF LwConn
  <2> HIDE DEF done
  <2>4. /\ e \in LwConn /\ e.err = FALSE /\ e.rx = n /\ e.flags = z
        /\ e.life = d.life /\ e.kind = d.kind /\ e.pcb = d.pcb /\ e.ssl = d.ssl
        /\ e.recvPending = d.recvPending /\ e.numSent = d.numSent /\ e.slen = d.slen
        /\ e.unacked = d.unacked /\ e.fin = d.fin /\ e.came = d.came /\ e.asked = d.asked /\ e.told = d.told /\ e.missed = d.missed /\ e.seen = d.seen
    BY <2>1, <2>2 DEF LwConn
  <2> QED  BY <2>3, <2>4
<1> HIDE DEF done
<1>5. ASSUME d.ssl \notin {"new", "failed"}, d.rx # 0, d.kind = "accepted", NEW e \in LW!Called(done, "ACCEPT"), r = LW!Quietly(e)
      PROVE  LwResult(d, r, v, w) /\ (LwShaking(d, v) => LwOrder(r.d, TRUE, w))
  <2>1. r.d = e /\ w = v  BY <1>5, <1>q DEF LwPostsIf
  <2>2. "ACCEPT" \in LW!Events  BY DEF LW!Events
  <2> PICK m : m = done  OBVIOUS
  <2>m. /\ m \in LwConn /\ m.err = FALSE /\ m.flags = done.flags
        /\ m.life = d.life /\ m.kind = d.kind /\ m.pcb = d.pcb /\ m.ssl = d.ssl
        /\ m.recvPending = d.recvPending /\ m.numSent = d.numSent /\ m.slen = d.slen
        /\ m.unacked = d.unacked /\ m.fin = d.fin /\ m.asked = d.asked /\ m.told = d.told /\ m.missed = d.missed /\ m.seen = d.seen
    BY <1>4, <1>5
  <2>n. e \in LW!Called(m, "ACCEPT")  BY <1>5
  <2>o. LwCalls(m, e, "ACCEPT")  BY <2>m, <2>n, <2>2, LwCalled, Zenon
  <2>3. /\ e \in LwConn /\ e.seen = Append(d.seen, "ACCEPT")
        /\ \E f \in {{}, {"CLOSE_IMMEDIATELY"}, {"SEND_AND_CLOSE"}} : e.flags = done.flags \cup f
        /\ e.life = d.life /\ e.kind = d.kind /\ e.pcb = d.pcb /\ e.err = FALSE
        /\ e.recvPending = d.recvPending /\ e.numSent = d.numSent /\ e.slen = d.slen /\ e.ssl = d.ssl
        /\ e.unacked = d.unacked /\ e.fin = d.fin /\ e.asked = d.asked /\ e.told = d.told /\ e.missed = d.missed
    BY <2>m, <2>o DEF LwCalls
  <2>4. LwDone(e) /\ (LwConnecting(e) <=> LwConnecting(d)) /\ (LwClosing(d) => LwClosing(e))
    BY <1>4, <1>5, <2>3 DEF LwDone, LwConnecting, LwClosing
  <2>5. d.seen \in Seq(LW!Events)  BY DEF LwConn
  <2>6. /\ e.seen # <<>>
        /\ LwSeen(d.seen, TRUE, FALSE) /\ d.seen = <<>> => LwSeen(e.seen, TRUE, FALSE)
    BY <2>2, <2>3, <2>5, LwSeenMore, LwAppended
  <2> HIDE DEF wantWrite, wantRead, refused, fail
  <2>7. LwResult(d, r, v, w)  BY <1>t, <2>1, <2>3, <2>4 DEF LwResult, LwKept
  <2>8. LwShaking(d, v) => LwOrder(e, TRUE, v)
    BY <1>t, <1>5, <2>3, <2>4, <2>6 DEF LwShaking, LwOrder, LwAccepted
  <2> QED  BY <2>1, <2>7, <2>8
<1>6. ASSUME d.ssl \notin {"new", "failed"}, d.rx # 0, d.kind = "client", r = [d |-> done, sig |-> "CONNECT_RESULT"]
      PROVE  LwResult(d, r, v, w) /\ (LwShaking(d, v) => LwOrder(r.d, TRUE, w))
  <2> PICK e : e = done  OBVIOUS
  <2>1. r.d = e /\ LwPosts(v, w, "CONNECT_RESULT")  BY <1>6 DEF LwPostsIf, LW!NULL
  <2>2. /\ e \in LwConn /\ e.err = FALSE /\ e.ssl = d.ssl
        /\ e.flags = (d.flags \ {"WANT_WRITE"}) \cup {"HANDSHAKE_DONE", "WANT_READ"}
        /\ e.life = d.life /\ e.kind = d.kind /\ e.pcb = d.pcb
        /\ e.recvPending = d.recvPending /\ e.numSent = d.numSent /\ e.slen = d.slen
        /\ e.unacked = d.unacked /\ e.fin = d.fin /\ e.came = d.came /\ e.asked = d.asked /\ e.told = d.told /\ e.missed = d.missed /\ e.seen = d.seen
    BY <1>4, <1>6
  <2>3. LwDone(e) /\ (LwConnecting(e) <=> LwConnecting(d)) /\ (LwClosing(e) <=> LwClosing(d))
    BY <2>2 DEF LwDone, LwConnecting, LwClosing
  <2>4. w.has = v.has \cup {"CONNECT_RESULT"} /\ w.at = v.at /\ w.n = v.n /\ (v.ends => w.ends)
        /\ ("CONNECT_RESULT" \notin v.has => "CONNECT_RESULT" \in w.once)
    BY <2>1 DEF LwPosts, LwViews
  <2> HIDE DEF wantWrite, wantRead, refused, fail
  <2>5. LwResult(d, r, v, w)  BY <1>t, <2>1, <2>2, <2>3, <2>4 DEF LwResult, LwKept
  <2>6. LwShaking(d, v) => LwOrder(e, TRUE, w)
    BY <1>t, <1>6, <2>2, <2>3, <2>4 DEF LwShaking, LwOrder, LwClient, LwSslDone
  <2> QED  BY <2>1, <2>5, <2>6
<1> HIDE DEF wantWrite, wantRead, refused
<1> QED  BY <1>0, <1>2, <1>3, <1>5, <1>6

\* mg_lwip_ssl_do_hs, which writes or does not, and leaves one that is to close alone.
LEMMA LwHandshake ==
  ASSUME NEW d \in LwConn, d.life = "live", NEW v \in LwViews, NEW w,
         NEW r \in LW!SslDoHs(d), LwPostsIf(v, w, r.sig)
  PROVE  /\ LwResult(d, r, v, w)
         /\ LwShaking(d, v) /\ (LwClosing(d) => LwOrder(d, TRUE, v)) => LwOrder(r.d, TRUE, w)
<1>1. CASE LwClosing(d)
  <2>1. r.d = d /\ r.sig = LW!NULL  BY <1>1 DEF LW!SslDoHs, LW!Quietly, LwClosing
  <2>2. w = v  BY <2>1 DEF LwPostsIf
  <2> QED  BY <1>1, <2>1, <2>2 DEF LwResult
<1>2. CASE ~LwClosing(d)
  <2>1. d.unacked \in Nat  BY DEF LwConn
  <2>2. PICK n \in {d.unacked, d.unacked + 1} : r \in LW!Shaken([d EXCEPT !.unacked = n])
    BY <1>2 DEF LW!SslDoHs, LwClosing
  <2> PICK m : m = [d EXCEPT !.unacked = n]  OBVIOUS
  <2>3. /\ m \in LwConn /\ m.unacked = n /\ m.life = d.life /\ m.kind = d.kind /\ m.pcb = d.pcb /\ m.flags = d.flags
        /\ m.rx = d.rx /\ m.recvPending = d.recvPending /\ m.err = d.err /\ m.numSent = d.numSent
        /\ m.slen = d.slen /\ m.ssl = d.ssl /\ m.fin = d.fin /\ m.came = d.came /\ m.asked = d.asked
        /\ m.told = d.told /\ m.missed = d.missed /\ m.seen = d.seen
    BY <2>1, <2>2 DEF LwConn
  <2>4. r \in LW!Shaken(m)  BY <2>2
  <2>5. LwResult(m, r, v, w) /\ (LwShaking(m, v) => LwOrder(r.d, TRUE, w))  BY <2>3, <2>4, LwShaken
  <2>6. LwKept(d, TRUE, v) => LwKept(m, TRUE, v)  BY <2>3 DEF LwKept, LwClosing
  <2>7. LwShaking(d, v) => LwShaking(m, v)
    BY <2>3 DEF LwShaking, LwDone, LwConnecting, LwClosing
  <2> QED  BY <2>3, <2>5, <2>6, <2>7 DEF LwResult
<1> QED  BY <1>1, <1>2
-----------------------------------------------------------------------------
\* What a result of the handlers needs of the signal s that was taken.
LwTook(v, w, s) ==
    /\ s \in v.has /\ w.has \subseteq v.has /\ v.has \ {s} \subseteq w.has
    /\ \A t \in {"CONNECT_RESULT", "ACCEPT"} :
         /\ t \in v.leads => t \in w.leads /\ (t # s => t \notin v.has)
         /\ t \in v.once => t \in w.once
         /\ t = s /\ t \in v.leads \cup v.once => t \notin w.has
    /\ s # "RECV" /\ v.ends => w.ends

LEMMA LwTakesTook == \A v, w, s : LwTakes(v, w, s) => LwTook(v, w, s)
BY DEF LwTakes, LwTook

\* The result of a connect() is known: a handshake starts, or the application is told.
LEMMA LwResultStarts ==
  ASSUME NEW d \in LwConn, d.life = "live", NEW v, NEW w,
         LwTook(v, w, "CONNECT_RESULT"), v.at = "none", w.at = "none", ~d.err, ~LwDone(d)
  PROVE  /\ LwKept(d, TRUE, v) => LwKept(d, TRUE, w)
         /\ LwOrder(d, TRUE, v) => LwShaking(d, w) /\ (LwClosing(d) => LwOrder(d, TRUE, w))
<1>t. /\ d.rx \in Nat /\ d.numSent \in Nat /\ d.slen \in Nat /\ d.unacked \in Nat /\ d.came \in Nat /\ d.asked \in Nat /\ d.told \in Nat
      /\ d.missed \in BOOLEAN
      /\ d.recvPending \in BOOLEAN /\ d.err \in BOOLEAN /\ d.fin \in BOOLEAN /\ d.flags \in SUBSET LwFlags
      /\ d.kind \in {"client", "accepted"} /\ d.pcb \in {"none", "syn", "established", "unused"}
      /\ d.ssl \in {"none", "new", "started", "failed"} /\ d.seen \in Seq(LW!Events)
  BY DEF LwConn
<1>1. LwKept(d, TRUE, v) => LwKept(d, TRUE, w)  BY DEF LwKept, LwTook
<1>2. ASSUME LwOrder(d, TRUE, v)  PROVE LwShaking(d, w) /\ (LwClosing(d) => LwOrder(d, TRUE, w))
  <2>1. d.kind = "client"  BY <1>t, <1>2 DEF LwOrder, LwAccepted, LwTook
  <2>2. d.ssl = "new"  BY <1>t, <1>2, <2>1 DEF LwOrder, LwClient, LwSslStarted, LwSslFailed, LwTook
  <2>3. LwClient(d, TRUE, v) /\ LwSslNew(d, v)  BY <1>2, <2>1, <2>2 DEF LwOrder, LwClient
  <2>4. d.pcb = "established" /\ "CONNECT_RESULT" \notin w.has /\ LwConnecting(d)
    BY <1>t, <2>2, <2>3 DEF LwClient, LwSslNew, LwTook
  <2>5. d.seen = <<>> /\ "ACCEPT" \notin w.has  BY <1>t, <2>2, <2>3, <2>4 DEF LwClient, LwSslNew, LwTook
  <2>6. LwSeen(d.seen, TRUE, FALSE)  BY <1>2 DEF LwOrder
  <2>7. LwShaking(d, w)  BY <2>1, <2>2, <2>4, <2>5, <2>6 DEF LwShaking
  <2>8. LwClosing(d) => LwSslNew(d, w)  BY <2>3, <2>4 DEF LwSslNew, LwTook
  <2>9. LwClosing(d) => LwClient(d, TRUE, w)  BY <2>2, <2>3, <2>4, <2>5, <2>8 DEF LwClient
  <2> QED  BY <2>1, <2>4, <2>6, <2>7, <2>9 DEF LwOrder
<1> QED  BY <1>1, <1>2

LEMMA LwResultTold ==
  ASSUME NEW d \in LwConn, d.life = "live", NEW ssl \in BOOLEAN, NEW v, NEW w,
         LwTook(v, w, "CONNECT_RESULT"), v.at = "none", w.at = "none", d.err \/ ~ssl \/ LwDone(d),
         NEW e \in LW!Called([d EXCEPT !.flags = (@ \ {"CONNECTING"}) \cup (IF d.err THEN {"CLOSE_IMMEDIATELY"} ELSE {})],
                             IF d.err THEN "FAILED" ELSE "CONNECT")
  PROVE  LwGood(d, e, ssl, v, w, TRUE)
<1>t. /\ d.rx \in Nat /\ d.numSent \in Nat /\ d.slen \in Nat /\ d.unacked \in Nat /\ d.came \in Nat /\ d.asked \in Nat /\ d.told \in Nat
      /\ d.missed \in BOOLEAN
      /\ d.recvPending \in BOOLEAN /\ d.err \in BOOLEAN /\ d.fin \in BOOLEAN /\ d.flags \in SUBSET LwFlags
      /\ d.kind \in {"client", "accepted"} /\ d.pcb \in {"none", "syn", "established", "unused"}
      /\ d.ssl \in {"none", "new", "started", "failed"} /\ d.seen \in Seq(LW!Events)
  BY DEF LwConn
<1> DEFINE ev == IF d.err THEN "FAILED" ELSE "CONNECT"
           z == (d.flags \ {"CONNECTING"}) \cup (IF d.err THEN {"CLOSE_IMMEDIATELY"} ELSE {})
<1> PICK m : m = [d EXCEPT !.flags = z]  OBVIOUS
<1>e. e \in LW!Called(m, ev)  OBVIOUS
<1>z. z \in SUBSET LwFlags /\ "CONNECTING" \notin z /\ (d.err => "CLOSE_IMMEDIATELY" \in z)
      /\ ("HANDSHAKE_DONE" \in z <=> "HANDSHAKE_DONE" \in d.flags)
      /\ ("WANT_READ" \in z <=> "WANT_READ" \in d.flags) /\ ("WANT_WRITE" \in z <=> "WANT_WRITE" \in d.flags)
      /\ d.flags \ {"CONNECTING"} \subseteq z
  BY <1>t DEF LwFlags
<1>v. ev \in LW!Events /\ ev \in {"FAILED", "CONNECT"} /\ (d.err <=> ev = "FAILED")  BY <1>t DEF LW!Events
<1> HIDE DEF ev, z
<1>m. /\ m \in LwConn /\ m.flags = z /\ m.life = d.life /\ m.kind = d.kind /\ m.pcb = d.pcb /\ m.err = d.err /\ m.rx = d.rx
      /\ m.recvPending = d.recvPending /\ m.numSent = d.numSent /\ m.slen = d.slen /\ m.ssl = d.ssl
      /\ m.unacked = d.unacked /\ m.fin = d.fin /\ m.came = d.came /\ m.asked = d.asked /\ m.told = d.told /\ m.missed = d.missed /\ m.seen = d.seen
  BY <1>z DEF LwConn
<1>c. LwCalls(m, e, ev)  BY <1>e, <1>m, <1>v, LwCalled
<1>1. /\ e \in LwConn /\ e.life = d.life /\ e.kind = d.kind /\ e.pcb = d.pcb /\ e.err = d.err /\ e.rx = d.rx
      /\ e.recvPending = d.recvPending /\ e.numSent = d.numSent /\ e.slen = d.slen /\ e.ssl = d.ssl
      /\ e.unacked = d.unacked /\ e.fin = d.fin /\ e.came = d.came /\ e.asked = d.asked /\ e.told = d.told /\ e.missed = d.missed
      /\ e.seen = Append(d.seen, ev)
      /\ \E f \in {{}, {"CLOSE_IMMEDIATELY"}, {"SEND_AND_CLOSE"}} : e.flags = z \cup f
  BY <1>c, <1>m DEF LwCalls
<1>2. /\ ~LwConnecting(e) /\ (LwDone(e) <=> LwDone(d)) /\ (d.err => LwClosing(e))
      /\ "WANT_READ" \in e.flags <=> "WANT_READ" \in d.flags
      /\ "WANT_WRITE" \in e.flags <=> "WANT_WRITE" \in d.flags
      /\ LwClosing(d) => LwClosing(e)
  <2>1. PICK f \in {{}, {"CLOSE_IMMEDIATELY"}, {"SEND_AND_CLOSE"}} : e.flags = z \cup f  BY <1>1
  <2> QED  BY <2>1, <1>z DEF LwConnecting, LwDone, LwClosing
<1>3. LwKept(d, ssl, v) => LwKept(e, ssl, w)  BY <1>1, <1>2, <1>t DEF LwKept, LwTook, LwClosing
<1>4. ASSUME LwOrder(d, ssl, v)  PROVE LwOrder(e, ssl, w)
  <2>1. d.kind = "client"  BY <1>t, <1>4 DEF LwOrder, LwAccepted, LwTook
  <2>2. LwClient(d, ssl, v)  BY <1>4, <2>1 DEF LwOrder
  <2>0. d.ssl # "none"  BY <2>2 DEF LwClient
  <2>3. d.pcb # "syn" /\ "CONNECT_RESULT" \in v.has  BY <2>2 DEF LwClient, LwTook
  <2>4. ~ssl => d.seen = <<>> /\ "CONNECT_RESULT" \notin w.has /\ "CONNECT_RESULT" \in w.leads
    BY <2>2, <2>3 DEF LwClient, LwTook
  <2>5. ssl /\ d.ssl = "new" => d.seen = <<>> /\ d.err /\ d.pcb # "established" /\ "CONNECT_RESULT" \notin w.has
    BY <1>t, <2>2, <2>3 DEF LwClient, LwSslNew, LwTook
  <2>6. ssl /\ d.ssl = "started" => LwDone(d) /\ ~d.err /\ d.seen = <<>> /\ "CONNECT_RESULT" \notin w.has /\ d.pcb = "established"
    BY <1>t, <2>2, <2>3 DEF LwClient, LwSslStarted, LwSslDone, LwTook
  <2>7. ssl /\ d.ssl = "failed" => d.err /\ LwAllFailed(d.seen)  BY <2>2 DEF LwClient, LwSslFailed
  <2>8. d.seen = <<>> \/ (ssl /\ LwAllFailed(d.seen) /\ ev = "FAILED")  BY <1>t, <1>v, <2>0, <2>4, <2>5, <2>6, <2>7
  <2>9. LwSeen(d.seen, ssl, FALSE)  BY <1>4 DEF LwOrder
  <2>10. LwSeen(e.seen, ssl, FALSE) /\ e.seen # <<>>  BY <1>1, <1>t, <1>v, <2>8, <2>9, LwSeenMore, LwAppended
  <2>11. LwAllFailed(<<>>)  BY DEF LwAllFailed
  <2>12. ssl /\ d.ssl \in {"new", "failed"} => LwAllFailed(e.seen)
    BY <1>1, <1>t, <1>v, <2>5, <2>7, <2>11, LwAppended
  <2>13. ssl /\ d.ssl = "new" => LwSslNew(e, w)
    BY <1>1, <1>2, <1>t, <2>2, <2>5, <2>12 DEF LwClient, LwSslNew, LwTook
  <2>14. ssl /\ d.ssl = "failed" => LwSslFailed(e)
    BY <1>1, <1>2, <1>t, <2>2, <2>12 DEF LwClient, LwSslFailed
  <2>15. ssl /\ d.ssl = "started" => LwDone(e) /\ LwSslDone(e, w)
    BY <1>1, <1>2, <1>t, <2>6 DEF LwSslDone
  <2>16. LwClient(e, ssl, w)
    BY <1>1, <1>2, <1>t, <2>2, <2>3, <2>4, <2>10, <2>13, <2>14, <2>15 DEF LwClient, LwTook
  <2>18. ssl /\ LwDone(e) => e.pcb # "none"
    BY <1>1, <1>2, <1>t, <2>2, <2>6 DEF LwClient, LwSslNew, LwSslFailed
  <2> QED  BY <1>1, <2>1, <2>10, <2>16, <2>18 DEF LwOrder
<1> QED  BY <1>1, <1>3, <1>4 DEF LwGood
-----------------------------------------------------------------------------
\* Steps of a connection whose opening they do not touch.
LwMayRead(d, ssl) == IF ssl THEN d.ssl # "none" /\ (d.kind = "client" => d.ssl # "new") ELSE d.seen # <<>>
LwQuiet(d, e, ssl, v, w) ==
    /\ e.kind = d.kind /\ e.pcb = d.pcb /\ e.err = d.err /\ e.ssl = d.ssl
    /\ (LwConnecting(e) <=> LwConnecting(d)) /\ (LwDone(e) <=> LwDone(d)) /\ (LwClosing(d) => LwClosing(e))
    /\ \/ e.seen = d.seen
       \/ /\ d.seen # <<>> /\ (ssl => LwDone(d))
          /\ e.seen = Append(d.seen, "RECV") \/ e.seen = Append(d.seen, "SEND")
    /\ ~LwDone(d) => /\ "WANT_READ" \in e.flags => "WANT_READ" \in d.flags
                     /\ "WANT_WRITE" \in e.flags => "WANT_WRITE" \in d.flags
    /\ d.rx = 0 => e.rx = 0
    /\ w.has \subseteq v.has \cup {"CLOSE_CONN"} /\ ("CLOSE_CONN" \in v.has => "CLOSE_CONN" \in w.has)
    /\ "CLOSE_CONN" \in w.has => "CLOSE_CONN" \in v.has \/ d.pcb \notin {"syn", "unused"}
    /\ \A t \in {"CONNECT_RESULT", "ACCEPT"} : /\ t \in v.has => t \in w.has
                                               /\ t \in v.leads => t \in w.leads
                                               /\ t \in v.once => t \in w.once
    /\ w.at = "reading" => v.at = "reading" \/ LwMayRead(d, ssl)

LEMMA LwQuietOrder ==
  ASSUME NEW d \in LwConn, NEW e \in LwConn, NEW ssl \in BOOLEAN, NEW v, NEW w,
         LwQuiet(d, e, ssl, v, w), LwOrder(d, ssl, v)
  PROVE  LwOrder(e, ssl, w)
<1>t. /\ d.kind \in {"client", "accepted"} /\ d.pcb \in {"none", "syn", "established", "unused"}
      /\ d.ssl \in {"none", "new", "started", "failed"} /\ d.seen \in Seq(LW!Events)
  BY DEF LwConn
<1>1. /\ e.kind = d.kind /\ e.pcb = d.pcb /\ e.err = d.err /\ e.ssl = d.ssl
      /\ (LwConnecting(e) <=> LwConnecting(d)) /\ (LwDone(e) <=> LwDone(d)) /\ (LwClosing(d) => LwClosing(e))
  BY DEF LwQuiet
<1>2. \/ e.seen = d.seen
      \/ /\ d.seen # <<>> /\ (ssl => LwDone(d))
         /\ e.seen = Append(d.seen, "RECV") \/ e.seen = Append(d.seen, "SEND")
  BY DEF LwQuiet
<1>3. /\ ~LwDone(d) => /\ "WANT_READ" \in e.flags => "WANT_READ" \in d.flags
                       /\ "WANT_WRITE" \in e.flags => "WANT_WRITE" \in d.flags
      /\ d.rx = 0 => e.rx = 0
  BY DEF LwQuiet
<1>4. /\ w.has \subseteq v.has \cup {"CLOSE_CONN"} /\ ("CLOSE_CONN" \in v.has => "CLOSE_CONN" \in w.has)
      /\ "CLOSE_CONN" \in w.has => "CLOSE_CONN" \in v.has \/ d.pcb \notin {"syn", "unused"}
      /\ "CONNECT_RESULT" \in v.has => "CONNECT_RESULT" \in w.has
      /\ "ACCEPT" \in v.has => "ACCEPT" \in w.has
      /\ "CONNECT_RESULT" \in v.leads => "CONNECT_RESULT" \in w.leads
      /\ "CONNECT_RESULT" \in v.once => "CONNECT_RESULT" \in w.once
      /\ "ACCEPT" \in v.leads => "ACCEPT" \in w.leads
      /\ w.at = "reading" => v.at = "reading" \/ LwMayRead(d, ssl)
  BY DEF LwQuiet
<1>5. "RECV" \in LW!Events /\ "SEND" \in LW!Events  BY DEF LW!Events
<1>6. (e.seen = <<>> <=> d.seen = <<>>) /\ LwSeen(e.seen, ssl, FALSE)
  <2>1. LwSeen(d.seen, ssl, FALSE)  BY DEF LwOrder
  <2> QED  BY <1>2, <1>5, <1>t, <2>1, LwSeenMore, LwAppended
<1>7. LwDone(d) \/ ~ssl \/ e.seen = d.seen  BY <1>2
<1>9. e.kind = "accepted" => LwAccepted(e, ssl, w)
  <2> SUFFICES ASSUME d.kind = "accepted"  PROVE LwAccepted(e, ssl, w)
    BY <1>1
  <2>1. LwAccepted(d, ssl, v)  BY DEF LwOrder
  <2> QED  BY <1>1, <1>4, <1>6, <2>1 DEF LwAccepted, LwMayRead
<1>10. e.kind = "client" => LwClient(e, ssl, w)
  <2> SUFFICES ASSUME d.kind = "client"  PROVE LwClient(e, ssl, w)
    BY <1>1
  <2>1. LwClient(d, ssl, v)  BY DEF LwOrder
  <2>2. ssl /\ e.ssl = "new" => LwSslNew(e, w)
    BY <1>1, <1>3, <1>4, <1>7, <1>t, <2>1 DEF LwClient, LwSslNew, LwMayRead
  <2>3. ssl /\ e.ssl = "started" /\ ~LwDone(e) => LwSslStarted(e, w)
    BY <1>1, <1>4, <2>1 DEF LwClient, LwSslStarted
  <2>4. ssl /\ e.ssl = "failed" => LwSslFailed(e)
    BY <1>1, <1>7, <2>1 DEF LwClient, LwSslFailed
  <2>5. ssl /\ e.ssl = "started" /\ LwDone(e) => LwSslDone(e, w)
    BY <1>1, <1>4, <2>1 DEF LwClient, LwSslDone
  <2> QED
    BY <1>1, <1>4, <1>6, <2>1, <2>2, <2>3, <2>4, <2>5 DEF LwClient, LwMayRead
<1>12. ssl /\ LwDone(e) /\ e.pcb = "none" => "CLOSE_CONN" \in w.has
  BY <1>1, <1>4 DEF LwOrder
<1> QED  BY <1>6, <1>9, <1>10, <1>12 DEF LwOrder

\* n units of what was received are read.
LwReads(m, e, n) ==
    /\ e \in LwConn /\ e.rx = m.rx - n
    /\ \/ e.seen = m.seen /\ e.flags = m.flags
       \/ /\ e.seen = Append(m.seen, "RECV")
          /\ \E f \in {{}, {"CLOSE_IMMEDIATELY"}, {"SEND_AND_CLOSE"}} : e.flags = m.flags \cup f
    /\ e.life = m.life /\ e.kind = m.kind /\ e.pcb = m.pcb /\ e.err = m.err
    /\ e.recvPending = m.recvPending /\ e.numSent = m.numSent /\ e.slen = m.slen /\ e.ssl = m.ssl
    /\ e.unacked = m.unacked /\ e.fin = m.fin /\ e.came = m.came /\ e.asked = m.asked /\ e.told = m.told /\ e.missed = m.missed

LEMMA LwReceived ==
  ASSUME NEW m \in LwConn, NEW n \in Nat, n <= m.rx, NEW e \in LW!Received(m, n)
  PROVE  LwReads(m, e, n)
<1> PICK x : x = m.rx - n  OBVIOUS
<1>x. x \in Nat  BY DEF LwConn
<1> PICK k : k = [m EXCEPT !.rx = x]  OBVIOUS
<1>1. k = [m EXCEPT !.rx = @ - n]  BY DEF LwConn
<1>2. /\ k \in LwConn /\ k.seen = m.seen /\ k.flags = m.flags /\ k.rx = x
      /\ k.life = m.life /\ k.kind = m.kind /\ k.pcb = m.pcb /\ k.err = m.err
      /\ k.recvPending = m.recvPending /\ k.numSent = m.numSent /\ k.slen = m.slen /\ k.ssl = m.ssl
      /\ k.unacked = m.unacked /\ k.fin = m.fin /\ k.came = m.came /\ k.asked = m.asked /\ k.told = m.told /\ k.missed = m.missed
  BY <1>x DEF LwConn
<1>3. e = k \/ e \in LW!Called(k, "RECV")  BY <1>1 DEF LW!Received
<1>4. CASE e = k  BY <1>2, <1>4 DEF LwReads
<1>5. CASE e \in LW!Called(k, "RECV")
  <2>1. "RECV" \in LW!Events  BY DEF LW!Events
  <2>2. LwCalls(k, e, "RECV")  BY <1>2, <1>5, <2>1, LwCalled
  <2> QED  BY <1>2, <2>2 DEF LwCalls, LwReads
<1> QED  BY <1>3, <1>4, <1>5

\* The flags of a connection that has read, or is told ev.
LwFlagsKept(d, e) ==
    /\ (LwConnecting(e) <=> LwConnecting(d)) /\ (LwDone(e) <=> LwDone(d)) /\ (LwClosing(d) => LwClosing(e))
    /\ "WANT_READ" \in e.flags <=> "WANT_READ" \in d.flags
    /\ "WANT_WRITE" \in e.flags <=> "WANT_WRITE" \in d.flags

LEMMA LwFlagsGrow ==
  ASSUME NEW d, NEW e, \E f \in {{}, {"CLOSE_IMMEDIATELY"}, {"SEND_AND_CLOSE"}} : e.flags = d.flags \cup f
  PROVE  LwFlagsKept(d, e)
<1> PICK f \in {{}, {"CLOSE_IMMEDIATELY"}, {"SEND_AND_CLOSE"}} : e.flags = d.flags \cup f  OBVIOUS
<1> QED  BY DEF LwFlagsKept, LwConnecting, LwDone, LwClosing

LEMMA LwReadsFlags ==
  ASSUME NEW d, NEW e, NEW n, LwReads(d, e, n)
  PROVE  LwFlagsKept(d, e)
<1>1. CASE e.flags = d.flags  BY <1>1 DEF LwFlagsKept, LwConnecting, LwDone, LwClosing
<1>2. CASE \E f \in {{}, {"CLOSE_IMMEDIATELY"}, {"SEND_AND_CLOSE"}} : e.flags = d.flags \cup f  BY <1>2, LwFlagsGrow
<1> QED  BY <1>1, <1>2 DEF LwReads

\* The POLL and the timer handler may ask for a close.
LEMMA LwPolled ==
  ASSUME NEW d \in LwConn, d.life = "live", NEW ssl \in BOOLEAN, NEW v, NEW e, LwFlaggedAs(d, e)
  PROVE  LwGood(d, e, ssl, v, v, TRUE) /\ LwFlagsKept(d, e)
<1>1. LwFlagsKept(d, e)  BY LwFlagsGrow DEF LwFlaggedAs
<1>2. LwKept(d, ssl, v) => LwKept(e, ssl, v)  BY <1>1 DEF LwKept, LwFlaggedAs, LwFlagsKept
<1>3. LwQuiet(d, e, ssl, v, v)  BY <1>1 DEF LwQuiet, LwFlaggedAs, LwFlagsKept
<1>4. LwOrder(d, ssl, v) => LwOrder(e, ssl, v)  BY <1>3, LwQuietOrder DEF LwFlaggedAs
<1> QED  BY <1>1, <1>2, <1>4 DEF LwGood, LwFlaggedAs
-----------------------------------------------------------------------------
\* Without SSL, data and acknowledgements are handled after the opening.
LEMMA LwOpened ==
  ASSUME NEW d \in LwConn, NEW v, NEW w, NEW s \in {"RECV", "SENT_CB"}, LwTook(v, w, s), LwOrder(d, FALSE, v)
  PROVE  d.seen # <<>>
<1>t. d.kind \in {"client", "accepted"}  BY DEF LwConn
<1>1. "RECV" # "ACCEPT" /\ s # "ACCEPT" /\ s # "CONNECT_RESULT" /\ s \in v.has  BY DEF LwTook
<1>2. CASE d.kind = "accepted"  BY <1>1, <1>2 DEF LwOrder, LwAccepted, LwTook
<1>3. CASE d.kind = "client"
  <2>1. LwClient(d, FALSE, v)  BY <1>3 DEF LwOrder
  <2>2. d.pcb # "syn"  BY <1>1, <2>1 DEF LwClient
  <2>3. "CONNECT_RESULT" \notin v.has  BY <1>1, <2>1 DEF LwClient, LwTook
  <2> QED  BY <2>1, <2>2, <2>3 DEF LwClient
<1> QED  BY <1>2, <1>3, <1>t

\* The signal of data is handled: the reading begins (mg_lwip_handle_recv_tcp).
LwTakenFrom(d, e) ==
    /\ e \in LwConn /\ e.recvPending = FALSE
    /\ e.life = d.life /\ e.kind = d.kind /\ e.pcb = d.pcb /\ e.err = d.err /\ e.rx = d.rx /\ e.flags = d.flags
    /\ e.numSent = d.numSent /\ e.slen = d.slen /\ e.ssl = d.ssl /\ e.seen = d.seen
    /\ e.unacked = d.unacked /\ e.fin = d.fin /\ e.came = d.came /\ e.asked = d.asked /\ e.told = d.told /\ e.missed = d.missed

LEMMA LwTakenType == \A d \in LwConn : LwTakenFrom(d, LW!Taken(d))
<1> SUFFICES ASSUME NEW d \in LwConn, NEW e, e = [d EXCEPT !.recvPending = FALSE]  PROVE LwTakenFrom(d, e)
  BY DEF LW!Taken
<1> QED  BY DEF LwConn, LwTakenFrom

LEMMA LwDataTaken ==
  ASSUME NEW d \in LwConn, d.life = "live", NEW ssl \in BOOLEAN, NEW v, NEW w, LwTook(v, w, "RECV"),
         v.at = "none", w.at = "reading", NEW e, LwTakenFrom(d, e)
  PROVE  LwGood(d, e, ssl, v, w, TRUE)
<1>t. /\ d.rx \in Nat /\ d.numSent \in Nat /\ d.slen \in Nat /\ d.unacked \in Nat /\ d.came \in Nat /\ d.asked \in Nat /\ d.told \in Nat
      /\ d.missed \in BOOLEAN
      /\ d.recvPending \in BOOLEAN /\ d.err \in BOOLEAN /\ d.fin \in BOOLEAN /\ d.flags \in SUBSET LwFlags
      /\ d.kind \in {"client", "accepted"} /\ d.pcb \in {"none", "syn", "established", "unused"}
      /\ d.ssl \in {"none", "new", "started", "failed"} /\ d.seen \in Seq(LW!Events)
  BY DEF LwConn
<1>1. /\ e \in LwConn /\ e.recvPending = FALSE
      /\ e.life = d.life /\ e.kind = d.kind /\ e.pcb = d.pcb /\ e.err = d.err /\ e.rx = d.rx /\ e.flags = d.flags
      /\ e.numSent = d.numSent /\ e.slen = d.slen /\ e.ssl = d.ssl /\ e.seen = d.seen
      /\ e.unacked = d.unacked /\ e.fin = d.fin /\ e.came = d.came /\ e.asked = d.asked /\ e.told = d.told /\ e.missed = d.missed
  BY DEF LwTakenFrom
<1>2. (LwConnecting(e) <=> LwConnecting(d)) /\ (LwDone(e) <=> LwDone(d)) /\ (LwClosing(e) <=> LwClosing(d))
  BY <1>1 DEF LwConnecting, LwDone, LwClosing
<1>3. LwKept(d, ssl, v) => LwKept(e, ssl, w)  BY <1>1, <1>2, <1>t DEF LwKept, LwTook
<1>4. ASSUME LwOrder(d, ssl, v)  PROVE LwMayRead(d, ssl)
  <2>1. CASE ~ssl
    <3>1. ssl = FALSE  BY <2>1
    <3>2. d.seen # <<>>  BY <1>4, <3>1, LwOpened
    <3> QED  BY <2>1, <3>2 DEF LwMayRead
  <2>2. CASE ssl
    <3>1. d.kind = "accepted" => d.ssl # "none"  BY <1>4, <2>2 DEF LwOrder, LwAccepted, LwTook
    <3>2. d.kind = "client" => d.ssl \notin {"none", "new"}  BY <1>4, <2>2 DEF LwOrder, LwClient, LwSslNew, LwTook
    <3> QED  BY <1>t, <2>2, <3>1, <3>2 DEF LwMayRead
  <2> QED  BY <2>1, <2>2
<1>5. ASSUME LwOrder(d, ssl, v)  PROVE LwOrder(e, ssl, w)
  <2>1. LwQuiet(d, e, ssl, v, w)  BY <1>1, <1>2, <1>4, <1>5 DEF LwQuiet, LwTook
  <2> QED  BY <1>1, <1>5, <2>1, LwQuietOrder
<1> QED  BY <1>1, <1>3, <1>5 DEF LwGood

\* A segment is given to the application of a connection without SSL.
LEMMA LwPlainRead ==
  ASSUME NEW d \in LwConn, d.life = "live", NEW v, v.at = "reading", NEW n \in Nat, n <= d.rx, NEW e, LwReads(d, e, n)
  PROVE  LwGood(d, e, FALSE, v, v, TRUE)
<1>t. /\ d.rx \in Nat /\ d.numSent \in Nat /\ d.slen \in Nat /\ d.unacked \in Nat /\ d.came \in Nat /\ d.asked \in Nat /\ d.told \in Nat
      /\ d.missed \in BOOLEAN
      /\ d.recvPending \in BOOLEAN /\ d.err \in BOOLEAN /\ d.fin \in BOOLEAN /\ d.flags \in SUBSET LwFlags
      /\ d.kind \in {"client", "accepted"} /\ d.pcb \in {"none", "syn", "established", "unused"}
      /\ d.ssl \in {"none", "new", "started", "failed"} /\ d.seen \in Seq(LW!Events)
  BY DEF LwConn
<1>1. LwFlagsKept(d, e)  BY LwReadsFlags
<1>2. LwKept(d, FALSE, v) => LwKept(e, FALSE, v)  BY <1>1, <1>t DEF LwKept, LwReads, LwFlagsKept
<1>3. ASSUME LwOrder(d, FALSE, v)  PROVE LwOrder(e, FALSE, v)
  <2>1. d.seen # <<>>  BY <1>3, <1>t DEF LwOrder, LwAccepted, LwClient
  <2>2. d.rx = 0 => e.rx = 0  BY <1>t DEF LwReads
  <2>3. LwQuiet(d, e, FALSE, v, v)  BY <1>1, <2>1, <2>2 DEF LwQuiet, LwReads, LwFlagsKept
  <2> QED  BY <1>3, <2>3, LwQuietOrder DEF LwReads
<1> QED  BY <1>2, <1>3 DEF LwGood, LwReads

\* The reading ends: without SSL nothing is left; with SSL, what is left is up to SSL.
LwRests(v, w) == w.has = v.has /\ w.leads = v.leads /\ w.once = v.once /\ (w.ends <=> v.ends) /\ w.at = "none"

LEMMA LwReadAll ==
  ASSUME NEW d \in LwConn, NEW ssl \in BOOLEAN, NEW v, NEW w, v.at = "reading", LwRests(v, w), ssl \/ d.rx = 0
  PROVE  /\ LwKept(d, ssl, v) => LwKept(d, ssl, w)
         /\ LwOrder(d, ssl, v) => LwOrder(d, ssl, w)
<1>1. LwKept(d, ssl, v) => LwKept(d, ssl, w)  BY DEF LwKept, LwRests
<1>2. LwQuiet(d, d, ssl, v, w)  BY DEF LwQuiet, LwRests
<1> QED  BY <1>1, <1>2, LwQuietOrder

\* A handshake goes on when there are data for it.
LEMMA LwReadShakes ==
  ASSUME NEW d \in LwConn, NEW v, NEW w, v.at = "reading", LwRests(v, w), ~LwDone(d), LwOrder(d, TRUE, v)
  PROVE  LwShaking(d, w)
<1>t. d.kind \in {"client", "accepted"} /\ d.ssl \in {"none", "new", "started", "failed"}
      /\ d.pcb \in {"none", "syn", "established", "unused"}
  BY DEF LwConn
<1>1. LwSeen(d.seen, TRUE, FALSE)  BY DEF LwOrder
<1>2. CASE d.kind = "accepted"
  <2>1. LwAccepted(d, TRUE, v)  BY <1>2 DEF LwOrder
  <2> QED  BY <1>1, <1>2, <1>t, <2>1 DEF LwAccepted, LwShaking, LwRests
<1>3. CASE d.kind = "client"
  <2>1. LwClient(d, TRUE, v)  BY <1>3 DEF LwOrder
  <2>2. d.ssl \in {"started", "failed"}  BY <1>t, <2>1 DEF LwClient, LwSslNew
  <2> QED  BY <1>1, <1>3, <2>1, <2>2 DEF LwClient, LwSslStarted, LwSslFailed, LwShaking, LwRests
<1> QED  BY <1>t, <1>2, <1>3

\* What has come is thrown away.
LwEmpty(d, e) ==
    /\ e \in LwConn /\ e.rx = 0 /\ e.flags = d.flags
    /\ e.life = d.life /\ e.kind = d.kind /\ e.pcb = d.pcb /\ e.err = d.err /\ e.recvPending = d.recvPending
    /\ e.numSent = d.numSent /\ e.slen = d.slen /\ e.ssl = d.ssl /\ e.seen = d.seen
    /\ e.unacked = d.unacked /\ e.fin = d.fin /\ e.came = d.came /\ e.asked = d.asked /\ e.told = d.told /\ e.missed = d.missed

LEMMA LwEmptied ==
  ASSUME NEW d \in LwConn, NEW e, e = [d EXCEPT !.rx = 0]
  PROVE  LwEmpty(d, e)
<1>1. e \in LwConn  BY DEF LwConn
<1> QED  BY <1>1 DEF LwConn, LwEmpty

\* With SSL, when the handshake is done: mg_lwip_ssl_recv.
LEMMA LwSslRecv ==
  ASSUME NEW d \in LwConn, d.life = "live", NEW v \in LwViews, NEW w, NEW r \in LW!SslRecv(d), LwPostsIf(v, w, r.sig), LwDone(d)
  PROVE  LwGood(d, r.d, TRUE, v, w, TRUE)
<1>t. /\ d.rx \in Nat /\ d.numSent \in Nat /\ d.slen \in Nat /\ d.unacked \in Nat /\ d.came \in Nat /\ d.asked \in Nat /\ d.told \in Nat
      /\ d.missed \in BOOLEAN
      /\ d.recvPending \in BOOLEAN /\ d.err \in BOOLEAN /\ d.fin \in BOOLEAN /\ d.flags \in SUBSET LwFlags
      /\ d.kind \in {"client", "accepted"} /\ d.pcb \in {"none", "syn", "established", "unused"}
      /\ d.ssl \in {"none", "new", "started", "failed"} /\ d.seen \in Seq(LW!Events)
  BY DEF LwConn
<1> PICK g : g = [d EXCEPT !.flags = @ \ {"WANT_READ"}]  OBVIOUS
<1>g. /\ g \in LwConn /\ g.flags = d.flags \ {"WANT_READ"} /\ g.life = d.life /\ g.kind = d.kind /\ g.pcb = d.pcb
      /\ g.err = d.err /\ g.rx = d.rx /\ g.recvPending = d.recvPending /\ g.numSent = d.numSent /\ g.slen = d.slen
      /\ g.ssl = d.ssl /\ g.unacked = d.unacked /\ g.fin = d.fin /\ g.came = d.came /\ g.asked = d.asked
      /\ g.told = d.told /\ g.missed = d.missed /\ g.seen = d.seen
  BY DEF LwConn
<1>q. \A e : LW!Quietly(e).d = e /\ LW!Quietly(e).sig = LW!NULL  BY DEF LW!Quietly
<1> PICK e : e = r.d  OBVIOUS
<1>0. /\ r.sig \in {LW!NULL, "CLOSE_CONN"}
      /\ \/ e = d \/ e = g
         \/ ~LwConnecting(d) /\ e \in LW!Received(g, g.rx)
         \/ e = [d EXCEPT !.flags = @ \cup {"WANT_WRITE"}]
         \/ e = [d EXCEPT !.rx = 0]
  <2>1. \/ r = LW!Quietly(d) \/ r = LW!Quietly(g)
        \/ ~LwConnecting(d) /\ \E x \in LW!Received(g, g.rx) : r = LW!Quietly(x)
        \/ r = LW!Quietly([d EXCEPT !.flags = @ \cup {"WANT_WRITE"}])
        \/ r = [d |-> [d EXCEPT !.rx = 0], sig |-> "CLOSE_CONN"]
    BY <1>g DEF LW!SslRecv, LwConnecting
  <2>2. CASE r = LW!Quietly(d) \/ r = LW!Quietly(g) \/ r = LW!Quietly([d EXCEPT !.flags = @ \cup {"WANT_WRITE"}])
    BY <1>q, <2>2
  <2>3. CASE ~LwConnecting(d) /\ \E x \in LW!Received(g, g.rx) : r = LW!Quietly(x)
    BY <1>q, <2>3
  <2>4. CASE r = [d |-> [d EXCEPT !.rx = 0], sig |-> "CLOSE_CONN"]
    BY <2>4
  <2> QED  BY <2>1, <2>2, <2>3, <2>4
<1>1. /\ e \in LwConn /\ (d.rx = 0 => e.rx = 0)
      /\ e.life = d.life /\ e.kind = d.kind /\ e.pcb = d.pcb /\ e.err = d.err /\ e.recvPending = d.recvPending
      /\ e.numSent = d.numSent /\ e.slen = d.slen /\ e.ssl = d.ssl
      /\ e.unacked = d.unacked /\ e.fin = d.fin /\ e.came = d.came /\ e.asked = d.asked /\ e.told = d.told /\ e.missed = d.missed
      /\ e.seen = d.seen \/ (e.seen = Append(d.seen, "RECV") /\ ~LwConnecting(d))
      /\ (LwConnecting(e) <=> LwConnecting(d)) /\ (LwDone(e) <=> LwDone(d)) /\ (LwClosing(d) => LwClosing(e))
  <2>1. CASE e = d  BY <2>1
  <2>2. CASE e = g  BY <1>g, <2>2 DEF LwConnecting, LwDone, LwClosing
  <2>3. CASE ~LwConnecting(d) /\ e \in LW!Received(g, g.rx)
    <3>1. g.rx \in Nat /\ g.rx <= g.rx /\ g.rx - g.rx = 0  BY <1>g, <1>t
    <3>2. LwReads(g, e, g.rx)  BY <1>g, <2>3, <3>1, LwReceived
    <3>3. LwFlagsKept(g, e)  BY <3>2, LwReadsFlags
    <3>4. (LwConnecting(g) <=> LwConnecting(d)) /\ (LwDone(g) <=> LwDone(d)) /\ (LwClosing(g) <=> LwClosing(d))
      BY <1>g DEF LwConnecting, LwDone, LwClosing
    <3> QED  BY <1>g, <2>3, <3>1, <3>2, <3>3, <3>4 DEF LwReads, LwFlagsKept
  <2>4. CASE e = [d EXCEPT !.flags = @ \cup {"WANT_WRITE"}]
    <3>1. d.flags \cup {"WANT_WRITE"} \in SUBSET LwFlags  BY <1>t DEF LwFlags
    <3> QED  BY <2>4, <3>1 DEF LwConn, LwConnecting, LwDone, LwClosing
  <2>5. CASE e = [d EXCEPT !.rx = 0]
    <3>1. LwEmpty(d, e)  BY <2>5, LwEmptied
    <3> QED  BY <3>1 DEF LwEmpty, LwConnecting, LwDone, LwClosing
  <2> QED  BY <1>0, <2>1, <2>2, <2>3, <2>4, <2>5
<1>2. /\ w.has = v.has \/ w.has = v.has \cup {"CLOSE_CONN"}
      /\ v.ends => w.ends
      /\ w.at = v.at /\ w.n = v.n
      /\ \A t \in {"CONNECT_RESULT", "ACCEPT"} : (t \in w.leads <=> t \in v.leads) /\ (t \in w.once <=> t \in v.once)
  <2>1. CASE r.sig = LW!NULL  BY <2>1 DEF LwPostsIf
  <2>2. CASE r.sig = "CLOSE_CONN"
    <3>1. LwPosts(v, w, "CLOSE_CONN")  BY <2>2 DEF LwPostsIf, LW!NULL
    <3> QED  BY <3>1 DEF LwPosts, LwViews, LwSigs
  <2> QED  BY <1>0, <2>1, <2>2
<1>3. LwKept(d, TRUE, v) => LwKept(e, TRUE, w)  BY <1>1, <1>2, <1>t DEF LwKept
<1>4. ASSUME LwOrder(d, TRUE, v)  PROVE LwOrder(e, TRUE, w)
  <2>1. d.pcb \notin {"syn", "unused"}
    BY <1>4, <1>t DEF LwOrder, LwAccepted, LwClient, LwSslNew, LwSslFailed, LwSslDone
  <2>2. ~LwConnecting(d) => d.seen # <<>>
    BY <1>4, <1>t DEF LwOrder, LwAccepted, LwClient
  <2>3. LwQuiet(d, e, TRUE, v, w)  BY <1>1, <1>2, <2>1, <2>2 DEF LwQuiet
  <2> QED  BY <1>1, <1>4, <2>3, LwQuietOrder
<1> QED  BY <1>1, <1>3, <1>4 DEF LwGood

\* An acknowledgement is told (mg_if_sent_cb).
LEMMA LwTelling ==
  ASSUME NEW d \in LwConn, d.life = "live", NEW c, NEW v, NEW w, LwTook(v, w, "SENT_CB"),
         v.at = "none", w.at = "telling", w.n = d.numSent, NEW e \in LW!SentToApp(c, d)
  PROVE  LwGood(d, e, c \in LW!Ssl, v, w, TRUE)
<1>t. /\ d.rx \in Nat /\ d.numSent \in Nat /\ d.slen \in Nat /\ d.unacked \in Nat /\ d.came \in Nat /\ d.asked \in Nat /\ d.told \in Nat
      /\ d.missed \in BOOLEAN
      /\ d.recvPending \in BOOLEAN /\ d.err \in BOOLEAN /\ d.fin \in BOOLEAN /\ d.flags \in SUBSET LwFlags
      /\ d.kind \in {"client", "accepted"} /\ d.pcb \in {"none", "syn", "established", "unused"}
      /\ d.ssl \in {"none", "new", "started", "failed"} /\ d.seen \in Seq(LW!Events)
  BY DEF LwConn
<1>1. /\ e \in LwConn /\ e.rx = d.rx /\ e.recvPending = d.recvPending
      /\ e.life = d.life /\ e.kind = d.kind /\ e.pcb = d.pcb /\ e.err = d.err
      /\ e.numSent = d.numSent /\ e.slen = d.slen /\ e.ssl = d.ssl
      /\ e.unacked = d.unacked /\ e.fin = d.fin /\ e.came = d.came /\ e.asked = d.asked /\ e.told = d.told /\ e.missed = d.missed
      /\ e.seen = d.seen \/ (c \notin LW!Ssl /\ e.seen = Append(d.seen, "SEND"))
      /\ LwFlagsKept(d, e)
  <2>0. e = d \/ e \in LW!Flagged(d) \/ (c \notin LW!Ssl /\ e \in LW!Called(d, "SEND"))  BY DEF LW!SentToApp
  <2>1. CASE e = d  BY <2>1 DEF LwFlagsKept
  <2>2. CASE e \in LW!Flagged(d)
    <3>1. LwFlaggedAs(d, e)  BY <2>2, LwFlagged
    <3> QED  BY <3>1, LwFlagsGrow DEF LwFlaggedAs
  <2>3. CASE c \notin LW!Ssl /\ e \in LW!Called(d, "SEND")
    <3>1. "SEND" \in LW!Events  BY DEF LW!Events
    <3>2. LwCalls(d, e, "SEND")  BY <2>3, <3>1, LwCalled
    <3> QED  BY <2>3, <3>2, LwFlagsGrow DEF LwCalls
  <2> QED  BY <2>0, <2>1, <2>2, <2>3
<1> DEFINE ssl == c \in LW!Ssl
<1>s. ssl \in BOOLEAN /\ (ssl <=> c \in LW!Ssl)  OBVIOUS
<1> HIDE DEF ssl
<1>3. LwKept(d, ssl, v) => LwKept(e, ssl, w)  BY <1>1, <1>s, <1>t DEF LwKept, LwTook, LwFlagsKept, LwClosing
<1>4. ASSUME LwOrder(d, ssl, v)  PROVE LwOrder(e, ssl, w)
  <2>1. ~ssl => d.seen # <<>>
    <3>1. CASE ssl = FALSE  BY <1>4, <3>1, LwOpened
    <3> QED  BY <1>s, <3>1
  <2>3. LwQuiet(d, e, ssl, v, w)  BY <1>1, <1>s, <2>1 DEF LwQuiet, LwTook, LwFlagsKept
  <2> QED  BY <1>1, <1>s, <1>4, <2>3, LwQuietOrder
<1>5. LwGood(d, e, ssl, v, w, TRUE)  BY <1>1, <1>3, <1>4 DEF LwGood
<1> QED  BY <1>5 DEF ssl

\* What has been told is forgotten (num_sent = 0), and perhaps an acknowledgement that came meanwhile.
LEMMA LwForgets ==
  ASSUME NEW d \in LwConn, d.life = "live", NEW ssl \in BOOLEAN, NEW v \in LwViews, NEW w, v.at = "telling", LwRests(v, w),
         NEW l \in Nat, l = 0 \/ (l = d.numSent /\ d.numSent # v.n),
         NEW e, e = [d EXCEPT !.told = IF ssl THEN @ ELSE @ + v.n, !.numSent = l]
  PROVE  LwGood(d, e, ssl, v, w, TRUE)
<1>t. /\ d.rx \in Nat /\ d.numSent \in Nat /\ d.slen \in Nat /\ d.unacked \in Nat /\ d.came \in Nat /\ d.asked \in Nat /\ d.told \in Nat
      /\ d.missed \in BOOLEAN
      /\ d.recvPending \in BOOLEAN /\ d.err \in BOOLEAN /\ d.fin \in BOOLEAN /\ d.flags \in SUBSET LwFlags
      /\ d.kind \in {"client", "accepted"} /\ d.pcb \in {"none", "syn", "established", "unused"}
      /\ d.ssl \in {"none", "new", "started", "failed"} /\ d.seen \in Seq(LW!Events)
  BY DEF LwConn
<1>n. v.n \in Nat  BY DEF LwViews
<1> PICK t : t = (IF ssl THEN d.told ELSE d.told + v.n)  OBVIOUS
<1>0. t \in Nat  BY <1>n, <1>t
<1>1. /\ e \in LwConn /\ e.rx = d.rx /\ e.recvPending = d.recvPending /\ e.flags = d.flags
      /\ e.life = d.life /\ e.kind = d.kind /\ e.pcb = d.pcb /\ e.err = d.err
      /\ e.numSent = l /\ e.slen = d.slen /\ e.ssl = d.ssl /\ e.seen = d.seen /\ e.told = t
      /\ e.unacked = d.unacked /\ e.fin = d.fin /\ e.came = d.came /\ e.asked = d.asked /\ e.missed = d.missed
  <2>1. e = [d EXCEPT !.told = t, !.numSent = l]  BY DEF LwConn
  <2> QED  BY <1>0, <2>1 DEF LwConn
<1>2. (LwConnecting(e) <=> LwConnecting(d)) /\ (LwDone(e) <=> LwDone(d)) /\ (LwClosing(e) <=> LwClosing(d))
  BY <1>1 DEF LwConnecting, LwDone, LwClosing
<1>3. ASSUME LwKept(d, ssl, v)  PROVE LwKept(e, ssl, w)
  <2>1. d.numSent # v.n => "SENT_CB" \in v.has /\ d.missed  BY <1>3 DEF LwKept
  <2>2. ASSUME ~ssl, ~e.missed  PROVE e.slen + e.unacked + e.numSent + e.told = e.asked
    <3>1. d.numSent = v.n /\ l = 0  BY <1>1, <2>1, <2>2
    <3>2. d.slen + d.unacked + d.numSent + d.told = d.asked  BY <1>1, <1>3, <2>2 DEF LwKept
    <3>3. t = d.told + v.n  BY <2>2
    <3> QED  BY <1>1, <1>n, <1>t, <3>1, <3>2, <3>3
  <2> QED  BY <1>1, <1>2, <1>3, <2>1, <2>2 DEF LwKept, LwRests
<1>4. LwQuiet(d, e, ssl, v, w)  BY <1>1, <1>2 DEF LwQuiet, LwRests
<1>5. LwOrder(d, ssl, v) => LwOrder(e, ssl, w)  BY <1>1, <1>4, LwQuietOrder
<1> QED  BY <1>1, <1>3, <1>5 DEF LwGood

\* An accepted connection is announced; with SSL there is a session from here on.
LEMMA LwAnnounced ==
  ASSUME NEW d \in LwConn, d.life = "live", NEW ssl \in BOOLEAN, NEW v, NEW w, LwTook(v, w, "ACCEPT"),
         v.at = "none", w.at = "none", NEW e \in IF ssl THEN {[d EXCEPT !.ssl = "new"]} ELSE LW!Called(d, "ACCEPT")
  PROVE  LwGood(d, e, ssl, v, w, TRUE)
<1>t. /\ d.rx \in Nat /\ d.numSent \in Nat /\ d.slen \in Nat /\ d.unacked \in Nat /\ d.came \in Nat /\ d.asked \in Nat /\ d.told \in Nat
      /\ d.missed \in BOOLEAN
      /\ d.recvPending \in BOOLEAN /\ d.err \in BOOLEAN /\ d.fin \in BOOLEAN /\ d.flags \in SUBSET LwFlags
      /\ d.kind \in {"client", "accepted"} /\ d.pcb \in {"none", "syn", "established", "unused"}
      /\ d.ssl \in {"none", "new", "started", "failed"} /\ d.seen \in Seq(LW!Events)
  BY DEF LwConn
<1>1. CASE ssl
  <2>1. e = [d EXCEPT !.ssl = "new"]  BY <1>1
  <2>2. /\ e \in LwConn /\ e.rx = d.rx /\ e.recvPending = d.recvPending /\ e.flags = d.flags
        /\ e.life = d.life /\ e.kind = d.kind /\ e.pcb = d.pcb /\ e.err = d.err
        /\ e.numSent = d.numSent /\ e.slen = d.slen /\ e.ssl = "new" /\ e.seen = d.seen /\ e.told = d.told
        /\ e.unacked = d.unacked /\ e.fin = d.fin /\ e.came = d.came /\ e.asked = d.asked /\ e.missed = d.missed
    BY <2>1 DEF LwConn
  <2>3. (LwConnecting(e) <=> LwConnecting(d)) /\ (LwDone(e) <=> LwDone(d)) /\ (LwClosing(e) <=> LwClosing(d))
    BY <2>2 DEF LwConnecting, LwDone, LwClosing
  <2>4. LwKept(d, ssl, v) => LwKept(e, ssl, w)  BY <1>1, <1>t, <2>2, <2>3 DEF LwKept, LwTook
  <2>5. ASSUME LwOrder(d, ssl, v)  PROVE LwOrder(e, ssl, w)
    <3>1. d.kind = "accepted"  BY <1>t, <2>5 DEF LwOrder, LwClient, LwTook
    <3>2. LwAccepted(d, ssl, v)  BY <2>5, <3>1 DEF LwOrder
    <3>3. LwAccepted(e, ssl, w)  BY <1>1, <2>2, <2>3, <3>2 DEF LwAccepted, LwTook
    <3> QED  BY <1>1, <2>2, <2>3, <2>5, <3>1, <3>3 DEF LwOrder, LwTook
  <2> QED  BY <2>2, <2>4, <2>5 DEF LwGood
<1>2. CASE ~ssl
  <2>1. e \in LW!Called(d, "ACCEPT") /\ "ACCEPT" \in LW!Events  BY <1>2 DEF LW!Events
  <2>2. LwCalls(d, e, "ACCEPT")  BY <2>1, LwCalled
  <2>3. LwFlagsKept(d, e)  BY <2>2, LwFlagsGrow DEF LwCalls
  <2>4. LwKept(d, ssl, v) => LwKept(e, ssl, w)  BY <1>2, <1>t, <2>2, <2>3 DEF LwKept, LwTook, LwFlagsKept, LwCalls
  <2>5. ASSUME LwOrder(d, ssl, v)  PROVE LwOrder(e, ssl, w)
    <3>1. d.kind = "accepted"  BY <1>t, <2>5 DEF LwOrder, LwClient, LwTook
    <3>2. LwAccepted(d, ssl, v)  BY <2>5, <3>1 DEF LwOrder
    <3>3. d.seen = <<>> /\ "ACCEPT" \notin w.has /\ "ACCEPT" \in w.leads  BY <1>2, <3>2 DEF LwAccepted, LwTook
    <3>4. e.seen # <<>> /\ LwSeen(e.seen, ssl, FALSE)
      BY <1>t, <2>1, <2>2, <2>5, <3>3, LwSeenMore, LwAppended DEF LwCalls, LwOrder
    <3>5. LwAccepted(e, ssl, w)  BY <1>2, <2>2, <2>3, <3>2, <3>3, <3>4 DEF LwAccepted, LwTook, LwFlagsKept, LwCalls
    <3> QED  BY <1>2, <2>2, <3>1, <3>4, <3>5 DEF LwOrder, LwCalls
  <2> QED  BY <2>2, <2>4, <2>5 DEF LwGood, LwCalls
<1> QED  BY <1>1, <1>2

LEMMA LwNoAccept ==
  ASSUME NEW d \in LwConn, NEW v, NEW w, LwTook(v, w, "ACCEPT"), d.pcb = "none"
  PROVE  ~LwOrder(d, FALSE, v)
<1>1. d.kind \in {"client", "accepted"}  BY DEF LwConn
<1> QED  BY <1>1 DEF LwOrder, LwAccepted, LwClient, LwTook
-----------------------------------------------------------------------------
\* A visit of the poll that handshakes (mg_lwip_ssl_do_hs).
LEMMA LwVisitShakes ==
  ASSUME NEW d \in LwConn, NEW v, d.pcb = "established", ~LwDone(d), d.ssl # "none",
         d.rx > 0 \/ "WANT_READ" \in d.flags \/ "WANT_WRITE" \in d.flags, LwOrder(d, TRUE, v)
  PROVE  LwShaking(d, v)
<1>t. /\ d.rx \in Nat /\ d.kind \in {"client", "accepted"} /\ d.ssl \in {"none", "new", "started", "failed"}
  BY DEF LwConn
<1>1. LwSeen(d.seen, TRUE, FALSE)  BY DEF LwOrder
<1>2. CASE d.kind = "accepted"
  <2>1. LwAccepted(d, TRUE, v)  BY <1>2 DEF LwOrder
  <2> QED  BY <1>1, <1>2, <2>1 DEF LwAccepted, LwShaking
<1>3. CASE d.kind = "client"
  <2>1. LwClient(d, TRUE, v)  BY <1>3 DEF LwOrder
  <2>2. d.ssl # "new"  BY <1>t, <2>1 DEF LwClient, LwSslNew
  <2> QED  BY <1>t, <1>1, <1>3, <2>1, <2>2 DEF LwClient, LwSslStarted, LwSslFailed, LwShaking
<1> QED  BY <1>t, <1>2, <1>3

\* One that sends (mg_lwip_ssl_send, mg_lwip_send_more).
LwSends(d, e) ==
    /\ e \in LwConn /\ e.rx = d.rx /\ e.recvPending = d.recvPending
    /\ e.life = d.life /\ e.kind = d.kind /\ e.pcb = d.pcb /\ e.err = d.err
    /\ e.numSent = d.numSent /\ e.ssl = d.ssl /\ e.seen = d.seen
    /\ e.fin = d.fin /\ e.came = d.came /\ e.asked = d.asked /\ e.told = d.told /\ e.missed = d.missed
    /\ e.slen + e.unacked = d.slen + d.unacked
    /\ \/ e.flags = d.flags
       \/ LwDone(d) /\ e.flags \in {d.flags \cup {"WANT_WRITE"}, d.flags \ {"WANT_WRITE"}}

LEMMA LwSendsSome ==
  ASSUME NEW d \in LwConn, d.life = "live", NEW n \in Nat, n <= d.slen, NEW z,
         z = d.flags \/ (LwDone(d) /\ z \in {d.flags \cup {"WANT_WRITE"}, d.flags \ {"WANT_WRITE"}}),
         NEW e, e = [d EXCEPT !.slen = @ - n, !.unacked = @ + n, !.flags = z]
  PROVE  LwSends(d, e)
<1>t. /\ d.rx \in Nat /\ d.numSent \in Nat /\ d.slen \in Nat /\ d.unacked \in Nat /\ d.came \in Nat /\ d.asked \in Nat /\ d.told \in Nat
      /\ d.missed \in BOOLEAN
      /\ d.recvPending \in BOOLEAN /\ d.err \in BOOLEAN /\ d.fin \in BOOLEAN /\ d.flags \in SUBSET LwFlags
      /\ d.kind \in {"client", "accepted"} /\ d.pcb \in {"none", "syn", "established", "unused"}
      /\ d.ssl \in {"none", "new", "started", "failed"} /\ d.seen \in Seq(LW!Events)
  BY DEF LwConn
<1> PICK s, u : s = d.slen - n /\ u = d.unacked + n  OBVIOUS
<1>1. s \in Nat /\ u \in Nat /\ s + u = d.slen + d.unacked
  <2>1. s = d.slen - n /\ u = d.unacked + n  OBVIOUS
  <2>2. \A a, b \in Nat : n <= a => a - n \in Nat /\ b + n \in Nat /\ (a - n) + (b + n) = a + b  OBVIOUS
  <2>3. d.slen \in Nat /\ d.unacked \in Nat  BY <1>t
  <2> QED  BY <2>1, <2>2, <2>3
<1>2. z \in SUBSET LwFlags  BY <1>t DEF LwFlags
<1>3. e = [d EXCEPT !.slen = s, !.unacked = u, !.flags = z]  BY DEF LwConn
<1>4. /\ e \in LwConn /\ e.rx = d.rx /\ e.recvPending = d.recvPending /\ e.slen = s /\ e.unacked = u /\ e.flags = z
      /\ e.life = d.life /\ e.kind = d.kind /\ e.pcb = d.pcb /\ e.err = d.err
      /\ e.numSent = d.numSent /\ e.ssl = d.ssl /\ e.seen = d.seen
      /\ e.fin = d.fin /\ e.came = d.came /\ e.asked = d.asked /\ e.told = d.told /\ e.missed = d.missed
  BY <1>1, <1>2, <1>3 DEF LwConn
<1> QED  BY <1>1, <1>4 DEF LwSends

LEMMA LwSendsIs ==
  ASSUME NEW d \in LwConn, d.life = "live", NEW r, r \in LW!SendMore(d) \/ (LwDone(d) /\ r \in LW!SslSend(d)) \/ r = LW!Quietly(d),
         build.sendBuf \in Nat
  PROVE  LwSends(d, r.d) /\ r.sig \in {LW!NULL, "CLOSE_CONN"}
<1>t. /\ d.rx \in Nat /\ d.numSent \in Nat /\ d.slen \in Nat /\ d.unacked \in Nat /\ d.came \in Nat /\ d.asked \in Nat /\ d.told \in Nat
      /\ d.missed \in BOOLEAN
      /\ d.recvPending \in BOOLEAN /\ d.err \in BOOLEAN /\ d.fin \in BOOLEAN /\ d.flags \in SUBSET LwFlags
      /\ d.kind \in {"client", "accepted"} /\ d.pcb \in {"none", "syn", "established", "unused"}
      /\ d.ssl \in {"none", "new", "started", "failed"} /\ d.seen \in Seq(LW!Events)
  BY DEF LwConn
<1>0. LwSends(d, d)  BY DEF LwSends
<1>1. CASE r = LW!Quietly(d)  BY <1>0, <1>1 DEF LW!Quietly
<1>2. CASE r \in LW!SendMore(d)
  <2> DEFINE room == LW!Min({d.slen, build.sendBuf - d.unacked})
  <2>1. room \in Int /\ room <= d.slen
    <3> PICK b : b = build.sendBuf - d.unacked  OBVIOUS
    <3>1. b \in Int  BY <1>t
    <3>2. \E x \in {d.slen, b} : \A y \in {d.slen, b} : x <= y  BY <1>t, <3>1
    <3>3. LW!Min({d.slen, b}) \in {d.slen, b} /\ \A y \in {d.slen, b} : LW!Min({d.slen, b}) <= y
      BY <3>2, Zenon DEF LW!Min
    <3> QED  BY <1>t, <3>1, <3>3
  <2> HIDE DEF room
  <2>2. \/ r = [d |-> d, sig |-> "CLOSE_CONN"]
        \/ \E n \in 0..room : r = LW!Quietly([d EXCEPT !.slen = @ - n, !.unacked = @ + n])
    BY <1>2 DEF LW!SendMore, room
  <2>3. CASE r = [d |-> d, sig |-> "CLOSE_CONN"]  BY <1>0, <2>3
  <2>4. ASSUME NEW n \in 0..room, r = LW!Quietly([d EXCEPT !.slen = @ - n, !.unacked = @ + n])
        PROVE  LwSends(d, r.d) /\ r.sig = LW!NULL
    <3> PICK e : e = [d EXCEPT !.slen = @ - n, !.unacked = @ + n]  OBVIOUS
    <3>1. r.d = e /\ r.sig = LW!NULL  BY <2>4 DEF LW!Quietly
    <3>2. n \in Nat /\ n <= d.slen  BY <1>t, <2>1
    <3>3. e = [d EXCEPT !.slen = @ - n, !.unacked = @ + n, !.flags = d.flags]  BY DEF LwConn
    <3>4. LwSends(d, e)  BY <3>2, <3>3, LwSendsSome
    <3> QED  BY <3>1, <3>4
  <2> QED  BY <2>2, <2>3, <2>4
<1>3. CASE LwDone(d) /\ r \in LW!SslSend(d)
  <2>1. \/ r = [d |-> d, sig |-> "CLOSE_CONN"]
        \/ r = [d |-> [d EXCEPT !.flags = @ \cup {"WANT_WRITE"}], sig |-> LW!NULL]
        \/ \E n \in (IF d.slen = 0 THEN {0} ELSE 1..d.slen) :
              r = [d |-> [d EXCEPT !.slen = @ - n, !.unacked = @ + n,
                                   !.flags = IF n = d.slen THEN @ \ {"WANT_WRITE"} ELSE @],
                   sig |-> IF n = d.slen THEN LW!NULL ELSE "CLOSE_CONN"]
    BY <1>3 DEF LW!SslSend
  <2>2. CASE r = [d |-> d, sig |-> "CLOSE_CONN"]  BY <1>0, <2>2
  <2>3. CASE r = [d |-> [d EXCEPT !.flags = @ \cup {"WANT_WRITE"}], sig |-> LW!NULL]
    <3> PICK e : e = [d EXCEPT !.flags = @ \cup {"WANT_WRITE"}]  OBVIOUS
    <3>1. r.d = e /\ r.sig = LW!NULL  BY <2>3
    <3>2. d.slen - 0 = d.slen /\ d.unacked + 0 = d.unacked /\ 0 <= d.slen  BY <1>t
    <3>3. e = [d EXCEPT !.slen = @ - 0, !.unacked = @ + 0, !.flags = d.flags \cup {"WANT_WRITE"}]
      BY <3>2 DEF LwConn
    <3>4. LwSends(d, e)  BY <1>3, <3>2, <3>3, LwSendsSome
    <3> QED  BY <3>1, <3>4
  <2>4. ASSUME NEW n \in (IF d.slen = 0 THEN {0} ELSE 1..d.slen),
               r = [d |-> [d EXCEPT !.slen = @ - n, !.unacked = @ + n,
                                    !.flags = IF n = d.slen THEN @ \ {"WANT_WRITE"} ELSE @],
                    sig |-> IF n = d.slen THEN LW!NULL ELSE "CLOSE_CONN"]
        PROVE  LwSends(d, r.d) /\ r.sig \in {LW!NULL, "CLOSE_CONN"}
    <3> DEFINE z == IF n = d.slen THEN d.flags \ {"WANT_WRITE"} ELSE d.flags
    <3> PICK e : e = [d EXCEPT !.slen = @ - n, !.unacked = @ + n, !.flags = z]  OBVIOUS
    <3>1. r.d = e /\ r.sig \in {LW!NULL, "CLOSE_CONN"}  BY <2>4
    <3>2. n \in Nat /\ n <= d.slen  BY <1>t
    <3>3. z = d.flags \/ (LwDone(d) /\ z \in {d.flags \cup {"WANT_WRITE"}, d.flags \ {"WANT_WRITE"}})  BY <1>3
    <3> HIDE DEF z
    <3>4. LwSends(d, e)  BY <3>2, <3>3, LwSendsSome
    <3> QED  BY <3>1, <3>4
  <2> QED  BY <2>1, <2>2, <2>3, <2>4
<1> QED  BY <1>1, <1>2, <1>3

LEMMA LwSent ==
  ASSUME NEW d \in LwConn, d.life = "live", NEW ssl \in BOOLEAN, NEW v \in LwViews, NEW w, NEW r, NEW q \in BOOLEAN,
         q => (d.pcb = "unused" => LwConnecting(d)),
         LwSends(d, r.d), r.sig \in {LW!NULL, "CLOSE_CONN"}, LwPostsIf(v, w, r.sig),
         \/ r = LW!Quietly(d)
         \/ /\ ~LwConnecting(d) /\ (ssl => LwDone(d) \/ d.pcb # "established") /\ d.pcb # "none"
  PROVE  LwGood(d, r.d, ssl, v, w, q)
<1>t. /\ d.rx \in Nat /\ d.numSent \in Nat /\ d.slen \in Nat /\ d.unacked \in Nat /\ d.came \in Nat /\ d.asked \in Nat /\ d.told \in Nat
      /\ d.missed \in BOOLEAN
      /\ d.recvPending \in BOOLEAN /\ d.err \in BOOLEAN /\ d.fin \in BOOLEAN /\ d.flags \in SUBSET LwFlags
      /\ d.kind \in {"client", "accepted"} /\ d.pcb \in {"none", "syn", "established", "unused"}
      /\ d.ssl \in {"none", "new", "started", "failed"} /\ d.seen \in Seq(LW!Events)
  BY DEF LwConn
<1>0. CASE r = LW!Quietly(d)
  <2>1. r.d = d /\ w = v  BY <1>0 DEF LW!Quietly, LwPostsIf
  <2> QED  BY <2>1 DEF LwGood
<1>1. CASE /\ ~LwConnecting(d) /\ (ssl => LwDone(d) \/ d.pcb # "established") /\ d.pcb # "none"
  <2> PICK e : e = r.d  OBVIOUS
  <2>1. /\ e \in LwConn /\ e.rx = d.rx /\ e.recvPending = d.recvPending
        /\ e.life = d.life /\ e.kind = d.kind /\ e.pcb = d.pcb /\ e.err = d.err
        /\ e.numSent = d.numSent /\ e.ssl = d.ssl /\ e.seen = d.seen
        /\ e.fin = d.fin /\ e.came = d.came /\ e.asked = d.asked /\ e.told = d.told /\ e.missed = d.missed
        /\ e.slen \in Nat /\ e.unacked \in Nat /\ e.slen + e.unacked = d.slen + d.unacked
    BY DEF LwSends, LwConn
  <2>2. /\ (LwConnecting(e) <=> LwConnecting(d)) /\ (LwDone(e) <=> LwDone(d))
        /\ LwClosing(e) <=> LwClosing(d)
        /\ ~LwDone(d) => e.flags = d.flags
    <3>1. /\ e.flags \in {d.flags, d.flags \cup {"WANT_WRITE"}, d.flags \ {"WANT_WRITE"}}
          /\ ~LwDone(d) => e.flags = d.flags
      BY DEF LwSends
    <3> QED  BY <3>1 DEF LwConnecting, LwDone, LwClosing
  <2>3. /\ w.at = v.at /\ w.n = v.n
        /\ w.has = v.has \/ w.has = v.has \cup {"CLOSE_CONN"}
        /\ v.ends => w.ends
        /\ \A t \in {"CONNECT_RESULT", "ACCEPT"} : (t \in w.leads <=> t \in v.leads) /\ (t \in w.once <=> t \in v.once)
    <3>1. CASE r.sig = LW!NULL  BY <3>1 DEF LwPostsIf
    <3>2. CASE r.sig = "CLOSE_CONN"
      <4>1. LwPosts(v, w, "CLOSE_CONN")  BY <3>2 DEF LwPostsIf, LW!NULL
      <4> QED  BY <4>1 DEF LwPosts, LwViews, LwSigs
    <3> QED  BY <3>1, <3>2
  <2>4. LwKept(d, ssl, v) => LwKept(e, ssl, w)  BY <2>1, <2>2, <2>3, <1>t DEF LwKept, LwClosing
  <2>5. ASSUME q, LwOrder(d, ssl, v)  PROVE LwOrder(e, ssl, w)
    <3>1. d.pcb \notin {"syn", "unused"}
      BY <1>1, <2>5, <1>t DEF LwOrder, LwAccepted, LwClient
    <3>2. d.seen # <<>> \/ ~ssl
      BY <1>1, <2>5, <3>1, <1>t DEF LwOrder, LwAccepted, LwClient
    <3>3. ssl => LwDone(d)  BY <1>1, <3>1, <1>t
    <3>4. LwQuiet(d, e, ssl, v, w)  BY <2>1, <2>2, <2>3, <3>1, <3>2, <3>3 DEF LwQuiet
    <3> QED  BY <2>1, <2>5, <3>4, LwQuietOrder
  <2> QED  BY <2>1, <2>4, <2>5 DEF LwGood
<1> QED  BY <1>0, <1>1

LEMMA LwVisited ==
  ASSUME NEW d \in LwConn, d.life = "live", NEW c, NEW v \in LwViews, NEW w,
         NEW r \in LW!Visited(d, c), LwPostsIf(v, w, r.sig), build.sendBuf \in Nat,
         NEW q \in BOOLEAN, q => (d.pcb = "unused" => LwConnecting(d)), q /\ c \in LW!Ssl => d.ssl # "none"
  PROVE  LwGood(d, r.d, c \in LW!Ssl, v, w, q)
<1>t. /\ d.rx \in Nat /\ d.numSent \in Nat /\ d.slen \in Nat /\ d.unacked \in Nat /\ d.came \in Nat /\ d.asked \in Nat /\ d.told \in Nat
      /\ d.missed \in BOOLEAN
      /\ d.recvPending \in BOOLEAN /\ d.err \in BOOLEAN /\ d.fin \in BOOLEAN /\ d.flags \in SUBSET LwFlags
      /\ d.kind \in {"client", "accepted"} /\ d.pcb \in {"none", "syn", "established", "unused"}
      /\ d.ssl \in {"none", "new", "started", "failed"} /\ d.seen \in Seq(LW!Events)
  BY DEF LwConn
<1> DEFINE ssl == c \in LW!Ssl
<1>0. \/ /\ ssl /\ d.pcb = "established" /\ ~LwDone(d) /\ r \in LW!SslDoHs(d)
         /\ d.rx > 0 \/ "WANT_READ" \in d.flags \/ "WANT_WRITE" \in d.flags
      \/ r = LW!Quietly(d)
      \/ ssl /\ d.pcb = "established" /\ ~LwConnecting(d) /\ LwDone(d) /\ r \in LW!SslSend(d)
      \/ ssl /\ LwDone(d) /\ r \in LW!SslRecv(d)
      \/ ~(ssl /\ d.pcb = "established") /\ ~LwConnecting(d) /\ d.pcb # "none" /\ r \in LW!SendMore(d)
  BY DEF LW!Visited, LwConnecting, LwDone
<1>s. ssl \in BOOLEAN  OBVIOUS
<1>n. q /\ ssl => d.ssl # "none"  OBVIOUS
<1> HIDE DEF ssl
<1>1. CASE /\ ssl /\ d.pcb = "established" /\ ~LwDone(d) /\ r \in LW!SslDoHs(d)
           /\ d.rx > 0 \/ "WANT_READ" \in d.flags \/ "WANT_WRITE" \in d.flags
  <2>1. /\ LwResult(d, r, v, w)
        /\ LwShaking(d, v) /\ (LwClosing(d) => LwOrder(d, TRUE, v)) => LwOrder(r.d, TRUE, w)
    BY <1>1, LwHandshake
  <2>2. d.ssl # "none" /\ LwOrder(d, TRUE, v) => LwShaking(d, v)  BY <1>1, LwVisitShakes
  <2>3. ssl = TRUE  BY <1>1, <1>s
  <2>5. q => d.ssl # "none"  BY <1>1, <1>n
  <2>4. LwGood(d, r.d, TRUE, v, w, q)  BY <2>1, <2>2, <2>5 DEF LwResult, LwGood
  <2> QED  BY <2>3, <2>4 DEF ssl
<1>2. CASE ssl /\ LwDone(d) /\ r \in LW!SslRecv(d)
  <2>1. ssl = TRUE  BY <1>2, <1>s
  <2>2. LwGood(d, r.d, TRUE, v, w, TRUE)  BY <1>2, LwSslRecv
  <2>3. LwGood(d, r.d, TRUE, v, w, q)  BY <2>2 DEF LwGood
  <2> QED  BY <2>1, <2>3 DEF ssl
<1>3. CASE \/ r = LW!Quietly(d)
           \/ ssl /\ d.pcb = "established" /\ ~LwConnecting(d) /\ LwDone(d) /\ r \in LW!SslSend(d)
           \/ ~(ssl /\ d.pcb = "established") /\ ~LwConnecting(d) /\ d.pcb # "none" /\ r \in LW!SendMore(d)
  <2>1. LwSends(d, r.d) /\ r.sig \in {LW!NULL, "CLOSE_CONN"}  BY <1>3, LwSendsIs
  <2>2. \/ r = LW!Quietly(d)
        \/ /\ ~LwConnecting(d) /\ (ssl => LwDone(d) \/ d.pcb # "established") /\ d.pcb # "none"
    BY <1>3
  <2>3. LwGood(d, r.d, ssl, v, w, q)  BY <1>s, <2>1, <2>2, LwSent
  <2> QED  BY <2>3 DEF ssl
<1> QED  BY <1>0, <1>1, <1>2, <1>3

\* A visit: the handler of POLL or of the timer may ask for a close, then the rest.
LEMMA LwVisitGoes ==
  ASSUME NEW d \in LwConn, d.life = "live", NEW c, NEW v \in LwViews, NEW w, NEW e \in LW!Flagged(d),
         NEW r \in LW!Visited(e, c), LwPostsIf(v, w, r.sig), build.sendBuf \in Nat, ~LwClosing(d),
         NEW p \in BOOLEAN, p /\ c \in LW!Ssl => d.ssl # "none"
  PROVE  LwGood(d, r.d, c \in LW!Ssl, v, w, p)
<1>c. (c \in LW!Ssl) \in BOOLEAN  OBVIOUS
<1> PICK ssl \in BOOLEAN : ssl = (c \in LW!Ssl)  BY <1>c
<1> DEFINE q == p /\ LwOrder(d, ssl, v)
<1>s. (p /\ c \in LW!Ssl => d.ssl # "none")  OBVIOUS
<1>1. LwFlaggedAs(d, e)  BY LwFlagged
<1>2. LwGood(d, e, ssl, v, v, TRUE) /\ LwFlagsKept(d, e)  BY <1>1, LwPolled
<1>3. e \in LwConn /\ e.life = "live" /\ e.ssl = d.ssl /\ e.pcb = d.pcb  BY <1>1 DEF LwFlaggedAs
<1>4. q => (e.pcb = "unused" => LwConnecting(e))
  <2> SUFFICES ASSUME LwOrder(d, ssl, v), d.pcb = "unused"  PROVE LwConnecting(d)
    BY <1>2, <1>3 DEF LwFlagsKept
  <2>1. d.kind \in {"client", "accepted"}  BY DEF LwConn
  <2>2. d.kind = "client"  BY <2>1 DEF LwOrder, LwAccepted
  <2> QED  BY <2>2 DEF LwOrder, LwClient
<1>5. q /\ c \in LW!Ssl => e.ssl # "none"  BY <1>s, <1>3
<1>6. LwGood(e, r.d, ssl, v, w, q)
  <2>1. q \in BOOLEAN  BY DEF LwOrder
  <2> HIDE DEF q
  <2>2. LwGood(e, r.d, c \in LW!Ssl, v, w, q)  BY <1>3, <1>4, <1>5, <2>1, LwVisited
  <2> QED  BY <2>2
<1>7. LwGood(d, r.d, ssl, v, w, p)
  <2> QED  BY <1>2, <1>6 DEF LwGood
<1> QED  BY <1>7
-----------------------------------------------------------------------------
\* What a visit may post.
LEMMA LwShakeSig == \A d, r : r \in LW!SslDoHs(d) => r.sig \in LwSigs \cup {LW!NULL}
<1> SUFFICES ASSUME NEW d, NEW r \in LW!SslDoHs(d)  PROVE r.sig \in LwSigs \cup {LW!NULL}
  OBVIOUS
<1>1. \A e : LW!Quietly(e).sig = LW!NULL  BY DEF LW!Quietly
<1>2. (\E e : r = LW!Quietly(e)) \/ \E e : r \in LW!Shaken(e)  BY DEF LW!SslDoHs
<1>3. CASE \E e : r = LW!Quietly(e)  BY <1>1, <1>3
<1>4. ASSUME NEW e, r \in LW!Shaken(e)  PROVE r.sig \in LwSigs \cup {LW!NULL}
  <2>1. \/ \E x : r = LW!Quietly(x)
        \/ \E x : r = [d |-> x, sig |-> "CLOSE_CONN"] \/ r = [d |-> x, sig |-> "CONNECT_RESULT"]
    BY <1>4 DEF LW!Shaken
  <2>2. CASE \E x : r = LW!Quietly(x)  BY <1>1, <2>2
  <2>3. CASE \E x : r = [d |-> x, sig |-> "CLOSE_CONN"] \/ r = [d |-> x, sig |-> "CONNECT_RESULT"]
    BY <2>3 DEF LwSigs
  <2> QED  BY <2>1, <2>2, <2>3
<1> QED  BY <1>2, <1>3, <1>4
LEMMA LwRecvSig == \A d, r : r \in LW!SslRecv(d) => r.sig \in LwSigs \cup {LW!NULL}
<1> SUFFICES ASSUME NEW d, NEW r \in LW!SslRecv(d)  PROVE r.sig \in LwSigs \cup {LW!NULL}
  OBVIOUS
<1>0. \A e : LW!Quietly(e).sig = LW!NULL  BY DEF LW!Quietly
<1>1. (\E e : r = LW!Quietly(e)) \/ (\E e : r = [d |-> e, sig |-> "CLOSE_CONN"])
  BY DEF LW!SslRecv
<1>2. CASE \E e : r = LW!Quietly(e)  BY <1>0, <1>2
<1>3. CASE \E e : r = [d |-> e, sig |-> "CLOSE_CONN"]  BY <1>3 DEF LwSigs
<1> QED  BY <1>1, <1>2, <1>3
LEMMA LwVisitSig ==
  ASSUME NEW d \in LwConn, d.life = "live", NEW c, NEW r \in LW!Visited(d, c), build.sendBuf \in Nat
  PROVE  r.sig \in LwSigs \cup {LW!NULL}
<1>1. r \in LW!SslDoHs(d) \/ r \in LW!SslRecv(d) \/ r \in LW!SendMore(d) \/ (LwDone(d) /\ r \in LW!SslSend(d)) \/ r = LW!Quietly(d)
  BY DEF LW!Visited, LwDone
<1>2. CASE r \in LW!SslDoHs(d)  BY <1>2, LwShakeSig
<1>3. CASE r \in LW!SslRecv(d)  BY <1>3, LwRecvSig
<1>4. CASE r \in LW!SendMore(d) \/ (LwDone(d) /\ r \in LW!SslSend(d)) \/ r = LW!Quietly(d)
  BY <1>4, LwSendsIs DEF LwSigs
<1> QED  BY <1>1, <1>2, <1>3, <1>4
-----------------------------------------------------------------------------
(* LwipIf: the invariant. *)

LwQ == hand \o queue
LwActive(c) == conn[c].life = "live" /\ dying # c

\* What Mongoose's task has in its hand, is in the middle of and has still to visit.
LwGoesOn(h, tn, visits) ==
    /\ h \in Seq(LwSignal) /\ Len(h) <= 1 /\ tn \in LwTurn
    /\ visits \subseteq LwipConns /\ \A c \in visits : LwActive(c)
    /\ tn.at \in {"none", "drained"} => tn.nc = LW!NULL
    /\ tn.at \in {"reading", "telling"} => tn.nc \in LwipConns /\ LwActive(tn.nc)
    /\ tn.at # "none" => h = <<>> /\ visits = {}
    /\ h # <<>> => visits = {}

LwTyped ==
    /\ conn \in [LwipConns -> LwConn]
    /\ queue \in Seq(LwSignal) /\ Len(queue) <= LW!QueueLen
    /\ LwGoesOn(hand, turn, todo)
    /\ dying \in LwipConns \cup {LW!NULL} /\ (dying # LW!NULL => conn[dying].life = "live")
    /\ lost \in BOOLEAN /\ raced \in BOOLEAN /\ wild \in BOOLEAN /\ build \in LwipBuilds

\* Every active connection has its signals, unless the queue has been full; and
\* is in order, unless it failed as it opened or closed.
LwAllKept ==
    ~lost /\ ~wild => \A c \in LwipConns : LwActive(c) => LwKept(conn[c], c \in LW!Ssl, LwView(LwQ, turn, c))
LwAllOrdered ==
    ~lost /\ ~raced =>
        /\ ~wild
        /\ \A c \in LwipConns :
              /\ LwActive(c) => LwOrder(conn[c], c \in LW!Ssl, LwView(LwQ, turn, c))
              /\ LwActive(c) /\ c \in LW!Ssl /\ (c \in todo \/ turn.at = "drained") => conn[c].ssl # "none"
              /\ ~LwActive(c) => LwView(LwQ, turn, c).has = {}
              /\ conn[c].life # "freed" => LwSeen(conn[c].seen, c \in LW!Ssl, FALSE)
              /\ conn[c].life = "freed" => LwSeen(conn[c].seen, c \in LW!Ssl, TRUE)

LwInv == LwTyped /\ LwAllKept /\ LwAllOrdered

LEMMA LwConstants ==
  LwInv => /\ LW!NULL \notin LwipConns /\ LW!QueueLen \in Nat /\ build.sendBuf \in Nat
           /\ build.conns \subseteq LwipConns
BY PortsAssumption DEF LwInv, LwTyped, LW!NULL, LW!QueueLen

\* The signals that are pending, and what a post adds to them.
LEMMA LwQType ==
  ASSUME NEW h \in Seq(LwSignal), NEW q \in Seq(LwSignal), NEW e \in LwSignal
  PROVE  /\ h \o q \in Seq(LwSignal) /\ h \o Append(q, e) = Append(h \o q, e) /\ Append(q, e) \in Seq(LwSignal)
         /\ <<>> \o q = q /\ Len(Append(q, e)) = Len(q) + 1
BY AppendProperties

\* The first of them, and the others.
LEMMA LwQHand ==
  ASSUME NEW h \in Seq(LwSignal), NEW q \in Seq(LwSignal), Len(h) = 1
  PROVE  h \o q # <<>> /\ (h \o q)[1] = h[1] /\ Tail(h \o q) = q
<1>1. /\ h \o q \in Seq(LwSignal) /\ Len(h \o q) = 1 + Len(q) /\ Len(q) \in Nat
      /\ (h \o q)[1] = h[1] /\ \A i \in 1..Len(q) : (h \o q)[1 + i] = q[i]
  <2>1. Len(q) \in Nat  BY LenProperties
  <2>2. /\ h \o q \in Seq(LwSignal) /\ Len(h \o q) = 1 + Len(q)
        /\ \A i \in 1..(1 + Len(q)) : (h \o q)[i] = IF i <= 1 THEN h[i] ELSE q[i - 1]
    <3>1. /\ h \o q \in Seq(LwSignal) /\ Len(h \o q) = Len(h) + Len(q)
          /\ \A i \in 1..(Len(h) + Len(q)) : (h \o q)[i] = IF i <= Len(h) THEN h[i] ELSE q[i - Len(h)]
      BY ConcatProperties, Zenon
    <3> QED  BY <3>1
  <2> PICK p : p = h \o q  OBVIOUS
  <2>3. p[1] = h[1]  BY <2>1, <2>2
  <2>4. ASSUME NEW i \in 1..Len(q)  PROVE p[1 + i] = q[i]
    <3>1. 1 + i \in 1..(1 + Len(q)) /\ ~(1 + i <= 1) /\ (1 + i) - 1 = i  BY <2>1
    <3> QED  BY <2>2, <3>1
  <2> QED  BY <2>1, <2>2, <2>3, <2>4
<1>2. h \o q # <<>>  BY <1>1, EmptySeq
<1> PICK p : p = h \o q  OBVIOUS
<1>3. /\ p \in Seq(LwSignal) /\ p # <<>> /\ Len(p) = 1 + Len(q) /\ Len(q) \in Nat
      /\ \A i \in 1..Len(q) : p[1 + i] = q[i]
  BY <1>1, <1>2
<1>4. Tail(p) \in Seq(LwSignal) /\ Len(Tail(p)) = Len(p) - 1 /\ \A i \in 1..Len(Tail(p)) : Tail(p)[i] = p[i + 1]
  BY <1>3, HeadTailProperties
<1>5. Len(Tail(p)) = Len(q) /\ \A i \in 1..Len(q) : Tail(p)[i] = q[i]  BY <1>3, <1>4
<1>6. Tail(p) = q  BY <1>4, <1>5, SeqEqual
<1> QED  BY <1>1, <1>2, <1>6

\* The views after a step in which s is posted for c, if it is a signal; q is what
\* is pending without it.
LwAfter(q, c, s, w) ==
    /\ LwPostsIf(LwView(q, turn', c), w, s)
    /\ queue' \in Seq(LwSignal) /\ Len(queue') <= LW!QueueLen
    /\ \A x \in LwipConns : x # c => LwView(LwQ', turn', x) = LwView(q, turn', x)
    /\ ~lost' => w = LwView(LwQ', turn', c)
    /\ lost' \in BOOLEAN /\ (lost => lost')

LEMMA LwPosting ==
  ASSUME queue \in Seq(LwSignal), Len(queue) <= LW!QueueLen, LW!QueueLen \in Nat, lost \in BOOLEAN,
         hand' \in Seq(LwSignal), turn' \in LwTurn,
         NEW c \in LwipConns, NEW s \in LwSigs \cup {LW!NULL}, LW!PostIf(s # LW!NULL, s, c)
  PROVE  \E w : LwAfter(hand' \o queue, c, s, w)
<1>n. Len(queue) \in Nat /\ "NULL" \notin LwSigs /\ LW!NULL = "NULL"  BY LenProperties DEF LwSigs, LW!NULL
<1> PICK tn : tn = turn'  OBVIOUS
<1> PICK q : q = hand' \o queue  OBVIOUS
<1>q. LwQ' = hand' \o queue'  BY DEF LwQ
<1>0. q \in Seq(LwSignal)  OBVIOUS
<1>t. tn \in LwTurn  OBVIOUS
<1>1. CASE s = LW!NULL
  <2>1. queue' = queue /\ lost' = lost  BY <1>1 DEF LW!PostIf
  <2>2. LwAfter(q, c, s, LwView(q, tn, c))  BY <1>1, <1>q, <2>1 DEF LwAfter, LwPostsIf
  <2> QED  BY <2>2
<1>2. CASE s # LW!NULL
  <2>1. s \in LwSigs  BY <1>2
  <2>t. \A z \in LwSigs \cup {"TOMBSTONE"} :
          LET r == Append(q, [sig |-> z, nc |-> c])
          IN  /\ r \in Seq(LwSignal)
              /\ z # "TOMBSTONE" => LwPosts(LwView(q, tn, c), LwView(r, tn, c), z)
              /\ \A x \in LwipConns : x # c => LwView(r, tn, x) = LwView(q, tn, x)
    BY <1>0, <1>t, LwPosted
  <2> PICK e : e = [sig |-> s, nc |-> c]  OBVIOUS
  <2> PICK t : t = [sig |-> "TOMBSTONE", nc |-> c]  OBVIOUS
  <2> PICK w : w = LwView(Append(q, e), tn, c)  OBVIOUS
  <2>2. /\ e \in LwSignal /\ t \in LwSignal /\ "TOMBSTONE" \notin LwSigs  BY <2>1 DEF LwSignal, LwSigs
  <2>3. /\ Append(q, e) \in Seq(LwSignal) /\ LwPosts(LwView(q, tn, c), w, s)
        /\ \A x \in LwipConns : x # c => LwView(Append(q, e), tn, x) = LwView(q, tn, x)
    BY <2>1, <2>2, <2>t
  <2>4. \A x \in LwipConns : x # c => LwView(Append(q, t), tn, x) = LwView(q, tn, x)
    BY <2>t
  <2>p. LwPostsIf(LwView(q, tn, c), w, s)  BY <1>2, <2>3 DEF LwPostsIf
  <2>5. /\ hand' \o Append(queue, e) = Append(q, e) /\ hand' \o Append(queue, t) = Append(q, t)
        /\ Append(queue, e) \in Seq(LwSignal) /\ Append(queue, t) \in Seq(LwSignal)
        /\ Len(Append(queue, e)) = Len(queue) + 1 /\ Len(Append(queue, t)) = Len(queue) + 1
    BY <2>2, LwQType
  <2>6. \/ Len(queue) < LW!QueueLen /\ queue' = Append(queue, e) /\ lost' = lost
        \/ queue' = queue /\ lost' = TRUE
        \/ Len(queue) < LW!QueueLen /\ queue' = Append(queue, t) /\ lost' = TRUE
    <3>1. LW!Post(s, c)  BY <1>2 DEF LW!PostIf
    <3>2. \/ queue' = LW!Posted(queue, s, c) /\ lost' = (lost \/ LW!Dropped(queue))
          \/ queue' = LW!Posted(queue, "TOMBSTONE", c) /\ lost' = TRUE
      BY <3>1 DEF LW!Post
    <3>3. CASE Len(queue) >= LW!QueueLen
      <4>1. LW!Posted(queue, s, c) = queue /\ LW!Posted(queue, "TOMBSTONE", c) = queue /\ LW!Dropped(queue)
        BY <3>3 DEF LW!Posted, LW!Dropped
      <4> QED  BY <3>2, <4>1
    <3>4. CASE Len(queue) < LW!QueueLen
      <4>1. LW!Posted(queue, s, c) = Append(queue, e) /\ LW!Posted(queue, "TOMBSTONE", c) = Append(queue, t)
            /\ ~LW!Dropped(queue)
        BY <1>n, <3>4 DEF LW!Posted, LW!Dropped
      <4> QED  BY <3>2, <3>4, <4>1
    <3>5. Len(queue) >= LW!QueueLen \/ Len(queue) < LW!QueueLen  BY <1>n
    <3> QED  BY <3>3, <3>4, <3>5
  <2>7. CASE Len(queue) < LW!QueueLen /\ queue' = Append(queue, e) /\ lost' = lost
    <3>1. LwQ' = Append(q, e) /\ Len(queue') <= LW!QueueLen  BY <1>n, <1>q, <2>5, <2>7
    <3>2. LwAfter(q, c, s, w)  BY <2>3, <2>p, <2>5, <2>7, <3>1 DEF LwAfter
    <3> QED  BY <3>2
  <2>8. CASE queue' = queue /\ lost' = TRUE
    <3>1. LwQ' = q  BY <1>q, <2>8
    <3>2. LwAfter(q, c, s, w)  BY <2>p, <2>8, <3>1 DEF LwAfter
    <3> QED  BY <3>2
  <2>9. CASE Len(queue) < LW!QueueLen /\ queue' = Append(queue, t) /\ lost' = TRUE
    <3>1. LwQ' = Append(q, t) /\ Len(queue') <= LW!QueueLen  BY <1>n, <1>q, <2>5, <2>9
    <3>2. LwAfter(q, c, s, w)  BY <2>4, <2>p, <2>5, <2>9, <3>1 DEF LwAfter
    <3> QED  BY <3>2
  <2> QED  BY <2>6, <2>7, <2>8, <2>9
<1> QED  BY <1>1, <1>2
-----------------------------------------------------------------------------
LEMMA LwFrame ==
  ASSUME LwInv, NEW c \in LwipConns, conn[c].life = "live", NEW e, conn' = [conn EXCEPT ![c] = e],
         NEW q, \A x \in LwipConns : x # c => LwView(q, turn', x) = LwView(LwQ, turn, x),
         NEW s, NEW w, LwAfter(q, c, s, w),
         NEW p, LwGood(conn[c], e, c \in LW!Ssl, LwView(LwQ, turn, c), w, p),
         raced' \in BOOLEAN, raced => raced', ~raced' /\ ~lost' => p /\ dying # c,
         wild' = wild, dying' = dying, build' = build,
         LwGoesOn(hand', turn', todo'), todo' \subseteq todo, turn'.at = "drained" => turn.at = "drained"
  PROVE  LwInv'
<1>1. /\ conn \in [LwipConns -> LwConn]
      /\ dying \in LwipConns \cup {LW!NULL} /\ (dying # LW!NULL => conn[dying].life = "live")
      /\ lost \in BOOLEAN /\ raced \in BOOLEAN /\ wild \in BOOLEAN /\ build \in LwipBuilds
  BY DEF LwInv, LwTyped
<1>2. /\ queue' \in Seq(LwSignal) /\ Len(queue') <= LW!QueueLen
      /\ \A x \in LwipConns : x # c => LwView(LwQ', turn', x) = LwView(LwQ, turn, x)
      /\ ~lost' => w = LwView(LwQ', turn', c)
      /\ lost' \in BOOLEAN /\ (lost => lost')
  BY DEF LwAfter
<1>3. e \in LwConn /\ e.life = "live" /\ (e.ssl = "none" => conn[c].ssl = "none")  BY DEF LwGood
<1>4. conn'[c] = e /\ (\A x \in LwipConns : x # c => conn'[x] = conn[x]) /\ conn' \in [LwipConns -> LwConn]
  BY <1>1, <1>3
<1>5. \A x \in LwipConns : LwActive(x)' <=> LwActive(x)  BY <1>3, <1>4 DEF LwActive
<1>6. LW!Ssl' = LW!Ssl /\ LW!QueueLen' = LW!QueueLen  BY DEF LW!Ssl, LW!QueueLen
<1>7. LwTyped'
  <2>1. LwGoesOn(hand, turn, todo)'  BY <1>5 DEF LwGoesOn
  <2>2. dying' # LW!NULL => conn'[dying'].life = "live"  BY <1>1, <1>3, <1>4
  <2> QED  BY <1>1, <1>2, <1>4, <1>6, <2>1, <2>2 DEF LwTyped
<1>8. LwAllKept'
  <2> SUFFICES ASSUME ~lost', ~wild, NEW x \in LwipConns, LwActive(x)
               PROVE  LwKept(conn'[x], x \in LW!Ssl, LwView(LwQ', turn', x))
    BY <1>5, <1>6 DEF LwAllKept
  <2>1. LwKept(conn[x], x \in LW!Ssl, LwView(LwQ, turn, x))  BY <1>2 DEF LwInv, LwAllKept
  <2>2. CASE x = c  BY <1>2, <1>4, <2>1, <2>2 DEF LwGood
  <2>3. CASE x # c  BY <1>2, <1>4, <2>1, <2>3
  <2> QED  BY <2>2, <2>3
<1>9. LwAllOrdered'
  <2> SUFFICES ASSUME ~lost', ~raced'  PROVE LwAllOrdered'
    BY DEF LwAllOrdered
  <2>1. ~lost /\ ~raced /\ p /\ dying # c  BY <1>2
  <2>2. ~wild /\ \A x \in LwipConns :
              /\ LwActive(x) => LwOrder(conn[x], x \in LW!Ssl, LwView(LwQ, turn, x))
              /\ LwActive(x) /\ x \in LW!Ssl /\ (x \in todo \/ turn.at = "drained") => conn[x].ssl # "none"
              /\ ~LwActive(x) => LwView(LwQ, turn, x).has = {}
              /\ conn[x].life # "freed" => LwSeen(conn[x].seen, x \in LW!Ssl, FALSE)
              /\ conn[x].life = "freed" => LwSeen(conn[x].seen, x \in LW!Ssl, TRUE)
    BY <2>1 DEF LwInv, LwAllOrdered
  <2>3. LwActive(c)  BY <2>1 DEF LwActive
  <2>4. LwOrder(e, c \in LW!Ssl, LwView(LwQ', turn', c))  BY <1>2, <2>1, <2>2, <2>3 DEF LwGood
  <2>5. LwSeen(e.seen, c \in LW!Ssl, FALSE)  BY <2>4 DEF LwOrder
  <2>6. ASSUME NEW x \in LwipConns
        PROVE  /\ LwActive(x) => LwOrder(conn'[x], x \in LW!Ssl, LwView(LwQ', turn', x))
               /\ LwActive(x) /\ x \in LW!Ssl /\ (x \in todo' \/ turn'.at = "drained") => conn'[x].ssl # "none"
               /\ ~LwActive(x) => LwView(LwQ', turn', x).has = {}
               /\ conn'[x].life # "freed" => LwSeen(conn'[x].seen, x \in LW!Ssl, FALSE)
               /\ conn'[x].life = "freed" => LwSeen(conn'[x].seen, x \in LW!Ssl, TRUE)
    <3>1. CASE x = c  BY <1>3, <1>4, <2>2, <2>3, <2>4, <2>5, <3>1
    <3>2. CASE x # c  BY <1>2, <1>4, <2>2, <3>2
    <3> QED  BY <3>1, <3>2
  <2> QED  BY <1>5, <1>6, <2>2, <2>6 DEF LwAllOrdered
<1> QED  BY <1>7, <1>8, <1>9 DEF LwInv

\* Steps that change no connection.
LEMMA LwFrameSame ==
  ASSUME LwInv, conn' = conn, queue' \in Seq(LwSignal), Len(queue') <= LW!QueueLen,
         \A x \in LwipConns : LwView(LwQ', turn', x) = LwView(LwQ, turn, x),
         lost' = lost, raced' = raced, dying' = dying, build' = build, wild' = wild,
         LwGoesOn(hand', turn', todo'),
         ~lost /\ ~raced => \A x \in LwipConns :
             LwActive(x) /\ x \in LW!Ssl /\ (x \in todo' \/ turn'.at = "drained") => conn[x].ssl # "none"
  PROVE  LwInv'
<1>1. LW!Ssl' = LW!Ssl /\ LW!QueueLen' = LW!QueueLen  BY DEF LW!Ssl, LW!QueueLen
<1>2. \A x : LwActive(x)' <=> LwActive(x)  BY DEF LwActive
<1>3. LwTyped'
  <2>1. LwGoesOn(hand, turn, todo)'  BY <1>2 DEF LwGoesOn
  <2> QED  BY <1>1, <2>1 DEF LwInv, LwTyped
<1>4. LwAllKept'  BY <1>1, <1>2 DEF LwInv, LwAllKept
<1>5. LwAllOrdered'
  <2> SUFFICES ASSUME ~lost, ~raced  PROVE LwAllOrdered'
    BY DEF LwAllOrdered
  <2>1. ~wild' /\ \A x \in LwipConns :
              /\ LwActive(x) => LwOrder(conn[x], x \in LW!Ssl, LwView(LwQ', turn', x))
              /\ LwActive(x) /\ x \in LW!Ssl /\ (x \in todo' \/ turn'.at = "drained") => conn[x].ssl # "none"
              /\ ~LwActive(x) => LwView(LwQ', turn', x).has = {}
              /\ conn[x].life # "freed" => LwSeen(conn[x].seen, x \in LW!Ssl, FALSE)
              /\ conn[x].life = "freed" => LwSeen(conn[x].seen, x \in LW!Ssl, TRUE)
    BY DEF LwInv, LwAllOrdered
  <2> QED  BY <1>1, <1>2, <2>1 DEF LwAllOrdered
<1> QED  BY <1>3, <1>4, <1>5 DEF LwInv

\* A pointer that is not there is followed, which needs a failure or a loss before.
LEMMA LwFrameWild ==
  ASSUME LwInv, lost \/ raced, LW!GoWild, raced' = raced, build' = build,
         LwGoesOn(hand', turn', todo')
  PROVE  LwInv'
<1>1. conn' = conn /\ queue' = queue /\ dying' = dying /\ lost' = lost /\ wild' = TRUE  BY DEF LW!GoWild
<1>2. LW!Ssl' = LW!Ssl /\ LW!QueueLen' = LW!QueueLen  BY DEF LW!Ssl, LW!QueueLen
<1>3. LwGoesOn(hand, turn, todo)'  BY <1>1 DEF LwGoesOn, LwActive
<1>4. LwTyped'  BY <1>1, <1>2, <1>3 DEF LwInv, LwTyped
<1>5. LwAllKept' /\ LwAllOrdered'  BY <1>1 DEF LwAllKept, LwAllOrdered
<1> QED  BY <1>4, <1>5 DEF LwInv

\* The first half of mg_close_conn; nothing is in hand or under way.
LEMMA LwFrameClose ==
  ASSUME LwInv, NEW c \in LwipConns, conn[c].life = "live", dying = LW!NULL, LW!NULL \notin LwipConns,
         NEW e \in LwConn, e.life = "live",
         ~lost /\ ~raced => LwSeen(e.seen, c \in LW!Ssl, FALSE),
         LW!StartClose(c, e), raced' = raced, build' = build,
         hand' = <<>>, turn' \in LwTurn, turn'.at = "none", turn'.nc = LW!NULL,
         todo' \subseteq todo \ {c},
         \A x \in LwipConns : x # c => LwView(queue, turn', x) = LwView(LwQ, turn, x)
  PROVE  LwInv'
<1>1. /\ conn \in [LwipConns -> LwConn]
      /\ todo \subseteq LwipConns /\ (\A x \in todo : LwActive(x))
      /\ queue \in Seq(LwSignal) /\ Len(queue) <= LW!QueueLen
      /\ lost \in BOOLEAN /\ raced \in BOOLEAN /\ wild \in BOOLEAN /\ build \in LwipBuilds
  BY DEF LwInv, LwTyped, LwGoesOn
<1>2. dying' = c /\ queue' = LW!Tombstoned(queue, c) /\ conn' = [conn EXCEPT ![c] = e] /\ lost' = lost /\ wild' = wild
  BY DEF LW!StartClose
<1> PICK tn : tn = turn'  OBVIOUS
<1>t. tn \in LwTurn  OBVIOUS
<1>3. /\ queue' \in Seq(LwSignal) /\ Len(queue') <= LW!QueueLen /\ LwView(LwQ', turn', c).has = {}
      /\ \A x \in LwipConns : x # c => LwView(LwQ', turn', x) = LwView(LwQ, turn, x)
  <2>1. /\ queue' \in Seq(LwSignal) /\ Len(queue') = Len(queue)
        /\ LwView(queue', tn, c).has = {}
        /\ \A x \in LwipConns : x # c => LwView(queue', tn, x) = LwView(queue, tn, x)
    BY <1>1, <1>2, <1>t, LwTombstoned
  <2>2. LwQ' = queue'  BY <2>1, ConcatEmptySeq DEF LwQ
  <2> QED  BY <1>1, <2>1, <2>2
<1>4. conn'[c] = e /\ (\A x \in LwipConns : x # c => conn'[x] = conn[x]) /\ conn' \in [LwipConns -> LwConn]
  BY <1>1, <1>2
<1>5. (\A x \in LwipConns : x # c => (LwActive(x)' <=> LwActive(x))) /\ ~LwActive(c)' /\ LwActive(c)
  BY <1>2, <1>4 DEF LwActive
<1>6. LW!Ssl' = LW!Ssl /\ LW!QueueLen' = LW!QueueLen  BY DEF LW!Ssl, LW!QueueLen
<1>7. LwTyped'
  <2>1. todo' \subseteq LwipConns /\ \A x \in todo' : LwActive(x)'  BY <1>1, <1>5
  <2>2. LwGoesOn(hand, turn, todo)'  BY <2>1 DEF LwGoesOn
  <2>3. dying' # LW!NULL => conn'[dying'].life = "live"  BY <1>2, <1>4
  <2> QED  BY <1>1, <1>2, <1>3, <1>4, <1>6, <2>2, <2>3 DEF LwTyped
<1>8. LwAllKept'
  <2> SUFFICES ASSUME ~lost, ~wild, NEW x \in LwipConns, x # c, LwActive(x)
               PROVE  LwKept(conn'[x], x \in LW!Ssl, LwView(LwQ', turn', x))
    BY <1>2, <1>5, <1>6 DEF LwAllKept
  <2>1. LwKept(conn[x], x \in LW!Ssl, LwView(LwQ, turn, x))  BY DEF LwInv, LwAllKept
  <2> QED  BY <1>3, <1>4, <2>1
<1>9. LwAllOrdered'
  <2> SUFFICES ASSUME ~lost, ~raced  PROVE LwAllOrdered'
    BY <1>2 DEF LwAllOrdered
  <2>1. ~wild /\ \A x \in LwipConns :
              /\ LwActive(x) => LwOrder(conn[x], x \in LW!Ssl, LwView(LwQ, turn, x))
              /\ LwActive(x) /\ x \in LW!Ssl /\ (x \in todo \/ turn.at = "drained") => conn[x].ssl # "none"
              /\ ~LwActive(x) => LwView(LwQ, turn, x).has = {}
              /\ conn[x].life # "freed" => LwSeen(conn[x].seen, x \in LW!Ssl, FALSE)
              /\ conn[x].life = "freed" => LwSeen(conn[x].seen, x \in LW!Ssl, TRUE)
    BY DEF LwInv, LwAllOrdered
  <2>2. ASSUME NEW x \in LwipConns
        PROVE  /\ LwActive(x)' => LwOrder(conn'[x], x \in LW!Ssl, LwView(LwQ', turn', x))
               /\ LwActive(x)' /\ x \in LW!Ssl /\ (x \in todo' \/ turn'.at = "drained") => conn'[x].ssl # "none"
               /\ ~LwActive(x)' => LwView(LwQ', turn', x).has = {}
               /\ conn'[x].life # "freed" => LwSeen(conn'[x].seen, x \in LW!Ssl, FALSE)
               /\ conn'[x].life = "freed" => LwSeen(conn'[x].seen, x \in LW!Ssl, TRUE)
    <3>1. CASE x = c  BY <1>3, <1>4, <1>5, <3>1
    <3>2. CASE x # c  BY <1>3, <1>4, <1>5, <2>1, <3>2
    <3> QED  BY <3>1, <3>2
  <2> QED  BY <1>2, <1>6, <2>1, <2>2 DEF LwAllOrdered
<1> QED  BY <1>7, <1>8, <1>9 DEF LwInv

\* The second half.
LEMMA LwFrameFinish ==
  ASSUME LwInv, LW!NULL \notin LwipConns, LW!FinishClose, build' = build
  PROVE  LwInv'
<1> PICK c : c = dying  OBVIOUS
<1>1. /\ conn \in [LwipConns -> LwConn]
      /\ LwGoesOn(hand, turn, todo)
      /\ dying \in LwipConns \cup {LW!NULL} /\ (dying # LW!NULL => conn[dying].life = "live")
      /\ lost \in BOOLEAN /\ raced \in BOOLEAN /\ wild \in BOOLEAN /\ build \in LwipBuilds
      /\ queue \in Seq(LwSignal) /\ Len(queue) <= LW!QueueLen
  BY DEF LwInv, LwTyped
<1> DEFINE d == conn[c]
           e == [d EXCEPT !.life = "freed", !.pcb = "none", !.seen = Append(@, "CLOSE")]
<1>2. /\ c \in LwipConns /\ d.life = "live" /\ conn' = [conn EXCEPT ![c] = e] /\ dying' = LW!NULL
      /\ queue' = queue /\ hand' = hand /\ turn' = turn /\ todo' = todo
      /\ lost' = lost /\ raced' = raced /\ wild' = wild
  BY <1>1 DEF LW!FinishClose
<1>3. e \in LwConn /\ e.life = "freed" /\ e.seen = Append(d.seen, "CLOSE")
  <2>1. d \in LwConn  BY <1>1, <1>2
  <2> HIDE DEF d
  <2>2. d.seen \in Seq(LW!Events)  BY <2>1 DEF LwConn
  <2>3. "CLOSE" \in LW!Events  BY DEF LW!Events
  <2> PICK s : s = Append(d.seen, "CLOSE")  OBVIOUS
  <2>4. s \in Seq(LW!Events)  BY <2>2, <2>3, LwAppended
  <2> PICK f : f = [d EXCEPT !.life = "freed", !.pcb = "none", !.seen = s]  OBVIOUS
  <2>5. f \in LwConn /\ f.life = "freed" /\ f.seen = s
    BY <2>1, <2>4 DEF LwConn
  <2>7. f = e  BY DEF LwConn
  <2> QED  BY <2>5, <2>7
<1>d. d.seen \in Seq(LW!Events)  BY <1>1, <1>2 DEF LwConn
<1> HIDE DEF e
<1>4. conn'[c] = e /\ (\A x \in LwipConns : x # c => conn'[x] = conn[x]) /\ conn' \in [LwipConns -> LwConn]
  BY <1>1, <1>2, <1>3
<1>5. (\A x \in LwipConns : x # c => (LwActive(x)' <=> LwActive(x))) /\ ~LwActive(c)' /\ ~LwActive(c)
  BY <1>2, <1>3, <1>4 DEF LwActive
<1>6. LW!Ssl' = LW!Ssl /\ LW!QueueLen' = LW!QueueLen /\ LwQ' = LwQ  BY <1>2 DEF LW!Ssl, LW!QueueLen, LwQ
<1>7. LwTyped'
  <2>1. LwGoesOn(hand, turn, todo)'  BY <1>1, <1>2, <1>5 DEF LwGoesOn
  <2> QED  BY <1>1, <1>2, <1>4, <1>6, <2>1 DEF LwTyped
<1>8. LwAllKept'
  <2> SUFFICES ASSUME ~lost, ~wild, NEW x \in LwipConns, x # c, LwActive(x)
               PROVE  LwKept(conn'[x], x \in LW!Ssl, LwView(LwQ, turn, x))
    BY <1>2, <1>5, <1>6 DEF LwAllKept
  <2>1. LwKept(conn[x], x \in LW!Ssl, LwView(LwQ, turn, x))  BY DEF LwInv, LwAllKept
  <2> QED  BY <1>4, <2>1
<1>9. LwAllOrdered'
  <2> SUFFICES ASSUME ~lost, ~raced  PROVE LwAllOrdered'
    BY <1>2 DEF LwAllOrdered
  <2>1. ~wild /\ \A x \in LwipConns :
              /\ LwActive(x) => LwOrder(conn[x], x \in LW!Ssl, LwView(LwQ, turn, x))
              /\ LwActive(x) /\ x \in LW!Ssl /\ (x \in todo \/ turn.at = "drained") => conn[x].ssl # "none"
              /\ ~LwActive(x) => LwView(LwQ, turn, x).has = {}
              /\ conn[x].life # "freed" => LwSeen(conn[x].seen, x \in LW!Ssl, FALSE)
              /\ conn[x].life = "freed" => LwSeen(conn[x].seen, x \in LW!Ssl, TRUE)
    BY DEF LwInv, LwAllOrdered
  <2>2. LwSeen(d.seen, c \in LW!Ssl, FALSE)  BY <1>2, <2>1
  <2>3. LwSeen(e.seen, c \in LW!Ssl, TRUE)  BY <1>3, <1>d, <2>2, LwSeenLast
  <2>4. ASSUME NEW x \in LwipConns
        PROVE  /\ LwActive(x)' => LwOrder(conn'[x], x \in LW!Ssl, LwView(LwQ, turn, x))
               /\ LwActive(x)' /\ x \in LW!Ssl /\ (x \in todo \/ turn.at = "drained") => conn'[x].ssl # "none"
               /\ ~LwActive(x)' => LwView(LwQ, turn, x).has = {}
               /\ conn'[x].life # "freed" => LwSeen(conn'[x].seen, x \in LW!Ssl, FALSE)
               /\ conn'[x].life = "freed" => LwSeen(conn'[x].seen, x \in LW!Ssl, TRUE)
    <3>1. CASE x = c  BY <1>3, <1>4, <1>5, <2>1, <2>3, <3>1
    <3>2. CASE x # c  BY <1>4, <1>5, <2>1, <3>2
    <3> QED  BY <3>1, <3>2
  <2> QED  BY <1>2, <1>6, <2>1, <2>4 DEF LwAllOrdered
<1> QED  BY <1>7, <1>8, <1>9 DEF LwInv

\* A connection is opened or accepted.
LEMMA LwFrameOpen ==
  ASSUME LwInv, LW!NULL \notin LwipConns, NEW c \in LwipConns, conn[c].life = "none", NEW e, conn' = [conn EXCEPT ![c] = e],
         NEW s, NEW w, LwAfter(LwQ, c, s, w), LwFresh(e, c \in LW!Ssl, LwView(LwQ, turn, c), w),
         raced' \in BOOLEAN, raced => raced', ~raced' => (turn.at = "drained" /\ c \in LW!Ssl => e.ssl # "none"),
         wild' = wild, dying' = dying, build' = build, hand' = hand, turn' = turn, todo' = todo
  PROVE  LwInv'
<1>1. /\ conn \in [LwipConns -> LwConn]
      /\ LwGoesOn(hand, turn, todo)
      /\ dying \in LwipConns \cup {LW!NULL} /\ (dying # LW!NULL => conn[dying].life = "live")
      /\ lost \in BOOLEAN /\ raced \in BOOLEAN /\ wild \in BOOLEAN /\ build \in LwipBuilds
  BY DEF LwInv, LwTyped
<1>2. /\ queue' \in Seq(LwSignal) /\ Len(queue') <= LW!QueueLen
      /\ \A x \in LwipConns : x # c => LwView(LwQ', turn', x) = LwView(LwQ, turn, x)
      /\ ~lost' => w = LwView(LwQ', turn', c)
      /\ lost' \in BOOLEAN /\ (lost => lost')
  BY DEF LwAfter
<1>3. e \in LwConn /\ e.life = "live" /\ LwKept(e, c \in LW!Ssl, w)  BY DEF LwFresh
<1>4. conn'[c] = e /\ (\A x \in LwipConns : x # c => conn'[x] = conn[x]) /\ conn' \in [LwipConns -> LwConn]
  BY <1>1, <1>3
<1>5. (\A x \in LwipConns : x # c => (LwActive(x)' <=> LwActive(x))) /\ ~LwActive(c) /\ LwActive(c)' /\ dying # c
  <2>1. dying # c  BY <1>1
  <2> QED  BY <1>3, <1>4, <2>1 DEF LwActive
<1>6. LW!Ssl' = LW!Ssl /\ LW!QueueLen' = LW!QueueLen  BY DEF LW!Ssl, LW!QueueLen
<1>t. c \notin todo  BY <1>1, <1>5 DEF LwGoesOn
<1>7. LwTyped'
  <2>1. LwGoesOn(hand, turn, todo)'  BY <1>1, <1>5 DEF LwGoesOn
  <2>3. dying' # LW!NULL => conn'[dying'].life = "live"  BY <1>1, <1>4, <1>5
  <2> QED  BY <1>1, <1>2, <1>4, <1>6, <2>1, <2>3 DEF LwTyped
<1>8. LwAllKept'
  <2> SUFFICES ASSUME ~lost', ~wild, NEW x \in LwipConns, LwActive(x)'
               PROVE  LwKept(conn'[x], x \in LW!Ssl, LwView(LwQ', turn', x))
    BY <1>6 DEF LwAllKept
  <2>1. CASE x = c  BY <1>2, <1>3, <1>4, <2>1
  <2>2. CASE x # c
    <3>1. LwKept(conn[x], x \in LW!Ssl, LwView(LwQ, turn, x))  BY <1>2, <1>5, <2>2 DEF LwInv, LwAllKept
    <3> QED  BY <1>2, <1>4, <2>2, <3>1
  <2> QED  BY <2>1, <2>2
<1>9. LwAllOrdered'
  <2> SUFFICES ASSUME ~lost', ~raced'  PROVE LwAllOrdered'
    BY DEF LwAllOrdered
  <2>1. ~wild /\ \A x \in LwipConns :
              /\ LwActive(x) => LwOrder(conn[x], x \in LW!Ssl, LwView(LwQ, turn, x))
              /\ LwActive(x) /\ x \in LW!Ssl /\ (x \in todo \/ turn.at = "drained") => conn[x].ssl # "none"
              /\ ~LwActive(x) => LwView(LwQ, turn, x).has = {}
              /\ conn[x].life # "freed" => LwSeen(conn[x].seen, x \in LW!Ssl, FALSE)
              /\ conn[x].life = "freed" => LwSeen(conn[x].seen, x \in LW!Ssl, TRUE)
    BY <1>2 DEF LwInv, LwAllOrdered
  <2>2. LwOrder(e, c \in LW!Ssl, LwView(LwQ', turn', c))  BY <1>2, <1>5, <2>1 DEF LwFresh
  <2>3. LwSeen(e.seen, c \in LW!Ssl, FALSE)  BY <2>2 DEF LwOrder
  <2>4. ASSUME NEW x \in LwipConns
        PROVE  /\ LwActive(x)' => LwOrder(conn'[x], x \in LW!Ssl, LwView(LwQ', turn', x))
               /\ LwActive(x)' /\ x \in LW!Ssl /\ (x \in todo' \/ turn'.at = "drained") => conn'[x].ssl # "none"
               /\ ~LwActive(x)' => LwView(LwQ', turn', x).has = {}
               /\ conn'[x].life # "freed" => LwSeen(conn'[x].seen, x \in LW!Ssl, FALSE)
               /\ conn'[x].life = "freed" => LwSeen(conn'[x].seen, x \in LW!Ssl, TRUE)
    <3>1. CASE x = c  BY <1>3, <1>4, <1>5, <1>t, <2>2, <2>3, <3>1
    <3>2. CASE x # c  BY <1>2, <1>4, <1>5, <2>1, <3>2
    <3> QED  BY <3>1, <3>2
  <2> QED  BY <1>6, <2>1, <2>4 DEF LwAllOrdered
<1> QED  BY <1>7, <1>8, <1>9 DEF LwInv
-----------------------------------------------------------------------------
(* LwipIf: the steps. *)

LEMMA LwNow ==
  ASSUME LwInv
  PROVE  /\ conn \in [LwipConns -> LwConn] /\ queue \in Seq(LwSignal) /\ Len(queue) <= LW!QueueLen
         /\ LwGoesOn(hand, turn, todo) /\ hand \in Seq(LwSignal) /\ turn \in LwTurn
         /\ lost \in BOOLEAN /\ raced \in BOOLEAN /\ wild \in BOOLEAN
         /\ LW!NULL \notin LwipConns /\ LW!QueueLen \in Nat /\ build.sendBuf \in Nat
         /\ \A c : LwView(LwQ, turn, c) \in LwViews /\ (c \in LW!Ssl) \in BOOLEAN
<1>1. /\ conn \in [LwipConns -> LwConn] /\ queue \in Seq(LwSignal) /\ Len(queue) <= LW!QueueLen
      /\ LwGoesOn(hand, turn, todo) /\ lost \in BOOLEAN /\ raced \in BOOLEAN /\ wild \in BOOLEAN
  BY DEF LwInv, LwTyped
<1>2. hand \in Seq(LwSignal) /\ turn \in LwTurn  BY <1>1 DEF LwGoesOn
<1> QED  BY <1>1, <1>2, LwConstants, LwViewType

\* What a callback of lwIP, the application's connecting and its sending leave alone.
LwStays == hand' = hand /\ turn' = turn /\ todo' = todo /\ dying' = dying /\ wild' = wild /\ build' = build
LwCallback(c) == raced' \in BOOLEAN /\ (raced => raced') /\ (~raced' => dying # c)

LEMMA LwCallbackIs ==
  ASSUME LwInv, NEW c \in LwipConns, LW!Callback(c), build' = build
  PROVE  LwStays /\ LwCallback(c) /\ conn[c].life = "live"
BY LwNow DEF LW!Callback, LW!Live, LwStays, LwCallback

LEMMA LwPostStep ==
  ASSUME LwInv, LwStays, NEW c \in LwipConns, NEW s \in LwSigs, LW!Post(s, c)
  PROVE  \E w : LwAfter(LwQ, c, s, w) /\ LwPosts(LwView(LwQ, turn, c), w, s)
<1>1. s # LW!NULL /\ LW!PostIf(s # LW!NULL, s, c)
  <2>1. s # LW!NULL  BY DEF LwSigs, LW!NULL
  <2> QED  BY <2>1 DEF LW!PostIf
<1>2. hand' = hand /\ turn' = turn  BY DEF LwStays
<1>3. PICK w : LwAfter(hand' \o queue, c, s, w)
  <2>1. hand' \in Seq(LwSignal) /\ turn' \in LwTurn  BY <1>2, LwNow
  <2> QED  BY <1>1, <2>1, LwNow, LwPosting
<1>4. hand' \o queue = LwQ  BY <1>2 DEF LwQ
<1>5. LwAfter(LwQ, c, s, w)  BY <1>3, <1>4
<1>6. LwPosts(LwView(LwQ, turn, c), w, s)  BY <1>1, <1>2, <1>5 DEF LwAfter, LwPostsIf
<1> QED  BY <1>5, <1>6

LEMMA LwNoPostStep ==
  ASSUME LwInv, LwStays, NEW c \in LwipConns, queue' = queue, lost' = lost
  PROVE  LwAfter(LwQ, c, LW!NULL, LwView(LwQ, turn, c))
<1>1. LwQ' = LwQ /\ turn' = turn  BY DEF LwStays, LwQ
<1> QED  BY <1>1, LwNow DEF LwAfter, LwPostsIf

LEMMA LwFrameStays ==
  ASSUME LwInv, LwStays, NEW c \in LwipConns, conn[c].life = "live", NEW e, conn' = [conn EXCEPT ![c] = e],
         NEW s, NEW w, LwAfter(LwQ, c, s, w),
         NEW p, LwGood(conn[c], e, c \in LW!Ssl, LwView(LwQ, turn, c), w, p),
         raced' \in BOOLEAN, raced => raced', ~raced' => p /\ dying # c
  PROVE  LwInv'
<1>1. /\ hand' = hand /\ turn' = turn /\ todo' = todo /\ dying' = dying /\ wild' = wild /\ build' = build
  BY DEF LwStays
<1>2. LwGoesOn(hand', turn', todo')  BY <1>1, LwNow
<1>3. \A x \in LwipConns : x # c => LwView(LwQ, turn', x) = LwView(LwQ, turn, x)  BY <1>1
<1> QED  BY <1>1, <1>2, <1>3, LwFrame

LEMMA LwConnCbKeeps ==
  ASSUME LwInv, NEW c \in LwipConns, LW!ConnCb(c), build' = build
  PROVE  LwInv'
<1>1. conn \in [LwipConns -> LwConn] /\ LwView(LwQ, turn, c) \in LwViews /\ (c \in LW!Ssl) \in BOOLEAN
  BY LwNow
<1>2. PICK ssl \in BOOLEAN : ssl = (c \in LW!Ssl)  BY <1>1
<1> PICK d : d = conn[c]  OBVIOUS
<1> PICK v : v = LwView(LwQ, turn, c)  OBVIOUS
<1>3. LwStays /\ LwCallback(c) /\ d.life = "live"  BY LwCallbackIs DEF LW!ConnCb
<1>4. d.pcb = "syn"  BY <1>2 DEF LW!ConnCb
<1> PICK e : e = [d EXCEPT !.pcb = "established", !.err = FALSE]  OBVIOUS
<1>5. conn' = [conn EXCEPT ![c] = e]
  <2>1. conn' = [conn EXCEPT ![c].pcb = "established", ![c].err = FALSE]
    BY DEF LW!ConnCb
  <2> QED  BY <1>1, <2>1 DEF LwConn
<1>6. PICK w : LwAfter(LwQ, c, "CONNECT_RESULT", w) /\ LwPosts(v, w, "CONNECT_RESULT")
  BY <1>3, LwPostStep DEF LW!ConnCb, LwSigs
<1>7. LwGood(d, e, ssl, v, w, TRUE)  BY <1>1, <1>2, <1>3, <1>4, <1>6, LwConnCb
<1> QED  BY <1>2, <1>3, <1>5, <1>6, <1>7, LwFrameStays DEF LwCallback

LEMMA LwFinCbKeeps ==
  ASSUME LwInv, NEW c \in LwipConns, LW!FinCb(c), build' = build
  PROVE  LwInv'
<1>1. conn \in [LwipConns -> LwConn] /\ LwView(LwQ, turn, c) \in LwViews /\ (c \in LW!Ssl) \in BOOLEAN
  BY LwNow
<1>2. PICK ssl \in BOOLEAN : ssl = (c \in LW!Ssl)  BY <1>1
<1> PICK d : d = conn[c]  OBVIOUS
<1> PICK v : v = LwView(LwQ, turn, c)  OBVIOUS
<1>3. LwStays /\ LwCallback(c) /\ d.life = "live"  BY LwCallbackIs DEF LW!FinCb
<1>4. d.pcb = "established"  BY <1>2 DEF LW!FinCb
<1> PICK e : e = [d EXCEPT !.fin = TRUE]  OBVIOUS
<1>5. conn' = [conn EXCEPT ![c] = e]
  <2>1. conn' = [conn EXCEPT ![c].fin = TRUE]
    BY DEF LW!FinCb
  <2> QED  BY <1>1, <2>1 DEF LwConn
<1>6. PICK w : LwAfter(LwQ, c, "CLOSE_CONN", w) /\ LwPosts(v, w, "CLOSE_CONN")
  BY <1>3, LwPostStep DEF LW!FinCb, LwSigs
<1>7. LwGood(d, e, ssl, v, w, TRUE)  BY <1>1, <1>2, <1>3, <1>4, <1>6, LwFinCb
<1> QED  BY <1>2, <1>3, <1>5, <1>6, <1>7, LwFrameStays DEF LwCallback

LEMMA LwSentCbKeeps ==
  ASSUME LwInv, NEW c \in LwipConns, LW!SentCb(c), build' = build
  PROVE  LwInv'
<1>1. conn \in [LwipConns -> LwConn] /\ LwView(LwQ, turn, c) \in LwViews /\ (c \in LW!Ssl) \in BOOLEAN
  BY LwNow
<1>2. PICK ssl \in BOOLEAN : ssl = (c \in LW!Ssl)  BY <1>1
<1> PICK d : d = conn[c]  OBVIOUS
<1> PICK v : v = LwView(LwQ, turn, c)  OBVIOUS
<1>3. LwStays /\ LwCallback(c) /\ d.life = "live"  BY LwCallbackIs DEF LW!SentCb
<1>4. d.pcb = "established" /\ d.unacked > 0  BY <1>2 DEF LW!SentCb
<1> PICK e : e = [d EXCEPT !.numSent = @ + d.unacked, !.unacked = 0, !.missed = @ \/ v.at = "telling"]  OBVIOUS
<1>m. v.at = "telling" <=> turn.at = "telling" /\ turn.nc = c  BY DEF LwView
<1>5. conn' = [conn EXCEPT ![c] = e]
  <2>1. conn' = [conn EXCEPT ![c].numSent = @ + conn[c].unacked, ![c].unacked = 0,
                            ![c].missed = @ \/ (turn.at = "telling" /\ turn.nc = c)]
    BY DEF LW!SentCb
  <2> QED  BY <1>1, <2>1, <1>m DEF LwConn
<1>6. PICK w : LwAfter(LwQ, c, "SENT_CB", w) /\ LwPosts(v, w, "SENT_CB")
  BY <1>3, LwPostStep DEF LW!SentCb, LwSigs
<1>7. LwGood(d, e, ssl, v, w, TRUE)  BY <1>1, <1>2, <1>3, <1>4, <1>6, LwSentCb
<1> QED  BY <1>2, <1>3, <1>5, <1>6, <1>7, LwFrameStays DEF LwCallback

LEMMA LwRecvCbKeeps ==
  ASSUME LwInv, NEW c \in LwipConns, LW!RecvCb(c), build' = build
  PROVE  LwInv'
<1>1. conn \in [LwipConns -> LwConn] /\ LwView(LwQ, turn, c) \in LwViews /\ (c \in LW!Ssl) \in BOOLEAN
  BY LwNow
<1>2. PICK ssl \in BOOLEAN : ssl = (c \in LW!Ssl)  BY <1>1
<1> PICK d : d = conn[c]  OBVIOUS
<1> PICK v : v = LwView(LwQ, turn, c)  OBVIOUS
<1>3. LwStays /\ LwCallback(c) /\ d.life = "live"  BY LwCallbackIs DEF LW!RecvCb
<1>4. d.pcb = "established" /\ ~d.fin /\ (ssl => d.ssl # "new" \/ d.kind = "accepted")  BY <1>2 DEF LW!RecvCb
<1> PICK e : e = [d EXCEPT !.rx = @ + 1, !.came = @ + 1, !.recvPending = TRUE]  OBVIOUS
<1>5. conn' = [conn EXCEPT ![c] = e]
  <2>1. conn' = [conn EXCEPT ![c].rx = @ + 1, ![c].came = @ + 1, ![c].recvPending = TRUE]
    BY DEF LW!RecvCb
  <2> QED  BY <1>1, <2>1 DEF LwConn
<1>6. PICK s, w : LwAfter(LwQ, c, s, w) /\ (IF d.recvPending THEN w = v ELSE LwPosts(v, w, "RECV"))
  <2>1. CASE d.recvPending
    <3>1. queue' = queue /\ lost' = lost  BY <2>1 DEF LW!RecvCb, LW!PostIf
    <3> QED  BY <1>3, <2>1, <3>1, LwNoPostStep
  <2>2. CASE ~d.recvPending
    <3>1. LW!Post("RECV", c) /\ "RECV" \in LwSigs  BY <2>2 DEF LW!RecvCb, LW!PostIf, LwSigs
    <3> QED  BY <1>3, <2>2, <3>1, LwPostStep
  <2> QED  BY <2>1, <2>2
<1>7. LwGood(d, e, ssl, v, w, TRUE)  BY <1>1, <1>2, <1>3, <1>4, <1>6, LwRecvCb
<1> QED  BY <1>2, <1>3, <1>5, <1>6, <1>7, LwFrameStays DEF LwCallback

LEMMA LwOpenedSeen ==
  ASSUME NEW s \in Seq(LW!Events), "CONNECT" \in LW!Range(s) \/ "ACCEPT" \in LW!Range(s)
  PROVE  s # <<>> /\ ~LwAllFailed(s)
<1>1. DOMAIN s = 1..Len(s) /\ Len(s) \in Nat  OBVIOUS
<1>2. PICK i \in 1..Len(s) : s[i] \in {"CONNECT", "ACCEPT"}  BY <1>1 DEF LW!Range
<1>3. Len(s) # 0  BY <1>1, <1>2
<1>4. s # <<>>  BY <1>3
<1>5. ~LwAllFailed(s)  BY <1>2 DEF LwAllFailed
<1> QED  BY <1>4, <1>5

LEMMA LwErrorCbKeeps ==
  ASSUME LwInv, NEW c \in LwipConns, LW!ErrorCb(c), build' = build
  PROVE  LwInv'
<1>1. conn \in [LwipConns -> LwConn] /\ LwView(LwQ, turn, c) \in LwViews /\ (c \in LW!Ssl) \in BOOLEAN /\ raced \in BOOLEAN
  BY LwNow
<1> PICK d : d = conn[c]  OBVIOUS
<1> PICK v : v = LwView(LwQ, turn, c)  OBVIOUS
<1>2. /\ d.life = "live" /\ LwStays /\ d.pcb \in {"syn", "established"}
      /\ raced' = (raced \/ dying = c
                   \/ (d.pcb = "established" /\ "CONNECT" \notin LW!Range(d.seen)
                                             /\ "ACCEPT" \notin LW!Range(d.seen)))
      /\ conn' = [conn EXCEPT ![c].pcb = "none", ![c].err = @ \/ LwConnecting(d)]
      /\ LW!Post(LwFailSig(d), c)
  BY DEF LW!ErrorCb, LW!Live, LwConnecting, LwFailSig, LwStays
<1>3. raced' \in BOOLEAN /\ (raced => raced') /\ (~raced' => LwTold(d) /\ dying # c)
  <2>1. d.seen \in Seq(LW!Events)  BY <1>1 DEF LwConn
  <2>2. raced' \in BOOLEAN  BY <1>1, <1>2
  <2>3. ASSUME ~raced', d.pcb = "established"  PROVE d.seen # <<>> /\ ~LwAllFailed(d.seen)
    BY <1>2, <2>1, <2>3, LwOpenedSeen
  <2> QED  BY <1>2, <2>2, <2>3 DEF LwTold
<1>p. PICK p \in BOOLEAN : p <=> LwTold(d)  BY Zenon
<1> PICK e : e = [d EXCEPT !.pcb = "none", !.err = @ \/ LwConnecting(d)]  OBVIOUS
<1>4. conn' = [conn EXCEPT ![c] = e]  BY <1>1, <1>2 DEF LwConn
<1>5. PICK w : LwAfter(LwQ, c, LwFailSig(d), w) /\ LwPosts(v, w, LwFailSig(d))
  <2>1. LwFailSig(d) \in LwSigs  BY DEF LwSigs, LwFailSig
  <2> QED  BY <1>2, <2>1, LwPostStep
<1>6. LwGood(d, e, c \in LW!Ssl, v, w, p)
  <2>0. PICK ssl \in BOOLEAN : ssl = (c \in LW!Ssl)  BY <1>1
  <2>1. d \in LwConn /\ v \in LwViews  BY <1>1
  <2>2. d.life = "live" /\ d.pcb \in {"syn", "established"} /\ LwPosts(v, w, LwFailSig(d))  BY <1>2, <1>5
  <2>3. LwFails(d, e)  BY DEF LwFails
  <2>4. ssl \in BOOLEAN /\ p \in BOOLEAN /\ (p => LwTold(d))  BY <1>p, <2>0
  <2>5. LwGood(d, e, ssl, v, w, p)  BY ONLY <2>1, <2>2, <2>3, <2>4, LwErrorCb
  <2> QED  BY ONLY <2>0, <2>5
<1> QED  BY <1>2, <1>3, <1>4, <1>5, <1>6, <1>p, LwFrameStays

LEMMA LwUserSendKeeps ==
  ASSUME LwInv, NEW c \in LwipConns, LW!UserSend(c), build' = build
  PROVE  LwInv'
<1>1. conn \in [LwipConns -> LwConn] /\ LwView(LwQ, turn, c) \in LwViews /\ raced \in BOOLEAN
  BY LwNow
<1>s. PICK ssl \in BOOLEAN : ssl = (c \in LW!Ssl)  BY LwNow
<1> PICK d : d = conn[c]  OBVIOUS
<1>2. d.life = "live" /\ LwStays /\ raced' = raced /\ queue' = queue /\ lost' = lost /\ dying # c
  BY LwNow DEF LW!UserSend, LW!Live, LW!Idle, LwStays
<1> PICK e : e = [d EXCEPT !.slen = @ + 1, !.asked = @ + 1]  OBVIOUS
<1>3. conn' = [conn EXCEPT ![c] = e]
  <2>1. conn' = [conn EXCEPT ![c].slen = @ + 1, ![c].asked = @ + 1]
    BY DEF LW!UserSend
  <2> QED  BY <1>1, <2>1 DEF LwConn
<1>4. LwAfter(LwQ, c, LW!NULL, LwView(LwQ, turn, c))  BY <1>2, LwNoPostStep
<1>5. LwGood(d, e, ssl, LwView(LwQ, turn, c), LwView(LwQ, turn, c), TRUE)  BY <1>1, <1>2, LwUserSend
<1> QED  BY <1>1, <1>2, <1>3, <1>4, <1>5, <1>s, LwFrameStays

\* A connection that is not there is in the middle of nothing.
LEMMA LwInactive ==
  ASSUME LwInv, NEW c \in LwipConns, conn[c].life = "none"
  PROVE  LwView(LwQ, turn, c).at = "none"
<1>1. turn.nc = c => turn.at = "none"
  <2>1. ~LwActive(c)  BY DEF LwActive
  <2>2. LwGoesOn(hand, turn, todo) /\ LW!NULL \notin LwipConns  BY LwNow
  <2> QED  BY <2>1, <2>2 DEF LwGoesOn, LwTurn
<1> QED  BY <1>1 DEF LwView

LEMMA LwAcceptCbKeeps ==
  ASSUME LwInv, NEW c \in LwipConns, LW!AcceptCb(c), build' = build
  PROVE  LwInv'
<1>1. LwView(LwQ, turn, c) \in LwViews /\ LW!NULL \notin LwipConns /\ raced \in BOOLEAN
  BY LwNow
<1>s. PICK ssl \in BOOLEAN : ssl = (c \in LW!Ssl)  BY LwNow
<1> PICK e : e = [LW!Unused EXCEPT !.life = "live", !.kind = "accepted", !.pcb = "established", !.ssl = "none"]  OBVIOUS
<1>2. /\ conn[c].life = "none" /\ conn' = [conn EXCEPT ![c] = e] /\ LW!Post("ACCEPT", c) /\ LwStays
      /\ raced' = (raced \/ (turn.at = "drained" /\ c \in LW!Ssl))
  BY DEF LW!AcceptCb, LwStays
<1>3. PICK w : LwAfter(LwQ, c, "ACCEPT", w) /\ LwPosts(LwView(LwQ, turn, c), w, "ACCEPT")
  BY <1>2, LwPostStep DEF LwSigs
<1>4. LwFresh(e, ssl, LwView(LwQ, turn, c), w)  BY <1>1, <1>2, <1>3, LwInactive, LwAcceptCb
<1>5. raced' \in BOOLEAN /\ (raced => raced') /\ (~raced' => (turn.at = "drained" /\ c \in LW!Ssl => e.ssl # "none"))
  BY <1>1, <1>2
<1> QED  BY <1>1, <1>2, <1>3, <1>4, <1>5, <1>s, LwFrameOpen DEF LwStays

LEMMA LwConnectKeeps ==
  ASSUME LwInv, NEW c \in LwipConns, LW!Connect(c), build' = build
  PROVE  LwInv'
<1>1. LwView(LwQ, turn, c) \in LwViews /\ LW!NULL \notin LwipConns /\ raced \in BOOLEAN
  BY LwNow
<1>s. PICK ssl \in BOOLEAN : ssl = (c \in LW!Ssl)  BY LwNow
<1> PICK v : v = LwView(LwQ, turn, c)  OBVIOUS
<1>2. /\ conn[c].life = "none" /\ raced' = raced /\ LwStays
      /\ \E ok \in BOOLEAN :
          /\ conn' = [conn EXCEPT ![c] = [LW!Unused EXCEPT !.life = "live", !.flags = {"CONNECTING"},
                                          !.pcb = IF ok THEN "syn" ELSE "unused", !.err = ~ok]]
          /\ LW!PostIf(~ok, "CONNECT_RESULT", c)
  BY DEF LW!Connect, LwStays
<1>3. PICK ok \in BOOLEAN :
          /\ conn' = [conn EXCEPT ![c] = [LW!Unused EXCEPT !.life = "live", !.flags = {"CONNECTING"},
                                          !.pcb = IF ok THEN "syn" ELSE "unused", !.err = ~ok]]
          /\ LW!PostIf(~ok, "CONNECT_RESULT", c)
  BY <1>2
<1> PICK e : e = [LW!Unused EXCEPT !.life = "live", !.flags = {"CONNECTING"},
                                   !.pcb = IF ok THEN "syn" ELSE "unused", !.err = ~ok]  OBVIOUS
<1>4. PICK s, w : LwAfter(LwQ, c, s, w) /\ (IF ok THEN w = v ELSE LwPosts(v, w, "CONNECT_RESULT"))
  <2>1. CASE ok
    <3>1. queue' = queue /\ lost' = lost  BY <1>3, <2>1 DEF LW!PostIf
    <3> QED  BY <1>2, <2>1, <3>1, LwNoPostStep
  <2>2. CASE ~ok
    <3>1. LW!Post("CONNECT_RESULT", c) /\ "CONNECT_RESULT" \in LwSigs  BY <1>3, <2>2 DEF LW!PostIf, LwSigs
    <3> QED  BY <1>2, <2>2, <3>1, LwPostStep
  <2> QED  BY <2>1, <2>2
<1>5. v.has = {} => "CONNECT_RESULT" \in v.leads
  <2> SUFFICES ASSUME LwHas(LwQ, c) = {}  PROVE "CONNECT_RESULT" \in LwLeads(LwQ, c)
    BY DEF LwView
  <2>1. \A t \in LwSigs, i \in 1..Len(LwQ) : ~LwAt(LwQ, i, t, c)  BY DEF LwHas
  <2> QED  BY <2>1 DEF LwLeads, LwSigs
<1>n. v.at = "none" /\ v \in LwViews  BY <1>1, <1>2, LwInactive
<1>6. LwFresh(e, ssl, v, w)  BY <1>n, <1>4, <1>5, LwConnect
<1>7. conn' = [conn EXCEPT ![c] = e]  BY <1>3
<1>8. e.ssl # "none"  BY LwUnused
<1> QED  BY <1>1, <1>2, <1>4, <1>6, <1>7, <1>8, <1>s, LwFrameOpen DEF LwStays
-----------------------------------------------------------------------------
(* LwipIf: what Mongoose's task does with a connection. *)

LEMMA LwEmptyHand ==
  ASSUME LwInv, hand = <<>>
  PROVE  LwQ = queue
BY LwNow, LwQType, ConcatEmptySeq DEF LwQ

LEMMA LwSslOf == ASSUME NEW c  PROVE \E ssl \in BOOLEAN : ssl = (c \in LW!Ssl)
<1>1. (c \in LW!Ssl) \in BOOLEAN  OBVIOUS
<1> QED  BY <1>1

LEMMA LwQuietly == \A e : LW!Quietly(e).d = e /\ LW!Quietly(e).sig = LW!NULL
BY DEF LW!Quietly

\* Nothing is in hand any more; what the others have is as it was, and what the
\* task goes on with is a part of what it had.
LwWorks(c) ==
    /\ dying = LW!NULL /\ conn[c].life = "live" /\ hand' = <<>> /\ raced' = raced /\ build' = build
    /\ LwGoesOn(<<>>, turn', todo') /\ todo' \subseteq todo
    /\ turn'.at = "drained" => turn.at = "drained"
    /\ \A x \in LwipConns : x # c => LwView(queue, turn', x) = LwView(LwQ, turn, x)

\* What it leads to is good, whichever outcome it has; p says when the order counts.
LwGoodResults(rs, c, p) ==
    \A r \in rs :
        /\ r.sig \in LwSigs \cup {LW!NULL}
        /\ \A w : LwPostsIf(LwView(queue, turn', c), w, r.sig)
                    => LwGood(conn[c], r.d, c \in LW!Ssl, LwView(LwQ, turn, c), w, p)

LEMMA LwOutcomeKeeps ==
  ASSUME LwInv, NEW c \in LwipConns, LwWorks(c), NEW p, ~lost /\ ~raced => p,
         NEW rs, LW!Outcome(c, rs), LwGoodResults(rs, c, p)
  PROVE  LwInv'
<1>1. /\ dying = LW!NULL /\ conn[c].life = "live" /\ hand' = <<>> /\ raced' = raced /\ build' = build
      /\ LwGoesOn(<<>>, turn', todo') /\ todo' \subseteq todo
      /\ turn'.at = "drained" => turn.at = "drained"
      /\ \A x \in LwipConns : x # c => LwView(queue, turn', x) = LwView(LwQ, turn, x)
  BY DEF LwWorks
<1>2. /\ queue \in Seq(LwSignal) /\ Len(queue) <= LW!QueueLen /\ LW!QueueLen \in Nat
      /\ lost \in BOOLEAN /\ raced \in BOOLEAN /\ LW!NULL \notin LwipConns
  BY LwNow
<1>3. PICK r \in rs : /\ conn' = [conn EXCEPT ![c] = r.d]
                      /\ LW!PostIf(r.sig # LW!NULL, r.sig, c)
                      /\ dying' = dying /\ wild' = wild
  BY DEF LW!Outcome
<1>4. r.sig \in LwSigs \cup {LW!NULL}  BY DEF LwGoodResults
<1>5. /\ hand' \in Seq(LwSignal) /\ turn' \in LwTurn /\ hand' \o queue = queue
  <2>1. turn' \in LwTurn  BY <1>1 DEF LwGoesOn
  <2>2. <<>> \o queue = queue /\ <<>> \in Seq(LwSignal)  BY <1>2, ConcatEmptySeq
  <2> QED  BY <1>1, <2>1, <2>2
<1> PICK q : q = queue  OBVIOUS
<1>6. PICK w : LwAfter(q, c, r.sig, w)
  <2>1. \E w : LwAfter(hand' \o queue, c, r.sig, w)  BY <1>2, <1>3, <1>4, <1>5, LwPosting
  <2> QED  BY <1>5, <2>1
<1>7. LwPostsIf(LwView(queue, turn', c), w, r.sig)  BY <1>6 DEF LwAfter
<1>8. LwGood(conn[c], r.d, c \in LW!Ssl, LwView(LwQ, turn, c), w, p)  BY <1>7 DEF LwGoodResults
<1>9. /\ LwGoesOn(hand', turn', todo') /\ raced' \in BOOLEAN /\ (raced => raced')
      /\ (~raced' /\ ~lost' => p /\ dying # c)
      /\ \A x \in LwipConns : x # c => LwView(q, turn', x) = LwView(LwQ, turn, x)
  <2>1. lost => lost'  BY <1>6 DEF LwAfter
  <2> QED  BY <1>1, <1>2, <2>1
<1> QED  BY <1>1, <1>3, <1>6, <1>8, <1>9, LwFrame

\* Results that post nothing.
LEMMA LwQuietResults ==
  ASSUME NEW c, NEW p, NEW es,
         \A e \in es : LwGood(conn[c], e, c \in LW!Ssl, LwView(LwQ, turn, c), LwView(queue, turn', c), p)
  PROVE  LwGoodResults({LW!Quietly(e) : e \in es}, c, p)
<1> PICK u : u = LwView(queue, turn', c)  OBVIOUS
<1> PICK v : v = LwView(LwQ, turn, c)  OBVIOUS
<1> SUFFICES ASSUME NEW e \in es
             PROVE  /\ LW!Quietly(e).sig \in LwSigs \cup {LW!NULL}
                    /\ \A w : LwPostsIf(u, w, LW!Quietly(e).sig) => LwGood(conn[c], LW!Quietly(e).d, c \in LW!Ssl, v, w, p)
  BY DEF LwGoodResults
<1>1. LW!Quietly(e).sig = LW!NULL /\ LW!Quietly(e).d = e  BY LwQuietly
<1>2. \A w : LwPostsIf(u, w, LW!NULL) => w = u  BY DEF LwPostsIf
<1> QED  BY <1>1, <1>2

LEMMA LwQuietOne ==
  ASSUME NEW c, NEW p, NEW e, LwGood(conn[c], e, c \in LW!Ssl, LwView(LwQ, turn, c), LwView(queue, turn', c), p)
  PROVE  LwGoodResults({LW!Quietly(e)}, c, p)
<1>1. LwGoodResults({LW!Quietly(x) : x \in {e}}, c, p)
  <2>1. \A x \in {e} : LwGood(conn[c], x, c \in LW!Ssl, LwView(LwQ, turn, c), LwView(queue, turn', c), p)  OBVIOUS
  <2> QED  BY <2>1, LwQuietResults
<1>2. {LW!Quietly(x) : x \in {e}} = {LW!Quietly(e)}  BY Zenon
<1> QED  BY <1>1, <1>2

\* Those of a handshake of m, which conn[c] is or has become.
LEMMA LwHandshakeResults ==
  ASSUME NEW c, c \in LW!Ssl, turn' \in LwTurn, NEW m \in LwConn, m.life = "live",
         m.ssl = "none" => conn[c].ssl = "none",
         LwKept(conn[c], TRUE, LwView(LwQ, turn, c)) => LwKept(m, TRUE, LwView(queue, turn', c)),
         LwOrder(conn[c], TRUE, LwView(LwQ, turn, c)) =>
            /\ LwShaking(m, LwView(queue, turn', c))
            /\ LwClosing(m) => LwOrder(m, TRUE, LwView(queue, turn', c))
  PROVE  LwGoodResults(LW!SslDoHs(m), c, TRUE)
<1> PICK u : u = LwView(queue, turn', c)  OBVIOUS
<1> PICK v : v = LwView(LwQ, turn, c)  OBVIOUS
<1> PICK d : d = conn[c]  OBVIOUS
<1> SUFFICES ASSUME NEW r \in LW!SslDoHs(m)
             PROVE  /\ r.sig \in LwSigs \cup {LW!NULL}
                    /\ \A w : LwPostsIf(u, w, r.sig) => LwGood(d, r.d, c \in LW!Ssl, v, w, TRUE)
  BY DEF LwGoodResults
<1>1. r.sig \in LwSigs \cup {LW!NULL}  BY LwShakeSig
<1>2. ASSUME NEW w, LwPostsIf(u, w, r.sig)
      PROVE  LwGood(d, r.d, TRUE, v, w, TRUE)
  <2>1. u \in LwViews  BY LwViewType
  <2>2. /\ LwResult(m, r, u, w)
        /\ LwShaking(m, u) /\ (LwClosing(m) => LwOrder(m, TRUE, u)) => LwOrder(r.d, TRUE, w)
    BY <1>2, <2>1, LwHandshake
  <2>3. /\ LwKept(d, TRUE, v) => LwKept(m, TRUE, u)
        /\ LwOrder(d, TRUE, v) => LwShaking(m, u) /\ (LwClosing(m) => LwOrder(m, TRUE, u))
    OBVIOUS
  <2> QED  BY <2>2, <2>3 DEF LwResult, LwGood
<1>3. (c \in LW!Ssl) = TRUE  OBVIOUS
<1> QED  BY <1>1, <1>2, <1>3
-----------------------------------------------------------------------------
(* LwipIf: a signal that has been taken is handled. *)

\* What a handler finds: the signal s of c was in hand.
LwHandling(c, s) ==
    /\ dying = LW!NULL /\ conn[c].life = "live" /\ hand' = <<>> /\ raced' = raced /\ build' = build
    /\ todo = {} /\ todo' = todo /\ turn.at = "none" /\ turn.nc = LW!NULL
    /\ \A tn \in LwTurn : LwTook(LwView(LwQ, turn, c), LwView(queue, tn, c), s)
    /\ \A tn \in LwTurn : tn.nc \in {c, LW!NULL} =>
          \A x \in LwipConns : x # c => LwView(queue, tn, x) = LwView(LwQ, turn, x)

\* A view of c depends on turn by what it says of c alone.
LEMMA LwSameTurn ==
  ASSUME NEW q, NEW tn, NEW tm, NEW x, tm.nc # x, tn.nc # x
  PROVE  LwView(q, tm, x) = LwView(q, tn, x)
BY DEF LwView

LEMMA LwHandlingIs ==
  ASSUME LwInv, NEW c \in LwipConns, NEW s, LwHandling(c, s)
  PROVE  /\ conn[c] \in LwConn /\ conn[c].life = "live" /\ turn \in LwTurn /\ turn.at = "none"
         /\ LwView(LwQ, turn, c).at = "none"
         /\ turn' = turn => LwWorks(c) /\ LwTook(LwView(LwQ, turn, c), LwView(queue, turn', c), s)
                            /\ LwView(queue, turn', c).at = "none"
<1>1. /\ dying = LW!NULL /\ conn[c].life = "live" /\ hand' = <<>> /\ raced' = raced /\ build' = build
      /\ todo = {} /\ todo' = todo /\ turn.at = "none" /\ turn.nc = LW!NULL
      /\ \A tn \in LwTurn : LwTook(LwView(LwQ, turn, c), LwView(queue, tn, c), s)
      /\ \A tn \in LwTurn : tn.nc \in {c, LW!NULL} =>
            \A x \in LwipConns : x # c => LwView(queue, tn, x) = LwView(LwQ, turn, x)
  BY DEF LwHandling
<1>2. conn \in [LwipConns -> LwConn] /\ turn \in LwTurn  BY LwNow
<1>3. \A q : LwView(q, turn, c).at = "none"  BY <1>1 DEF LwView
<1>4. LwGoesOn(<<>>, turn, {})  BY <1>1, <1>2 DEF LwGoesOn
<1>5. ASSUME turn' = turn
      PROVE  LwWorks(c) /\ LwTook(LwView(LwQ, turn, c), LwView(queue, turn', c), s) /\ LwView(queue, turn', c).at = "none"
  <2>1. LwGoesOn(<<>>, turn', todo')  BY <1>1, <1>4, <1>5
  <2>2. \A x \in LwipConns : x # c => LwView(queue, turn', x) = LwView(LwQ, turn, x)  BY <1>1, <1>2, <1>5
  <2>3. LwTook(LwView(LwQ, turn, c), LwView(queue, turn', c), s)  BY <1>1, <1>2, <1>5
  <2>4. LwView(queue, turn', c).at = "none"  BY <1>3, <1>5
  <2>5. todo' \subseteq todo /\ (turn'.at = "drained" => turn.at = "drained")  BY <1>1, <1>5
  <2>6. LwWorks(c)  BY <1>1, <2>1, <2>2, <2>5 DEF LwWorks
  <2> QED  BY <2>3, <2>4, <2>6
<1> QED  BY <1>1, <1>2, <1>3, <1>5

\* The handling begins a turn of c that goes on.
LEMMA LwHandlingTurns ==
  ASSUME LwInv, NEW c \in LwipConns, NEW s, LwHandling(c, s),
         NEW at \in {"reading", "telling"}, NEW n \in Nat, turn' = [at |-> at, nc |-> c, n |-> n]
  PROVE  /\ LwWorks(c) /\ LwTook(LwView(LwQ, turn, c), LwView(queue, turn', c), s)
         /\ LwView(queue, turn', c).at = at /\ LwView(queue, turn', c).n = n
<1>1. /\ dying = LW!NULL /\ conn[c].life = "live" /\ hand' = <<>> /\ raced' = raced /\ build' = build
      /\ todo = {} /\ todo' = todo
      /\ \A tn \in LwTurn : LwTook(LwView(LwQ, turn, c), LwView(queue, tn, c), s)
      /\ \A tn \in LwTurn : tn.nc \in {c, LW!NULL} =>
            \A x \in LwipConns : x # c => LwView(queue, tn, x) = LwView(LwQ, turn, x)
  BY DEF LwHandling
<1> PICK tn : tn = [at |-> at, nc |-> c, n |-> n]  OBVIOUS
<1>2. tn \in LwTurn /\ tn.at = at /\ tn.nc = c /\ tn.n = n  BY DEF LwTurn
<1>3. LwActive(c) /\ LW!NULL \notin LwipConns  BY <1>1, LwNow DEF LwActive
<1>4. LwGoesOn(<<>>, tn, {})
  <2>1. <<>> \in Seq(LwSignal) /\ Len(<<>>) <= 1  OBVIOUS
  <2> QED  BY <1>2, <1>3, <2>1 DEF LwGoesOn
<1>5. LwView(queue, tn, c).at = at /\ LwView(queue, tn, c).n = n  BY <1>2 DEF LwView
<1>6. LwWorks(c)
  <2>1. LwGoesOn(<<>>, turn', todo') /\ todo' \subseteq todo /\ turn'.at # "drained"  BY <1>1, <1>2, <1>4
  <2>2. \A x \in LwipConns : x # c => LwView(queue, turn', x) = LwView(LwQ, turn, x)  BY <1>1, <1>2
  <2> QED  BY <1>1, <2>1, <2>2 DEF LwWorks
<1> QED  BY <1>1, <1>2, <1>5, <1>6

LwSslPending(d, c) == c \in LW!Ssl /\ "HANDSHAKE_DONE" \notin d.flags

LEMMA LwResultKeeps ==
  ASSUME LwInv, NEW c \in LwipConns, LwHandling(c, "CONNECT_RESULT"), turn' = turn, NEW d, d = conn[c],
         NEW m, m = [d EXCEPT !.flags = (@ \ {"CONNECTING"}) \cup (IF d.err THEN {"CLOSE_IMMEDIATELY"} ELSE {})],
         LW!Outcome(c, IF ~d.err /\ LwSslPending(d, c) THEN LW!SslDoHs(d)
                       ELSE {LW!Quietly(e) : e \in LW!Called(m, IF d.err THEN "FAILED" ELSE "CONNECT")})
  PROVE  LwInv'
<1> PICK v : v = LwView(LwQ, turn, c)  OBVIOUS
<1> PICK u : u = LwView(queue, turn', c)  OBVIOUS
<1> PICK es : es = LW!Called(m, IF d.err THEN "FAILED" ELSE "CONNECT")  OBVIOUS
<1>1. /\ d \in LwConn /\ d.life = "live" /\ LwTook(v, u, "CONNECT_RESULT") /\ v.at = "none" /\ u.at = "none"
      /\ LwWorks(c) /\ turn' \in LwTurn
  BY LwHandlingIs
<1>2. CASE ~d.err /\ LwSslPending(d, c)
  <2>1. c \in LW!Ssl /\ ~LwDone(d)  BY <1>2 DEF LwSslPending, LwDone
  <2>2. /\ LwKept(d, TRUE, v) => LwKept(d, TRUE, u)
        /\ LwOrder(d, TRUE, v) => LwShaking(d, u) /\ (LwClosing(d) => LwOrder(d, TRUE, u))
    BY <1>1, <1>2, <2>1, LwResultStarts
  <2>3. LwGoodResults(LW!SslDoHs(d), c, TRUE)  BY <1>1, <2>1, <2>2, LwHandshakeResults
  <2>4. LW!Outcome(c, LW!SslDoHs(d))  BY <1>2
  <2> QED  BY <1>1, <2>3, <2>4, LwOutcomeKeeps
<1>3. CASE ~(~d.err /\ LwSslPending(d, c))
  <2>0. PICK ssl \in BOOLEAN : ssl = (c \in LW!Ssl)  BY LwSslOf
  <2>1. d.err \/ ~ssl \/ LwDone(d)  BY <1>3, <2>0 DEF LwSslPending, LwDone
  <2>2. ASSUME NEW e \in es  PROVE LwGood(d, e, ssl, v, u, TRUE)
    BY <1>1, <2>1, <2>2, LwResultTold
  <2>3. \A e \in es : LwGood(conn[c], e, c \in LW!Ssl, v, u, TRUE)  BY <2>0, <2>2
  <2>4. LwGoodResults({LW!Quietly(e) : e \in es}, c, TRUE)  BY <2>3, LwQuietResults
  <2>5. LW!Outcome(c, {LW!Quietly(e) : e \in es})  BY <1>3
  <2> QED  BY <1>1, <2>4, <2>5, LwOutcomeKeeps
<1> QED  BY <1>2, <1>3

LEMMA LwCloseKeeps ==
  ASSUME LwInv, NEW c \in LwipConns, LwHandling(c, "CLOSE_CONN"), turn' = turn, NEW d, d = conn[c],
         LW!StartClose(c, [d EXCEPT !.flags = @ \cup {"CLOSE_IMMEDIATELY"}])
  PROVE  LwInv'
<1>1. d \in LwConn /\ d.life = "live" /\ LwWorks(c) /\ turn \in LwTurn  BY LwHandlingIs
<1>2. /\ dying = LW!NULL /\ todo = {} /\ todo' = todo /\ turn.at = "none" /\ turn.nc = LW!NULL
  BY DEF LwHandling
<1>3. PICK e : e = [d EXCEPT !.flags = @ \cup {"CLOSE_IMMEDIATELY"}]  OBVIOUS
<1>4. e \in LwConn /\ e.life = "live" /\ e.seen = d.seen
  <2>1. d.flags \cup {"CLOSE_IMMEDIATELY"} \in SUBSET LwFlags  BY <1>1 DEF LwConn, LwFlags
  <2> QED  BY <1>1, <1>3, <2>1 DEF LwConn
<1>5. ASSUME ~lost, ~raced  PROVE LwSeen(e.seen, c \in LW!Ssl, FALSE)
  <2>1. LwSeen(d.seen, c \in LW!Ssl, FALSE)  BY <1>1, <1>5 DEF LwInv, LwAllOrdered
  <2> QED  BY <1>4, <2>1
<1>6. /\ hand' = <<>> /\ raced' = raced /\ build' = build
      /\ \A x \in LwipConns : x # c => LwView(queue, turn', x) = LwView(LwQ, turn, x)
  BY <1>1 DEF LwWorks
<1>7. LW!StartClose(c, e)  BY <1>3
<1>8. turn' \in LwTurn /\ turn'.at = "none" /\ turn'.nc = LW!NULL /\ todo' \subseteq todo \ {c} /\ LW!NULL \notin LwipConns
  BY <1>1, <1>2, LwNow
<1> QED  BY <1>1, <1>2, <1>4, <1>5, <1>6, <1>7, <1>8, LwFrameClose

LEMMA LwDataKeeps ==
  ASSUME LwInv, NEW c \in LwipConns, LwHandling(c, "RECV"), turn' = [at |-> "reading", nc |-> c, n |-> 0],
         LW!Outcome(c, {LW!Quietly(LW!Taken(conn[c]))})
  PROVE  LwInv'
<1> PICK d : d = conn[c]  OBVIOUS
<1> PICK m : m = LW!Taken(d)  OBVIOUS
<1> PICK v : v = LwView(LwQ, turn, c)  OBVIOUS
<1> PICK u : u = LwView(queue, turn', c)  OBVIOUS
<1>0. PICK ssl \in BOOLEAN : ssl = (c \in LW!Ssl)  BY LwSslOf
<1>1. d \in LwConn /\ d.life = "live" /\ v.at = "none"  BY LwHandlingIs
<1>2. LwWorks(c) /\ LwTook(v, u, "RECV") /\ u.at = "reading"  BY LwHandlingTurns
<1>3. LwTakenFrom(d, m)  BY <1>1, LwTakenType
<1>4. LwGood(d, m, ssl, v, u, TRUE)  BY <1>1, <1>2, <1>3, LwDataTaken
<1>5. LwGood(conn[c], m, c \in LW!Ssl, v, u, TRUE)  BY <1>0, <1>4
<1>6. LwGoodResults({LW!Quietly(m)}, c, TRUE)  BY <1>5, LwQuietOne
<1> QED  BY <1>2, <1>6, LwOutcomeKeeps

LEMMA LwAckKeeps ==
  ASSUME LwInv, NEW c \in LwipConns, LwHandling(c, "SENT_CB"), turn' = [at |-> "telling", nc |-> c, n |-> conn[c].numSent],
         LW!Outcome(c, {LW!Quietly(e) : e \in LW!SentToApp(c, conn[c])})
  PROVE  LwInv'
<1> PICK d : d = conn[c]  OBVIOUS
<1> PICK v : v = LwView(LwQ, turn, c)  OBVIOUS
<1> PICK u : u = LwView(queue, turn', c)  OBVIOUS
<1> PICK es : es = LW!SentToApp(c, d)  OBVIOUS
<1>1. d \in LwConn /\ d.life = "live" /\ v.at = "none"  BY LwHandlingIs
<1>n. d.numSent \in Nat  BY <1>1 DEF LwConn
<1>2. LwWorks(c) /\ LwTook(v, u, "SENT_CB") /\ u.at = "telling" /\ u.n = d.numSent  BY <1>n, LwHandlingTurns
<1>3. ASSUME NEW e \in es  PROVE LwGood(d, e, c \in LW!Ssl, v, u, TRUE)
  BY <1>1, <1>2, <1>3, LwTelling
<1>4. LwGoodResults({LW!Quietly(e) : e \in es}, c, TRUE)  BY <1>3, LwQuietResults
<1>5. LW!Outcome(c, {LW!Quietly(e) : e \in es})  OBVIOUS
<1> QED  BY <1>2, <1>4, <1>5, LwOutcomeKeeps

LEMMA LwAnnounceKeeps ==
  ASSUME LwInv, NEW c \in LwipConns, LwHandling(c, "ACCEPT"), turn' = turn, NEW ssl \in BOOLEAN, ssl = (c \in LW!Ssl),
         NEW es, es = (IF ssl THEN {[conn[c] EXCEPT !.ssl = "new"]} ELSE LW!Called(conn[c], "ACCEPT")),
         LW!Outcome(c, {LW!Quietly(e) : e \in es})
  PROVE  LwInv'
<1> PICK d : d = conn[c]  OBVIOUS
<1> PICK v : v = LwView(LwQ, turn, c)  OBVIOUS
<1> PICK u : u = LwView(queue, turn', c)  OBVIOUS
<1>1. /\ d \in LwConn /\ d.life = "live" /\ LwTook(v, u, "ACCEPT") /\ v.at = "none" /\ u.at = "none" /\ LwWorks(c)
  BY LwHandlingIs
<1>2. ASSUME NEW e \in es  PROVE LwGood(d, e, ssl, v, u, TRUE)
  <2>1. e \in IF ssl THEN {[d EXCEPT !.ssl = "new"]} ELSE LW!Called(d, "ACCEPT")  BY <1>2
  <2> QED  BY <1>1, <2>1, LwAnnounced
<1>3. \A e \in es : LwGood(conn[c], e, c \in LW!Ssl, v, u, TRUE)  BY <1>2
<1>4. LwGoodResults({LW!Quietly(e) : e \in es}, c, TRUE)  BY <1>3, LwQuietResults
<1> QED  BY <1>1, <1>4, LwOutcomeKeeps

LEMMA LwHandleKeeps ==
  ASSUME LwInv, NEW c \in LwipConns, NEW s, LwHandling(c, s), LW!Handle(s, c), LwGoesOn(<<>>, turn, todo)
  PROVE  LwInv'
<1> PICK d : d = conn[c]  OBVIOUS
<1>h. \/ /\ s = "CONNECT_RESULT" /\ turn' = turn
         /\ LW!Outcome(c, IF ~d.err /\ LwSslPending(d, c) THEN LW!SslDoHs(d)
                 ELSE {LW!Quietly(e) : e \in LW!Called([d EXCEPT !.flags = (@ \ {"CONNECTING"}) \cup (IF d.err THEN {"CLOSE_IMMEDIATELY"} ELSE {})],
                                                       IF d.err THEN "FAILED" ELSE "CONNECT")})
      \/ /\ s = "CLOSE_CONN" /\ turn' = turn
         /\ LW!StartClose(c, [d EXCEPT !.flags = @ \cup {"CLOSE_IMMEDIATELY"}])
      \/ /\ s = "RECV" /\ turn' = [at |-> "reading", nc |-> c, n |-> 0]
         /\ LW!Outcome(c, {LW!Quietly(LW!Taken(d))})
      \/ /\ s = "SENT_CB" /\ turn' = [at |-> "telling", nc |-> c, n |-> d.numSent]
         /\ LW!Outcome(c, {LW!Quietly(e) : e \in LW!SentToApp(c, d)})
      \/ /\ s = "ACCEPT" /\ turn' = turn
         /\ IF c \in LW!Ssl THEN LW!Outcome(c, {LW!Quietly([d EXCEPT !.ssl = "new"])})
            ELSE IF d.pcb = "none" THEN LW!GoWild
            ELSE LW!Outcome(c, {LW!Quietly(e) : e \in LW!Called(d, "ACCEPT")})
  BY DEF LW!Handle, LwSslPending
<1>2. CASE s = "CONNECT_RESULT"
  <2>0. s \notin {"CLOSE_CONN", "RECV", "SENT_CB", "ACCEPT"}  BY <1>2
  <2>1. PICK m : m = [d EXCEPT !.flags = (@ \ {"CONNECTING"}) \cup (IF d.err THEN {"CLOSE_IMMEDIATELY"} ELSE {})]
    OBVIOUS
  <2>2. turn' = turn /\ LW!Outcome(c, IF ~d.err /\ LwSslPending(d, c) THEN LW!SslDoHs(d)
                     ELSE {LW!Quietly(e) : e \in LW!Called(m, IF d.err THEN "FAILED" ELSE "CONNECT")})
    BY <1>h, <2>0, <2>1
  <2> QED  BY <1>2, <2>1, <2>2, LwResultKeeps
<1>3. CASE s = "CLOSE_CONN"
  <2>0. s \notin {"CONNECT_RESULT", "RECV", "SENT_CB", "ACCEPT"}  BY <1>3
  <2>1. turn' = turn /\ LW!StartClose(c, [d EXCEPT !.flags = @ \cup {"CLOSE_IMMEDIATELY"}])  BY <1>h, <2>0
  <2> QED  BY <1>3, <2>1, LwCloseKeeps
<1>4. CASE s = "RECV"
  <2>0. s \notin {"CONNECT_RESULT", "CLOSE_CONN", "SENT_CB", "ACCEPT"}  BY <1>4
  <2>1. turn' = [at |-> "reading", nc |-> c, n |-> 0] /\ LW!Outcome(c, {LW!Quietly(LW!Taken(conn[c]))})
    BY <1>h, <2>0
  <2> QED  BY <1>4, <2>1, LwDataKeeps
<1>5. CASE s = "SENT_CB"
  <2>0. s \notin {"CONNECT_RESULT", "CLOSE_CONN", "RECV", "ACCEPT"}  BY <1>5
  <2>1. turn' = [at |-> "telling", nc |-> c, n |-> conn[c].numSent]
        /\ LW!Outcome(c, {LW!Quietly(e) : e \in LW!SentToApp(c, conn[c])})
    BY <1>h, <2>0
  <2> QED  BY <1>5, <2>1, LwAckKeeps
<1>6. CASE s = "ACCEPT"
  <2>0. s \notin {"CONNECT_RESULT", "CLOSE_CONN", "RECV", "SENT_CB"}  BY <1>6
  <2>1. /\ turn' = turn
        /\ IF c \in LW!Ssl THEN LW!Outcome(c, {LW!Quietly([d EXCEPT !.ssl = "new"])})
           ELSE IF d.pcb = "none" THEN LW!GoWild
           ELSE LW!Outcome(c, {LW!Quietly(e) : e \in LW!Called(d, "ACCEPT")})
    BY <1>h, <2>0
  <2>2. CASE c \in LW!Ssl
    <3>1. {LW!Quietly(e) : e \in {[d EXCEPT !.ssl = "new"]}} = {LW!Quietly([d EXCEPT !.ssl = "new"])}  BY Zenon
    <3>2. PICK es : es = {[d EXCEPT !.ssl = "new"]}  OBVIOUS
    <3>3. LW!Outcome(c, {LW!Quietly(e) : e \in es})  BY <2>1, <2>2, <3>1, <3>2
    <3>4. TRUE = (c \in LW!Ssl) /\ es = (IF TRUE THEN {[conn[c] EXCEPT !.ssl = "new"]} ELSE LW!Called(conn[c], "ACCEPT"))
      BY <2>2, <3>2
    <3> QED  BY <1>6, <2>1, <3>3, <3>4, LwAnnounceKeeps
  <2>3. CASE c \notin LW!Ssl /\ d.pcb # "none"
    <3>1. PICK es : es = LW!Called(d, "ACCEPT")  OBVIOUS
    <3>2. LW!Outcome(c, {LW!Quietly(e) : e \in es})  BY <2>1, <2>3, <3>1
    <3>3. FALSE = (c \in LW!Ssl) /\ es = (IF FALSE THEN {[conn[c] EXCEPT !.ssl = "new"]} ELSE LW!Called(conn[c], "ACCEPT"))
      BY <2>3, <3>1
    <3> QED  BY <1>6, <2>1, <3>2, <3>3, LwAnnounceKeeps
  <2>4. CASE c \notin LW!Ssl /\ d.pcb = "none"
    <3>1. LW!GoWild  BY <2>1, <2>4
    <3>2. d \in LwConn /\ LwTook(LwView(LwQ, turn, c), LwView(queue, turn', c), "ACCEPT") /\ LwWorks(c)
      BY <1>6, <2>1, LwHandlingIs
    <3>3. ~LwOrder(d, FALSE, LwView(LwQ, turn, c))  BY <2>4, <3>2, LwNoAccept
    <3>4. (c \in LW!Ssl) = FALSE  BY <2>4
    <3>5. LwActive(c)  BY LwNow DEF LwHandling, LwActive
    <3>6. lost \/ raced  BY <3>3, <3>4, <3>5 DEF LwInv, LwAllOrdered
    <3>7. hand' = <<>> /\ raced' = raced /\ build' = build /\ LwGoesOn(<<>>, turn', todo')  BY <3>2 DEF LwWorks
    <3>8. LwGoesOn(hand', turn', todo')  BY <3>7
    <3> QED  BY <3>1, <3>6, <3>7, <3>8, LwFrameWild
  <2> QED  BY <2>2, <2>3, <2>4
<1> QED  BY <1>h, <1>2, <1>3, <1>4, <1>5, <1>6

\* What a signal in hand says, and what the queue says without it.
LEMMA LwInHand ==
  ASSUME LwInv, hand # <<>>
  PROVE  LET h == hand[1]
         IN  /\ h \in LwSignal /\ h.nc \in LwipConns /\ todo = {} /\ turn.at = "none" /\ turn.nc = LW!NULL
             /\ \A tn \in LwTurn :
                  /\ \A x \in LwipConns : x # h.nc \/ h.sig = "TOMBSTONE" => LwView(queue, tn, x) = LwView(LwQ, tn, x)
                  /\ h.sig # "TOMBSTONE" => LwTakes(LwView(LwQ, tn, h.nc), LwView(queue, tn, h.nc), h.sig)
<1>1. queue \in Seq(LwSignal) /\ hand \in Seq(LwSignal) /\ LwGoesOn(hand, turn, todo)  BY LwNow
<1>2. Len(hand) = 1
  <2>1. Len(hand) <= 1 /\ Len(hand) \in Nat  BY <1>1 DEF LwGoesOn
  <2>2. Len(hand) # 0
    <3>1. hand # <<>>  OBVIOUS
    <3> QED  BY <1>1, <3>1, EmptySeq
  <2> PICK n : n = Len(hand)  OBVIOUS
  <2>3. n \in Nat /\ n <= 1 /\ n # 0  BY <2>1, <2>2
  <2>4. n = 1  BY ONLY <2>3
  <2> QED  BY <2>4
<1>3. LwQ # <<>> /\ LwQ[1] = hand[1] /\ Tail(LwQ) = queue /\ LwQ \in Seq(LwSignal)
  <2>1. hand \o queue # <<>> /\ (hand \o queue)[1] = hand[1] /\ Tail(hand \o queue) = queue  BY <1>1, <1>2, LwQHand
  <2>2. hand \o queue \in Seq(LwSignal)  BY <1>1, ConcatProperties
  <2> QED  BY <2>1, <2>2 DEF LwQ
<1>4. todo = {} /\ turn.at = "none" /\ turn.nc = LW!NULL  BY <1>1 DEF LwGoesOn
<1>5. ASSUME NEW tn \in LwTurn
      PROVE  /\ LwQ[1] \in LwSignal
             /\ \A x \in LwipConns : x # LwQ[1].nc \/ LwQ[1].sig = "TOMBSTONE" => LwView(Tail(LwQ), tn, x) = LwView(LwQ, tn, x)
             /\ LwQ[1].sig # "TOMBSTONE" => LwTakes(LwView(LwQ, tn, LwQ[1].nc), LwView(Tail(LwQ), tn, LwQ[1].nc), LwQ[1].sig)
  BY <1>3, LwTaken
<1>6. hand[1] \in LwSignal /\ hand[1].nc \in LwipConns
  <2>1. turn \in LwTurn  BY <1>1 DEF LwGoesOn
  <2> QED  BY <1>3, <1>5, <2>1 DEF LwSignal
<1> QED  BY <1>3, <1>4, <1>5, <1>6

LEMMA LwProcessKeeps ==
  ASSUME LwInv, LW!ProcessSignal, build' = build
  PROVE  LwInv'
<1> PICK h : h = hand[1]  OBVIOUS
<1>1. /\ dying = LW!NULL /\ hand # <<>> /\ hand' = <<>> /\ todo' = todo /\ raced' = raced
      /\ IF h.sig = "TOMBSTONE" THEN UNCHANGED <<conn, queue, turn, dying, lost, wild>>
         ELSE IF ~LW!Live(h.nc) THEN LW!GoWild /\ turn' = turn
         ELSE LW!Handle(h.sig, h.nc)
  BY DEF LW!ProcessSignal, LW!Idle
<1>2. /\ h \in LwSignal /\ h.nc \in LwipConns /\ todo = {} /\ turn.at = "none" /\ turn.nc = LW!NULL
      /\ \A tn \in LwTurn :
           /\ \A x \in LwipConns : x # h.nc \/ h.sig = "TOMBSTONE" => LwView(queue, tn, x) = LwView(LwQ, tn, x)
           /\ h.sig # "TOMBSTONE" => LwTakes(LwView(LwQ, tn, h.nc), LwView(queue, tn, h.nc), h.sig)
  BY <1>1, LwInHand
<1>3. /\ queue \in Seq(LwSignal) /\ Len(queue) <= LW!QueueLen /\ turn \in LwTurn /\ LwGoesOn(hand, turn, todo)
      /\ LW!NULL \notin LwipConns
  BY LwNow
<1>4. LwGoesOn(<<>>, turn, todo)
  <2>1. <<>> \in Seq(LwSignal) /\ Len(<<>>) <= 1  OBVIOUS
  <2> QED  BY <1>2, <1>3, <2>1 DEF LwGoesOn
<1>5. CASE h.sig = "TOMBSTONE"
  <2>1. conn' = conn /\ queue' = queue /\ turn' = turn /\ dying' = dying /\ lost' = lost /\ wild' = wild  BY <1>1, <1>5
  <2>2. LwQ' = queue
    <3>1. <<>> \o queue = queue  BY <1>3, ConcatEmptySeq
    <3> QED  BY <1>1, <2>1, <3>1 DEF LwQ
  <2>3. \A x \in LwipConns : LwView(LwQ', turn', x) = LwView(LwQ, turn, x)  BY <1>2, <1>3, <1>5, <2>1, <2>2
  <2>4. LwGoesOn(hand', turn', todo')  BY <1>1, <1>4, <2>1
  <2>5. todo' = {} /\ turn'.at = "none"  BY <1>1, <1>2, <2>1
  <2> QED  BY <1>1, <1>3, <2>1, <2>3, <2>4, <2>5, LwFrameSame
<1>6. CASE h.sig # "TOMBSTONE" /\ ~LW!Live(h.nc)
  <2>1. LW!GoWild /\ turn' = turn  BY <1>1, <1>6
  <2>2. LwGoesOn(hand', turn', todo')  BY <1>1, <1>4, <2>1
  <2>3. lost \/ raced
    <3>1. ~LwActive(h.nc)  BY <1>6 DEF LwActive, LW!Live
    <3>2. LwTakes(LwView(LwQ, turn, h.nc), LwView(queue, turn, h.nc), h.sig)  BY <1>2, <1>3, <1>6
    <3>3. h.sig \in LwView(LwQ, turn, h.nc).has  BY <3>2 DEF LwTakes
    <3> QED  BY <1>2, <3>1, <3>3 DEF LwInv, LwAllOrdered
  <2> QED  BY <1>1, <2>1, <2>2, <2>3, LwFrameWild
<1>7. CASE h.sig # "TOMBSTONE" /\ LW!Live(h.nc)
  <2>1. LW!Handle(h.sig, h.nc)  BY <1>1, <1>7
  <2>2. ASSUME NEW tn \in LwTurn  PROVE LwTook(LwView(LwQ, turn, h.nc), LwView(queue, tn, h.nc), h.sig)
    <3>1. LwTakes(LwView(LwQ, turn, h.nc), LwView(queue, turn, h.nc), h.sig)  BY <1>2, <1>3, <1>7
    <3>2. LwTook(LwView(LwQ, turn, h.nc), LwView(queue, turn, h.nc), h.sig)  BY <3>1, LwTakesTook
    <3>3. /\ LwView(queue, tn, h.nc).has = LwView(queue, turn, h.nc).has
          /\ LwView(queue, tn, h.nc).leads = LwView(queue, turn, h.nc).leads
          /\ LwView(queue, tn, h.nc).once = LwView(queue, turn, h.nc).once
          /\ LwView(queue, tn, h.nc).ends = LwView(queue, turn, h.nc).ends
      BY DEF LwView
    <3> QED  BY <3>2, <3>3 DEF LwTook
  <2>3. ASSUME NEW tn \in LwTurn, tn.nc \in {h.nc, LW!NULL}, NEW x \in LwipConns, x # h.nc
        PROVE  LwView(queue, tn, x) = LwView(LwQ, turn, x)
    <3>1. LwView(queue, turn, x) = LwView(LwQ, turn, x)  BY <1>2, <1>3, <2>3
    <3>2. tn.nc # x /\ turn.nc # x  BY <1>2, <1>3, <2>3
    <3>3. LwView(queue, tn, x) = LwView(queue, turn, x)  BY <3>2, LwSameTurn
    <3> QED  BY <3>1, <3>3
  <2>4. LwHandling(h.nc, h.sig)  BY <1>1, <1>2, <1>7, <2>2, <2>3 DEF LwHandling, LW!Live
  <2> QED  BY <1>2, <1>4, <2>1, <2>4, LwHandleKeeps
<1> QED  BY <1>5, <1>6, <1>7

\* Taking a signal takes nothing from what is pending.
LEMMA LwTakeKeeps ==
  ASSUME LwInv, LW!TakeSignal, build' = build
  PROVE  LwInv'
<1>1. /\ hand = <<>> /\ turn = LW!Nothing /\ todo = {} /\ queue # <<>>
      /\ hand' = <<queue[1]>> /\ queue' = Tail(queue)
      /\ conn' = conn /\ turn' = turn /\ todo' = todo /\ dying' = dying /\ lost' = lost /\ raced' = raced /\ wild' = wild
  BY DEF LW!TakeSignal, LW!Between
<1>2. queue \in Seq(LwSignal) /\ Len(queue) <= LW!QueueLen /\ turn \in LwTurn /\ LwGoesOn(hand, turn, todo) /\ LW!QueueLen \in Nat
  BY LwNow
<1>3. LwQ = queue  BY <1>1, LwEmptyHand
<1>4. /\ queue[1] \in LwSignal /\ Tail(queue) \in Seq(LwSignal) /\ Len(queue) \in Nat /\ Len(Tail(queue)) = Len(queue) - 1
  BY <1>1, <1>2, LwTaken
<1>5. hand' \in Seq(LwSignal) /\ Len(hand') = 1 /\ hand'[1] = queue[1]
  BY <1>1, <1>4
<1>6. <<queue[1]>> \o Tail(queue) = queue
  <2>1. /\ queue # <<>> => /\ <<Head(queue)>> \o Tail(queue) = queue
    BY <1>2, HeadTailProperties, ConcatProperties
  <2> QED  BY <1>1, <2>1
<1>7. \A x \in LwipConns : LwView(LwQ', turn', x) = LwView(LwQ, turn, x)  BY <1>1, <1>3, <1>6 DEF LwQ
<1>8. turn.at = "none"  BY <1>1 DEF LW!Nothing
<1>9. LwGoesOn(hand', turn', todo')  BY <1>1, <1>2, <1>5, <1>8 DEF LwGoesOn
<1>10. queue' \in Seq(LwSignal) /\ Len(queue') <= LW!QueueLen  BY <1>1, <1>2, <1>4
<1> QED  BY <1>1, <1>7, <1>8, <1>9, <1>10, LwFrameSame
-----------------------------------------------------------------------------
(* LwipIf: reading, telling and the visits. *)

LEMMA LwNothingIs == LW!Nothing \in LwTurn /\ LW!Nothing.at = "none" /\ LW!Nothing.nc = LW!NULL
BY DEF LW!Nothing, LwTurn

\* In the middle of reading, or of telling, c: the signals are those of the queue.
LEMMA LwInTurn ==
  ASSUME LwInv, turn.at \in {"reading", "telling"}, dying = LW!NULL, NEW c, c = turn.nc
  PROVE  /\ c \in LwipConns /\ conn[c] \in LwConn /\ conn[c].life = "live" /\ hand = <<>> /\ todo = {} /\ LwQ = queue
         /\ turn \in LwTurn /\ LwView(LwQ, turn, c).at = turn.at /\ LwView(LwQ, turn, c).n = turn.n
         /\ LwRests(LwView(LwQ, turn, c), LwView(queue, LW!Nothing, c))
         /\ \A x \in LwipConns : x # c => LwView(queue, LW!Nothing, x) = LwView(LwQ, turn, x)
         /\ LwGoesOn(<<>>, turn, {}) /\ LwGoesOn(<<>>, LW!Nothing, {})
<1>1. LwGoesOn(hand, turn, todo) /\ LW!NULL \notin LwipConns /\ conn \in [LwipConns -> LwConn]  BY LwNow
<1>2. c \in LwipConns /\ LwActive(c) /\ hand = <<>> /\ todo = {} /\ turn \in LwTurn  BY <1>1 DEF LwGoesOn
<1>3. conn[c] \in LwConn /\ conn[c].life = "live"  BY <1>1, <1>2 DEF LwActive
<1>4. LwQ = queue  BY <1>2, LwEmptyHand
<1>5. LwView(LwQ, turn, c).at = turn.at /\ LwView(LwQ, turn, c).n = turn.n  BY DEF LwView
<1>6. LwRests(LwView(LwQ, turn, c), LwView(queue, LW!Nothing, c))
  <2>1. LW!Nothing.nc # c  BY <1>1, <1>2, LwNothingIs
  <2> QED  BY <1>4, <2>1 DEF LwRests, LwView
<1>7. ASSUME NEW x \in LwipConns, x # c  PROVE LwView(queue, LW!Nothing, x) = LwView(LwQ, turn, x)
  <2>1. LW!Nothing.nc # x /\ turn.nc # x  BY <1>1, <1>7, LwNothingIs
  <2> QED  BY <1>4, <2>1, LwSameTurn
<1>8. LwGoesOn(<<>>, turn, {})  BY <1>1, <1>2
<1>9. LwGoesOn(<<>>, LW!Nothing, {})
  <2>1. <<>> \in Seq(LwSignal) /\ Len(<<>>) <= 1  OBVIOUS
  <2> QED  BY <2>1, LwNothingIs DEF LwGoesOn
<1> QED  BY <1>2, <1>3, <1>4, <1>5, <1>6, <1>7, <1>8, <1>9

LEMMA LwTurnWorks ==
  ASSUME LwInv, turn.at \in {"reading", "telling"}, dying = LW!NULL, NEW c, c = turn.nc,
         hand' = hand, todo' = todo, raced' = raced, build' = build, turn' = turn \/ turn' = LW!Nothing
  PROVE  LwWorks(c)
<1>1. /\ c \in LwipConns /\ conn[c].life = "live" /\ hand = <<>> /\ todo = {} /\ LwQ = queue
      /\ \A x \in LwipConns : x # c => LwView(queue, LW!Nothing, x) = LwView(LwQ, turn, x)
      /\ LwGoesOn(<<>>, turn, {}) /\ LwGoesOn(<<>>, LW!Nothing, {})
  BY LwInTurn
<1>2. LwGoesOn(<<>>, turn', todo')  BY <1>1
<1>3. \A x \in LwipConns : x # c => LwView(queue, turn', x) = LwView(LwQ, turn, x)  BY <1>1
<1>4. turn'.at # "drained"  BY LwNothingIs
<1> QED  BY <1>1, <1>2, <1>3, <1>4 DEF LwWorks

LEMMA LwReadOnKeeps ==
  ASSUME LwInv, LW!ReadOn, build' = build
  PROVE  LwInv'
<1> PICK c : c = turn.nc  OBVIOUS
<1> PICK d : d = conn[c]  OBVIOUS
<1>0. /\ dying = LW!NULL /\ turn.at = "reading" /\ hand' = hand /\ todo' = todo /\ raced' = raced
      /\ \/ /\ c \notin LW!Ssl /\ d.rx > 0 /\ turn' = turn
            /\ LW!Outcome(c, {LW!Quietly(e) : e \in LW!Received(d, 1)})
         \/ /\ c \notin LW!Ssl /\ d.rx = 0 /\ turn' = LW!Nothing
            /\ UNCHANGED <<conn, queue, dying, lost, wild>>
         \/ /\ c \in LW!Ssl /\ turn' = LW!Nothing
            /\ IF d.ssl = "none" THEN LW!GoWild
               ELSE LW!Outcome(c, IF "HANDSHAKE_DONE" \in d.flags THEN LW!SslRecv(d) ELSE LW!SslDoHs(d))
  BY DEF LW!ReadOn, LW!Idle
<1> PICK v : v = LwView(LwQ, turn, c)  OBVIOUS
<1>1. /\ c \in LwipConns /\ d \in LwConn /\ d.life = "live" /\ hand = <<>> /\ todo = {} /\ LwQ = queue
      /\ turn \in LwTurn /\ v.at = "reading"
      /\ LwRests(v, LwView(queue, LW!Nothing, c))
      /\ \A x \in LwipConns : x # c => LwView(queue, LW!Nothing, x) = LwView(LwQ, turn, x)
      /\ LwGoesOn(<<>>, LW!Nothing, {})
  BY <1>0, LwInTurn
<1>2. CASE c \notin LW!Ssl /\ d.rx > 0 /\ turn' = turn /\ LW!Outcome(c, {LW!Quietly(e) : e \in LW!Received(d, 1)})
  <2>1. LwWorks(c)  BY <1>0, <1>2, LwTurnWorks
  <2>2. PICK es : es = LW!Received(d, 1)  OBVIOUS
  <2>3. LwView(queue, turn', c) = v  BY <1>1, <1>2
  <2>4. ASSUME NEW e \in es  PROVE LwGood(d, e, FALSE, v, v, TRUE)
    <3>1. 1 \in Nat /\ 1 <= d.rx  BY <1>1, <1>2 DEF LwConn
    <3>2. LwReads(d, e, 1)  BY <1>1, <2>2, <2>4, <3>1, LwReceived
    <3> QED  BY <1>1, <3>1, <3>2, LwPlainRead
  <2>5. (c \in LW!Ssl) = FALSE  BY <1>2
  <2>6. \A e \in es : LwGood(conn[c], e, c \in LW!Ssl, v, LwView(queue, turn', c), TRUE)  BY <2>3, <2>4, <2>5
  <2>7. LwGoodResults({LW!Quietly(e) : e \in es}, c, TRUE)  BY <2>6, LwQuietResults
  <2>8. LW!Outcome(c, {LW!Quietly(e) : e \in es})  BY <1>2, <2>2
  <2> QED  BY <1>1, <2>1, <2>7, <2>8, LwOutcomeKeeps
<1>3. CASE c \notin LW!Ssl /\ d.rx = 0 /\ turn' = LW!Nothing /\ UNCHANGED <<conn, queue, dying, lost, wild>>
  <2>1. LwWorks(c)  BY <1>0, <1>3, LwTurnWorks
  <2>2. PICK u : u = LwView(queue, LW!Nothing, c)  OBVIOUS
  <2>3. (c \in LW!Ssl) = FALSE /\ conn[c] = d  BY <1>3
  <2>4. /\ LwKept(d, FALSE, v) => LwKept(d, FALSE, u)
        /\ LwOrder(d, FALSE, v) => LwOrder(d, FALSE, u)
    BY <1>1, <1>3, <2>2, LwReadAll
  <2>5. LwGood(d, d, FALSE, v, u, TRUE)  BY <1>1, <2>4 DEF LwGood
  <2>6. LwGood(conn[c], d, c \in LW!Ssl, v, LwView(queue, turn', c), TRUE)  BY <1>3, <2>2, <2>3, <2>5
  <2>7. LwGoodResults({LW!Quietly(d)}, c, TRUE)  BY <2>6, LwQuietOne
  <2>8. LW!Outcome(c, {LW!Quietly(d)})
    <3>1. conn' = [conn EXCEPT ![c] = d]
      <4>1. conn \in [LwipConns -> LwConn]  BY LwNow
      <4> QED  BY <1>1, <1>3, <2>3, <4>1
    <3>2. LW!Quietly(d).d = d /\ LW!Quietly(d).sig = LW!NULL  BY LwQuietly
    <3>3. LW!PostIf(LW!Quietly(d).sig # LW!NULL, LW!Quietly(d).sig, c)  BY <1>3, <3>2 DEF LW!PostIf
    <3> QED  BY <1>3, <3>1, <3>2, <3>3 DEF LW!Outcome
  <2> QED  BY <1>1, <2>1, <2>7, <2>8, LwOutcomeKeeps
<1>4. CASE c \in LW!Ssl /\ turn' = LW!Nothing /\ d.ssl = "none" /\ LW!GoWild
  <2>1. lost \/ raced
    <3>1. LwActive(c)  BY <1>0, <1>1, LwNow DEF LwActive
    <3>2. ~LwOrder(d, TRUE, v)
      <4>1. d.kind \in {"client", "accepted"}  BY <1>1 DEF LwConn
      <4> QED  BY <1>1, <1>4, <4>1 DEF LwOrder, LwAccepted, LwClient
    <3>3. (c \in LW!Ssl) = TRUE  BY <1>4
    <3> QED  BY <1>1, <3>1, <3>2, <3>3 DEF LwInv, LwAllOrdered
  <2>2. LwGoesOn(hand', turn', todo')  BY <1>0, <1>1, <1>4
  <2> QED  BY <1>0, <1>4, <2>1, <2>2, LwFrameWild
<1>5. CASE c \in LW!Ssl /\ turn' = LW!Nothing /\ d.ssl # "none"
           /\ LW!Outcome(c, IF "HANDSHAKE_DONE" \in d.flags THEN LW!SslRecv(d) ELSE LW!SslDoHs(d))
  <2>1. LwWorks(c) /\ turn' \in LwTurn  BY <1>0, <1>5, LwTurnWorks, LwNothingIs
  <2>2. PICK u : u = LwView(queue, turn', c)  OBVIOUS
  <2>3. u \in LwViews /\ LwRests(v, u)  BY <1>1, <1>5, <2>1, <2>2, LwViewType
  <2>4. /\ LwKept(d, TRUE, v) => LwKept(d, TRUE, u)
        /\ LwOrder(d, TRUE, v) => LwOrder(d, TRUE, u)
    BY <1>1, <2>3, LwReadAll
  <2>5. CASE LwDone(d)
    <3>1. LW!Outcome(c, LW!SslRecv(d))  BY <1>5, <2>5 DEF LwDone
    <3>2. ASSUME NEW r \in LW!SslRecv(d)
          PROVE  /\ r.sig \in LwSigs \cup {LW!NULL}
                 /\ \A w : LwPostsIf(u, w, r.sig) => LwGood(conn[c], r.d, c \in LW!Ssl, v, w, TRUE)
      <4>1. r.sig \in LwSigs \cup {LW!NULL}  BY LwRecvSig
      <4>2. ASSUME NEW w, LwPostsIf(u, w, r.sig)  PROVE LwGood(d, r.d, TRUE, v, w, TRUE)
        <5>1. LwGood(d, r.d, TRUE, u, w, TRUE)  BY <1>1, <2>3, <2>5, <4>2, LwSslRecv
        <5> QED  BY <2>4, <5>1 DEF LwGood
      <4>3. (c \in LW!Ssl) = TRUE  BY <1>5
      <4> QED  BY <4>1, <4>2, <4>3
    <3>3. LwGoodResults(LW!SslRecv(d), c, TRUE)  BY <2>2, <3>2 DEF LwGoodResults
    <3> QED  BY <1>1, <2>1, <3>1, <3>3, LwOutcomeKeeps
  <2>6. CASE ~LwDone(d)
    <3>1. LW!Outcome(c, LW!SslDoHs(d))  BY <1>5, <2>6 DEF LwDone
    <3>2. LwOrder(d, TRUE, v) => LwShaking(d, u)  BY <1>1, <2>3, <2>6, LwReadShakes
    <3>3. LwGoodResults(LW!SslDoHs(d), c, TRUE)  BY <1>1, <1>5, <2>1, <2>2, <2>4, <3>2, LwHandshakeResults
    <3> QED  BY <1>1, <2>1, <3>1, <3>3, LwOutcomeKeeps
  <2> QED  BY <2>5, <2>6
<1> QED  BY <1>0, <1>2, <1>3, <1>4, <1>5

LEMMA LwToldSentKeeps ==
  ASSUME LwInv, LW!ToldSent, build' = build
  PROVE  LwInv'
<1> PICK c : c = turn.nc  OBVIOUS
<1> PICK d : d = conn[c]  OBVIOUS
<1>0. PICK l, e :
      /\ dying = LW!NULL /\ turn.at = "telling" /\ turn' = LW!Nothing /\ hand' = hand /\ todo' = todo /\ raced' = raced
      /\ l \in {0} \cup (IF d.numSent = turn.n THEN {} ELSE {d.numSent})
      /\ e = [d EXCEPT !.told = IF c \in LW!Ssl THEN @ ELSE @ + turn.n, !.numSent = l]
      /\ LW!StartClose(c, e) \/ LW!Outcome(c, {LW!Quietly(e)})
  BY DEF LW!ToldSent, LW!Idle
<1> PICK v : v = LwView(LwQ, turn, c)  OBVIOUS
<1>1. /\ c \in LwipConns /\ d \in LwConn /\ d.life = "live" /\ hand = <<>> /\ todo = {} /\ LwQ = queue
      /\ turn \in LwTurn /\ v.at = "telling" /\ v.n = turn.n /\ v \in LwViews
      /\ LwRests(v, LwView(queue, LW!Nothing, c))
      /\ \A x \in LwipConns : x # c => LwView(queue, LW!Nothing, x) = LwView(LwQ, turn, x)
  BY <1>0, LwInTurn, LwViewType
<1>2. PICK ssl \in BOOLEAN : ssl = (c \in LW!Ssl)  BY LwSslOf
<1> PICK u : u = LwView(queue, turn', c)  OBVIOUS
<1>3. LwRests(v, u)  BY <1>0, <1>1
<1>4. l \in Nat /\ (l = 0 \/ (l = d.numSent /\ d.numSent # v.n))  BY <1>0, <1>1 DEF LwConn
<1>5. LwGood(d, e, ssl, v, u, TRUE)
  <2>1. e = [d EXCEPT !.told = IF ssl THEN @ ELSE @ + v.n, !.numSent = l]  BY <1>0, <1>1, <1>2
  <2> QED  BY <1>1, <1>3, <1>4, <2>1, LwForgets
<1>6. CASE LW!Outcome(c, {LW!Quietly(e)})
  <2>1. LwWorks(c)  BY <1>0, LwTurnWorks
  <2>2. LwGood(conn[c], e, c \in LW!Ssl, v, u, TRUE)  BY <1>2, <1>5
  <2>3. LwGoodResults({LW!Quietly(e)}, c, TRUE)  BY <2>2, LwQuietOne
  <2> QED  BY <1>1, <1>6, <2>1, <2>3, LwOutcomeKeeps
<1>7. CASE LW!StartClose(c, e)
  <2>1. e \in LwConn /\ e.life = "live"  BY <1>5 DEF LwGood
  <2>2. ASSUME ~lost, ~raced  PROVE LwSeen(e.seen, c \in LW!Ssl, FALSE)
    <3>1. LwActive(c)  BY <1>0, <1>1, LwNow DEF LwActive
    <3>2. LwOrder(d, ssl, v)  BY <1>1, <1>2, <2>2, <3>1 DEF LwInv, LwAllOrdered
    <3>3. LwSeen(e.seen, ssl, FALSE)  BY <1>5, <3>2 DEF LwGood, LwOrder
    <3> QED  BY <1>2, <3>3
  <2>3. /\ turn' \in LwTurn /\ turn'.at = "none" /\ turn'.nc = LW!NULL /\ hand' = <<>> /\ todo' \subseteq todo \ {c}
        /\ LW!NULL \notin LwipConns
    BY <1>0, <1>1, LwNothingIs, LwNow
  <2>4. \A x \in LwipConns : x # c => LwView(queue, turn', x) = LwView(LwQ, turn, x)  BY <1>0, <1>1
  <2> QED  BY <1>0, <1>1, <1>7, <2>1, <2>2, <2>3, <2>4, LwFrameClose
<1> QED  BY <1>0, <1>6, <1>7

LEMMA LwDrainedKeeps ==
  ASSUME LwInv, LW!Drained, build' = build
  PROVE  LwInv'
<1>1. /\ hand = <<>> /\ turn = LW!Nothing /\ todo = {} /\ queue = <<>> /\ dying = LW!NULL
      /\ turn' = [LW!Nothing EXCEPT !.at = "drained"] /\ conn' = conn /\ queue' = queue /\ hand' = hand /\ todo' = todo
      /\ dying' = dying /\ lost' = lost /\ raced' = raced /\ wild' = wild
  BY DEF LW!Drained, LW!Between, LW!Idle
<1>2. turn' \in LwTurn /\ turn'.at = "drained" /\ turn'.nc = LW!NULL /\ turn.nc = LW!NULL
  BY <1>1 DEF LW!Nothing, LwTurn
<1>3. queue \in Seq(LwSignal) /\ Len(queue) <= LW!QueueLen /\ LW!NULL \notin LwipConns /\ LwGoesOn(hand, turn, todo)
      /\ conn \in [LwipConns -> LwConn]
  BY LwNow
<1>4. LwQ = queue /\ LwQ' = LwQ  BY <1>1, LwEmptyHand DEF LwQ
<1>5. ASSUME NEW x \in LwipConns  PROVE LwView(LwQ', turn', x) = LwView(LwQ, turn, x)
  <2>1. turn'.nc # x /\ turn.nc # x  BY <1>2, <1>3
  <2> QED  BY <1>4, <2>1, LwSameTurn
<1>6. LwGoesOn(hand', turn', todo')  BY <1>1, <1>2, <1>3 DEF LwGoesOn
<1>7. ASSUME ~lost, ~raced, NEW x \in LwipConns, LwActive(x), x \in LW!Ssl  PROVE conn[x].ssl # "none"
  <2>1. (x \in LW!Ssl) = TRUE  BY <1>7
  <2>2. LwOrder(conn[x], TRUE, LwView(LwQ, turn, x))  BY <1>7, <2>1 DEF LwInv, LwAllOrdered
  <2>3. LwView(LwQ, turn, x).has = {}
    <3>1. LwHas(LwQ, x) = {}  BY <1>1, <1>4 DEF LwHas
    <3> QED  BY <3>1 DEF LwView
  <2>4. conn[x].kind \in {"client", "accepted"}  BY <1>3 DEF LwConn
  <2> QED  BY <2>2, <2>3, <2>4 DEF LwOrder, LwAccepted, LwClient
<1> QED  BY <1>1, <1>3, <1>5, <1>6, <1>7, LwFrameSame

LEMMA LwStartVisitsKeeps ==
  ASSUME LwInv, LW!StartVisits, build' = build
  PROVE  LwInv'
<1>1. /\ turn.at = "drained" /\ turn' = LW!Nothing /\ dying = LW!NULL /\ todo' = {c \in LwipConns : LW!Live(c)}
      /\ conn' = conn /\ queue' = queue /\ hand' = hand
      /\ dying' = dying /\ lost' = lost /\ raced' = raced /\ wild' = wild
  BY DEF LW!StartVisits, LW!Idle
<1>3. queue \in Seq(LwSignal) /\ Len(queue) <= LW!QueueLen /\ LW!NULL \notin LwipConns /\ LwGoesOn(hand, turn, todo)
  BY LwNow
<1>2. turn.nc = LW!NULL /\ hand = <<>>  BY <1>1, <1>3 DEF LwGoesOn
<1>4. LwQ' = LwQ  BY <1>1 DEF LwQ
<1>5. ASSUME NEW x \in LwipConns  PROVE LwView(LwQ', turn', x) = LwView(LwQ, turn, x)
  <2>1. turn'.nc # x /\ turn.nc # x  BY <1>1, <1>2, <1>3, LwNothingIs
  <2> QED  BY <1>4, <2>1, LwSameTurn
<1>6. LwGoesOn(hand', turn', todo')
  <2>1. \A x \in todo' : LwActive(x)  BY <1>1, <1>3 DEF LW!Live, LwActive
  <2>2. <<>> \in Seq(LwSignal) /\ Len(<<>>) <= 1  OBVIOUS
  <2> QED  BY <1>1, <1>2, <2>1, <2>2, LwNothingIs DEF LwGoesOn
<1>7. ASSUME ~lost, ~raced, NEW x \in LwipConns, LwActive(x), x \in LW!Ssl  PROVE conn[x].ssl # "none"
  BY <1>1, <1>7 DEF LwInv, LwAllOrdered
<1> QED  BY <1>1, <1>3, <1>5, <1>6, <1>7, LwFrameSame

LEMMA LwVisitKeeps ==
  ASSUME LwInv, NEW c \in LwipConns, LW!Visit(c), build' = build
  PROVE  LwInv'
<1> PICK d : d = conn[c]  OBVIOUS
<1> PICK v : v = LwView(LwQ, turn, c)  OBVIOUS
<1>1. /\ dying = LW!NULL /\ hand = <<>> /\ turn = LW!Nothing /\ c \in todo /\ todo' = todo \ {c}
      /\ hand' = hand /\ turn' = turn /\ raced' = raced
      /\ IF LwClosing(d) THEN LW!StartClose(c, d)
         ELSE \E e \in LW!Flagged(d) :
                 IF c \in LW!Ssl /\ e.ssl = "none" /\ e.pcb = "established" /\ e.rx > 0
                    /\ "CLOSE_IMMEDIATELY" \notin e.flags
                 THEN LW!GoWild
                 ELSE LW!Outcome(c, LW!Visited(e, c))
  BY DEF LW!Visit, LW!Between, LW!Idle, LwClosing
<1>2. /\ conn \in [LwipConns -> LwConn] /\ LwGoesOn(hand, turn, todo) /\ LW!NULL \notin LwipConns
      /\ build.sendBuf \in Nat /\ v \in LwViews /\ turn \in LwTurn
  BY LwNow
<1>3. d \in LwConn /\ d.life = "live" /\ LwActive(c)  BY <1>1, <1>2 DEF LwGoesOn, LwActive
<1>4. LwQ = queue /\ LwView(queue, turn', c) = v
      /\ \A x \in LwipConns : x # c => LwView(queue, turn', x) = LwView(LwQ, turn, x)
  BY <1>1, LwEmptyHand
<1>5. turn'.at = "none" /\ turn'.nc = LW!NULL  BY <1>1, LwNothingIs
<1>6. LwGoesOn(<<>>, turn', todo')  BY <1>1, <1>2, <1>5 DEF LwGoesOn
<1>7. ASSUME ~lost, ~raced  PROVE LwOrder(d, c \in LW!Ssl, v) /\ (c \in LW!Ssl => d.ssl # "none")
  BY <1>1, <1>3, <1>7 DEF LwInv, LwAllOrdered
<1>8. CASE LW!StartClose(c, d)
  <2>1. ASSUME ~lost, ~raced  PROVE LwSeen(d.seen, c \in LW!Ssl, FALSE)  BY <1>7, <2>1 DEF LwOrder
  <2>2. todo' \subseteq todo \ {c} /\ hand' = <<>> /\ turn' \in LwTurn  BY <1>1, <1>2
  <2> QED  BY <1>1, <1>2, <1>3, <1>4, <1>5, <1>8, <2>1, <2>2, LwFrameClose
<1>9. CASE ~LwClosing(d)
  <2>1. PICK e \in LW!Flagged(d) :
                 IF c \in LW!Ssl /\ e.ssl = "none" /\ e.pcb = "established" /\ e.rx > 0
                    /\ "CLOSE_IMMEDIATELY" \notin e.flags
                 THEN LW!GoWild
                 ELSE LW!Outcome(c, LW!Visited(e, c))
    BY <1>1, <1>9
  <2>2. LwFlaggedAs(d, e)  BY <1>3, <2>1, LwFlagged
  <2>3. CASE c \in LW!Ssl /\ e.ssl = "none" /\ LW!GoWild
    <3>1. lost \/ raced  BY <1>7, <2>2, <2>3 DEF LwFlaggedAs
    <3>2. LwGoesOn(hand', turn', todo')  BY <1>1, <1>6
    <3> QED  BY <1>1, <2>3, <3>1, <3>2, LwFrameWild
  <2>4. CASE LW!Outcome(c, LW!Visited(e, c))
    <3>1. PICK p \in BOOLEAN : p <=> ~lost /\ ~raced  BY Zenon
    <3>2. todo' \subseteq todo  BY <1>1
    <3>3. LwWorks(c)
      <4>1. /\ dying = LW!NULL /\ conn[c].life = "live" /\ hand' = <<>> /\ raced' = raced
            /\ turn'.at # "drained"
        BY <1>1, <1>3, <1>5
      <4> QED  BY <1>4, <1>6, <3>2, <4>1 DEF LwWorks
    <3>4. ASSUME NEW r \in LW!Visited(e, c)
          PROVE  /\ r.sig \in LwSigs \cup {LW!NULL}
                 /\ \A w : LwPostsIf(v, w, r.sig) => LwGood(conn[c], r.d, c \in LW!Ssl, v, w, p)
      <4>1. e \in LwConn /\ e.life = "live"  BY <1>3, <2>2 DEF LwFlaggedAs
      <4>2. r.sig \in LwSigs \cup {LW!NULL}  BY <1>2, <3>4, <4>1, LwVisitSig
      <4>3. p /\ c \in LW!Ssl => d.ssl # "none"  BY <1>7, <3>1
      <4>4. ASSUME NEW w, LwPostsIf(v, w, r.sig)  PROVE LwGood(d, r.d, c \in LW!Ssl, v, w, p)
        BY <1>2, <1>3, <1>9, <2>1, <3>1, <3>4, <4>3, <4>4, LwVisitGoes
      <4> QED  BY <4>2, <4>4
    <3>5. LwGoodResults(LW!Visited(e, c), c, p)  BY <1>4, <3>4 DEF LwGoodResults
    <3>6. ~lost /\ ~raced => p  BY <3>1
    <3> QED  BY <2>4, <3>3, <3>5, <3>6, LwOutcomeKeeps
  <2> QED  BY <2>1, <2>3, <2>4
<1>10. CASE LwClosing(d)
  <2>1. LW!StartClose(c, d)  BY <1>1, <1>10
  <2> QED  BY <1>8, <2>1
<1> QED  BY <1>9, <1>10
-----------------------------------------------------------------------------
(* LwipIf: what follows from the invariant, and the theorem. *)

LEMMA LwInit == LW!Init => LwInv
<1> SUFFICES ASSUME LW!Init  PROVE LwInv
  OBVIOUS
<1>1. /\ conn = [c \in LwipConns |-> LW!Unused] /\ queue = <<>> /\ hand = <<>> /\ turn = LW!Nothing
      /\ todo = {} /\ dying = LW!NULL
      /\ lost = FALSE /\ raced = FALSE /\ wild = FALSE /\ build \in LwipBuilds
  BY DEF LW!Init
<1>2. LW!Unused \in LwConn /\ LW!Unused.life = "none" /\ LW!Unused.seen = <<>>
  BY LwUnused
<1>3. LW!QueueLen \in Nat  BY <1>1, PortsAssumption DEF LW!QueueLen
<1>4. LwTyped
  <2>1. conn \in [LwipConns -> LwConn]  BY <1>1, <1>2
  <2>2. <<>> \in Seq(LwSignal) /\ Len(<<>>) <= 1 /\ Len(queue) <= LW!QueueLen  BY <1>1, <1>3
  <2>3. LwGoesOn(hand, turn, todo)  BY <1>1, <2>2, LwNothingIs DEF LwGoesOn
  <2>4. lost \in BOOLEAN /\ raced \in BOOLEAN /\ wild \in BOOLEAN /\ build \in LwipBuilds  BY <1>1
  <2> QED  BY <1>1, <2>1, <2>2, <2>3, <2>4 DEF LwTyped
<1>5. \A c \in LwipConns : conn[c] = LW!Unused /\ ~LwActive(c)  BY <1>1, <1>2 DEF LwActive
<1>6. LwAllKept  BY <1>5 DEF LwAllKept
<1>7. LwAllOrdered
  <2>1. \A ssl : LwSeen(<<>>, ssl, FALSE)  BY DEF LwSeen
  <2>2. LwQ = <<>>
    <3>1. <<>> \in Seq(LwSignal)  OBVIOUS
    <3> QED  BY <1>1, <3>1, ConcatEmptySeq DEF LwQ
  <2>3. ASSUME NEW c \in LwipConns  PROVE LwView(LwQ, turn, c).has = {}
    <3>1. LwHas(LwQ, c) = {}  BY <2>2 DEF LwHas
    <3> QED  BY <3>1 DEF LwView
  <2>4. \A c \in LwipConns : /\ conn[c].life # "freed" /\ ~LwActive(c)
                             /\ LwSeen(conn[c].seen, c \in LW!Ssl, FALSE)
    BY <1>2, <1>5, <2>1
  <2> QED  BY <1>1, <2>3, <2>4 DEF LwAllOrdered
<1> QED  BY <1>4, <1>6, <1>7 DEF LwInv

LEMMA LwStep == LwInv /\ [LW!Next]_(LW!vars) => LwInv'
<1> SUFFICES ASSUME LwInv, [LW!Next]_(LW!vars)  PROVE LwInv'
  OBVIOUS
<1>1. CASE UNCHANGED LW!vars
  <2>1. /\ conn' = conn /\ queue' = queue /\ hand' = hand /\ turn' = turn /\ todo' = todo /\ dying' = dying
        /\ lost' = lost /\ raced' = raced /\ wild' = wild /\ build' = build
    BY <1>1 DEF LW!vars
  <2>2. LwQ' = LwQ  BY <2>1 DEF LwQ
  <2>3. \A x \in LwipConns : LwView(LwQ', turn', x) = LwView(LwQ, turn, x)  BY <2>1, <2>2
  <2>4. queue \in Seq(LwSignal) /\ Len(queue) <= LW!QueueLen /\ LwGoesOn(hand', turn', todo')  BY <2>1, LwNow
  <2>5. ~lost /\ ~raced => \A x \in LwipConns :
             LwActive(x) /\ x \in LW!Ssl /\ (x \in todo' \/ turn'.at = "drained") => conn[x].ssl # "none"
    BY <2>1 DEF LwInv, LwAllOrdered
  <2> QED  BY <2>1, <2>3, <2>4, <2>5, LwFrameSame
<1>2. CASE LW!Next
  <2>1. build' = build  BY <1>2 DEF LW!Next
  <2>2. ASSUME NEW c \in LwipConns, LW!LwipTask(c) \/ LW!Connect(c) \/ LW!UserSend(c) \/ LW!Visit(c)
        PROVE  LwInv'
    <3>1. CASE LW!ConnCb(c)  BY <2>1, <3>1, LwConnCbKeeps
    <3>2. CASE LW!ErrorCb(c)  BY <2>1, <3>2, LwErrorCbKeeps
    <3>3. CASE LW!RecvCb(c)  BY <2>1, <3>3, LwRecvCbKeeps
    <3>4. CASE LW!FinCb(c)  BY <2>1, <3>4, LwFinCbKeeps
    <3>5. CASE LW!SentCb(c)  BY <2>1, <3>5, LwSentCbKeeps
    <3>6. CASE LW!AcceptCb(c)  BY <2>1, <3>6, LwAcceptCbKeeps
    <3>7. CASE LW!Connect(c)  BY <2>1, <3>7, LwConnectKeeps
    <3>8. CASE LW!UserSend(c)  BY <2>1, <3>8, LwUserSendKeeps
    <3>9. CASE LW!Visit(c)  BY <2>1, <3>9, LwVisitKeeps
    <3> QED  BY <2>2, <3>1, <3>2, <3>3, <3>4, <3>5, <3>6, <3>7, <3>8, <3>9 DEF LW!LwipTask
  <2>3. CASE LW!TakeSignal  BY <2>1, <2>3, LwTakeKeeps
  <2>4. CASE LW!ProcessSignal  BY <2>1, <2>4, LwProcessKeeps
  <2>5. CASE LW!ReadOn  BY <2>1, <2>5, LwReadOnKeeps
  <2>6. CASE LW!ToldSent  BY <2>1, <2>6, LwToldSentKeeps
  <2>7. CASE LW!Drained  BY <2>1, <2>7, LwDrainedKeeps
  <2>8. CASE LW!StartVisits  BY <2>1, <2>8, LwStartVisitsKeeps
  <2>9. CASE LW!FinishClose  BY <2>1, <2>9, LwConstants, LwFrameFinish
  <2> QED  BY <1>2, <2>2, <2>3, <2>4, <2>5, <2>6, <2>7, <2>8, <2>9 DEF LW!Next
<1> QED  BY <1>1, <1>2

\* What the views say of what is pending, in the words of NothingForgotten.
LEMMA LwQueued ==
  ASSUME NEW c \in LwipConns, LwQ \in Seq(LwSignal)
  PROVE  /\ \A s \in LwView(LwQ, turn, c).has : LW!Queued(s, c)
         /\ LwView(LwQ, turn, c).ends =>
              \E i, j \in DOMAIN LW!Pending : i < j /\ LW!At(i, "RECV", c) /\ LW!At(j, "CLOSE_CONN", c)
<1> PICK q : q = LwQ  OBVIOUS
<1>p. LW!Pending = q  BY DEF LW!Pending, LwQ
<1>1. DOMAIN q = 1..Len(q) /\ \A i \in 1..Len(q) : q[i] \in LwSignal  OBVIOUS
<1>2. ASSUME NEW i \in 1..Len(q), NEW s, LwAt(q, i, s, c)  PROVE LW!At(i, s, c)
  <2>1. q[i] \in LwSignal /\ q[i].nc = c /\ q[i].sig = s  BY <1>1, <1>2 DEF LwAt
  <2>2. q[i] = [sig |-> q[i].sig, nc |-> q[i].nc]  BY <2>1 DEF LwSignal
  <2> QED  BY <1>p, <2>1, <2>2 DEF LW!At
<1>3. ASSUME NEW s \in LwView(q, turn, c).has  PROVE LW!Queued(s, c)
  <2>1. PICK i \in 1..Len(q) : LwAt(q, i, s, c)  BY DEF LwView, LwHas
  <2> QED  BY <1>p, <1>1, <1>2, <2>1 DEF LW!Queued
<1>4. ASSUME LwView(q, turn, c).ends
      PROVE  \E i, j \in DOMAIN LW!Pending : i < j /\ LW!At(i, "RECV", c) /\ LW!At(j, "CLOSE_CONN", c)
  <2>1. PICK i \in 1..Len(q), j \in 1..Len(q) :
             i < j /\ LwAt(q, i, "RECV", c) /\ LwAt(q, j, "CLOSE_CONN", c)
    BY <1>4 DEF LwView, LwEnds
  <2>2. LW!At(i, "RECV", c) /\ LW!At(j, "CLOSE_CONN", c)  BY <1>2, <2>1
  <2> QED  BY <1>p, <1>1, <2>1, <2>2
<1> QED  BY <1>3, <1>4

LEMMA LwTypeSound == LwInv => LW!TypeOK
<1> SUFFICES ASSUME LwInv  PROVE LW!TypeOK
  OBVIOUS
<1>1. ASSUME NEW c \in LwipConns
      PROVE  conn[c].life \in {"none", "live", "freed"} /\ LW!Range(conn[c].seen) \subseteq LW!Events
  <2>1. conn[c] \in LwConn  BY LwNow
  <2>2. conn[c].seen \in Seq(LW!Events) /\ conn[c].life \in {"none", "live", "freed"}  BY <2>1 DEF LwConn
  <2>3. LW!Range(conn[c].seen) \subseteq LW!Events  BY <2>2 DEF LW!Range
  <2> QED  BY <2>2, <2>3
<1>2. Len(queue) <= LW!QueueLen /\ dying \in LwipConns \cup {LW!NULL} /\ LwGoesOn(hand, turn, todo)
  BY DEF LwInv, LwTyped
<1>3. /\ Len(hand) <= 1 /\ todo \subseteq LwipConns /\ turn.at \in {"none", "drained", "reading", "telling"}
      /\ turn.at \in {"reading", "telling"} => hand = <<>> /\ turn.nc \in LwipConns /\ LW!Live(turn.nc)
  BY <1>2 DEF LwGoesOn, LwTurn, LwActive, LW!Live
<1> QED  BY <1>1, <1>2, <1>3 DEF LW!TypeOK

LEMMA LwForgetsNothing == LwInv => LW!NothingForgotten
<1> SUFFICES ASSUME LwInv, ~lost, ~wild, NEW c \in LwipConns, LW!Live(c), dying # c
             PROVE  /\ conn[c].recvPending => LW!Queued("RECV", c)
                    /\ conn[c].rx > 0 /\ c \notin LW!Ssl => LW!Queued("RECV", c) \/ LW!In("reading", c)
                    /\ conn[c].numSent > 0 => LW!Queued("SENT_CB", c) \/ LW!In("telling", c)
                    /\ conn[c].fin => LW!Queued("CLOSE_CONN", c)
                    /\ conn[c].fin /\ conn[c].recvPending =>
                          \E i, j \in DOMAIN LW!Pending : i < j /\ LW!At(i, "RECV", c) /\ LW!At(j, "CLOSE_CONN", c)
                    /\ conn[c].pcb = "none" /\ ~(c \in LW!Ssl /\ raced) =>
                          LW!Queued("CLOSE_CONN", c) \/ LW!Queued("CONNECT_RESULT", c)
                             \/ "CLOSE_IMMEDIATELY" \in conn[c].flags
                    /\ c \notin LW!Ssl /\ ~conn[c].missed =>
                          conn[c].slen + conn[c].unacked + conn[c].numSent + conn[c].told = conn[c].asked
  BY DEF LW!NothingForgotten
<1> PICK d : d = conn[c]  OBVIOUS
<1> PICK v : v = LwView(LwQ, turn, c)  OBVIOUS
<1>1. LwActive(c)  BY DEF LwActive, LW!Live
<1>2. LwKept(d, c \in LW!Ssl, v)  BY <1>1 DEF LwInv, LwAllKept
<1>3. LwQ \in Seq(LwSignal) /\ d \in LwConn
  <2>1. hand \in Seq(LwSignal) /\ queue \in Seq(LwSignal)  BY LwNow
  <2>2. LwQ \in Seq(LwSignal)  BY <2>1, ConcatProperties DEF LwQ
  <2> QED  BY <2>2, LwNow
<1>4. /\ \A s \in v.has : LW!Queued(s, c)
      /\ v.ends => \E i, j \in DOMAIN LW!Pending : i < j /\ LW!At(i, "RECV", c) /\ LW!At(j, "CLOSE_CONN", c)
  BY <1>3, LwQueued
<1>n. \A at \in {"reading", "telling"} : v.at = at => LW!In(at, c)  BY DEF LwView, LW!In
<1>5. /\ d.recvPending => "RECV" \in v.has
      /\ d.rx > 0 /\ c \notin LW!Ssl => d.recvPending \/ v.at = "reading"
      /\ d.numSent > 0 => "SENT_CB" \in v.has \/ v.at = "telling"
      /\ d.fin => "CLOSE_CONN" \in v.has
      /\ d.fin /\ d.recvPending => v.ends
      /\ c \notin LW!Ssl /\ ~d.missed => d.slen + d.unacked + d.numSent + d.told = d.asked
  BY <1>2 DEF LwKept
<1>6. ASSUME d.pcb = "none", ~(c \in LW!Ssl /\ raced)
      PROVE  "CLOSE_CONN" \in v.has \/ "CONNECT_RESULT" \in v.has \/ "CLOSE_IMMEDIATELY" \in d.flags
  <2>1. CASE c \notin LW!Ssl
    <3>1. (c \in LW!Ssl) = FALSE  BY <2>1
    <3>2. LwKept(d, FALSE, v)  BY <1>2, <3>1
    <3> QED  BY <1>6, <3>2 DEF LwKept
  <2>2. CASE c \in LW!Ssl
    <3>1. ~raced /\ (c \in LW!Ssl) = TRUE  BY <1>6, <2>2
    <3>2. LwOrder(d, TRUE, v)  BY <1>1, <3>1 DEF LwInv, LwAllOrdered
    <3>3. CASE d.kind = "accepted"  BY <1>6, <3>2, <3>3 DEF LwOrder, LwAccepted
    <3>4. CASE d.kind = "client"
      BY <1>6, <3>2, <3>4, <1>3 DEF LwOrder, LwClient, LwSslNew, LwSslStarted, LwSslFailed, LwConn, LwClosing
    <3>5. d.kind \in {"client", "accepted"}  BY <1>3 DEF LwConn
    <3> QED  BY <3>3, <3>4, <3>5
  <2> QED  BY <2>1, <2>2
<1> QED  BY <1>4, <1>5, <1>6, <1>n

LEMMA LwLifeSound == LwInv => LW!LifeInOrder
<1> SUFFICES ASSUME LwInv, ~raced, ~lost  PROVE LW!LifeInOrder
  BY DEF LW!LifeInOrder
<1>1. ~wild  BY DEF LwInv, LwAllOrdered
<1>2. ASSUME NEW c \in LwipConns, NEW s, s = conn[c].seen, NEW i \in DOMAIN s
      PROVE  CASE s[i] = "CLOSE" -> i = Len(s) /\ ~LW!Live(c)
               [] s[i] # "CLOSE" /\ i = 1 -> s[i] \in {"ACCEPT", "CONNECT", "FAILED"}
               [] OTHER -> \/ s[i] \in {"RECV", "SEND"}
                           \/ c \in LW!Ssl /\ s[i] = "FAILED" /\ s[i - 1] = "FAILED"
  <2>1. PICK over \in BOOLEAN : LwSeen(s, c \in LW!Ssl, over) /\ (over => ~LW!Live(c))
    <3>1. CASE conn[c].life = "freed"
      <4>1. LwSeen(s, c \in LW!Ssl, TRUE) /\ ~LW!Live(c)  BY <1>2, <3>1 DEF LwInv, LwAllOrdered, LW!Live
      <4> QED  BY <4>1
    <3>2. CASE conn[c].life # "freed"
      <4>1. LwSeen(s, c \in LW!Ssl, FALSE)  BY <1>2, <3>2 DEF LwInv, LwAllOrdered
      <4> QED  BY <4>1
    <3> QED  BY <3>1, <3>2
  <2>2. s \in Seq(LW!Events)  BY <1>2 DEF LwInv, LwTyped, LwConn
  <2>3. i \in 1..Len(s) /\ Len(s) \in Nat  BY <1>2, <2>2
  <2>4. /\ s[i] = "CLOSE" => i = Len(s) /\ over
        /\ i = 1 /\ s[i] # "CLOSE" => s[i] \in {"ACCEPT", "CONNECT", "FAILED"}
        /\ i > 1 /\ s[i] # "CLOSE" => s[i] \in {"RECV", "SEND"} \/ (c \in LW!Ssl /\ s[i] = "FAILED" /\ s[i - 1] = "FAILED")
    BY <2>1, <2>3 DEF LwSeen
  <2>5. CASE s[i] = "CLOSE"  BY <2>1, <2>4, <2>5
  <2>6. CASE s[i] # "CLOSE" /\ i = 1  BY <2>4, <2>6
  <2>7. CASE s[i] # "CLOSE" /\ i > 1  BY <2>4, <2>7
  <2> QED  BY <2>3, <2>5, <2>6, <2>7
<1> QED  BY <1>1, <1>2 DEF LW!LifeInOrder
-----------------------------------------------------------------------------
\* Whatever the program is built with, for any number of connections and any
\* length of the signal queue, and with lwIP's task between any two steps of
\* Mongoose's: no signal is forgotten and every byte is told to be acknowledged once,
\* except that a signal may find the queue full or be lost with a connection that is
\* being closed (lost), and that an acknowledgement may come while one is being told
\* (missed); the events of a connection are in order and nothing that is gone is used,
\* but to take a tombstone, unless a connection failed while it opened or closed or
\* was accepted with SSL between the signals and the visits (raced)
\* (mg_lwip_post_signal, mg_ev_mgr_lwip_process_signals, mg_lwip_if_poll).
THEOREM SignalsKept == LW!Spec => []LwipSignals
<1>1. LwInv /\ [LW!Next]_(LW!vars) => LwInv'  BY LwStep
<1>2. LwInv => LwipSignals  BY LwTypeSound, LwForgetsNothing, LwLifeSound DEF LwipSignals
<1> QED  BY <1>1, <1>2, LwInit, PTL DEF LW!Spec
=============================================================================
