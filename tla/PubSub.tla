-------------------------------- MODULE PubSub -------------------------------
(***************************************************************************)
(* What an MQTT broker promises, with sessions, arrays and lists left out: *)
(* a client that has asked for a message's topic when it is published gets *)
(* one copy of it, everybody else none.  Once the broker has misused its   *)
(* memory ("broken") nothing is promised.                                  *)
(***************************************************************************)
EXTENDS Integers

CONSTANTS
  Client, Filter, Message,
  Matches              \* the pairs of a filter and a message it matches

VARIABLES
  life,    \* life[c]: "absent", "open" or "gone"
  asked,   \* asked[c]: the filters the client has subscribed to
  copies,  \* copies[m][c]: how many copies of m client c was sent
  broken

vars == <<life, asked, copies, broken>>

Nobody == [c \in Client |-> 0]

Init == /\ life = [c \in Client |-> "absent"]
        /\ asked = [c \in Client |-> {}]
        /\ copies = [m \in Message |-> Nobody]
        /\ broken = FALSE

Arrive(c) == /\ life[c] = "absent" /\ life' = [life EXCEPT ![c] = "open"]
             /\ UNCHANGED <<asked, copies, broken>>

\* Some clients go, with their subscriptions.
Leave(C) ==
  /\ \A c \in C : life[c] = "open"
  /\ life' = [c \in Client |-> IF c \in C THEN "gone" ELSE life[c]]
  /\ asked' = [c \in Client |-> IF c \in C THEN {} ELSE asked[c]]
  /\ UNCHANGED <<copies, broken>>

Subscribe(c, F) == /\ life[c] = "open"
                   /\ asked' = [asked EXCEPT ![c] = @ \cup F]
                   /\ UNCHANGED <<life, copies, broken>>

Wants(c, m) == \E f \in asked[c] : <<f, m>> \in Matches

Publish(m) ==
  /\ copies[m] = Nobody
  /\ copies' = [copies EXCEPT ![m] = [c \in Client |-> IF Wants(c, m) THEN 1 ELSE 0]]
  /\ UNCHANGED <<life, asked, broken>>

Break == broken' = TRUE

Next == \/ \E c \in Client : Arrive(c)
        \/ \E C \in SUBSET Client : Leave(C)
        \/ \E c \in Client, F \in SUBSET Filter : Subscribe(c, F)
        \/ \E m \in Message : Publish(m)
        \/ Break

Spec == Init /\ [][Next]_vars
=============================================================================
