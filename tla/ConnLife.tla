------------------------------- MODULE ConnLife ------------------------------
(***************************************************************************)
(* What the library promises an application about each connection, with    *)
(* sockets, watchers, timers and buffers left out.  A connection is        *)
(* absent, then opening (or open at once, or a listener), then open, then  *)
(* gone for good.  The application is told that it opened in the very step *)
(* in which it counts as open, and of the end in the step in which it goes;*)
(* between such steps it is told nothing.                                  *)
(***************************************************************************)
CONSTANTS Conn

VARIABLES
  state,   \* state[n]: where connection n is in its life
  told     \* told[n]: the announcements the application has had about n

vars == <<state, told>>

States        == {"absent", "opening", "listening", "open", "gone"}
Announcements == {"OPENED", "FAILED", "CLOSED"}

TypeOK == /\ state \in [Conn -> States]
          /\ told \in [Conn -> SUBSET Announcements]

Init == /\ state = [n \in Conn |-> "absent"]
        /\ told = [n \in Conn |-> {}]

\* The states one step can lead to; a connection whose whole life fits in the
\* last poll of the manager goes from absent to gone.
Successors(s) ==
  CASE s = "absent"    -> States
    [] s = "opening"   -> {"opening", "open", "gone"}
    [] s = "listening" -> {"listening", "gone"}
    [] s = "open"      -> {"open", "gone"}
    [] s = "gone"      -> {"gone"}

\* What the application knows in a given state.
Knows(s, t) ==
  CASE s \in {"absent", "opening", "listening"} -> t = {}
    [] s = "open" -> t = {"OPENED"}
    [] s = "gone" -> "CLOSED" \in t

Move(n) == /\ state'[n] \in Successors(state[n])
           /\ told[n] \subseteq told'[n]
           /\ Knows(state'[n], told'[n])
           /\ state'[n] = state[n] => told'[n] = told[n]

Next == /\ state' \in [Conn -> States]
        /\ told' \in [Conn -> SUBSET Announcements]
        /\ \A n \in Conn : Move(n)

Spec == Init /\ [][Next]_vars
=============================================================================
