----------------------------- MODULE MCUdpServer -----------------------------
(* Instances of UdpServer for TLC. *)
EXTENDS UdpServer, TLC

CONSTANTS p1, p2, d1, d2, listener, nobody

Peers    == {p1, p2}
Children == {d1, d2}

EitherWay == BOOLEAN

\* An application that answers what it receives, or closes in its stead, or
\* asks for a close between callbacks.
Answers == {"RECV"}
Closes  == {"RECV", "OUTSIDE"}

Symmetry == Permutations(Peers) \cup Permutations(Children)
=============================================================================
