------------------------------ MODULE MCSocketIf -----------------------------
(* Instances of SocketIf for TLC. *)
EXTENDS SocketIf, TLC

CONSTANTS c1, c2

One   == {c1}
Two   == {c1, c2}

Plain == {FALSE}
Both  == BOOLEAN

\* An application that sends and closes from every handler and from outside.
AnyContext == Contexts
\* One that sends where it may without postponing the connect timeout.
SendsWhenOpen == {"CONNECT", "RECV", "SEND"}

Symmetry == Permutations(Conn)
=============================================================================
