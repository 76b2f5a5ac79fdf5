---------------------------- MODULE MCMqttBroker -----------------------------
(* Instances of MqttBroker for TLC. *)
EXTENDS MqttBroker, TLC

CONSTANTS k1, k2, s1, s2, s3, all, some, m1, m2

Conns    == {k1, k2}
Sessions == {s1, s2, s3}
Filters  == {all, some}
Messages == {m1, m2}

\* "all" matches both messages, "some" the first only.
Matching == {<<all, m1>>, <<all, m2>>, <<some, m1>>}

Symmetry == Permutations(Conns) \cup Permutations(Sessions)
=============================================================================
