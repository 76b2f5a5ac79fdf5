------------------------------ MODULE MqttStream -----------------------------
(***************************************************************************)
(* An MQTT connection among the protocols that one run checks: the         *)
(* constants and variables of MqttConn with names of their own.            *)
(***************************************************************************)
EXTENDS Integers, Sequences

CONSTANTS MqttTopics, MqttPayloads, MqttIds, MqttClients, MaxPackets, PacketChunks, Garbage

VARIABLES system, wire, buf, looping, owed, events, acks

MQ == INSTANCE MqttConn WITH Topics <- MqttTopics, Payloads <- MqttPayloads, Ids <- MqttIds,
              Clients <- MqttClients, Chunks <- PacketChunks

\* What fits the fields it is written to: two bytes for the length of a string and
\* for an id, four bytes of seven bits for the length of a packet, in which 65539
\* bytes are the topic, the id and their length, and, for CONNECT, one byte, which
\* mg_send_mqtt_handshake_opt writes as it is.  CONNECT has the strings its flags say.
ASSUME MqttAssumption ==
    /\ MqttTopics \subseteq {t \in Seq(Nat) : Len(t) < 65536}
    /\ MqttPayloads \subseteq {p \in Seq(Nat) : Len(p) + 65539 < 128 ^ 4}
    /\ MqttIds \subseteq {id \in Nat : id < 65536} /\ MaxPackets \in Nat
    /\ PacketChunks \subseteq Nat /\ Garbage \subseteq Nat
    /\ \A c \in MqttClients :
          /\ c.flags \in Nat /\ c.strings \in Seq({s \in Seq(Nat) : Len(s) < 65536})
          /\ Len(c.strings) = MQ!StringsExpected(c.flags) /\ Len(MQ!Handshake(c)) < 2 + 128
-----------------------------------------------------------------------------
\* mqtt: packets arrive whole, and PUBLISH is acknowledged once (mqtt_handler,
\* parse_mqtt); PacketsWhole and PublishAcknowledgedOnce say what that means.
MqttPackets == system = "mqtt" => MQ!PacketsWhole /\ MQ!PublishAcknowledgedOnce
=============================================================================
