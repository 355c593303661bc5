----------------------------- MODULE StoreThenAck -----------------------------
(***************************************************************************)
(* What the proxy promises an MQTT client, seen from outside: a message is *)
(* stored by the broker only if the client sent it, and acknowledged only  *)
(* if it is stored (for messages whose QoS and publisher make "ok" mean    *)
(* that). Nothing sent, stored or acknowledged is taken back.              *)
(***************************************************************************)
CONSTANTS Messages, Durable
VARIABLES sent, stored, acked

Init == sent = {} /\ stored = {} /\ acked = {}

Send(m) ==
    /\ m \notin sent
    /\ sent' = sent \cup {m}
    /\ UNCHANGED <<stored, acked>>

Store(m) ==
    /\ m \in sent \ stored
    /\ stored' = stored \cup {m}
    /\ UNCHANGED <<sent, acked>>

Ack(m) ==
    /\ m \in sent \ acked
    /\ m \in Durable => m \in stored
    /\ acked' = acked \cup {m}
    /\ UNCHANGED <<sent, stored>>

Next == \E m \in Messages : Send(m) \/ Store(m) \/ Ack(m)

Spec == Init /\ [][Next]_<<sent, stored, acked>>
=============================================================================
