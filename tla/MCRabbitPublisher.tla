--------------------------- MODULE MCRabbitPublisher ---------------------------
(***************************************************************************)
(* The TLC instance of RabbitPublisher: r1 and r2 share the client of QoS  *)
(* 1, r3 has that of QoS 0.                                                *)
(***************************************************************************)
EXTENDS RabbitPublisher

CONSTANTS r1, r2, r3

MCQosOf == [r \in Requests |-> IF r = r3 THEN 0 ELSE 1]
=============================================================================
