--------------------------- MODULE MCKafkaPublisher ---------------------------
(***************************************************************************)
(* TLC instances of KafkaPublisher: all requests have QoS 1, so that the   *)
(* producer of QoS 0, where there is one, is always empty.                 *)
(***************************************************************************)
EXTENDS KafkaPublisher

MCQosOf == [r \in Requests |-> 1]
=============================================================================
