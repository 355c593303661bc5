---------------------------- MODULE MCAwsPublisher ----------------------------
(***************************************************************************)
(* The TLC instance of AwsPublisher: a standard and a FIFO queue and a     *)
(* FIFO topic; r2 and r3 carry the same packet identifier, as two clients' *)
(* first messages do.                                                      *)
(***************************************************************************)
EXTENDS AwsPublisher

CONSTANTS r1, r2, r3, r4, r5, standard, fifo, topic

MCQueueOf == [r \in Requests |->
    IF r = r1 THEN standard ELSE IF r = r5 THEN topic ELSE fifo]

MCMessageID == [r \in Requests |-> IF r = r4 THEN 2 ELSE 1]
=============================================================================
