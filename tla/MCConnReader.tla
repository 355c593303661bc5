----------------------------- MODULE MCConnReader -----------------------------
(***************************************************************************)
(* Packets of every type and version, small but for a PUBLISH with 128     *)
(* bytes in its body; frames that are no packet.                           *)
(***************************************************************************)
EXTENDS ConnReader, TLC

P(v, t, f, val) == [version |-> v, type |-> t, flags |-> f, val |-> val]

MQTT == <<77, 81, 84, 84>>
Long == [i \in 1..123 |-> i]

WillOf(flags, b) == IF Bit(flags, 2) THEN b ELSE <<>>

ConnectVal(level, flags, k) ==
    [ProtocolName |-> MQTT, ProtocolLevel |-> level, ConnectFlags |-> flags,
     KeepAliveSeconds |-> k, ClientIdentifier |-> <<>>,
     Username |-> IF flags >= 128 THEN <<7>> ELSE <<>>,
     Password |-> IF flags >= 128 THEN <<8, 9>> ELSE <<>>,
     WillTopic |-> WillOf(flags, <<5>>)]

Connect311(flags, k) ==
    P(4, CONNECT, 0, ConnectVal(4, flags, k)
        @@ "WillMessage" :> WillOf(flags, <<6>>))

Connect5(flags, k) ==
    P(5, CONNECT, 0, ConnectVal(5, flags, k)
        @@ "ConnectProperties" :> <<33, 0, 9>>
        @@ "WillPayload" :> WillOf(flags, <<6>>)
        @@ "WillProperties" :> WillOf(flags, <<1, 1>>))

ID == [MessageID |-> 258]
ReasonVal(c, props) == [ReasonCode |-> c, Properties |-> props]

Publish(id, message) ==
    [TopicName |-> <<1>>, MessageID |-> id, Message |-> message]

\* In version 3.1.1: a will, a name and a password, no keep-alive, a CONNECT of
\* an older level, and every other type of packet.
Packets311MC ==
    {Connect311(2, 2), Connect311(198, 4), Connect311(0, 0),
     P(4, CONNECT, 0, ConnectVal(3, 2, 2) @@ "WillMessage" :> <<>>),
     P(4, CONNACK, 0, [SessionPresent |-> 1, ReturnCode |-> 5]),
     P(4, PUBLISH, 1, Publish(0, <<2>>)),
     P(4, PUBLISH, 10, Publish(258, Long)),
     P(4, SUBSCRIBE, 2, ID @@ "TopicSubscriptions" :>
                             <<<<<<1, 2>>, <<0>>>>, <<<<>>, <<1>>>>>>),
     P(4, SUBACK, 0, ID @@ "ReturnCodes" :> <<0, 128>>),
     P(4, UNSUBSCRIBE, 2, ID @@ "TopicFilters" :> <<<<<<1>>, <<>>>>>>),
     P(4, PINGREQ, 0, <<>>), P(4, PINGRESP, 0, <<>>), P(4, DISCONNECT, 0, <<>>)}
    \cup {P(4, t, 2, ID) : t \in {PUBACK, PUBREC, PUBREL, PUBCOMP, UNSUBACK}}

\* In version 5: properties, and acknowledgements with and without a reason.
Packets5MC ==
    {Connect5(2, 2), Connect5(198, 1),
     P(5, CONNACK, 0, [SessionPresent |-> 0, ReturnCode |-> 134]
                      @@ "Properties" :> <<3>>),
     P(5, PUBLISH, 0, Publish(0, <<>>) @@ "Properties" :> <<35, 0, 1>>),
     P(5, PUBLISH, 4, Publish(258, <<6, 7>>) @@ "Properties" :> <<>>),
     P(5, PUBREL, 2, ID @@ ReasonVal(0, <<>>)),
     P(5, PUBREC, 0, ID @@ ReasonVal(0, <<3>>)),
     P(5, PINGREQ, 0, <<>>), P(5, PINGRESP, 0, <<>>),
     P(5, DISCONNECT, 0, ReasonVal(0, <<>>)),
     P(5, DISCONNECT, 0, ReasonVal(4, <<>>))}
    \cup {P(5, t, 0, ID @@ ReasonVal(16, <<>>)) : t \in {PUBACK, PUBCOMP}}

MCPackets == Packets311MC \cup Packets5MC

\* What follows directly on another packet, of any type, or on junk.
MCPipelined ==
    {p \in MCPackets : \/ p.type = PINGREQ
                       \/ p.type = PUBLISH /\ p.flags < 2}

\* A CONNECT that ends inside its protocol name, with a PINGREQ in the bytes
\* behind; a length of five bytes; a PUBLISH shorter than its topic; type 15. In
\* version 5, a PUBREL with a reason code and no properties, and a SUBSCRIBE.
JunkMC ==
    {<<16, 4, 0, 4>> \o MQTT \o <<4, 192, 0>>,
     <<48, 128, 128, 128, 128, 0>>,
     <<50, 4, 0, 9, 1, 1>>,
     <<240, 0>>}

MCJunk == (4 :> JunkMC) @@ (5 :> JunkMC \cup {<<98, 3, 1, 2, 16>>,
                                              <<130, 6, 1, 2, 0, 1, 7, 0>>})
=============================================================================
