------------------------------- MODULE MqttCodec -------------------------------
(***************************************************************************)
(* The codec of pkg/mqtt/codec: control packets of MQTT 3.1.1 and 5 as     *)
(* bytes. A packet is a record: the version whose decoder made it, the     *)
(* type and the flags of the fixed header, and val, its fields. What       *)
(* differs between packet types is the order of the fields and when a      *)
(* field is there: a table per type, read off Write and Unpack of its      *)
(* file. Strings and payloads are sequences of bytes.                      *)
(*                                                                         *)
(* A reader answers "ok", "bad" or, when it would block for more bytes of  *)
(* the stream, "more". Inside the body of a packet it never blocks: a body *)
(* that ends too early is an error.                                        *)
(***************************************************************************)
EXTENDS Naturals, Sequences

CONNECT     == 1
CONNACK     == 2
PUBLISH     == 3
PUBACK      == 4
PUBREC      == 5
PUBREL      == 6
PUBCOMP     == 7
SUBSCRIBE   == 8
SUBACK      == 9
UNSUBSCRIBE == 10
UNSUBACK    == 11
PINGREQ     == 12
PINGRESP    == 13
DISCONNECT  == 14

Drop(b, n) == SubSeq(b, n + 1, Len(b))

(***************************************************************************)
(* Variable byte integers.                                                 *)
(***************************************************************************)

\* WriteUvarint: seven bits to a byte, the lowest first.
WriteUvarint[x \in Nat] ==
    IF x >= 128 THEN <<(x % 128) + 128>> \o WriteUvarint[x \div 128] ELSE <<x>>

\* The value of the first n bytes of b, at most four.
UvarintValue(b, n) ==
    LET Digit(i, weight) == IF i <= n THEN (b[i] % 128) * weight ELSE 0
    IN  Digit(1, 1) + Digit(2, 128) + Digit(3, 16384) + Digit(4, 2097152)

\* ends: the positions at which an integer could end.
UvarintAt(b, n, ends) ==
    CASE ends = {} -> [st |-> IF Len(b) < 10 THEN "more" ELSE "bad",
                       v |-> 0, n |-> 0]
      [] ends # {} /\ n > 4 -> [st |-> "bad", v |-> 0, n |-> 0]
      [] OTHER -> [st |-> "ok", v |-> UvarintValue(b, n), n |-> n]

UvarintEnds(b, ends) ==
    UvarintAt(b, CHOOSE i \in ends : \A j \in ends : i <= j, ends)

\* DecodeUvarint: binary.ReadUvarint gives up after ten bytes without an end;
\* an end later than the fourth is refused after it was read.
DecodeUvarint(b) == UvarintEnds(b, {i \in 1..10 : i <= Len(b) /\ b[i] < 128})

(***************************************************************************)
(* Fields: how a kind of field is written, and read from the front of a    *)
(* body. The length of a string is written modulo 2^16.                    *)
(***************************************************************************)

EncodeUint16(v) == <<v \div 256, v % 256>>

EncodeBytes(s) == EncodeUint16(Len(s) % 65536) \o s

EncodeProperties(s) == WriteUvarint[Len(s)] \o s

NoField == [ok |-> FALSE, v |-> 0, rest |-> <<>>]

\* n bytes of b, read with io.ReadFull after a prefix of skip bytes.
TakeBytes(b, skip, n) ==
    IF Len(b) < skip + n
    THEN NoField
    ELSE [ok |-> TRUE, v |-> SubSeq(b, skip + 1, skip + n),
          rest |-> Drop(b, skip + n)]

DecodeByte(b) ==
    IF b = <<>> THEN NoField ELSE [ok |-> TRUE, v |-> b[1], rest |-> Tail(b)]

DecodeUint16(b) ==
    IF Len(b) < 2
    THEN NoField
    ELSE [ok |-> TRUE, v |-> b[1] * 256 + b[2], rest |-> Drop(b, 2)]

DecodeBytes(b) ==
    LET n == DecodeUint16(b) IN IF n.ok THEN TakeBytes(b, 2, n.v) ELSE NoField

TakeCounted(b, n) ==
    IF n.st = "ok" THEN TakeBytes(b, n.n, n.v) ELSE NoField

DecodeProperties(b) == TakeCounted(b, DecodeUvarint(b))

\* The loops over the topic filters of SUBSCRIBE (each followed by a byte) and
\* UNSUBSCRIBE: the length left counts down to the end of the body. entry[k] is
\* what follows the first k bytes, s a topic there.
DecodeList(b, withQos) ==
    LET End(k, s) == k + 2 + Len(s.v) + IF withQos THEN 1 ELSE 0
        Qos(end) == IF withQos THEN <<b[end]>> ELSE <<>>
        Entry(s, end, next) ==
            IF ~s.ok \/ end > Len(b)
            THEN [ok |-> FALSE, v |-> <<>>]
            ELSE [next[end] EXCEPT !.v = <<<<s.v, Qos(end)>>>> \o @]
        Topic(k, s, next) == Entry(s, End(k, s), next)
        entry[k \in 0..Len(b)] ==
            IF k = Len(b) THEN [ok |-> TRUE, v |-> <<>>]
            ELSE Topic(k, DecodeBytes(Drop(b, k)), entry)
        List(e) == [ok |-> e.ok, v |-> e.v, rest |-> <<>>]
    IN  List(entry[0])

EncodeList(list) ==
    LET enc[i \in 0..Len(list)] ==
            IF i = 0 THEN <<>>
            ELSE enc[i - 1] \o EncodeBytes(list[i][1]) \o list[i][2]
    IN  enc[Len(list)]

\* The flags of CONNECT keep their bits, but the reserved one is not written;
\* those of CONNACK are read as one bit.
EncodeField(kind, v) ==
    CASE kind = "byte"    -> <<v>>
      [] kind = "flags"   -> <<v - (v % 2)>>
      [] kind = "bit"     -> <<v>>
      [] kind = "uint16"  -> EncodeUint16(v)
      [] kind = "bytes"   -> EncodeBytes(v)
      [] kind = "props"   -> EncodeProperties(v)
      [] kind = "rest"    -> v
      [] kind \in {"topics", "filters"} -> EncodeList(v)

DecodeField(kind, b) ==
    CASE kind \in {"byte", "flags"} -> DecodeByte(b)
      [] kind = "bit"     -> LET f == DecodeByte(b) IN [f EXCEPT !.v = @ % 2]
      [] kind = "uint16"  -> DecodeUint16(b)
      [] kind = "bytes"   -> DecodeBytes(b)
      [] kind = "props"   -> DecodeProperties(b)
      [] kind = "rest"    -> [ok |-> TRUE, v |-> b, rest |-> <<>>]
      [] kind = "topics"  -> DecodeList(b, TRUE)
      [] kind = "filters" -> DecodeList(b, FALSE)

\* The zero value of a field that is not there.
ZeroOf(kind) == IF kind \in {"byte", "flags", "bit", "uint16"} THEN 0 ELSE <<>>

(***************************************************************************)
(* The packets, in the order of their fields.                              *)
(***************************************************************************)

F(name, kind) == [name |-> name, kind |-> kind, when |-> "always"]
FIf(when, name, kind) == [name |-> name, kind |-> kind, when |-> when]

MessageID == <<F("MessageID", "uint16")>>
Reason == <<FIf("reason", "ReasonCode", "byte"),
            FIf("reason", "Properties", "props")>>
Login == <<FIf("HasUsername", "Username", "bytes"),
           FIf("HasPassword", "Password", "bytes")>>
ConnectHeader == <<F("ProtocolName", "bytes"), F("ProtocolLevel", "byte"),
                   F("ConnectFlags", "flags"), F("KeepAliveSeconds", "uint16")>>

V311Connect ==
    ConnectHeader
    \o <<F("ClientIdentifier", "bytes"),
         FIf("WillFlag", "WillTopic", "bytes"),
         FIf("WillFlag", "WillMessage", "bytes")>>
    \o Login
V311Connack     == <<F("SessionPresent", "bit"), F("ReturnCode", "byte")>>
V311Publish     == <<F("TopicName", "bytes"), FIf("Qos", "MessageID", "uint16"),
                     F("Message", "rest")>>
V311Puback      == MessageID
V311Pubrec      == MessageID
V311Pubrel      == MessageID
V311Pubcomp     == MessageID
V311Subscribe   == MessageID \o <<F("TopicSubscriptions", "topics")>>
V311Suback      == MessageID \o <<F("ReturnCodes", "rest")>>
V311Unsubscribe == MessageID \o <<F("TopicFilters", "filters")>>
V311Unsuback    == MessageID
V311Pingreq     == <<>>
V311Pingresp    == <<>>
V311Disconnect  == <<>>

V5Connect ==
    ConnectHeader
    \o <<F("ConnectProperties", "props"), F("ClientIdentifier", "bytes"),
         FIf("WillFlag", "WillProperties", "props"),
         FIf("WillFlag", "WillTopic", "bytes"),
         FIf("WillFlag", "WillPayload", "bytes")>>
    \o Login
V5Connack    == V311Connack \o <<F("Properties", "props")>>
V5Publish    == <<F("TopicName", "bytes"), FIf("Qos", "MessageID", "uint16"),
                  F("Properties", "props"), F("Message", "rest")>>
V5Puback     == MessageID \o Reason
V5Pubrec     == MessageID \o Reason
V5Pubrel     == MessageID \o Reason
V5Pubcomp    == MessageID \o Reason
V5Pingreq    == <<>>
V5Pingresp   == <<>>
V5Disconnect == Reason

\* NewControlPacketWithHeader of the two versions: a type that is not in the
\* table is unsupported.
Packets311 ==
    [t \in CONNECT..DISCONNECT |->
        CASE t = CONNECT     -> V311Connect
          [] t = CONNACK     -> V311Connack
          [] t = PUBLISH     -> V311Publish
          [] t = PUBACK      -> V311Puback
          [] t = PUBREC      -> V311Pubrec
          [] t = PUBREL      -> V311Pubrel
          [] t = PUBCOMP     -> V311Pubcomp
          [] t = SUBSCRIBE   -> V311Subscribe
          [] t = SUBACK      -> V311Suback
          [] t = UNSUBSCRIBE -> V311Unsubscribe
          [] t = UNSUBACK    -> V311Unsuback
          [] t = PINGREQ     -> V311Pingreq
          [] t = PINGRESP    -> V311Pingresp
          [] t = DISCONNECT  -> V311Disconnect]

Packets5 ==
    [t \in (CONNECT..DISCONNECT) \ (SUBSCRIBE..UNSUBACK) |->
        CASE t = CONNECT    -> V5Connect
          [] t = CONNACK    -> V5Connack
          [] t = PUBLISH    -> V5Publish
          [] t = PUBACK     -> V5Puback
          [] t = PUBREC     -> V5Pubrec
          [] t = PUBREL     -> V5Pubrel
          [] t = PUBCOMP    -> V5Pubcomp
          [] t = PINGREQ    -> V5Pingreq
          [] t = PINGRESP   -> V5Pingresp
          [] t = DISCONNECT -> V5Disconnect]

Layouts(version) == IF version = 4 THEN Packets311 ELSE Packets5

\* The value of the bit 2^k of flags.
Bit(flags, k) == (flags \div 2^k) % 2 = 1

\* Is a field there, in a packet with these header flags and these fields?
\* The reason code and the properties of a version 5 acknowledgement may be
\* left out together.
Present(when, flags, val, reason) ==
    \/ when = "always"
    \/ when = "Qos" /\ (flags \div 2) % 4 > 0
    \/ when = "WillFlag" /\ Bit(val["ConnectFlags"], 2)
    \/ when = "HasUsername" /\ Bit(val["ConnectFlags"], 7)
    \/ when = "HasPassword" /\ Bit(val["ConnectFlags"], 6)
    \/ when = "reason" /\ reason

(***************************************************************************)
(* Writing and reading a packet.                                           *)
(***************************************************************************)

\* Write writes the reason code only when it or the properties say something.
WritesReason(val) ==
    "ReasonCode" \in DOMAIN val /\ (val.ReasonCode # 0 \/ val.Properties # <<>>)

\* Write of every packet: the body, behind a header with its length. The packets
\* without fields (PINGREQ, PINGRESP, DISCONNECT of 3.1.1) write the length that
\* is stored in their header, which is 0 in a new packet, and only a new
\* PINGRESP is ever written.
Write(p) ==
    LET layout == Layouts(p.version)[p.type]
        body[i \in 0..Len(layout)] ==
            IF i = 0 THEN <<>>
            ELSE LET f == layout[i]
                 IN  body[i - 1]
                     \o IF Present(f.when, p.flags, p.val, WritesReason(p.val))
                        THEN EncodeField(f.kind, p.val[f.name]) ELSE <<>>
    IN  <<p.type * 16 + p.flags>> \o WriteUvarint[Len(body[Len(layout)])]
        \o body[Len(layout)]

\* Unpack decides by the remaining length whether the reason code is there.
ReadsReason(type, length) == length # IF type = DISCONNECT THEN 0 ELSE 2

\* The zero packet of NewControlPacketWithHeader.
ZeroVal(layout) ==
    [n \in {layout[i].name : i \in 1..Len(layout)} |->
        LET i == CHOOSE i \in 1..Len(layout) : layout[i].name = n
        IN  ZeroOf(layout[i].kind)]

\* The packet s, with the field f of it as d was read.
SetField(s, f, d) ==
    [ok |-> d.ok, rest |-> d.rest, val |-> [s.val EXCEPT ![f.name] = d.v]]

UnpackField(s, f, h) ==
    IF s.ok /\ Present(f.when, h.flags, s.val, ReadsReason(h.type, h.length))
    THEN SetField(s, f, DecodeField(f.kind, s.rest))
    ELSE s

UnpackFields(layout, h, body) ==
    LET step[i \in 0..Len(layout)] ==
            IF i = 0 THEN [ok |-> TRUE, val |-> ZeroVal(layout), rest |-> body]
            ELSE UnpackField(step[i - 1], layout[i], h)
    IN  step[Len(layout)]

\* Unpack of every packet: the fields in order, from a body of the length the
\* header announced. Bytes behind the last field are ignored.
Unpack(version, h, body) == UnpackFields(Layouts(version)[h.type], h, body)

Stop(st) == [st |-> st, packet |-> <<>>, used |-> 0]

\* FixedHeader.Unpack. Validate adds nothing: a length of four bytes cannot
\* exceed the maximum.
HeaderWith(b, u) ==
    IF b = <<>>
    THEN [st |-> "more", type |-> 0, flags |-> 0, length |-> 0, n |-> 0]
    ELSE [st |-> u.st, type |-> b[1] \div 16, flags |-> b[1] % 16,
          length |-> u.v, n |-> 1 + u.n]

ReadHeader(b) == HeaderWith(b, DecodeUvarint(Tail(b)))

\* ReadPacket of v311 and v5 behind the header: an unsupported type is refused
\* before the body is read.
PacketWith(version, h, u) ==
    IF ~u.ok THEN Stop("bad")
    ELSE [st |-> "ok", used |-> h.n + h.length,
          packet |-> [version |-> version, type |-> h.type,
                      flags |-> h.flags, val |-> u.val]]

ReadBody(version, b, h) ==
    CASE h.st # "ok" -> Stop(h.st)
      [] h.st = "ok" /\ h.type \notin DOMAIN Layouts(version) -> Stop("bad")
      [] OTHER ->
            IF Len(b) < h.n + h.length THEN Stop("more")
            ELSE PacketWith(version, h,
                     Unpack(version, h, SubSeq(b, h.n + 1, h.n + h.length)))

ReadPacketOf(version, b) == ReadBody(version, b, ReadHeader(b))

\* readConnectVersion: the name and the level of a CONNECT, read from the
\* stream whatever length the header announced.
NoVersion(st) == [st |-> st, version |-> 0, n |-> 0]

VersionAt(b, at) ==
    IF Len(b) < at THEN NoVersion("more")
    ELSE [st |-> "ok", version |-> b[at], n |-> at]

VersionBehind(b, h, name) ==
    CASE h.st # "ok" -> NoVersion(h.st)
      [] h.st = "ok" /\ h.type # CONNECT -> NoVersion("bad")
      [] OTHER -> IF name.ok THEN VersionAt(b, h.n + 3 + Len(name.v))
                  ELSE NoVersion("more")

ReadVersion(b, h) == VersionBehind(b, h, DecodeBytes(Drop(b, h.n)))

ReadConnectVersion(b) == ReadVersion(b, ReadHeader(b))

Known(c) == c.st = "ok" /\ c.version \in {4, 5}

Unknown(c) == Stop(IF c.st = "ok" THEN "refused" ELSE c.st)

\* ReadPacket: the first packet tells the version, and is then read again from
\* the replayed bytes and the rest of the stream. What was read for the
\* version is gone from the stream even if the packet is shorter.
ReadPacket(b, version) ==
    LET First(c) == IF Known(c)
                    THEN [ReadPacketOf(c.version, b)
                             EXCEPT !.used = IF @ > c.n THEN @ ELSE c.n]
                    ELSE Unknown(c)
    IN  IF version # 0 THEN ReadPacketOf(version, b)
        ELSE First(ReadConnectVersion(b))
=============================================================================
