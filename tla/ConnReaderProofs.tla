---------------------------- MODULE ConnReaderProofs ----------------------------
(***************************************************************************)
(* Theorems about the reading side of a connection, for all packets, junk, *)
(* timeouts and bounds of ConnReader: the deadlines of its waits, the      *)
(* place of the reader in the stream, and the client that keeps its        *)
(* keep-alive. The lemmas about the codec are what they need: the numbers  *)
(* it decodes, and that what it reads does not depend on what follows.     *)
(***************************************************************************)
EXTENDS ConnReader, SequenceTheorems, WellFoundedInduction, TLAPS

(*****************************************************************************)
(* Induction over the naturals, and bytes.                                   *)
(*****************************************************************************)
\* The order of the naturals is well-founded.
LEMMA NatOrder ==
    \E R : IsWellFoundedOn(R, Nat) /\ \A x, y \in Nat : <<x, y>> \in R <=> x < y
<1>1. \A x, y \in Nat : <<x, y>> \in OpToRel(<, Nat) <=> x < y
  BY DEF OpToRel
<1> QED
  BY <1>1, NatLessThanWellFounded, Zenon

\* A set of naturals that is not empty has a least element.
LEMMA Least ==
    ASSUME NEW T \in SUBSET Nat, T # {}
    PROVE  \E x \in T : \A y \in T : x <= y
<1>1. PICK R : IsWellFoundedOn(R, Nat) /\ \A x, y \in Nat : <<x, y>> \in R <=> x < y
  BY NatOrder
<1>2. IsWellFoundedOn(R, Nat)
  BY <1>1
<1>3. PICK x \in T : \A y \in T : ~ (<<y, x>> \in R)
  BY <1>2, WFMin
<1>4. \A y \in T : ~(y < x)
  BY <1>1, <1>3
<1> QED
  BY <1>3, <1>4

\* Induction over the naturals, with a set for the statement.
LEMMA Induct ==
    ASSUME NEW S, 0 \in S, \A n \in Nat : n \in S => n + 1 \in S
    PROVE  Nat \subseteq S
<1> SUFFICES ASSUME Nat \ S # {} PROVE FALSE
  OBVIOUS
<1>1. PICK n \in Nat \ S : \A y \in Nat \ S : n <= y
  BY Least
<1>2. n # 0 /\ n - 1 \in Nat
  BY <1>1
<1> QED
  BY <1>1, <1>2

\* A sequence of bytes has a byte at each of its places.
LEMMA ByteAt ==
    ASSUME NEW b \in Bytes, NEW i \in Nat \ {0}, i <= Len(b)
    PROVE  b[i] \in Byte
<1>1. Len(b) \in Nat
  BY LenProperties DEF Bytes
<1> QED
  BY <1>1, ElementOfSeq DEF Bytes

\* What is left of a sequence of bytes is one.
LEMMA DropBytes ==
    ASSUME NEW b \in Bytes, NEW n \in Nat PROVE Drop(b, n) \in Bytes
<1>1. Len(b) \in Nat
  BY LenProperties DEF Bytes
<1>2. \A i \in n + 1..Len(b) : b[i] \in Byte
  BY <1>1, ByteAt
<1> QED
  BY <1>1, <1>2, SubSeqProperties DEF Drop, Bytes

\* So is what is left behind a field (codec/proto/encoding.go).
LEMMA TakeRest ==
    ASSUME NEW b \in Bytes, NEW skip \in Nat, NEW n \in Nat,
           TakeBytes(b, skip, n).ok
    PROVE  TakeBytes(b, skip, n).rest \in Bytes
BY DropBytes DEF TakeBytes, NoField

\* Two bytes are decoded to a number (codec/proto/encoding.go).
LEMMA Uint16 ==
    ASSUME NEW b \in Bytes, DecodeUint16(b).ok
    PROVE  DecodeUint16(b).v \in Nat
<1>1. Len(b) >= 2 /\ DecodeUint16(b).v = b[1] * 256 + b[2]
  BY LenProperties DEF DecodeUint16, NoField, Bytes
<1>2. b[1] \in Byte /\ b[2] \in Byte
  BY <1>1, ByteAt, LenProperties DEF Bytes
<1>3. b[1] \in Nat /\ b[2] \in Nat
  BY <1>2, Byte \subseteq Nat DEF Byte
<1> QED
  BY <1>1, <1>3

\* The length of a string that was read is a number, and bytes are left.
LEMMA StringRead ==
    ASSUME NEW b \in Bytes, DecodeBytes(b).ok
    PROVE  Len(DecodeBytes(b).v) \in Nat /\ DecodeBytes(b).rest \in Bytes
<1> DEFINE n == DecodeUint16(b).v
<1>1. DecodeUint16(b).ok
  BY DEF DecodeBytes, NoField
<1>2. n \in Nat
  BY <1>1, Uint16
<1>3. DecodeBytes(b) = TakeBytes(b, 2, n)
  BY <1>1 DEF DecodeBytes
<1>4. DecodeBytes(b).rest \in Bytes
  BY <1>2, <1>3, TakeRest
<1>5. Len(b) \in Nat
  BY LenProperties DEF Bytes
<1>8. ~(Len(b) < 2 + n) /\ DecodeBytes(b).v = SubSeq(b, 2 + 1, 2 + n)
  <2> HIDE DEF n
  <2> QED
    BY <1>2, <1>3, <1>5 DEF TakeBytes, NoField
<1>6. \A i \in 2 + 1..2 + n : b[i] \in Byte
  BY <1>2, <1>5, <1>8, ByteAt
<1>7. DecodeBytes(b).v \in Seq(Byte)
  BY <1>2, <1>8, <1>6, SubSeqProperties
<1> QED
  BY <1>4, <1>7, LenProperties

\* Behind each of the first three fields of a CONNECT bytes are left.
LEMMA HeaderFields ==
    ASSUME NEW b \in Bytes, NEW kind \in {"bytes", "byte", "flags"},
           DecodeField(kind, b).ok
    PROVE  DecodeField(kind, b).rest \in Bytes
<1>1. CASE kind \in {"byte", "flags"}
  BY <1>1, HeadTailProperties DEF DecodeField, DecodeByte, NoField, Bytes
<1>2. CASE kind = "bytes"
  <2>1. DecodeBytes(b).ok
    BY <1>2 DEF DecodeField
  <2> QED
    BY <1>2, <2>1, StringRead DEF DecodeField
<1> QED
  BY <1>1, <1>2

\* The fields of a CONNECT behind its header, and all of them.
OtherField ==
    {F("ConnectProperties", "props"), F("ClientIdentifier", "bytes"),
     FIf("WillFlag", "WillProperties", "props"),
     FIf("WillFlag", "WillTopic", "bytes"),
     FIf("WillFlag", "WillMessage", "bytes"),
     FIf("WillFlag", "WillPayload", "bytes"),
     FIf("HasUsername", "Username", "bytes"),
     FIf("HasPassword", "Password", "bytes")}
Field ==
    {F("ProtocolName", "bytes"), F("ProtocolLevel", "byte"),
     F("ConnectFlags", "flags"), F("KeepAliveSeconds", "uint16")}
    \cup OtherField

\* No other field of a CONNECT bears the name of the keep-alive.
LEMMA OtherNames == \A f \in OtherField : f.name # "KeepAliveSeconds"
BY DEF OtherField, F, FIf

\* The fields of a CONNECT: four of the header, then fields of the payload.
LEMMA Layout ==
    ASSUME NEW h \in Seq(Field), Len(h) = 4,
           NEW p \in Seq(OtherField), NEW q \in Seq(OtherField)
    PROVE  /\ Len(h \o p \o q) = 4 + Len(p) + Len(q)
           /\ \A i \in 1..4 : (h \o p \o q)[i] = h[i]
           /\ \A i \in 5..Len(h \o p \o q) :
                  (h \o p \o q)[i] \in OtherField
<1>1. p \in Seq(Field) /\ q \in Seq(Field)
  BY SeqMonotonic DEF Field
<1>4. Len(p) \in Nat /\ Len(q) \in Nat
  BY LenProperties
<1>6. /\ h \o p \in Seq(Field) /\ Len(h \o p) = Len(h) + Len(p)
      /\ \A i \in 1..Len(h) + Len(p) :
            (h \o p)[i] = IF i <= Len(h) THEN h[i] ELSE p[i - Len(h)]
  BY <1>1, ConcatProperties
<1>2. /\ h \o p \in Seq(Field) /\ Len(h \o p) = 4 + Len(p)
      /\ \A i \in 1..4 + Len(p) :
            (h \o p)[i] = IF i <= 4 THEN h[i] ELSE p[i - 4]
  BY <1>4, <1>6
<1>7. /\ Len(h \o p \o q) = Len(h \o p) + Len(q)
      /\ \A i \in 1..Len(h \o p) + Len(q) :
            (h \o p \o q)[i] = IF i <= Len(h \o p) THEN (h \o p)[i]
                               ELSE q[i - Len(h \o p)]
  BY <1>1, <1>2, ConcatProperties
<1>3. /\ Len(h \o p \o q) = 4 + Len(p) + Len(q)
      /\ \A i \in 1..4 + Len(p) + Len(q) :
            (h \o p \o q)[i] = IF i <= 4 + Len(p) THEN (h \o p)[i]
                               ELSE q[i - (4 + Len(p))]
  BY <1>2, <1>4, <1>7
<1>5. /\ \A i \in 1..Len(p) : p[i] \in OtherField
      /\ \A i \in 1..Len(q) : q[i] \in OtherField
  BY ElementOfSeq
<1> QED
  BY <1>2, <1>3, <1>4, <1>5

\* The fields of a CONNECT, as far as the keep-alive depends on them.
KeepAliveFourth(L) ==
    /\ Len(L) \in Nat /\ Len(L) >= 4
    /\ L[1].kind = "bytes" /\ L[2].kind = "byte" /\ L[3].kind = "flags"
    /\ L[4] = F("KeepAliveSeconds", "uint16")
    /\ \A i \in 5..Len(L) : L[i].name # "KeepAliveSeconds"

\* In both versions the keep-alive is the fourth field of a CONNECT, and only
\* that (v311/connect.go, v5/connect.go).
LEMMA ConnectLayout ==
    ASSUME NEW v \in {4, 5}
    PROVE  KeepAliveFourth(Layouts(v)[CONNECT])
<1> DEFINE P4 == <<F("ClientIdentifier", "bytes"),
                   FIf("WillFlag", "WillTopic", "bytes"),
                   FIf("WillFlag", "WillMessage", "bytes")>>
           P5 == <<F("ConnectProperties", "props"), F("ClientIdentifier", "bytes"),
                   FIf("WillFlag", "WillProperties", "props"),
                   FIf("WillFlag", "WillTopic", "bytes"),
                   FIf("WillFlag", "WillPayload", "bytes")>>
<1>1. CONNECT \in CONNECT..DISCONNECT /\ CONNECT \notin SUBSCRIBE..UNSUBACK
  BY DEF CONNECT, DISCONNECT, SUBSCRIBE, UNSUBACK
<1>2. Layouts(4)[CONNECT] = V311Connect /\ Layouts(5)[CONNECT] = V5Connect
  BY <1>1 DEF Layouts, Packets311, Packets5, CONNECT, CONNACK, PUBLISH,
     PUBACK, PUBREC, PUBREL, PUBCOMP, SUBSCRIBE, SUBACK, UNSUBSCRIBE,
     UNSUBACK, PINGREQ, PINGRESP, DISCONNECT
<1>3. /\ ConnectHeader \in Seq(Field) /\ Len(ConnectHeader) = 4
      /\ Login \in Seq(OtherField)
      /\ P4 \in Seq(OtherField) /\ P5 \in Seq(OtherField)
  <2>4. ConnectHeader \in Seq(Field) /\ Len(ConnectHeader) = 4
    BY DEF ConnectHeader, Field
  <2>5. Login \in Seq(OtherField)
    BY DEF Login, OtherField
  <2>6. P4 \in Seq(OtherField) /\ P5 \in Seq(OtherField)
    BY DEF OtherField
  <2> QED
    BY <2>4, <2>5, <2>6
<1>4. /\ ConnectHeader[1].kind = "bytes" /\ ConnectHeader[2].kind = "byte"
      /\ ConnectHeader[3].kind = "flags"
      /\ ConnectHeader[4] = F("KeepAliveSeconds", "uint16")
  BY DEF ConnectHeader, F
<1>5. V311Connect = ConnectHeader \o P4 \o Login /\ V5Connect = ConnectHeader \o P5 \o Login
  BY DEF V311Connect, V5Connect
<1> HIDE DEF P4, P5
<1>6. ASSUME NEW p \in Seq(OtherField)
      PROVE  KeepAliveFourth(ConnectHeader \o p \o Login)
  <2> DEFINE L == ConnectHeader \o p \o Login
  <2>1. Len(p) \in Nat /\ Len(Login) \in Nat
    BY <1>3, LenProperties
  <2>2. /\ Len(L) = 4 + Len(p) + Len(Login)
        /\ \A i \in 1..4 : L[i] = ConnectHeader[i]
        /\ \A i \in 5..Len(L) : L[i] \in OtherField
    BY <1>3, Layout
  <2> SUFFICES KeepAliveFourth(L)
    OBVIOUS
  <2> HIDE DEF L
  <2> QED
    BY <1>4, <2>1, <2>2, OtherNames DEF KeepAliveFourth
<1>7. KeepAliveFourth(V311Connect) /\ KeepAliveFourth(V5Connect)
  BY <1>3, <1>5, <1>6
<1> QED
  BY <1>2, <1>7

(*****************************************************************************)
(* What is decoded: lengths are numbers, and so is a keep-alive.             *)
(*****************************************************************************)
\* The fields of a packet are read one behind the other: the recursion of
\* UnpackFields.
LEMMA UnpackSteps ==
    ASSUME NEW layout, Len(layout) \in Nat, NEW h, NEW body
    PROVE  \E s : /\ s[0] = [ok |-> TRUE, val |-> ZeroVal(layout), rest |-> body]
                  /\ \A i \in 1..Len(layout) :
                        s[i] = UnpackField(s[i - 1], layout[i], h)
                  /\ UnpackFields(layout, h, body) = s[Len(layout)]
<1> DEFINE Zero == [ok |-> TRUE, val |-> ZeroVal(layout), rest |-> body]
           Rec(g, i) == IF i = 0 THEN Zero
                        ELSE UnpackField(g[i - 1], layout[i], h)
           Steps(n) == CHOOSE g : g = [i \in 0..n |-> Rec(g, i)]
           S == {n \in Nat : \E g : g = [i \in 0..n |-> Rec(g, i)]}
<1>1. UnpackFields(layout, h, body) = Steps(Len(layout))[Len(layout)]
  BY DEF UnpackFields
<1>2. 0 \in S
  <2>1. LET g == [i \in 0..0 |-> Zero] IN g = [i \in 0..0 |-> Rec(g, i)]
    OBVIOUS
  <2> QED
    BY <2>1
<1>3. ASSUME NEW n \in Nat, n \in S PROVE n + 1 \in S
  <2> HIDE DEF Rec
  <2>1. PICK g : g = [i \in 0..n |-> Rec(g, i)]
    BY <1>3
  <2> DEFINE g1 == [i \in 0..n + 1 |-> IF i = n + 1 THEN Rec(g, i) ELSE g[i]]
  <2>2. \A i \in 0..n : g1[i] = g[i] /\ g[i] = Rec(g, i)
    <3>1. \A i \in 0..n : g[i] = Rec(g, i)
      BY <2>1
    <3>2. \A i \in 0..n : i \in 0..n + 1 /\ i # n + 1
      OBVIOUS
    <3> QED
      BY <3>1, <3>2
  <2>3. g1[n + 1] = Rec(g, n + 1)
    OBVIOUS
  <2> HIDE DEF g1
  <2>4. \A i \in 0..n + 1 : Rec(g1, i) = Rec(g, i)
    BY <2>2 DEF Rec
  <2>5. \A i \in 0..n + 1 : g1[i] = Rec(g1, i)
    <3>1. \A i \in 0..n + 1 : i \in 0..n \/ i = n + 1
      OBVIOUS
    <3> QED
      BY <2>2, <2>3, <2>4, <3>1
  <2>6. g1 = [i \in 0..n + 1 |-> Rec(g1, i)]
    BY <2>5 DEF g1
  <2> QED
    BY <2>6
<1>4. Len(layout) \in S
  BY <1>2, <1>3, Induct
<1> DEFINE s == Steps(Len(layout))
<1>5. s = [i \in 0..Len(layout) |-> Rec(s, i)]
  BY <1>4
<1> HIDE DEF Rec, s
<1>6. \A i \in 0..Len(layout) : s[i] = Rec(s, i)
  BY <1>5
<1>7. s[0] = Zero
  <2>1. Rec(s, 0) = Zero
    BY DEF Rec
  <2>2. 0 \in 0..Len(layout)
    OBVIOUS
  <2> QED
    BY <1>6, <2>1, <2>2
<1>8. \A i \in 1..Len(layout) : s[i] = UnpackField(s[i - 1], layout[i], h)
  BY <1>6 DEF Rec
<1> QED
  BY <1>1, <1>7, <1>8 DEF s

\* The keep-alive of a CONNECT that was read is a number.
LEMMA KeepAliveDecoded ==
    ASSUME NEW layout, KeepAliveFourth(layout), NEW h, NEW body \in Bytes,
           UnpackFields(layout, h, body).ok
    PROVE  UnpackFields(layout, h, body).val.KeepAliveSeconds \in Nat
<1> DEFINE KA == "KeepAliveSeconds"
           N == Len(layout)
           Names == {layout[i].name : i \in 1..N}
<1>1. PICK s : /\ s[0] = [ok |-> TRUE, val |-> ZeroVal(layout), rest |-> body]
               /\ \A i \in 1..N : s[i] = UnpackField(s[i - 1], layout[i], h)
               /\ UnpackFields(layout, h, body) = s[N]
  BY UnpackSteps DEF KeepAliveFourth
<1> DEFINE P(i) == /\ s[i].val = [n \in Names |-> s[i].val[n]]
                   /\ s[i].ok /\ i < 4 => s[i].rest \in Bytes
                   /\ s[i].ok /\ i >= 4 => s[i].val[KA] \in Nat
           S == {i \in Nat : i <= N => P(i)}
<1>2. N \in Nat /\ N >= 4 /\ KA \in Names
  BY DEF KeepAliveFourth, F
<1>3. 0 \in S
  BY <1>1 DEF ZeroVal
<1>4. ASSUME NEW n \in Nat, n \in S, n + 1 <= N PROVE P(n + 1)
  <2> DEFINE f == layout[n + 1]
             d == DecodeField(f.kind, s[n].rest)
  <2>1. P(n) /\ n + 1 \in 1..N /\ (n + 1) - 1 = n
    BY <1>2, <1>4
  <2>2. s[n + 1] = UnpackField(s[n], f, h)
    BY <1>1, <2>1
  <2>3. CASE s[n].ok /\ s[n + 1] = SetField(s[n], f, d)
    <3>1. /\ s[n + 1].ok = d.ok /\ s[n + 1].rest = d.rest
          /\ s[n + 1].val = [s[n].val EXCEPT ![f.name] = d.v]
      BY <2>3 DEF SetField
    <3>2. s[n + 1].val = [m \in Names |-> s[n + 1].val[m]]
      BY <2>1, <3>1
    <3>3. CASE n < 3
      <4>1. f.kind \in {"bytes", "byte", "flags"}
        BY <1>2, <3>3 DEF KeepAliveFourth
      <4>2. s[n].ok /\ d.ok => d.rest \in Bytes
        BY <2>1, <3>3, <4>1, HeaderFields
      <4> QED
        BY <2>3, <3>1, <3>2, <3>3, <4>2
    <3>4. CASE n = 3
      <4>1. f.kind = "uint16" /\ f.name = KA
        BY <3>4 DEF KeepAliveFourth, F
      <4>2. s[n].ok /\ d.ok => d.v \in Nat
        BY <2>1, <3>4, <4>1, Uint16 DEF DecodeField
      <4>3. s[n + 1].val[KA] = d.v
        BY <1>2, <2>1, <3>1, <4>1
      <4>4. ~(n + 1 < 4) /\ (s[n + 1].ok => s[n + 1].val[KA] \in Nat)
        BY <2>3, <3>1, <3>4, <4>2, <4>3
      <4> HIDE DEF f, d
      <4> QED
        BY <3>2, <4>4
    <3>5. CASE n > 3
      <4>1. f.name # KA
        BY <1>2, <2>1, <3>5 DEF KeepAliveFourth
      <4>2. s[n + 1].val[KA] = s[n].val[KA]
        BY <1>2, <2>1, <3>1, <4>1
      <4>3. n >= 4 /\ s[n].val[KA] \in Nat
        BY <2>1, <2>3, <3>5
      <4>4. s[n + 1].val[KA] \in Nat /\ ~(n + 1 < 4)
        BY <4>2, <4>3
      <4> QED
        BY <3>2, <4>4
    <3> QED
      BY <3>3, <3>4, <3>5
  <2>4. CASE s[n + 1] = s[n] /\ (n = 3 => ~ s[n].ok)
    BY <2>1, <2>4
  <2>5. n = 3 => f.when = "always"
    BY DEF KeepAliveFourth, F
  <2> DEFINE present == Present(f.when, h.flags, s[n].val, ReadsReason(h.type, h.length))
  <2>7. s[n + 1] = IF s[n].ok /\ present THEN SetField(s[n], f, d) ELSE s[n]
    BY <2>2 DEF UnpackField
  <2>8. n = 3 => present
    BY <2>5 DEF Present
  <2> HIDE DEF f, d, present
  <2>6. \/ s[n].ok /\ s[n + 1] = SetField(s[n], f, d)
        \/ s[n + 1] = s[n] /\ (n = 3 => ~ s[n].ok)
    BY <2>7, <2>8
  <2> QED
    BY <2>3, <2>4, <2>6
<1>5. P(N)
  <2> HIDE DEF P
  <2>1. \A n \in Nat : n \in S => n + 1 \in S
    BY <1>2, <1>4
  <2>2. Nat \subseteq S
    BY <1>3, <2>1, Induct
  <2> QED
    BY <1>2, <2>2
<1> QED
  BY <1>1, <1>2, <1>5

\* A variable byte integer that was read is a number, and takes a byte or more.
LEMMA UvarintDecoded ==
    ASSUME NEW b \in Bytes, DecodeUvarint(b).st = "ok"
    PROVE  DecodeUvarint(b).v \in Nat /\ DecodeUvarint(b).n \in Nat \ {0}
<1> DEFINE ends == {i \in 1..10 : i <= Len(b) /\ b[i] < 128}
           n == CHOOSE i \in ends : \A j \in ends : i <= j
<1>1. DecodeUvarint(b) = UvarintAt(b, n, ends)
  BY DEF DecodeUvarint, UvarintEnds
<1> HIDE DEF n, ends
<1>2. ends # {} /\ DecodeUvarint(b) = [st |-> "ok", v |-> UvarintValue(b, n), n |-> n]
  BY <1>1 DEF UvarintAt
<1>3. n \in ends
  <2>1. ends \in SUBSET Nat
    BY DEF ends
  <2>2. \E i \in ends : \A j \in ends : i <= j
    BY <1>2, <2>1, Least
  <2> QED
    BY <2>2 DEF n
<1>4. n \in Nat \ {0} /\ n <= Len(b)
  BY <1>3 DEF ends
<1>5. \A i \in Nat \ {0} : i <= n => b[i] \in Nat
  <2>1. \A i \in Nat \ {0} : i <= n => b[i] \in Byte
    BY <1>4, ByteAt, LenProperties DEF Bytes
  <2>2. Byte \subseteq Nat
    BY DEF Byte
  <2> QED
    BY <2>1, <2>2
<1>6. UvarintValue(b, n) \in Nat
  <2> DEFINE Digit(i, weight) == IF i <= n THEN (b[i] % 128) * weight ELSE 0
  <2>1. /\ Digit(1, 1) \in Nat /\ Digit(2, 128) \in Nat
        /\ Digit(3, 16384) \in Nat /\ Digit(4, 2097152) \in Nat
    BY <1>5
  <2>2. UvarintValue(b, n) =
            Digit(1, 1) + Digit(2, 128) + Digit(3, 16384) + Digit(4, 2097152)
    BY DEF UvarintValue
  <2> HIDE DEF Digit
  <2> QED
    BY <2>1, <2>2
<1> QED
  BY <1>2, <1>4, <1>6

\* The lengths of a fixed header that was read are numbers.
LEMMA HeaderRead ==
    ASSUME NEW b \in Bytes, ReadHeader(b).st = "ok"
    PROVE  ReadHeader(b).n \in Nat /\ ReadHeader(b).length \in Nat
<1>1. b # <<>>
  BY DEF ReadHeader, HeaderWith
<1>2. Tail(b) \in Bytes
  BY <1>1, HeadTailProperties DEF Bytes
<1>3. /\ DecodeUvarint(Tail(b)).st = "ok"
      /\ ReadHeader(b).n = 1 + DecodeUvarint(Tail(b)).n
      /\ ReadHeader(b).length = DecodeUvarint(Tail(b)).v
  BY <1>1 DEF ReadHeader, HeaderWith
<1> QED
  BY <1>2, <1>3, UvarintDecoded

\* A packet that was read takes no more than the bytes that are there, and has
\* the version of the decoder that made it.
LEMMA BodyRead ==
    ASSUME NEW b \in Bytes, NEW v \in {4, 5}, ReadPacketOf(v, b).st = "ok"
    PROVE  LET r == ReadPacketOf(v, b)
           IN  /\ r.used \in Nat /\ r.used <= Len(b)
               /\ r.packet.version = v
               /\ r.packet.type = CONNECT =>
                     r.packet.val.KeepAliveSeconds \in Nat
<1> DEFINE h == ReadHeader(b)
           body == SubSeq(b, h.n + 1, h.n + h.length)
           u == UnpackFields(Layouts(v)[h.type], h, body)
<1>1. h.st = "ok" /\ ~(Len(b) < h.n + h.length)
  BY DEF ReadPacketOf, ReadBody, Stop
<1>2. h.n \in Nat /\ h.length \in Nat
  BY <1>1, HeaderRead
<1>3. /\ u.ok
      /\ ReadPacketOf(v, b) =
            [st |-> "ok", used |-> h.n + h.length,
             packet |-> [version |-> v, type |-> h.type,
                         flags |-> h.flags, val |-> u.val]]
  BY <1>1 DEF ReadPacketOf, ReadBody, PacketWith, Unpack, Stop
<1>4. body \in Bytes
  <2>1. Len(b) \in Nat
    BY LenProperties DEF Bytes
  <2>2. \A i \in h.n + 1..h.n + h.length : b[i] \in Byte
    BY <1>1, <1>2, <2>1, ByteAt
  <2> QED
    BY <1>2, <2>2, SubSeqProperties DEF Bytes
<1>5. h.type = CONNECT => u.val.KeepAliveSeconds \in Nat
  BY <1>3, <1>4, ConnectLayout, KeepAliveDecoded
<1>6. Len(b) \in Nat
  BY LenProperties DEF Bytes
<1> QED
  BY <1>1, <1>2, <1>3, <1>5, <1>6

\* Nor does a version that was read take more than what is there.
LEMMA VersionRead ==
    ASSUME NEW b \in Bytes, ReadConnectVersion(b).st = "ok"
    PROVE  ReadConnectVersion(b).n \in Nat /\ ReadConnectVersion(b).n <= Len(b)
<1> DEFINE h == ReadHeader(b)
           name == DecodeBytes(Drop(b, h.n))
<1>1. h.st = "ok" /\ name.ok /\ ReadConnectVersion(b).n = h.n + 3 + Len(name.v)
  BY DEF ReadConnectVersion, ReadVersion, VersionBehind, VersionAt, NoVersion
<1>2. h.n \in Nat
  BY <1>1, HeaderRead
<1>3. Len(name.v) \in Nat
  BY <1>1, <1>2, DropBytes, StringRead
<1>4. ~(Len(b) < ReadConnectVersion(b).n)
  BY <1>1 DEF ReadConnectVersion, ReadVersion, VersionBehind, VersionAt, NoVersion
<1>5. Len(b) \in Nat
  BY LenProperties DEF Bytes
<1> QED
  BY <1>1, <1>2, <1>3, <1>4, <1>5

\* The same of ReadPacket, at the beginning of the stream and later.
LEMMA PacketRead ==
    ASSUME NEW b \in Bytes, NEW v \in {0, 4, 5}, ReadPacket(b, v).st = "ok"
    PROVE  LET r == ReadPacket(b, v)
           IN  /\ r.used \in Nat /\ r.used <= Len(b)
               /\ r.packet.version \in {4, 5}
               /\ r.packet.type = CONNECT =>
                     r.packet.val.KeepAliveSeconds \in Nat
<1>1. CASE v # 0
  BY <1>1, BodyRead DEF ReadPacket
<1>2. CASE v = 0
  <2> DEFINE c == ReadConnectVersion(b)
             r == ReadPacketOf(c.version, b)
  <2>1. Known(c) /\ ReadPacket(b, v) = [r EXCEPT !.used = IF @ > c.n THEN @ ELSE c.n]
    BY <1>2 DEF ReadPacket, Unknown, Stop
  <2>2. c.version \in {4, 5} /\ c.st = "ok"
    BY <2>1 DEF Known
  <2>3. r.st = "ok"
    BY <2>1 DEF ReadPacketOf, ReadBody, PacketWith, Stop
  <2> QED
    BY <2>1, <2>2, <2>3, VersionRead, BodyRead
<1> QED
  BY <1>1, <1>2

(*****************************************************************************)
(* Deadlines.                                                                *)
(*****************************************************************************)
\* The inductive invariant holds at first.
LEMMA InitReaderInv == Init => ReaderInv
<1> SUFFICES ASSUME Init PROVE ReaderInv
  OBVIOUS
<1> USE ReaderAssumption DEF Init
<1>1. TypeOK
  BY DEF TypeOK, Bytes, ReadDeadline, NoDeadline
<1>2. RequestDecoded
  BY DEF RequestDecoded
<1>3. DeadlinesAgree
  BY DEF DeadlinesAgree, ReadDeadline
<1>4. WaitBounded
  BY DEF WaitBounded
<1> QED
  BY <1>1, <1>2, <1>3, <1>4 DEF ReaderInv

\* Client, network and time keep it: a wait and its deadline go together.
LEMMA ClientKeepsReaderInv == ASSUME ReaderInv, ClientNext PROVE ReaderInv'
<1> USE ReaderAssumption DEF ReaderInv, streamVars, connVars, goVars, clientVars
<1>1. ASSUME NEW item \in Items[speaks], ClientSends(item) PROVE ReaderInv'
  <2> USE <1>1 DEF ClientSends
  <2>1. TypeOK'
    <3>1. item.raw \in Bytes
      BY ItemsAssumption DEF TypeOK
    <3>2. flight' \in Bytes
      BY <3>1, ConcatProperties DEF TypeOK, Bytes
    <3>3. queue' \in Seq(Items[speaks]') /\ Len(queue') <= MaxQueue
      BY AppendProperties, LenProperties DEF TypeOK
    <3>4. keep' \in Nat \cup {NoKeepAlive} /\ since' \in Nat /\ age' \in Nat
          /\ promise' \in BOOLEAN
      BY ItemsAssumption DEF Clock, TypeOK
    <3> QED
      BY <3>2, <3>3, <3>4 DEF TypeOK
  <2>2. RequestDecoded'
    BY DEF RequestDecoded
  <2>3. DeadlinesAgree'
    BY DEF TypeOK, DeadlinesAgree
  <2>4. WaitBounded'
    BY DEF TypeOK, WaitBounded
  <2> QED
    BY <2>1, <2>2, <2>3, <2>4
<1>2. ASSUME NEW n, Fill(n) PROVE ReaderInv'
  <2> USE <1>2 DEF Fill
  <2>1. TypeOK'
    <3>1. SubSeq(flight, 1, n) \in Bytes
      <4>1. Len(flight) \in Nat
        BY LenProperties DEF TypeOK, Bytes
      <4>2. \A i \in 1..n : flight[i] \in Byte
        BY <4>1, ByteAt DEF TypeOK
      <4> QED
        BY <4>1, <4>2, SubSeqProperties DEF Bytes
    <3>2. bufr' \in Bytes
      BY <3>1, ConcatProperties DEF TypeOK, Bytes
    <3>3. flight' \in Bytes
      BY DropBytes DEF TypeOK
    <3>4. keep' \in Nat \cup {NoKeepAlive} /\ since' \in Nat /\ age' \in Nat
          /\ promise' \in BOOLEAN
      BY DEF Clock, TypeOK
    <3> QED
      BY <3>2, <3>3, <3>4 DEF TypeOK
  <2>2. RequestDecoded'
    BY DEF RequestDecoded
  <2>3. DeadlinesAgree'
    BY DEF TypeOK, DeadlinesAgree
  <2>4. WaitBounded'
    BY DEF TypeOK, WaitBounded
  <2> QED
    BY <2>1, <2>2, <2>3, <2>4
<1>3. ASSUME ConnectionLost PROVE ReaderInv'
  <2> USE <1>3 DEF ConnectionLost
  <2>1. TypeOK'
    <3>1. flight' \in Bytes
      BY DEF Bytes
    <3> QED
      BY <3>1 DEF TypeOK
  <2>2. RequestDecoded'
    BY DEF RequestDecoded
  <2>3. DeadlinesAgree'
    BY DEF TypeOK, DeadlinesAgree
  <2>4. WaitBounded'
    BY DEF TypeOK, WaitBounded
  <2> QED
    BY <2>1, <2>2, <2>3, <2>4
<1>4. ASSUME Tick PROVE ReaderInv'
  <2> USE <1>4 DEF Tick
  <2>1. TypeOK'
    <3>1. keep' \in Nat \cup {NoKeepAlive} /\ since' \in Nat /\ age' \in Nat
          /\ promise' \in BOOLEAN
      BY DEF Clock, TypeOK
    <3>2. left' \in Nat \cup {NoDeadline} /\ waited' \in 0..MaxWait
      BY DEF TypeOK, NoDeadline
    <3> QED
      BY <3>1, <3>2 DEF TypeOK
  <2>2. RequestDecoded'
    BY DEF RequestDecoded
  <2>3. DeadlinesAgree'
    BY DEF TypeOK, DeadlinesAgree, Blocked, NoDeadline
  <2>4. WaitBounded'
    BY DEF TypeOK, DeadlinesAgree, WaitBounded, Blocked, NoDeadline
  <2> QED
    BY <2>1, <2>2, <2>3, <2>4
<1> QED
  BY <1>1, <1>2, <1>3, <1>4 DEF ClientNext

\* The goroutine keeps it: every wait is given its deadline anew.
LEMMA ServerKeepsReaderInv == ASSUME ReaderInv, ServerNext PROVE ReaderInv'
<1> USE ReaderAssumption DEF ReaderInv, streamVars, connVars, goVars, clientVars
<1>0. ASSUME Found.st = "ok"
      PROVE  /\ Found.used \in Nat
             /\ Found.packet.version \in {4, 5}
             /\ Found.packet.type = CONNECT =>
                   Found.packet.val.KeepAliveSeconds \in Nat
  BY <1>0, PacketRead DEF Found, TypeOK
<1>1. ASSUME ReadRequest PROVE ReaderInv'
  <2> USE <1>1 DEF ReadRequest
  <2>1. TypeOK'
    <3>1. bufr' \in Bytes
      BY <1>0, DropBytes DEF TypeOK
    <3>2. queue' \in Seq(Items[speaks]') /\ Len(queue') <= MaxQueue
      <4>1. CASE queue = <<>>
        BY <4>1 DEF TypeOK
      <4>2. CASE queue # <<>>
        <5>1. Tail(queue) \in Seq(Items[speaks]) /\ Len(Tail(queue)) = Len(queue) - 1
          BY <4>2, HeadTailProperties DEF TypeOK
        <5>2. Len(queue) \in Nat
          BY LenProperties DEF TypeOK
        <5>3. queue' = Tail(queue) /\ speaks' = speaks
          BY <4>2
        <5>4. Len(queue) <= MaxQueue
          BY DEF TypeOK
        <5>5. Len(Tail(queue)) <= MaxQueue
          BY <5>1, <5>2, <5>4
        <5> QED
          BY <5>1, <5>3, <5>5
      <4> QED
        BY <4>1, <4>2
    <3> QED
      BY <1>0, <3>1, <3>2 DEF TypeOK, NoDeadline
  <2>2. RequestDecoded'
    BY <1>0 DEF RequestDecoded
  <2>3. DeadlinesAgree'
    BY DEF TypeOK, DeadlinesAgree
  <2>4. WaitBounded'
    BY DEF TypeOK, WaitBounded
  <2> QED
    BY <2>1, <2>2, <2>3, <2>4
<1>2. ASSUME ReadFails PROVE ReaderInv'
  <2> USE <1>2 DEF ReadFails
  <2>1. TypeOK'
    BY DEF End, TypeOK, NoDeadline
  <2>2. RequestDecoded'
    BY DEF End, RequestDecoded
  <2>3. DeadlinesAgree'
    BY DEF End, DeadlinesAgree
  <2>4. WaitBounded'
    BY DEF End, WaitBounded
  <2> QED
    BY <2>1, <2>2, <2>3, <2>4
<1>3. ASSUME ReadClosed PROVE ReaderInv'
  <2> USE <1>3 DEF ReadClosed
  <2>1. TypeOK'
    BY DEF End, TypeOK, NoDeadline
  <2>2. RequestDecoded'
    BY DEF End, RequestDecoded
  <2>3. DeadlinesAgree'
    BY DEF End, DeadlinesAgree
  <2>4. WaitBounded'
    BY DEF End, WaitBounded
  <2> QED
    BY <2>1, <2>2, <2>3, <2>4
<1>4. ASSUME ReadTimesOut PROVE ReaderInv'
  <2> USE <1>4 DEF ReadTimesOut
  <2>1. TypeOK'
    BY DEF End, TypeOK, NoDeadline
  <2>2. RequestDecoded'
    BY DEF End, RequestDecoded
  <2>3. DeadlinesAgree'
    BY DEF End, DeadlinesAgree
  <2>4. WaitBounded'
    BY DEF End, WaitBounded
  <2> QED
    BY <2>1, <2>2, <2>3, <2>4
<1>5. ASSUME HandledInShutdown PROVE ReaderInv'
  <2> USE <1>5 DEF HandledInShutdown
  <2>1. TypeOK'
    BY DEF End, TypeOK, NoDeadline
  <2>2. RequestDecoded'
    BY DEF End, RequestDecoded
  <2>3. DeadlinesAgree'
    BY DEF End, DeadlinesAgree
  <2>4. WaitBounded'
    BY DEF End, WaitBounded
  <2> QED
    BY <2>1, <2>2, <2>3, <2>4
<1>6. ASSUME NEW login \in BOOLEAN, NEW closes \in BOOLEAN, Handle(login, closes) PROVE ReaderInv'
  <2> USE <1>6 DEF Handle
  <2>1. TypeOK'
    <3>1. idle' \in Nat
      BY DEF TypeOK, RequestDecoded, IdleTimeout
    <3>2. left' \in Nat \cup {NoDeadline} /\ waited' \in 0..MaxWait
      BY <3>1 DEF TypeOK, ReadDeadline, NoDeadline
    <3>3. flight' \in Bytes
      BY DEF TypeOK, Bytes
    <3> QED
      BY <3>1, <3>2, <3>3 DEF TypeOK
  <2>2. RequestDecoded'
    BY DEF RequestDecoded
  <2>3. DeadlinesAgree'
    BY <2>1 DEF TypeOK, DeadlinesAgree, ReadDeadline
  <2>4. WaitBounded'
    BY <2>1 DEF TypeOK, WaitBounded
  <2> QED
    BY <2>1, <2>2, <2>3, <2>4
<1>7. ASSUME Peek PROVE ReaderInv'
  <2> USE <1>7 DEF Peek
  <2>1. TypeOK'
    BY DEF TypeOK, ReadDeadline, NoDeadline
  <2>2. RequestDecoded'
    BY DEF RequestDecoded
  <2>3. DeadlinesAgree'
    BY DEF TypeOK, DeadlinesAgree, ReadDeadline
  <2>4. WaitBounded'
    BY DEF TypeOK, WaitBounded
  <2> QED
    BY <2>1, <2>2, <2>3, <2>4
<1> QED
  BY <1>1, <1>2, <1>3, <1>4, <1>5, <1>6, <1>7 DEF ServerNext

\* It is inductive.
LEMMA NextKeepsReaderInv == ReaderInv /\ [Next]_vars => ReaderInv'
<1> SUFFICES ASSUME ReaderInv, [Next]_vars PROVE ReaderInv'
  OBVIOUS
<1>1. CASE UNCHANGED vars
  BY <1>1 DEF vars, streamVars, connVars, goVars, clientVars, ReaderInv,
              TypeOK, RequestDecoded, DeadlinesAgree, WaitBounded
<1> QED
  BY <1>1, ClientKeepsReaderInv, ServerKeepsReaderInv DEF Next

\* The inductive invariant holds in every behaviour: whatever the client sends
\* and however it is cut, the deadline in force is the one of the wait, and the
\* idle timeout the one of a decoded CONNECT (conn.go:46-123, handler.go:71-76).
THEOREM ReaderInvariant == Spec => []ReaderInv
<1> QED
  BY InitReaderInv, NextKeepsReaderInv, PTL DEF Spec

\* With a read timeout no client holds the goroutine in a read for longer than
\* the idle timeout and the read timeout together (conn.go:47-49, 112-119).
THEOREM WaitsAreBounded == Spec => []WaitBounded
<1>1. ReaderInv => WaitBounded
  BY DEF ReaderInv
<1> QED
  BY <1>1, ReaderInvariant, PTL

(*****************************************************************************)
(* The bytes of a sequence of items.                                         *)
(*****************************************************************************)
\* Bytes behind bytes.
LEMMA ConcatBytes ==
    ASSUME NEW a \in Bytes, NEW b \in Bytes
    PROVE  a \o b \in Bytes /\ Len(a \o b) = Len(a) + Len(b)
BY ConcatProperties DEF Bytes

\* Concatenation is associative.
LEMMA Regroup ==
    ASSUME NEW a \in Bytes, NEW b \in Bytes, NEW c \in Bytes
    PROVE  (a \o b) \o c = a \o (b \o c)
BY ConcatAssociative DEF Bytes

\* The recursion of BytesOf.
LEMMA BytesOfSteps ==
    ASSUME NEW q, Len(q) \in Nat
    PROVE  \E s : /\ s[0] = <<>>
                  /\ \A i \in Nat : i < Len(q) => s[i + 1] = s[i] \o q[i + 1].raw
                  /\ BytesOf(q) = s[Len(q)]
<1> DEFINE Rec(g, i) == IF i = 0 THEN <<>> ELSE g[i - 1] \o q[i].raw
           Steps(n) == CHOOSE g : g = [i \in 0..n |-> Rec(g, i)]
           S == {n \in Nat : \E g : g = [i \in 0..n |-> Rec(g, i)]}
<1>1. BytesOf(q) = Steps(Len(q))[Len(q)]
  BY DEF BytesOf
<1>2. 0 \in S
  <2>1. LET g == [i \in 0..0 |-> <<>>] IN g = [i \in 0..0 |-> Rec(g, i)]
    OBVIOUS
  <2> QED
    BY <2>1
<1>3. ASSUME NEW n \in Nat, n \in S PROVE n + 1 \in S
  <2> HIDE DEF Rec
  <2>1. PICK g : g = [i \in 0..n |-> Rec(g, i)]
    BY <1>3
  <2> DEFINE g1 == [i \in 0..n + 1 |-> IF i = n + 1 THEN Rec(g, i) ELSE g[i]]
  <2>2. \A i \in 0..n : g1[i] = g[i] /\ g[i] = Rec(g, i)
    <3>1. \A i \in 0..n : g[i] = Rec(g, i)
      BY <2>1
    <3>2. \A i \in 0..n : i \in 0..n + 1 /\ i # n + 1
      OBVIOUS
    <3> QED
      BY <3>1, <3>2
  <2>3. g1[n + 1] = Rec(g, n + 1)
    OBVIOUS
  <2> HIDE DEF g1
  <2>4. \A i \in 0..n + 1 : Rec(g1, i) = Rec(g, i)
    BY <2>2 DEF Rec
  <2>5. \A i \in 0..n + 1 : g1[i] = Rec(g1, i)
    <3>1. \A i \in 0..n + 1 : i \in 0..n \/ i = n + 1
      OBVIOUS
    <3> QED
      BY <2>2, <2>3, <2>4, <3>1
  <2>6. g1 = [i \in 0..n + 1 |-> Rec(g1, i)]
    BY <2>5 DEF g1
  <2> QED
    BY <2>6
<1>4. Len(q) \in S
  BY <1>2, <1>3, Induct
<1> DEFINE s == Steps(Len(q))
<1>5. s = [i \in 0..Len(q) |-> Rec(s, i)]
  BY <1>4
<1> HIDE DEF Rec, s
<1>6. \A i \in 0..Len(q) : s[i] = Rec(s, i)
  BY <1>5
<1>7. s[0] = <<>>
  <2>1. Rec(s, 0) = <<>> /\ 0 \in 0..Len(q)
    BY DEF Rec
  <2> QED
    BY <1>6, <2>1
<1>8. ASSUME NEW i \in Nat, i < Len(q)
      PROVE  s[i + 1] = s[i] \o q[i + 1].raw
  <2>1. i + 1 \in 0..Len(q) /\ i + 1 # 0 /\ (i + 1) - 1 = i
    BY <1>8
  <2>2. Rec(s, i + 1) = s[(i + 1) - 1] \o q[i + 1].raw
    BY <2>1 DEF Rec
  <2> QED
    BY <1>6, <2>1, <2>2
<1> QED
  BY <1>1, <1>7, <1>8 DEF s

\* Sequences of items whose bytes are bytes.
RawItems(I) == \A item \in I : item.raw \in Bytes

\* What is sent last comes last.
LEMMA BytesOfAppend ==
    ASSUME NEW I, NEW q \in Seq(I), NEW item \in I
    PROVE  BytesOf(Append(q, item)) = BytesOf(q) \o item.raw
<1> DEFINE r == Append(q, item)
<1>1. /\ Len(q) \in Nat /\ Len(r) = Len(q) + 1
      /\ \A i \in 1..Len(q) : r[i] = q[i]
      /\ r[Len(q) + 1] = item
  BY AppendProperties, LenProperties
<1> HIDE DEF r
<1>2. PICK s : /\ s[0] = <<>>
               /\ \A i \in Nat : i < Len(q) => s[i + 1] = s[i] \o q[i + 1].raw
               /\ BytesOf(q) = s[Len(q)]
  BY <1>1, BytesOfSteps
<1>9. Len(r) \in Nat
  BY <1>1
<1>3. PICK t : /\ t[0] = <<>>
               /\ \A i \in Nat : i < Len(r) => t[i + 1] = t[i] \o r[i + 1].raw
               /\ BytesOf(r) = t[Len(r)]
  BY <1>9, BytesOfSteps
<1> DEFINE S == {i \in Nat : i <= Len(q) => t[i] = s[i]}
<1>4. 0 \in S
  BY <1>2, <1>3
<1>5. ASSUME NEW i \in Nat, i \in S PROVE i + 1 \in S
  <2>1. CASE i + 1 <= Len(q)
    <3>3. i < Len(q) /\ i < Len(r) /\ i <= Len(q) /\ i + 1 \in 1..Len(q)
      BY <1>1, <2>1
    <3>1. s[i + 1] = s[i] \o q[i + 1].raw /\ t[i + 1] = t[i] \o r[i + 1].raw
      BY <1>2, <1>3, <3>3
    <3>2. r[i + 1] = q[i + 1] /\ t[i] = s[i]
      BY <1>1, <1>5, <3>3
    <3>4. t[i + 1] = s[i + 1]
      BY <3>1, <3>2
    <3> QED
      BY <3>4
  <2> QED
    BY <2>1
<1>6. Nat \subseteq S
  <2> HIDE DEF S
  <2> QED
    BY <1>4, <1>5, Induct
<1>7. t[Len(q)] = s[Len(q)]
  BY <1>1, <1>6
<1>8. t[Len(q) + 1] = t[Len(q)] \o item.raw
  <2>1. Len(q) \in Nat /\ Len(q) < Len(r)
    BY <1>1
  <2> QED
    BY <1>1, <1>3, <2>1
<1> QED
  BY <1>1, <1>2, <1>3, <1>7, <1>8 DEF r

\* The bytes of items are bytes.
LEMMA BytesOfTyped ==
    ASSUME NEW I, RawItems(I), NEW q \in Seq(I)
    PROVE  BytesOf(q) \in Bytes
<1>1. Len(q) \in Nat /\ \A i \in 1..Len(q) : q[i].raw \in Bytes
  BY LenProperties, ElementOfSeq DEF RawItems
<1>2. PICK s : /\ s[0] = <<>>
               /\ \A i \in Nat : i < Len(q) => s[i + 1] = s[i] \o q[i + 1].raw
               /\ BytesOf(q) = s[Len(q)]
  BY <1>1, BytesOfSteps
<1> DEFINE S == {i \in Nat : i <= Len(q) => s[i] \in Bytes}
<1>3. 0 \in S
  <2>1. <<>> \in Bytes
    BY DEF Bytes
  <2> QED
    BY <1>2, <2>1
<1>4. ASSUME NEW i \in Nat, i \in S PROVE i + 1 \in S
  <2>1. CASE i + 1 <= Len(q)
    <3>3. i < Len(q) /\ i <= Len(q) /\ i + 1 \in 1..Len(q)
      BY <1>1, <2>1
    <3>1. s[i] \in Bytes /\ s[i + 1] = s[i] \o q[i + 1].raw /\ q[i + 1].raw \in Bytes
      BY <1>1, <1>2, <1>4, <3>3
    <3>2. s[i + 1] \in Bytes
      BY <3>1, ConcatProperties DEF Bytes
    <3> QED
      BY <3>2
  <2> QED
    BY <2>1
<1>5. Nat \subseteq S
  <2> HIDE DEF S
  <2> QED
    BY <1>3, <1>4, Induct
<1> QED
  BY <1>1, <1>2, <1>5

\* What was sent first comes first.
LEMMA BytesOfHead ==
    ASSUME NEW I, RawItems(I), NEW q \in Seq(I), q # <<>>
    PROVE  BytesOf(q) = Head(q).raw \o BytesOf(Tail(q))
<1> DEFINE r == Tail(q)
           a == Head(q).raw
<1>1. /\ Len(q) \in Nat /\ Len(r) \in Nat /\ Len(q) = Len(r) + 1
      /\ \A i \in 1..Len(r) : r[i] = q[i + 1]
      /\ q[1] = Head(q) /\ r \in Seq(I)
  BY HeadTailProperties, LenProperties
<1>2. a \in Bytes /\ \A i \in 1..Len(q) : q[i].raw \in Bytes
  BY HeadTailProperties, ElementOfSeq DEF RawItems
<1> HIDE DEF r, a
<1>3. PICK s : /\ s[0] = <<>>
               /\ \A i \in Nat : i < Len(q) => s[i + 1] = s[i] \o q[i + 1].raw
               /\ BytesOf(q) = s[Len(q)]
  BY <1>1, BytesOfSteps
<1>4. PICK t : /\ t[0] = <<>>
               /\ \A i \in Nat : i < Len(r) => t[i + 1] = t[i] \o r[i + 1].raw
               /\ BytesOf(r) = t[Len(r)]
  BY <1>1, BytesOfSteps
<1> DEFINE S == {i \in Nat : i <= Len(r) => t[i] \in Bytes /\ s[i + 1] = a \o t[i]}
<1>5. 0 \in S
  <2>1. s[1] = <<>> \o a
    <3>2. 0 \in Nat /\ 0 < Len(q)
      BY <1>1
    <3>1. s[0 + 1] = s[0] \o q[0 + 1].raw
      BY <1>3, <3>2
    <3> QED
      BY <1>1, <1>3, <3>1 DEF a
  <2>2. <<>> \o a = a /\ a \o <<>> = a /\ <<>> \in Bytes
    BY <1>2, ConcatEmptySeq DEF Bytes
  <2>3. t[0] \in Bytes /\ s[0 + 1] = a \o t[0]
    BY <1>4, <2>1, <2>2
  <2> QED
    BY <2>3
<1>6. ASSUME NEW i \in Nat, i \in S PROVE i + 1 \in S
  <2>1. CASE i + 1 <= Len(r)
    <3> DEFINE b == r[i + 1].raw
    <3>5. i < Len(r) /\ i <= Len(r) /\ i + 1 \in 1..Len(r) /\ i + 2 \in 1..Len(q)
          /\ i + 1 < Len(q) /\ (i + 1) + 1 = i + 2 /\ i + 1 \in Nat
      BY <1>1, <2>1
    <3>6. r[i + 1] = q[i + 2]
      BY <1>1, <3>5
    <3>1. t[i] \in Bytes /\ s[i + 1] = a \o t[i] /\ b \in Bytes
      BY <1>2, <1>6, <3>5, <3>6
    <3>2. t[i + 1] = t[i] \o b
      BY <1>4, <3>5
    <3>3. s[(i + 1) + 1] = s[i + 1] \o b
      BY <1>3, <3>5, <3>6
    <3> HIDE DEF b
    <3>4. (a \o t[i]) \o b = a \o (t[i] \o b) /\ t[i] \o b \in Bytes
      BY <1>2, <3>1, Regroup, ConcatBytes
    <3>7. t[i + 1] \in Bytes /\ s[(i + 1) + 1] = a \o t[i + 1]
      BY <3>1, <3>2, <3>3, <3>4
    <3> QED
      BY <3>7
  <2> QED
    BY <2>1
<1>7. Nat \subseteq S
  <2> HIDE DEF S
  <2> QED
    BY <1>5, <1>6, Induct
<1>8. s[Len(r) + 1] = a \o t[Len(r)]
  BY <1>1, <1>7
<1> QED
  BY <1>1, <1>3, <1>4, <1>8 DEF r, a

\* Nothing sent, no bytes.
LEMMA BytesOfEmpty == BytesOf(<<>>) = <<>>
<1>1. Len(<<>>) = 0
  OBVIOUS
<1> QED
  BY <1>1, BytesOfSteps

\* Bytes that agree at every place are the same.
LEMMA BytesEqual ==
    ASSUME NEW a \in Bytes, NEW b \in Bytes, Len(a) = Len(b),
           \A i \in 1..Len(a) : a[i] = b[i]
    PROVE  a = b
BY SeqEqual DEF Bytes

\* The places of a concatenation.
LEMMA BytesAt ==
    ASSUME NEW a \in Bytes, NEW b \in Bytes,
           NEW i \in Nat \ {0}, i <= Len(a) + Len(b)
    PROVE  (a \o b)[i] = IF i <= Len(a) THEN a[i] ELSE b[i - Len(a)]
<1>1. Len(a) \in Nat /\ Len(b) \in Nat
  BY LenProperties DEF Bytes
<1>2. i \in 1..Len(a) + Len(b)
  BY <1>1
<1> QED
  BY <1>2, ConcatProperties DEF Bytes

\* The places of what is left.
LEMMA DropAt ==
    ASSUME NEW b \in Bytes, NEW n \in Nat, n <= Len(b)
    PROVE  /\ Drop(b, n) \in Bytes /\ Len(Drop(b, n)) = Len(b) - n
           /\ \A i \in 1..Len(b) - n : Drop(b, n)[i] = b[n + i]
<1>1. Len(b) \in Nat
  BY LenProperties DEF Bytes
<1>2. \A i \in n + 1..Len(b) : b[i] \in Byte
  BY <1>1, ByteAt
<1>3. /\ Len(Drop(b, n)) = IF n + 1 <= Len(b) THEN Len(b) - (n + 1) + 1 ELSE 0
      /\ \A i \in 1..Len(b) - (n + 1) + 1 : Drop(b, n)[i] = b[(n + 1) + i - 1]
  BY <1>1, <1>2, SubSeqProperties DEF Drop
<1> QED
  BY <1>1, <1>3, DropBytes

\* The places of what is taken.
LEMMA TakeAt ==
    ASSUME NEW b \in Bytes, NEW n \in Nat, n <= Len(b)
    PROVE  /\ SubSeq(b, 1, n) \in Bytes /\ Len(SubSeq(b, 1, n)) = n
           /\ \A i \in 1..n : SubSeq(b, 1, n)[i] = b[i]
<1>1. Len(b) \in Nat
  BY LenProperties DEF Bytes
<1>2. \A i \in 1..n : b[i] \in Byte
  BY <1>1, ByteAt
<1>3. /\ SubSeq(b, 1, n) \in Seq(Byte)
      /\ Len(SubSeq(b, 1, n)) = IF 1 <= n THEN n - 1 + 1 ELSE 0
      /\ \A i \in 1..n - 1 + 1 : SubSeq(b, 1, n)[i] = b[1 + i - 1]
  BY <1>2, SubSeqProperties
<1> QED
  BY <1>3 DEF Bytes

\* Nothing is lost where a sequence is cut.
LEMMA TakeDrop ==
    ASSUME NEW b \in Bytes, NEW n \in Nat, n <= Len(b)
    PROVE  SubSeq(b, 1, n) \o Drop(b, n) = b
<1> DEFINE t == SubSeq(b, 1, n)
           d == Drop(b, n)
<1>1. Len(b) \in Nat
  BY LenProperties DEF Bytes
<1>2. /\ t \in Bytes /\ Len(t) = n /\ \A i \in 1..n : t[i] = b[i]
      /\ d \in Bytes /\ Len(d) = Len(b) - n
      /\ \A i \in 1..Len(b) - n : d[i] = b[n + i]
  BY TakeAt, DropAt
<1> HIDE DEF t, d
<1>3. t \o d \in Bytes /\ Len(t \o d) = Len(b)
  BY <1>1, <1>2, ConcatBytes
<1>4. ASSUME NEW i \in 1..Len(b) PROVE (t \o d)[i] = b[i]
  <2>1. (t \o d)[i] = IF i <= n THEN t[i] ELSE d[i - n]
    BY <1>1, <1>2, BytesAt
  <2>2. CASE i <= n
    BY <1>2, <2>1, <2>2
  <2>3. CASE ~(i <= n)
    <3>1. i - n \in 1..Len(b) - n /\ n + (i - n) = i
      BY <1>1, <2>3
    <3> QED
      BY <1>2, <2>1, <2>3, <3>1
  <2> QED
    BY <2>2, <2>3
<1>5. t \o d = b
  BY <1>3, <1>4, BytesEqual
<1> QED
  BY <1>5 DEF t, d

\* The front of a concatenation.
LEMMA TakeFront ==
    ASSUME NEW a \in Bytes, NEW b \in Bytes
    PROVE  SubSeq(a \o b, 1, Len(a)) = a
<1>1. Len(a) \in Nat /\ Len(b) \in Nat
  BY LenProperties DEF Bytes
<1>2. a \o b \in Bytes /\ Len(a \o b) = Len(a) + Len(b)
  BY ConcatBytes
<1>3. /\ SubSeq(a \o b, 1, Len(a)) \in Bytes /\ Len(SubSeq(a \o b, 1, Len(a))) = Len(a)
      /\ \A i \in 1..Len(a) : SubSeq(a \o b, 1, Len(a))[i] = (a \o b)[i]
  <2>1. Len(a) <= Len(a \o b)
    BY <1>1, <1>2
  <2> QED
    BY <1>1, <1>2, <2>1, TakeAt
<1>4. \A i \in 1..Len(a) : (a \o b)[i] = a[i]
  BY <1>1, BytesAt
<1> QED
  BY <1>3, <1>4, BytesEqual

\* Two ways to cut the same bytes: what is behind the first a bytes.
LEMMA DropFront ==
    ASSUME NEW a \in Bytes, NEW x \in Bytes, NEW b \in Bytes, NEW y \in Bytes,
           a \o x = b \o y, Len(a) <= Len(b)
    PROVE  Drop(b, Len(a)) \o y = x
<1> DEFINE d == Drop(b, Len(a))
<1>1. Len(a) \in Nat /\ Len(b) \in Nat /\ Len(x) \in Nat /\ Len(y) \in Nat
  BY LenProperties DEF Bytes
<1>2. /\ d \in Bytes /\ Len(d) = Len(b) - Len(a)
      /\ \A i \in 1..Len(b) - Len(a) : d[i] = b[Len(a) + i]
  BY <1>1, DropAt
<1> HIDE DEF d
<1>3. Len(a) + Len(x) = Len(b) + Len(y)
  BY ConcatBytes
<1>4. d \o y \in Bytes /\ Len(d \o y) = Len(x)
  BY <1>1, <1>2, <1>3, ConcatBytes
<1>5. ASSUME NEW i \in 1..Len(x) PROVE (d \o y)[i] = x[i]
  <2>1. x[i] = (a \o x)[Len(a) + i]
    <3>1. Len(a) + i \in Nat \ {0} /\ Len(a) + i <= Len(a) + Len(x)
          /\ ~(Len(a) + i <= Len(a)) /\ (Len(a) + i) - Len(a) = i
      BY <1>1
    <3> QED
      BY <3>1, BytesAt
  <2>2. (b \o y)[Len(a) + i] =
           IF Len(a) + i <= Len(b) THEN b[Len(a) + i] ELSE y[(Len(a) + i) - Len(b)]
    <3>1. Len(a) + i \in Nat \ {0} /\ Len(a) + i <= Len(b) + Len(y)
      BY <1>1, <1>3
    <3> QED
      BY <3>1, BytesAt
  <2>3. (d \o y)[i] = IF i <= Len(b) - Len(a) THEN d[i] ELSE y[i - (Len(b) - Len(a))]
    <3>1. i \in Nat \ {0} /\ i <= Len(d) + Len(y)
      BY <1>1, <1>2, <1>3
    <3> QED
      BY <1>2, <3>1, BytesAt
  <2>4. CASE i <= Len(b) - Len(a)
    <3>1. Len(a) + i <= Len(b) /\ i \in 1..Len(b) - Len(a)
      BY <1>1, <2>4
    <3> QED
      BY <1>2, <2>1, <2>2, <2>3, <2>4, <3>1
  <2>5. CASE ~(i <= Len(b) - Len(a))
    <3>1. ~(Len(a) + i <= Len(b)) /\ i - (Len(b) - Len(a)) = (Len(a) + i) - Len(b)
      BY <1>1, <2>5
    <3> QED
      BY <2>1, <2>2, <2>3, <2>5, <3>1
  <2> QED
    BY <2>4, <2>5
<1>6. d \o y = x
  BY <1>4, <1>5, BytesEqual
<1> QED
  BY <1>6 DEF d

(*****************************************************************************)
(* What is read from the front of a stream does not depend on what follows.  *)
(*****************************************************************************)
\* b is what has come of s.
Starts(b, s) == Len(b) <= Len(s) /\ \A i \in 1..Len(b) : b[i] = s[i]

\* A variable byte integer that is read from the first bytes is the one of all.
LEMMA UvarintStarts ==
    ASSUME NEW b \in Bytes, NEW s \in Bytes, Starts(b, s),
           DecodeUvarint(b).st # "more"
    PROVE  /\ DecodeUvarint(s) = DecodeUvarint(b)
           /\ DecodeUvarint(b).st = "ok" => DecodeUvarint(b).n <= Len(b)
<1> DEFINE eb == {i \in 1..10 : i <= Len(b) /\ b[i] < 128}
           es == {i \in 1..10 : i <= Len(s) /\ s[i] < 128}
           First(e) == CHOOSE i \in e : \A j \in e : i <= j
<1>1. /\ DecodeUvarint(b) = UvarintAt(b, First(eb), eb)
      /\ DecodeUvarint(s) = UvarintAt(s, First(es), es)
  BY DEF DecodeUvarint, UvarintEnds
<1>2. Len(b) \in Nat /\ Len(s) \in Nat /\ Len(b) <= Len(s)
  BY LenProperties DEF Bytes, Starts
<1>3. \A i \in 1..10 : i <= Len(b) => (i \in eb <=> i \in es)
  BY <1>2 DEF Starts
<1>4. eb \subseteq es
  BY <1>3
<1>5. CASE eb = {}
  <2>1. Len(b) >= 10
    BY <1>1, <1>2, <1>5 DEF UvarintAt
  <2>2. \A i \in 1..10 : i <= Len(b)
    BY <1>2, <2>1
  <2>3. es = {}
    BY <1>3, <1>5, <2>2
  <2>4. Len(s) >= 10
    BY <1>2, <2>1
  <2> HIDE DEF eb, es, First
  <2> QED
    BY <1>1, <1>2, <1>5, <2>1, <2>3, <2>4 DEF UvarintAt
<1>6. CASE eb # {}
  <2> DEFINE n == First(eb)
             m == First(es)
  <2>1. eb \in SUBSET Nat /\ es \in SUBSET Nat
    OBVIOUS
  <2>2. \A i \in eb : i <= Len(b)
    OBVIOUS
  <2>3. es \subseteq 1..10
    OBVIOUS
  <2> HIDE DEF eb, es
  <2>4. n \in eb /\ \A j \in eb : n <= j
    <3>1. \E i \in eb : \A j \in eb : i <= j
      BY <1>6, <2>1, Least
    <3> QED
      BY <3>1
  <2>5. m \in es /\ \A j \in es : m <= j
    <3>1. \E i \in es : \A j \in es : i <= j
      BY <1>4, <1>6, <2>1, Least
    <3> QED
      BY <3>1
  <2> HIDE DEF First
  <2>6. n \in Nat /\ m \in Nat /\ n <= Len(b)
    BY <1>4, <2>1, <2>2, <2>3, <2>4, <2>5
  <2>7. m <= n
    BY <1>4, <2>4, <2>5
  <2>8. m \in eb
    BY <1>2, <1>3, <2>3, <2>5, <2>6, <2>7
  <2>9. m = n
    BY <2>4, <2>6, <2>7, <2>8
  <2>10. UvarintValue(s, n) = UvarintValue(b, n)
    <3>1. \A i \in {1, 2, 3, 4} : i <= n => s[i] = b[i]
      BY <1>2, <2>6 DEF Starts
    <3> HIDE DEF n
    <3> QED
      BY <3>1 DEF UvarintValue
  <2>11. es # {}
    BY <1>4, <1>6
  <2> HIDE DEF n, m
  <2>12. UvarintAt(s, n, es) = UvarintAt(b, n, eb)
    BY <1>6, <2>10, <2>11 DEF UvarintAt
  <2>13. DecodeUvarint(b) = UvarintAt(b, n, eb) /\ DecodeUvarint(s) = UvarintAt(s, n, es)
    BY <1>1, <2>9 DEF n, m
  <2>14. DecodeUvarint(b).st = "ok" => DecodeUvarint(b).n = n
    BY <1>6, <2>13 DEF UvarintAt
  <2> QED
    BY <2>6, <2>12, <2>13, <2>14
<1> QED
  BY <1>5, <1>6

\* So is a fixed header, which takes two bytes or more.
LEMMA HeaderStarts ==
    ASSUME NEW b \in Bytes, NEW s \in Bytes, Starts(b, s),
           ReadHeader(b).st # "more"
    PROVE  /\ ReadHeader(s) = ReadHeader(b)
           /\ ReadHeader(b).st = "ok" => ReadHeader(b).n \in 2..Len(b)
<1>1. b # <<>>
  BY DEF ReadHeader, HeaderWith
<1>2. Len(b) \in Nat /\ Len(s) \in Nat /\ Len(b) >= 1 /\ Len(b) <= Len(s)
  BY <1>1, LenProperties, EmptySeq DEF Bytes, Starts
<1>3. s # <<>> /\ b[1] = s[1]
  BY <1>2 DEF Starts
<1>4. /\ Tail(b) \in Bytes /\ Len(Tail(b)) = Len(b) - 1
      /\ Tail(s) \in Bytes /\ Len(Tail(s)) = Len(s) - 1
      /\ \A i \in 1..Len(b) - 1 : Tail(b)[i] = b[i + 1]
      /\ \A i \in 1..Len(s) - 1 : Tail(s)[i] = s[i + 1]
  BY <1>1, <1>3, HeadTailProperties DEF Bytes
<1>5. Starts(Tail(b), Tail(s))
  BY <1>2, <1>4 DEF Starts
<1>6. DecodeUvarint(Tail(b)).st # "more"
  BY <1>1 DEF ReadHeader, HeaderWith
<1>7. DecodeUvarint(Tail(s)) = DecodeUvarint(Tail(b))
  BY <1>4, <1>5, <1>6, UvarintStarts
<1>8. ReadHeader(b).st = "ok" =>
         DecodeUvarint(Tail(b)).n <= Len(Tail(b)) /\ DecodeUvarint(Tail(b)).n \in Nat \ {0}
  <2>1. ReadHeader(b).st = "ok" => DecodeUvarint(Tail(b)).st = "ok"
    BY <1>1 DEF ReadHeader, HeaderWith
  <2> QED
    BY <1>4, <1>5, <1>6, <2>1, UvarintStarts, UvarintDecoded
<1>9. ReadHeader(b).n = 1 + DecodeUvarint(Tail(b)).n
  BY <1>1 DEF ReadHeader, HeaderWith
<1>10. ReadHeader(s) = ReadHeader(b)
  BY <1>1, <1>3, <1>7 DEF ReadHeader, HeaderWith
<1> QED
  BY <1>2, <1>4, <1>8, <1>9, <1>10

\* Two sequences that agree on a segment have the same segment.
LEMMA SameSubSeq ==
    ASSUME NEW b, NEW s, NEW m \in Nat, NEW n \in Nat,
           \A i \in m + 1..n : b[i] = s[i] /\ b[i] \in Byte
    PROVE  SubSeq(b, m + 1, n) = SubSeq(s, m + 1, n)
<1>1. /\ SubSeq(b, m + 1, n) \in Bytes
      /\ Len(SubSeq(b, m + 1, n)) = IF m + 1 <= n THEN n - (m + 1) + 1 ELSE 0
      /\ \A i \in 1..n - (m + 1) + 1 : SubSeq(b, m + 1, n)[i] = b[(m + 1) + i - 1]
  BY SubSeqProperties DEF Bytes
<1>2. /\ SubSeq(s, m + 1, n) \in Bytes
      /\ Len(SubSeq(s, m + 1, n)) = IF m + 1 <= n THEN n - (m + 1) + 1 ELSE 0
      /\ \A i \in 1..n - (m + 1) + 1 : SubSeq(s, m + 1, n)[i] = s[(m + 1) + i - 1]
  <2>1. \A i \in m + 1..n : s[i] \in Byte
    OBVIOUS
  <2> QED
    BY <2>1, SubSeqProperties DEF Bytes
<1>3. \A i \in 1..Len(SubSeq(b, m + 1, n)) :
         SubSeq(b, m + 1, n)[i] = SubSeq(s, m + 1, n)[i]
  <2>1. ASSUME NEW i \in 1..Len(SubSeq(b, m + 1, n))
        PROVE  i \in 1..n - (m + 1) + 1 /\ (m + 1) + i - 1 \in m + 1..n
    BY <1>1
  <2> QED
    BY <1>1, <1>2, <2>1
<1> QED
  BY <1>1, <1>2, <1>3, BytesEqual

\* So is a packet of a known version.
LEMMA BodyStarts ==
    ASSUME NEW b \in Bytes, NEW s \in Bytes, Starts(b, s), NEW v \in {4, 5},
           ReadPacketOf(v, b).st # "more"
    PROVE  ReadPacketOf(v, s) = ReadPacketOf(v, b)
<1> DEFINE h == ReadHeader(b)
<1>1. h.st # "more"
  BY DEF ReadPacketOf, ReadBody, Stop
<1>2. ReadHeader(s) = h
  BY <1>1, HeaderStarts
<1>3. CASE h.st # "ok" \/ h.type \notin DOMAIN Layouts(v)
  BY <1>2, <1>3 DEF ReadPacketOf, ReadBody
<1>4. CASE h.st = "ok" /\ h.type \in DOMAIN Layouts(v)
  <2>1. h.n \in Nat /\ h.length \in Nat
    BY <1>4, HeaderRead
  <2>2. Len(b) \in Nat /\ Len(s) \in Nat /\ Len(b) <= Len(s)
    BY LenProperties DEF Bytes, Starts
  <2>3. ~(Len(b) < h.n + h.length)
    BY <1>4 DEF ReadPacketOf, ReadBody, Stop
  <2>4. SubSeq(b, h.n + 1, h.n + h.length) = SubSeq(s, h.n + 1, h.n + h.length)
    <3> HIDE DEF h
    <3> DEFINE m == h.n
               n == h.n + h.length
    <3>2. m \in Nat /\ n \in Nat /\ n <= Len(b) /\ n <= Len(s)
      BY <2>1, <2>2, <2>3
    <3> SUFFICES SubSeq(b, m + 1, n) = SubSeq(s, m + 1, n)
      OBVIOUS
    <3> HIDE DEF m, n
    <3>1. \A i \in m + 1..n : b[i] = s[i] /\ b[i] \in Byte
      BY <2>2, <3>2, ByteAt DEF Starts
    <3> QED
      BY <3>1, <3>2, SameSubSeq
  <2>5. ~(Len(s) < h.n + h.length)
    BY <2>1, <2>2, <2>3
  <2> HIDE DEF h
  <2>6. ReadPacketOf(v, b) = ReadBody(v, b, h) /\ ReadPacketOf(v, s) = ReadBody(v, s, h)
    BY <1>2 DEF h, ReadPacketOf
  <2>7. ReadBody(v, b, h) = ReadBody(v, s, h)
    BY <1>4, <2>3, <2>4, <2>5 DEF ReadBody
  <2> QED
    BY <2>6, <2>7
<1> QED
  BY <1>3, <1>4

\* So is a string.
LEMMA StringStarts ==
    ASSUME NEW b \in Bytes, NEW s \in Bytes, Starts(b, s), DecodeBytes(b).ok
    PROVE  DecodeBytes(s).ok /\ Len(DecodeBytes(s).v) = Len(DecodeBytes(b).v)
<1> DEFINE n == DecodeUint16(b).v
<1>1. Len(b) \in Nat /\ Len(s) \in Nat /\ Len(b) <= Len(s)
  BY LenProperties DEF Bytes, Starts
<1>2. DecodeUint16(b).ok
  BY DEF DecodeBytes, NoField
<1>3. Len(b) >= 2
  BY <1>1, <1>2 DEF DecodeUint16, NoField
<1>4. b[1] = s[1] /\ b[2] = s[2]
  BY <1>1, <1>3 DEF Starts
<1>5. DecodeUint16(s).ok /\ DecodeUint16(s).v = n
  BY <1>1, <1>3, <1>4 DEF DecodeUint16
<1>6. n \in Nat
  BY <1>2, Uint16
<1>7. DecodeBytes(b) = TakeBytes(b, 2, n) /\ DecodeBytes(s) = TakeBytes(s, 2, n)
  BY <1>2, <1>5 DEF DecodeBytes
<1> HIDE DEF n
<1>8. ~(Len(b) < 2 + n)
  BY <1>7 DEF TakeBytes, NoField
<1>9. \A i \in 2 + 1..2 + n : b[i] = s[i] /\ b[i] \in Byte
  BY <1>1, <1>6, <1>8, ByteAt DEF Starts
<1>10. SubSeq(b, 2 + 1, 2 + n) = SubSeq(s, 2 + 1, 2 + n)
  <2>1. 2 \in Nat /\ 2 + n \in Nat
    BY <1>6
  <2> QED
    BY <1>9, <2>1, SameSubSeq
<1>11. ~(Len(s) < 2 + n)
  BY <1>1, <1>6, <1>8
<1>12. TakeBytes(s, 2, n).ok /\ TakeBytes(s, 2, n).v = SubSeq(s, 2 + 1, 2 + n)
  BY <1>11 DEF TakeBytes
<1>13. TakeBytes(b, 2, n).v = SubSeq(b, 2 + 1, 2 + n)
  BY <1>8 DEF TakeBytes
<1> QED
  BY <1>7, <1>10, <1>12, <1>13

\* So is the version, which is read from the stream whatever the header says
\* (codec/packets.go:13-33).
LEMMA VersionStarts ==
    ASSUME NEW b \in Bytes, NEW s \in Bytes, Starts(b, s),
           ReadConnectVersion(b).st # "more"
    PROVE  ReadConnectVersion(s) = ReadConnectVersion(b)
<1> DEFINE h == ReadHeader(b)
           name == DecodeBytes(Drop(b, h.n))
           other == DecodeBytes(Drop(s, h.n))
           at == h.n + 3 + Len(name.v)
<1>1. h.st # "more"
  BY DEF ReadConnectVersion, ReadVersion, VersionBehind, NoVersion
<1>2. /\ ReadConnectVersion(b) = VersionBehind(b, h, name)
      /\ ReadConnectVersion(s) = VersionBehind(s, h, other)
  BY <1>1, HeaderStarts DEF ReadConnectVersion, ReadVersion
<1>3. CASE h.st # "ok" \/ h.type # CONNECT
  BY <1>2, <1>3 DEF VersionBehind
<1>4. CASE h.st = "ok" /\ h.type = CONNECT
  <2>1. Len(b) \in Nat /\ Len(s) \in Nat /\ Len(b) <= Len(s)
    BY LenProperties DEF Bytes, Starts
  <2>2. h.n \in Nat /\ h.n <= Len(b)
    BY <1>1, <1>4, <2>1, HeaderStarts
  <2>3. name.ok /\ VersionBehind(b, h, name) = VersionAt(b, at)
    <3> HIDE DEF name, h
    <3> QED
      BY <1>2, <1>4 DEF VersionBehind, NoVersion
  <2>4. Starts(Drop(b, h.n), Drop(s, h.n))
    <3> HIDE DEF h, name, other
    <3>3. h.n <= Len(s)
      BY <2>1, <2>2
    <3>1. /\ Len(Drop(b, h.n)) = Len(b) - h.n /\ Len(Drop(s, h.n)) = Len(s) - h.n
          /\ \A i \in 1..Len(b) - h.n : Drop(b, h.n)[i] = b[h.n + i]
          /\ \A i \in 1..Len(s) - h.n : Drop(s, h.n)[i] = s[h.n + i]
      BY <2>2, <3>3, DropAt
    <3>2. \A i \in 1..Len(b) - h.n : b[h.n + i] = s[h.n + i]
      BY <2>1, <2>2 DEF Starts
    <3> QED
      BY <2>1, <2>2, <3>1, <3>2 DEF Starts
  <2>5. other.ok /\ Len(other.v) = Len(name.v) /\ Len(name.v) \in Nat
    BY <2>2, <2>3, <2>4, DropBytes, StringStarts, StringRead
  <2>6. VersionBehind(s, h, other) = VersionAt(s, at)
    <3> HIDE DEF name, other, h
    <3> QED
      BY <1>4, <2>5 DEF VersionBehind
  <2>7. at \in Nat \ {0}
    BY <2>2, <2>5
  <2> HIDE DEF at, h, name, other
  <2>8. at <= Len(b)
    BY <1>2, <2>1, <2>3, <2>7 DEF VersionAt, NoVersion
  <2>9. VersionAt(s, at) = VersionAt(b, at)
    BY <2>1, <2>7, <2>8 DEF VersionAt, Starts
  <2> QED
    BY <1>2, <2>3, <2>6, <2>9
<1> QED
  BY <1>3, <1>4

\* What is read from the front of the stream stays what it is, however many
\* bytes follow.
LEMMA PacketStarts ==
    ASSUME NEW b \in Bytes, NEW s \in Bytes, Starts(b, s), NEW w \in {0, 4, 5},
           ReadPacket(b, w).st # "more"
    PROVE  ReadPacket(s, w) = ReadPacket(b, w)
<1>1. CASE w # 0
  BY <1>1, BodyStarts DEF ReadPacket
<1>2. CASE w = 0
  <2> DEFINE c == ReadConnectVersion(b)
  <2>1. c.st # "more"
    BY <1>2 DEF ReadPacket, Known, Unknown, Stop
  <2>2. ReadConnectVersion(s) = c
    BY <2>1, VersionStarts
  <2>3. CASE ~Known(c)
    BY <1>2, <2>2, <2>3 DEF ReadPacket
  <2>4. CASE Known(c)
    <3>1. c.version \in {4, 5}
      BY <2>4 DEF Known
    <3>2. ReadPacket(b, w) = [ReadPacketOf(c.version, b) EXCEPT !.used = IF @ > c.n THEN @ ELSE c.n]
      BY <1>2, <2>4 DEF ReadPacket
    <3>3. ReadPacketOf(c.version, b).st # "more"
      BY <3>2 DEF ReadPacketOf, ReadBody, PacketWith, Stop
    <3>4. ReadPacketOf(c.version, s) = ReadPacketOf(c.version, b)
      BY <3>1, <3>3, BodyStarts
    <3> QED
      BY <1>2, <2>2, <2>4, <3>4 DEF ReadPacket
  <2> QED
    BY <2>3, <2>4
<1> QED
  BY <1>1, <1>2

\* The first n bytes are a beginning.
LEMMA CutStarts ==
    ASSUME NEW s \in Bytes, NEW n \in Nat, n <= Len(s)
    PROVE  /\ SubSeq(s, 1, n) \in Bytes /\ Len(SubSeq(s, 1, n)) = n
           /\ Starts(SubSeq(s, 1, n), s)
<1>1. Len(s) \in Nat
  BY LenProperties DEF Bytes
<1> QED
  BY <1>1, TakeAt DEF Starts

(*****************************************************************************)
(* The place of the reader in the stream.                                    *)
(*****************************************************************************)
\* What goes over the wire is bytes.
LEMMA ItemsRaw == \A v \in {4, 5} : RawItems(Items[v])
BY ItemsAssumption DEF RawItems

\* From the front of the stream the codec takes the item that is there and not
\* a byte of the next, or refuses it, whatever follows and wherever the bytes
\* are cut; with a whole item it does not wait for more.
LEMMA ItemRead ==
    ASSUME NEW v \in {4, 5}, NEW item \in Items[v], NEW w \in {0, v},
           NEW rest \in Bytes, NEW n \in 0..Len(item.raw \o rest)
    PROVE  LET r == ReadPacket(SubSeq(item.raw \o rest, 1, n), w)
           IN  /\ r.st = "ok" => /\ item.ok /\ r.packet = item.packet
                                 /\ r.used = Len(item.raw)
               /\ r.st \in {"bad", "refused"} =>
                     ~item.ok \/ (w = 0 /\ ~Opens(item.packet))
               /\ n >= Len(item.raw) => r.st # "more"
<1> DEFINE raw == item.raw
           s == raw \o rest
           b == SubSeq(s, 1, n)
           whole == ReadPacket(raw, w)
<1>1. raw \in Bytes /\ w \in {0, 4, 5} /\ n \in Nat
  BY ItemsAssumption
<1>2. \/ /\ item.ok /\ whole.st = "ok"
         /\ whole.packet = item.packet /\ whole.used = Len(raw)
      \/ /\ whole.st \in {"bad", "refused"}
         /\ item.ok => w = 0 /\ ~Opens(item.packet)
  BY WholeItemsAssumption
<1> HIDE DEF raw
<1>3. s \in Bytes /\ Len(s) = Len(raw) + Len(rest) /\ Len(raw) \in Nat /\ Len(rest) \in Nat
  BY <1>1, ConcatBytes, LenProperties DEF Bytes
<1>4. n <= Len(s)
  BY <1>1, <1>3 DEF raw
<1>5. b \in Bytes /\ Len(b) = n /\ Starts(b, s)
  BY <1>1, <1>3, <1>4, CutStarts
<1>6. raw = SubSeq(s, 1, Len(raw)) /\ Starts(raw, s)
  <2>1. raw = SubSeq(s, 1, Len(raw))
    BY <1>1, TakeFront
  <2>2. Len(raw) <= Len(s)
    BY <1>3
  <2>3. Starts(SubSeq(s, 1, Len(raw)), s)
    BY <1>3, <2>2, CutStarts
  <2> HIDE DEF s
  <2> QED
    BY <2>1, <2>3
<1> HIDE DEF s, b
<1>7. whole.st # "more" /\ ReadPacket(s, w) = whole
  BY <1>1, <1>2, <1>3, <1>6, PacketStarts
<1>8. ReadPacket(b, w).st # "more" => ReadPacket(b, w) = whole
  BY <1>1, <1>3, <1>5, <1>7, PacketStarts
<1>9. n >= Len(raw) => ReadPacket(b, w) = whole
  <2>1. n >= Len(raw) => Starts(raw, b)
    BY <1>1, <1>3, <1>4, <1>5, <1>6 DEF Starts
  <2> QED
    BY <1>1, <1>5, <1>7, <2>1, PacketStarts
<1> HIDE DEF whole
<1>10. LET r == ReadPacket(b, w)
       IN  /\ r.st = "ok" => /\ item.ok /\ r.packet = item.packet
                             /\ r.used = Len(raw)
           /\ r.st \in {"bad", "refused"} =>
                 ~item.ok \/ (w = 0 /\ ~Opens(item.packet))
           /\ n >= Len(raw) => r.st # "more"
  BY <1>2, <1>7, <1>8, <1>9
<1> QED
  BY <1>10 DEF b, s, raw

\* What is in bufr and under way is what comes next of what was sent; if the
\* connection is open, all of it.
InStep ==
    /\ version \in {0, speaks}
    /\ pc # "closed" =>
          \E rest \in Bytes : /\ Unread = (bufr \o flight) \o rest
                              /\ sock => rest = <<>>
    /\ pc = "handle" => want # Nothing /\ want.ok /\ got = want.packet
    /\ cause # "none" => pc = "closed"
    /\ cause \in {"bad", "refused"} =>
          /\ queue # <<>>
          /\ Head(queue).ok => version = 0 /\ ~Opens(Head(queue).packet)

\* With the types and the deadlines it is inductive.
SyncInv == ReaderInv /\ InStep

\* The invariant says what is asked of the stream.
LEMMA InStepIsSync == SyncInv => StreamInSync
<1> SUFFICES ASSUME SyncInv PROVE StreamInSync
  OBVIOUS
<1> USE DEF SyncInv, ReaderInv
<1>1. ASSUME pc # "closed"
      PROVE  LET here == bufr \o flight
             IN  /\ Len(here) <= Len(Unread)
                 /\ here = SubSeq(Unread, 1, Len(here))
                 /\ sock => here = Unread
  <2> DEFINE here == bufr \o flight
  <2>1. here \in Bytes
    BY ConcatBytes DEF TypeOK
  <2>2. PICK rest \in Bytes : Unread = here \o rest /\ (sock => rest = <<>>)
    BY <1>1 DEF InStep
  <2> HIDE DEF here
  <2>3. Len(Unread) = Len(here) + Len(rest) /\ Len(here) \in Nat /\ Len(rest) \in Nat
    BY <2>1, <2>2, ConcatBytes, LenProperties DEF Bytes
  <2>4. here = SubSeq(Unread, 1, Len(here))
    BY <2>1, <2>2, TakeFront
  <2>5. sock => here = Unread
    BY <2>1, <2>2, ConcatEmptySeq DEF Bytes
  <2>6. Len(here) <= Len(Unread)
    BY <2>3
  <2> QED
    BY <2>4, <2>5, <2>6 DEF here
<1> QED
  BY <1>1 DEF StreamInSync, InStep

\* What a read finds is told by the item at the front of the queue.
LEMMA Front ==
    ASSUME SyncInv, pc # "closed"
    PROVE  /\ queue = <<>> => bufr = <<>> /\ flight = <<>> /\ Found.st = "more"
           /\ queue # <<>> =>
                 LET item == Head(queue)
                 IN  /\ item \in Items[speaks]
                     /\ Found.st = "ok" => /\ item.ok /\ Found.packet = item.packet
                                           /\ Found.used = Len(item.raw)
                                           /\ Found.used <= Len(bufr)
                     /\ Found.st \in {"bad", "refused"} =>
                           ~item.ok \/ (version = 0 /\ ~Opens(item.packet))
                     /\ Len(bufr) >= Len(item.raw) => Found.st # "more"
<1> USE DEF SyncInv, ReaderInv
<1>1. PICK rest \in Bytes : Unread = (bufr \o flight) \o rest
  BY DEF InStep
<1>2. bufr \in Bytes /\ flight \in Bytes /\ flight \o rest \in Bytes
  BY ConcatBytes DEF TypeOK
<1>3. Unread = bufr \o (flight \o rest)
  BY <1>1, <1>2, Regroup
<1>4. ASSUME queue = <<>>
      PROVE  bufr = <<>> /\ flight = <<>> /\ Found.st = "more"
  <2>1. bufr \o (flight \o rest) = <<>>
    BY <1>3, <1>4, BytesOfEmpty DEF Unread
  <2>2. bufr = <<>> /\ flight \o rest = <<>>
    BY <1>2, <2>1, ConcatEqualIffEmpty DEF Bytes
  <2>3. flight = <<>>
    BY <1>2, <2>2, ConcatEqualIffEmpty DEF Bytes
  <2>4. ReadHeader(<<>>).st = "more"
    BY DEF ReadHeader, HeaderWith
  <2>5. Found.st = "more"
    BY <2>2, <2>4 DEF Found, ReadPacket, ReadConnectVersion, ReadVersion,
       VersionBehind, NoVersion, Known, Unknown, Stop, ReadPacketOf, ReadBody
  <2> QED
    BY <2>2, <2>3, <2>5
<1>5. ASSUME queue # <<>>
      PROVE  LET item == Head(queue)
             IN  /\ item \in Items[speaks]
                 /\ Found.st = "ok" => /\ item.ok /\ Found.packet = item.packet
                                       /\ Found.used = Len(item.raw)
                                       /\ Found.used <= Len(bufr)
                 /\ Found.st \in {"bad", "refused"} =>
                       ~item.ok \/ (version = 0 /\ ~Opens(item.packet))
                 /\ Len(bufr) >= Len(item.raw) => Found.st # "more"
  <2> DEFINE item == Head(queue)
             behind == BytesOf(Tail(queue))
             n == Len(bufr)
  <2>1. /\ item \in Items[speaks] /\ Tail(queue) \in Seq(Items[speaks])
        /\ RawItems(Items[speaks])
    BY <1>5, HeadTailProperties, ItemsRaw DEF TypeOK
  <2>2. Unread = item.raw \o behind
    BY <1>5, <2>1, BytesOfHead DEF Unread, TypeOK
  <2>3. behind \in Bytes
    BY <2>1, BytesOfTyped
  <2>4. bufr = SubSeq(item.raw \o behind, 1, n)
    BY <1>2, <1>3, <2>2, TakeFront
  <2>5. n \in 0..Len(item.raw \o behind)
    <3>1. Len(Unread) = Len(bufr) + Len(flight \o rest)
      BY <1>2, <1>3, ConcatBytes
    <3>2. Len(bufr) \in Nat /\ Len(flight \o rest) \in Nat
      BY <1>2, LenProperties DEF Bytes
    <3> QED
      BY <2>2, <3>1, <3>2
  <2>6. version \in {0, speaks} /\ speaks \in {4, 5}
    BY DEF TypeOK, InStep
  <2>7. Found = ReadPacket(SubSeq(item.raw \o behind, 1, n), version)
    BY <2>4 DEF Found
  <2>8. Found.st = "ok" => Found.used <= Len(bufr)
    BY <1>2, PacketRead DEF Found, TypeOK
  <2> HIDE DEF item, behind, n
  <2>9. /\ Found.st = "ok" => /\ item.ok /\ Found.packet = item.packet
                              /\ Found.used = Len(item.raw)
        /\ Found.st \in {"bad", "refused"} =>
              ~item.ok \/ (version = 0 /\ ~Opens(item.packet))
        /\ n >= Len(item.raw) => Found.st # "more"
    BY <2>1, <2>3, <2>5, <2>6, <2>7, ItemRead
  <2> QED
    BY <2>1, <2>8, <2>9 DEF item, n
<1> QED
  BY <1>4, <1>5

\* It holds at first.
LEMMA InitSyncInv == Init => SyncInv
<1> SUFFICES ASSUME Init PROVE InStep
  BY InitReaderInv DEF SyncInv
<1> USE DEF Init
<1>1. Unread = (bufr \o flight) \o <<>> /\ <<>> \in Bytes
  BY BytesOfEmpty, ConcatEmptySeq DEF Unread, Bytes
<1> QED
  BY <1>1 DEF InStep

\* The bytes that have not been read, before and after a step that moves none.
LEMMA SameStream ==
    ASSUME SyncInv, pc # "closed", queue' = queue, speaks' = speaks,
           bufr' = bufr, \/ flight' = flight /\ sock' = sock
                         \/ flight' = <<>> /\ sock' = FALSE
    PROVE  \E rest \in Bytes : /\ Unread' = (bufr' \o flight') \o rest
                               /\ sock' => rest = <<>>
<1> USE DEF SyncInv, ReaderInv
<1>1. PICK rest \in Bytes : /\ Unread = (bufr \o flight) \o rest
                            /\ sock => rest = <<>>
  BY DEF InStep
<1>2. Unread' = Unread
  BY DEF Unread
<1>3. CASE flight' = flight /\ sock' = sock
  BY <1>1, <1>2, <1>3
<1>4. CASE flight' = <<>> /\ sock' = FALSE
  <2>1. bufr \in Bytes /\ flight \o rest \in Bytes /\ bufr \o <<>> = bufr
    BY ConcatBytes, ConcatEmptySeq DEF TypeOK, Bytes
  <2>2. Unread = bufr \o (flight \o rest)
    BY <1>1, <2>1, Regroup DEF TypeOK
  <2>3. Unread' = (bufr' \o flight') \o (flight \o rest)
    BY <1>2, <1>4, <2>1, <2>2
  <2> QED
    BY <1>4, <2>1, <2>3
<1> QED
  BY <1>3, <1>4

\* Bytes that are sent, and come in pieces, stay in order.
LEMMA ClientKeepsInStep == ASSUME SyncInv, ClientNext PROVE InStep'
<1> USE DEF SyncInv, ReaderInv, streamVars, connVars, goVars, clientVars
<1>1. ASSUME NEW item \in Items[speaks], ClientSends(item) PROVE InStep'
  <2> USE <1>1 DEF ClientSends
  <2>1. bufr \in Bytes /\ flight \in Bytes /\ item.raw \in Bytes
    BY ItemsAssumption DEF TypeOK
  <2>2. Unread = bufr \o flight
    <3>1. Unread = (bufr \o flight) \o <<>>
      BY DEF InStep
    <3>2. bufr \o flight \in Bytes
      BY <2>1, ConcatBytes
    <3> QED
      BY <3>1, <3>2, ConcatEmptySeq DEF Bytes
  <2>3. Unread' = Unread \o item.raw
    BY BytesOfAppend DEF Unread, TypeOK
  <2>4. Unread' = bufr' \o flight'
    BY <2>1, <2>2, <2>3, Regroup
  <2>5. bufr' \o flight' \in Bytes
    BY <2>1, ConcatBytes
  <2>6. Unread' = (bufr' \o flight') \o <<>> /\ <<>> \in Bytes
    BY <2>4, <2>5, ConcatEmptySeq DEF Bytes
  <2> QED
    BY <2>6 DEF InStep
<1>2. ASSUME NEW n, Fill(n) PROVE InStep'
  <2> USE <1>2 DEF Fill
  <2>1. bufr \in Bytes /\ flight \in Bytes /\ Len(flight) \in Nat
    BY LenProperties DEF TypeOK, Bytes
  <2>2. n \in Nat /\ n <= Len(flight)
    BY <2>1
  <2>3. /\ SubSeq(flight, 1, n) \in Bytes /\ Drop(flight, n) \in Bytes
        /\ SubSeq(flight, 1, n) \o Drop(flight, n) = flight
    BY <2>1, <2>2, TakeAt, DropAt, TakeDrop
  <2>4. bufr' \o flight' = bufr \o flight
    <3>1. (bufr \o SubSeq(flight, 1, n)) \o Drop(flight, n)
             = bufr \o (SubSeq(flight, 1, n) \o Drop(flight, n))
      BY <2>1, <2>3, Regroup
    <3>2. bufr' = bufr \o SubSeq(flight, 1, n) /\ flight' = Drop(flight, n)
      OBVIOUS
    <3> QED
      BY <2>3, <3>1, <3>2
  <2>5. Unread' = Unread
    BY DEF Unread
  <2> QED
    BY <2>4, <2>5 DEF InStep, Blocked
<1>3. ASSUME ConnectionLost PROVE InStep'
  BY <1>3, SameStream DEF ConnectionLost, InStep
<1>4. ASSUME Tick PROVE InStep'
  BY <1>4, SameStream DEF Tick, InStep, Blocked
<1> QED
  BY <1>1, <1>2, <1>3, <1>4 DEF ClientNext

\* A request takes exactly its own bytes from the stream.
LEMMA ServerKeepsInStep ==
    ASSUME SyncInv, ServerNext PROVE InStep'
<1> USE DEF SyncInv, ReaderInv, streamVars, connVars, goVars, clientVars
<1>1. ASSUME ReadRequest PROVE InStep'
  <2> USE <1>1 DEF ReadRequest
  <2> DEFINE item == Head(queue)
             behind == BytesOf(Tail(queue))
  <2>1. queue # <<>>
    BY Front
  <2>2. /\ item \in Items[speaks] /\ item.ok
        /\ Found.packet = item.packet
        /\ Found.used = Len(item.raw) /\ Found.used <= Len(bufr)
    BY <2>1, Front
  <2>3. /\ Tail(queue) \in Seq(Items[speaks]) /\ RawItems(Items[speaks])
        /\ item.raw \in Bytes
    BY <2>1, <2>2, HeadTailProperties, ItemsRaw, ItemsAssumption DEF TypeOK
  <2>4. Unread = item.raw \o behind /\ behind \in Bytes
    BY <2>1, <2>3, BytesOfHead, BytesOfTyped DEF Unread, TypeOK
  <2>5. Unread' = behind
    BY <2>1 DEF Unread
  <2>6. PICK rest \in Bytes : /\ Unread = (bufr \o flight) \o rest
                              /\ sock => rest = <<>>
    BY DEF InStep
  <2>7. bufr \in Bytes /\ flight \in Bytes /\ flight \o rest \in Bytes
    BY ConcatBytes DEF TypeOK
  <2>8. item.raw \o behind = bufr \o (flight \o rest)
    BY <2>4, <2>6, <2>7, Regroup
  <2>9. bufr' \o (flight \o rest) = behind
    <3>1. bufr' = Drop(bufr, Len(item.raw)) /\ Len(item.raw) <= Len(bufr)
      BY <2>2
    <3> HIDE DEF item, behind
    <3>2. Drop(bufr, Len(item.raw)) \o (flight \o rest) = behind
      BY <2>3, <2>4, <2>7, <2>8, <3>1, DropFront
    <3> QED
      BY <3>1, <3>2
  <2>10. bufr' \in Bytes
    BY <2>2, <2>7, DropBytes, PacketRead DEF Found, TypeOK
  <2>11. Unread' = (bufr' \o flight') \o rest
    BY <2>5, <2>7, <2>9, <2>10, Regroup
  <2>12. item.packet.version = speaks /\ want' = item /\ item # Nothing
    BY <2>1, <2>2 DEF Items, TypeOK, Nothing
  <2> QED
    BY <2>2, <2>6, <2>11, <2>12 DEF InStep
<1>2. ASSUME ReadFails PROVE InStep'
  <2> USE <1>2 DEF ReadFails, End
  <2>1. queue # <<>>
    BY Front
  <2>2. Head(queue).ok => version = 0 /\ ~Opens(Head(queue).packet)
    BY <2>1, Front
  <2> QED
    BY <2>1, <2>2 DEF InStep
<1>3. ASSUME ReadClosed \/ ReadTimesOut \/ HandledInShutdown PROVE InStep'
  BY <1>3 DEF ReadClosed, ReadTimesOut, HandledInShutdown, End, InStep
<1>4. ASSUME NEW login \in BOOLEAN, NEW closes \in BOOLEAN, Handle(login, closes)
      PROVE  InStep'
  <2> USE <1>4 DEF Handle
  <2>1. CASE closes
    <3>1. flight' = <<>> /\ sock' = FALSE
      BY <2>1
    <3> QED
      BY <3>1, SameStream DEF InStep
  <2>2. CASE ~closes
    <3>1. flight' = flight /\ sock' = sock
      BY <2>2 DEF TypeOK
    <3> QED
      BY <3>1, SameStream DEF InStep
  <2> QED
    BY <2>1, <2>2
<1>5. ASSUME Peek PROVE InStep'
  BY <1>5, SameStream DEF Peek, InStep
<1> QED
  BY <1>1, <1>2, <1>3, <1>4, <1>5 DEF ServerNext

\* It is inductive.
LEMMA NextKeepsSyncInv == SyncInv /\ [Next]_vars => SyncInv'
<1> SUFFICES ASSUME SyncInv, [Next]_vars PROVE SyncInv'
  OBVIOUS
<1>1. CASE UNCHANGED vars
  <2>1. Unread' = Unread
    BY <1>1 DEF vars, streamVars, Unread
  <2>2. InStep'
    BY <1>1, <2>1 DEF vars, streamVars, connVars, goVars, clientVars, InStep, SyncInv
  <2> QED
    BY <2>2, NextKeepsReaderInv DEF SyncInv
<1> QED
  BY <1>1, ClientKeepsInStep, ServerKeepsInStep, NextKeepsReaderInv
     DEF Next, SyncInv

\* Whatever pieces the bytes come in, the reader keeps its place: a handler gets
\* what the client sent there, and only what is no packet, or opens no
\* connection, is refused (codec/packets.go:13-33, v311/packets.go:11-42,
\* v5/packets.go:11-42, conn.go:46-56).
THEOREM StreamStaysInSync == Spec => []StreamInSync
<1>1. Init => SyncInv
  BY InitSyncInv
<1>2. SyncInv /\ [Next]_vars => SyncInv'
  BY NextKeepsSyncInv
<1>3. SyncInv => StreamInSync
  BY InStepIsSync
<1> QED
  BY <1>1, <1>2, <1>3, PTL DEF Spec

(*****************************************************************************)
(* The client that keeps its keep-alive.                                     *)
(*****************************************************************************)
\* A CONNECT of the client.
IsConnect(item) == item.ok /\ item.packet.type = CONNECT

\* A client that keeps its promise sends packets only, and one CONNECT: until
\* it is read it is in the queue, then its keep-alive sets the idle timeout.
OneConnect ==
    /\ \A i \in 1..Len(queue) : queue[i].ok
    /\ \A i \in 1..Len(queue) :
          IsConnect(queue[i]) =>
              version = 0 /\ queue[i].packet.val.KeepAliveSeconds = keep
    /\ \A i, j \in 1..Len(queue) :
          IsConnect(queue[i]) /\ IsConnect(queue[j]) => i = j
    /\ keep = NoKeepAlive => version = 0
    /\ version = 0 => pc \in {"read", "closed"} /\ since = 0 /\ age = 0
    /\ pc = "handle" /\ got.type = CONNECT => got.val.KeepAliveSeconds = keep
    /\ version # 0 /\ sock /\ keep > 0 /\ pc # "closed" =>
          (pc = "handle" /\ got.type = CONNECT) \/ idle = IdleTimeout(keep)

\* What is left of a deadline: a wait has lasted for as long as the client has
\* been silent, or its bytes under way.
TimeLeft ==
    /\ cause # "timeout"
    /\ version # 0 => since <= keep
    /\ pc = "read" /\ timeout = 0 => left = NoDeadline
    /\ pc = "read" /\ version = 0 /\ timeout > 0 =>
          left > 0 /\ left + waited = timeout
    /\ sock /\ pc = "peek" =>
          /\ left > 0
          /\ \/ keep = 0 \/ Len(bufr) >= 2
             \/ flight # <<>> /\ idle - left <= keep + age
             \/ flight = <<>> /\ idle - left <= since
    /\ sock /\ pc = "read" /\ version # 0 /\ timeout > 0 =>
          /\ left > 0
          /\ \/ keep = 0 \/ Found.st # "more"
             \/ flight # <<>> /\ timeout - left <= age

\* What holds while client and network keep their promise.
PromiseInv == promise => OneConnect /\ TimeLeft

\* The first packet is a CONNECT (codec/packets.go:35-52).
LEMMA FirstIsConnect ==
    ASSUME NEW b, ReadPacket(b, 0).st = "ok"
    PROVE  ReadPacket(b, 0).packet.type = CONNECT
<1> DEFINE c == ReadConnectVersion(b)
           h == ReadHeader(b)
<1>1. Known(c) /\ ReadPacket(b, 0) =
         [ReadPacketOf(c.version, b) EXCEPT !.used = IF @ > c.n THEN @ ELSE c.n]
  BY DEF ReadPacket, Unknown, Stop
<1>2. ReadPacketOf(c.version, b).st = "ok"
  BY <1>1 DEF ReadPacketOf, ReadBody, PacketWith, Stop
<1>3. ReadPacketOf(c.version, b).packet.type = h.type
  BY <1>2 DEF ReadPacketOf, ReadBody, PacketWith, Stop
<1>4. h.type = CONNECT
  BY <1>1 DEF Known, ReadConnectVersion, ReadVersion, VersionBehind, NoVersion
<1>5. ReadPacket(b, 0).packet = ReadPacketOf(c.version, b).packet
  BY <1>1 DEF ReadPacketOf, ReadBody, PacketWith, Stop
<1> QED
  BY <1>3, <1>4, <1>5

\* A packet has two bytes or more: what is peeked for is always there.
LEMMA PacketLength ==
    ASSUME NEW v \in {4, 5}, NEW item \in Items[v], item.ok
    PROVE  Len(item.raw) \in Nat /\ Len(item.raw) >= 2
<1>1. item.raw \in Bytes /\ Len(item.raw) \in Nat
  BY ItemsAssumption, LenProperties DEF Bytes
<1>2. ReadPacketOf(v, item.raw).st = "ok"
  BY WholeItemsAssumption DEF ReadPacket
<1>3. ReadHeader(item.raw).st = "ok"
  BY <1>2 DEF ReadPacketOf, ReadBody, Stop
<1>4. Starts(item.raw, item.raw)
  BY <1>1 DEF Starts
<1> QED
  BY <1>1, <1>3, <1>4, HeaderStarts

\* When all that was sent has come, a packet is there.
LEMMA Complete ==
    ASSUME NEW v \in {4, 5}, NEW w \in {0, v}, NEW q \in Seq(Items[v]), q # <<>>,
           Head(q).ok
    PROVE  Len(BytesOf(q)) >= 2 /\ ReadPacket(BytesOf(q), w).st # "more"
<1> DEFINE item == Head(q)
           behind == BytesOf(Tail(q))
           b == BytesOf(q)
           n == Len(b)
<1>1. item \in Items[v] /\ Tail(q) \in Seq(Items[v]) /\ RawItems(Items[v])
  BY HeadTailProperties, ItemsRaw
<1>2. b = item.raw \o behind /\ behind \in Bytes /\ item.raw \in Bytes
  BY <1>1, BytesOfHead, BytesOfTyped, ItemsAssumption
<1>3. /\ b \in Bytes /\ n = Len(item.raw) + Len(behind)
      /\ n \in Nat /\ Len(behind) \in Nat
  BY <1>2, ConcatBytes, LenProperties DEF Bytes
<1>4. Len(item.raw) \in Nat /\ Len(item.raw) >= 2
  BY <1>1, PacketLength
<1>5. SubSeq(b, 1, n) = b
  <2> HIDE DEF b
  <2>1. b \o <<>> = b /\ <<>> \in Bytes
    BY <1>3, ConcatEmptySeq DEF Bytes
  <2> QED
    BY <1>3, <2>1, TakeFront
<1> HIDE DEF b, n, item, behind
<1>6. ReadPacket(SubSeq(item.raw \o behind, 1, n), w).st # "more"
  <2>1. n \in 0..Len(item.raw \o behind) /\ n >= Len(item.raw)
    BY <1>2, <1>3, <1>4 DEF n
  <2> QED
    BY <1>1, <1>2, <2>1, ItemRead
<1>7. ReadPacket(b, w).st # "more"
  BY <1>2, <1>5, <1>6
<1>8. Len(b) >= 2
  <2>1. n >= 2
    BY <1>3, <1>4
  <2> QED
    BY <2>1 DEF n
<1> QED
  BY <1>7, <1>8 DEF b

\* The invariant of the kept promise holds at first.
LEMMA InitPromiseInv == Init => PromiseInv
<1> SUFFICES ASSUME Init PROVE OneConnect /\ TimeLeft
  BY DEF PromiseInv
<1> USE ReaderAssumption DEF Init
<1>1. Len(queue) = 0
  OBVIOUS
<1>2. OneConnect
  BY <1>1 DEF OneConnect
<1>3. TimeLeft
  BY DEF TimeLeft, ReadDeadline
<1> QED
  BY <1>2, <1>3

\* What is known of a state in which the client has kept its promise.
LEMMA KeptFacts ==
    ASSUME SyncInv, OneConnect, TimeLeft
    PROVE  /\ version \in {0, 4, 5} /\ timeout \in Nat
           /\ since \in Nat /\ age \in Nat /\ waited \in Nat
           /\ keep \in Nat \cup {-1} /\ idle \in Nat
           /\ left \in Nat \cup {-1}
           /\ version # 0 => keep \in Nat
           /\ Len(queue) \in Nat
           /\ queue # <<>> => Head(queue) = queue[1] /\ Head(queue).ok
                              /\ 1 \in 1..Len(queue)
<1> USE DEF SyncInv, ReaderInv
<1>1. Len(queue) \in Nat /\ (queue # <<>> => 1 \in 1..Len(queue) /\ Head(queue) = queue[1])
  BY LenProperties, EmptySeq, HeadTailProperties DEF TypeOK
<1>2. \A i \in 1..Len(queue) : queue[i].ok
  BY DEF OneConnect
<1>3. timeout \in Nat /\ waited \in Nat
  BY ReaderAssumption DEF TypeOK
<1>4. version # 0 => keep \in Nat
  BY DEF OneConnect, TypeOK, NoKeepAlive
<1> QED
  BY <1>1, <1>2, <1>3, <1>4 DEF TypeOK, NoKeepAlive, NoDeadline

\* Nothing is under way, and a packet is not read yet: it is there.
LEMMA AllHere ==
    ASSUME SyncInv, OneConnect, TimeLeft, pc # "closed", sock, flight = <<>>,
           queue # <<>>
    PROVE  Len(bufr) >= 2 /\ Found.st # "more"
<1> USE DEF SyncInv, ReaderInv
<1>1. Unread = (bufr \o flight) \o <<>>
  BY DEF InStep
<1>2. bufr = BytesOf(queue)
  BY <1>1, ConcatEmptySeq DEF TypeOK, Bytes, Unread
<1>3. version \in {0, speaks} /\ speaks \in {4, 5} /\ queue \in Seq(Items[speaks])
  BY DEF InStep, TypeOK
<1>4. Head(queue).ok
  BY KeptFacts
<1> QED
  BY <1>2, <1>3, <1>4, Complete DEF Found

\* A packet that is sent ends the silence: bytes are under way from now.
LEMMA SendKeepsPromise ==
    ASSUME SyncInv, PromiseInv, NEW item \in Items[speaks], ClientSends(item)
    PROVE  PromiseInv'
<1> SUFFICES ASSUME promise' PROVE OneConnect' /\ TimeLeft'
  BY DEF PromiseInv
<1> USE DEF ClientSends, connVars, goVars
<1> DEFINE connect == item.ok /\ item.packet.type = CONNECT
<1>1. /\ promise /\ item.ok /\ (connect => keep = NoKeepAlive)
      /\ keep' = IF connect THEN item.packet.val.KeepAliveSeconds ELSE keep
      /\ since' = 0 /\ age' = age
  BY DEF Clock
<1>2. OneConnect /\ TimeLeft
  BY <1>1 DEF PromiseInv
<1>3. /\ Len(queue) \in Nat /\ Len(queue') = Len(queue) + 1
      /\ \A i \in 1..Len(queue) : queue'[i] = queue[i]
      /\ queue'[Len(queue) + 1] = item
  BY AppendProperties, LenProperties DEF SyncInv, ReaderInv, TypeOK
<1>4. \A i \in 1..Len(queue') : i \in 1..Len(queue) \/ i = Len(queue) + 1
  BY <1>3
<1>5. connect => keep' \in Nat
  BY <1>1, ItemsAssumption DEF SyncInv, ReaderInv, TypeOK
<1>6. \A i \in 1..Len(queue) : ~(connect /\ IsConnect(queue[i]))
  <2>1. ASSUME NEW i \in 1..Len(queue), connect, IsConnect(queue[i]) PROVE FALSE
    <3>1. queue[i].packet.val.KeepAliveSeconds = NoKeepAlive
      BY <1>1, <1>2, <2>1 DEF OneConnect
    <3>2. queue[i] \in Items[speaks]
      BY ElementOfSeq DEF SyncInv, ReaderInv, TypeOK
    <3>3. queue[i].packet.val.KeepAliveSeconds \in Nat
      BY <2>1, <3>2, ItemsAssumption DEF SyncInv, ReaderInv, TypeOK, IsConnect
    <3> QED
      BY <3>1, <3>3 DEF NoKeepAlive
  <2> QED
    BY <2>1
<1>7. connect => version = 0
  BY <1>1, <1>2 DEF OneConnect
<1>8. OneConnect'
  <2>1. \A i \in 1..Len(queue') : queue'[i].ok
    BY <1>1, <1>2, <1>3, <1>4 DEF OneConnect
  <2>2. \A i \in 1..Len(queue') : IsConnect(queue'[i]) =>
           version' = 0 /\ queue'[i].packet.val.KeepAliveSeconds = keep'
    <3>1. ASSUME NEW i \in 1..Len(queue), IsConnect(queue[i])
          PROVE  version = 0 /\ queue[i].packet.val.KeepAliveSeconds = keep'
      BY <1>1, <1>2, <1>6, <3>1 DEF OneConnect
    <3>2. IsConnect(item) =>
             version = 0 /\ item.packet.val.KeepAliveSeconds = keep'
      BY <1>1, <1>7 DEF IsConnect
    <3> QED
      BY <1>3, <1>4, <3>1, <3>2
  <2>3. \A i, j \in 1..Len(queue') :
           IsConnect(queue'[i]) /\ IsConnect(queue'[j]) => i = j
    <3>1. \A i \in 1..Len(queue) : IsConnect(queue[i]) => ~IsConnect(item)
      BY <1>6 DEF IsConnect
    <3>2. \A i, j \in 1..Len(queue) : IsConnect(queue[i]) /\ IsConnect(queue[j]) => i = j
      BY <1>2 DEF OneConnect
    <3> QED
      BY <1>3, <1>4, <3>1, <3>2
  <2>4. keep' = NoKeepAlive => version' = 0
    BY <1>1, <1>2, <1>7 DEF OneConnect
  <2>5. version' = 0 => pc' \in {"read", "closed"} /\ since' = 0 /\ age' = 0
    BY <1>1, <1>2 DEF OneConnect
  <2>6. pc' = "handle" /\ got'.type = CONNECT => got'.val.KeepAliveSeconds = keep'
    BY <1>1, <1>2, <1>7 DEF OneConnect
  <2>7. version' # 0 /\ sock' /\ keep' > 0 /\ pc' # "closed" =>
           (pc' = "handle" /\ got'.type = CONNECT) \/ idle' = IdleTimeout(keep')
    BY <1>1, <1>2, <1>7 DEF OneConnect
  <2> QED
    BY <2>1, <2>2, <2>3, <2>4, <2>5, <2>6, <2>7 DEF OneConnect
<1>9. TimeLeft'
  <2>1. version # 0 => keep' = keep
    BY <1>1, <1>7
  <2>2. Found' = Found
    BY DEF Found
  <2>3. flight' # <<>>
    <3>1. flight \in Bytes /\ item.raw \in Bytes
      BY ItemsAssumption DEF SyncInv, ReaderInv, TypeOK
    <3>2. Len(item.raw) >= 2 /\ Len(item.raw) \in Nat
      BY <1>1, PacketLength DEF SyncInv, ReaderInv, TypeOK
    <3>3. Len(flight') = Len(flight) + Len(item.raw) /\ Len(flight) \in Nat
      BY <3>1, ConcatBytes, LenProperties DEF Bytes
    <3>4. Len(flight') # 0
      BY <3>2, <3>3
    <3> QED
      BY <3>4
  <2>4. pc = "peek" => version # 0
    BY <1>2 DEF OneConnect
  <2> QED
    BY <1>1, <1>2, <2>1, <2>2, <2>3, <2>4, KeptFacts DEF TimeLeft
<1> QED
  BY <1>8, <1>9

\* When the last of the bytes has come, the wait is over.
LEMMA FillKeepsPromise ==
    ASSUME SyncInv, SyncInv', PromiseInv, NEW n, Fill(n)
    PROVE  PromiseInv'
<1> SUFFICES ASSUME promise' PROVE OneConnect' /\ TimeLeft'
  BY DEF PromiseInv
<1> USE DEF Fill, connVars, goVars
<1>1. /\ promise /\ keep' = keep /\ since' = since
      /\ age' = IF flight' = <<>> THEN 0 ELSE age
  BY DEF Clock
<1>2. OneConnect /\ TimeLeft
  BY <1>1 DEF PromiseInv
<1>3. OneConnect'
  BY <1>1, <1>2 DEF OneConnect
<1>4. queue # <<>> /\ flight # <<>>
  <2>1. flight # <<>>
    BY LenProperties DEF SyncInv, ReaderInv, TypeOK, Bytes
  <2> QED
    BY <2>1, Front DEF Blocked
<1>5. flight' = <<>> => Len(bufr') >= 2 /\ Found'.st # "more"
  <2>1. SUFFICES ASSUME flight' = <<>> PROVE Len(bufr') >= 2 /\ Found'.st # "more"
    OBVIOUS
  <2>2. Unread' = (bufr' \o flight') \o <<>>
    BY DEF SyncInv, InStep, Blocked
  <2>3. bufr' = BytesOf(queue)
    BY <2>1, <2>2, ConcatEmptySeq DEF SyncInv, ReaderInv, TypeOK, Bytes, Unread
  <2>4. version \in {0, speaks} /\ speaks \in {4, 5} /\ queue \in Seq(Items[speaks])
    BY DEF SyncInv, InStep, ReaderInv, TypeOK
  <2>5. Head(queue).ok
    BY <1>2, <1>4, KeptFacts
  <2>6. Len(BytesOf(queue)) >= 2 /\ ReadPacket(BytesOf(queue), version).st # "more"
    BY <1>4, <2>4, <2>5, Complete
  <2> QED
    BY <2>3, <2>6 DEF Found
<1>6. Len(bufr) >= 2 => Len(bufr') >= 2
  BY DEF Blocked
<1>7. TimeLeft'
  BY <1>1, <1>2, <1>4, <1>5, KeptFacts DEF TimeLeft, Blocked
<1> QED
  BY <1>3, <1>7

\* A second passes: the margin of the deadline is not used up.
LEMMA TickKeepsPromise ==
    ASSUME SyncInv, PromiseInv, Tick
    PROVE  PromiseInv'
<1> SUFFICES ASSUME promise' PROVE OneConnect' /\ TimeLeft'
  BY DEF PromiseInv
<1> DEFINE a == IF flight # <<>> /\ pc # "handle" THEN age + 1 ELSE age
<1>0. /\ pc = "handle" \/ (Blocked /\ sock /\ left # 0)
      /\ left' = IF left > 0 THEN left - 1 ELSE left
      /\ waited' = IF pc # "handle" /\ waited < MaxWait THEN waited + 1 ELSE waited
      /\ sock' = sock /\ queue' = queue /\ flight' = flight /\ bufr' = bufr
      /\ timeout' = timeout /\ version' = version /\ idle' = idle /\ got' = got
      /\ pc' = pc /\ cause' = cause
  BY DEF Tick, streamVars, connVars
<1>1. /\ promise /\ keep' = keep
      /\ since' = IF version = 0 THEN 0 ELSE since + 1
      /\ age' = IF version = 0 THEN 0 ELSE a
      /\ version = 0 => (timeout > 0 => waited' < timeout)
      /\ version # 0 => /\ since + 1 <= keep /\ a < keep \div 2
                        /\ timeout > 0 => a < timeout
  BY DEF Tick, Clock
<1>2. OneConnect /\ TimeLeft
  BY <1>1 DEF PromiseInv
<1>3. OneConnect'
  BY <1>0, <1>1, <1>2 DEF OneConnect
<1>4. Found' = Found
  BY <1>0 DEF Found
<1>5. CASE pc = "handle"
  <2>1. version # 0
    BY <1>0, <1>2, <1>5 DEF OneConnect
  <2> QED
    BY <1>0, <1>1, <1>2, <1>3, <1>4, <1>5, <2>1, KeptFacts DEF TimeLeft
<1>6. CASE Blocked /\ sock /\ left # 0 /\ pc = "read" /\ version = 0
  <2>1. timeout = 0 => left' = NoDeadline
    BY <1>0, <1>2, <1>6 DEF TimeLeft, NoDeadline
  <2>2. timeout > 0 => left' > 0 /\ left' + waited' = timeout
    <3>1. SUFFICES ASSUME timeout > 0 PROVE left' > 0 /\ left' + waited' = timeout
      OBVIOUS
    <3>2. left > 0 /\ left + waited = timeout /\ timeout <= MaxWait
      BY <1>0, <1>2, <1>6, <3>1, ReaderAssumption DEF TimeLeft, SyncInv, ReaderInv, TypeOK
    <3>3. waited' = waited + 1 /\ left' = left - 1
      BY <1>0, <1>2, <1>6, <3>2, KeptFacts, ReaderAssumption
    <3> QED
      BY <1>0, <1>1, <1>2, <1>6, <3>1, <3>2, <3>3, KeptFacts
  <2>3. pc' = "read" /\ version' = 0 /\ cause' # "timeout" /\ timeout' = timeout
    BY <1>0, <1>2, <1>6 DEF TimeLeft
  <2> QED
    BY <1>3, <2>1, <2>2, <2>3 DEF TimeLeft
<1>7. CASE Blocked /\ sock /\ left # 0 /\ pc = "read" /\ version # 0
  <2>1. timeout = 0 => left' = NoDeadline
    BY <1>0, <1>2, <1>7 DEF TimeLeft, NoDeadline
  <2>2. timeout > 0 => /\ left' > 0
                       /\ flight' # <<>> /\ timeout' - left' <= age'
    <3>1. SUFFICES ASSUME timeout > 0
                   PROVE  left' > 0 /\ flight # <<>> /\ timeout - left' <= age'
      BY <1>0
    <3>2. left > 0 /\ Found.st = "more"
      BY <1>0, <1>2, <1>7, <3>1 DEF TimeLeft, Blocked
    <3>3. keep # 0
      BY <1>0, <1>1, <1>2, <1>7, KeptFacts
    <3>4. flight # <<>> /\ timeout - left <= age
      BY <1>0, <1>2, <1>7, <3>1, <3>2, <3>3 DEF TimeLeft
    <3>5. left' = left - 1 /\ a = age + 1 /\ a < timeout /\ age' = a
      BY <1>0, <1>1, <1>7, <3>1, <3>2, <3>4
    <3> QED
      BY <1>0, <1>2, <3>2, <3>4, <3>5, KeptFacts
  <2>3. /\ pc' = "read" /\ version' # 0 /\ cause' # "timeout"
        /\ timeout' = timeout /\ since' <= keep'
    BY <1>0, <1>1, <1>2, <1>7 DEF TimeLeft
  <2>4. timeout' > 0 => timeout > 0
    BY <2>3
  <2> HIDE DEF a
  <2> QED
    BY <1>3, <2>1, <2>2, <2>3, <2>4 DEF TimeLeft
<1>8. CASE Blocked /\ sock /\ left # 0 /\ pc = "peek"
  <2>1. version # 0
    BY <1>0, <1>2, <1>8 DEF OneConnect
  <2>2. left > 0 /\ left' = left - 1 /\ ~(Len(bufr) >= 2)
    BY <1>0, <1>2, <1>8, KeptFacts DEF TimeLeft, Blocked, SyncInv, ReaderInv, TypeOK, Bytes
  <2>3. keep > 0 /\ idle = IdleTimeout(keep)
    BY <1>0, <1>1, <1>2, <1>8, <2>1, KeptFacts DEF OneConnect
  <2>4. \/ flight # <<>> /\ idle - left <= keep + age
        \/ flight = <<>> /\ idle - left <= since
    BY <1>0, <1>2, <1>8, <2>2, <2>3 DEF TimeLeft
  <2>9. /\ since' = since + 1 /\ age' = a /\ since' <= keep /\ age' < keep \div 2
        /\ a = IF flight # <<>> THEN age + 1 ELSE age
    BY <1>1, <1>8, <2>1
  <2>5. \/ flight # <<>> /\ idle - left' <= keep + age' /\ age' < keep \div 2
        \/ flight = <<>> /\ idle - left' <= since' /\ since' <= keep
    <3>1. /\ idle \in Nat /\ left \in Int /\ keep \in Nat /\ age \in Nat
          /\ since \in Nat
      BY <1>2, <2>1, KeptFacts
    <3> DEFINE half == keep \div 2
    <3>2. age' < half
      BY <2>9
    <3> HIDE DEF a, half
    <3>3. CASE flight # <<>>
      BY <2>2, <2>4, <2>9, <3>1, <3>2, <3>3 DEF half
    <3>4. CASE flight = <<>>
      BY <2>2, <2>4, <2>9, <3>1, <3>4
    <3> QED
      BY <3>3, <3>4
  <2>6. left' > 0
    <3>1. keep \in Nat /\ idle = (3 * keep) \div 2 /\ keep + keep \div 2 <= (3 * keep) \div 2
      BY <1>0, <1>2, <2>1, <2>3, KeptFacts DEF IdleTimeout
    <3>2. keep \div 2 >= 1
      BY <1>0, <1>1, <1>2, <2>1, <3>1, KeptFacts
    <3> DEFINE half == keep \div 2
               long == (3 * keep) \div 2
    <3>3. /\ half \in Nat /\ long \in Nat /\ half >= 1 /\ keep + half <= long
          /\ left \in Int /\ idle = long /\ left' = left - 1
          /\ since \in Nat /\ age \in Nat
      BY <1>2, <2>2, <3>1, <3>2, KeptFacts
    <3>4. \/ long - left' <= keep + age' /\ age' < half /\ age' \in Nat
          \/ long - left' <= since' /\ since' <= keep /\ since' \in Nat
      BY <2>5, <2>9, <3>3
    <3> HIDE DEF half, long
    <3> QED
      BY <3>1, <3>3, <3>4
  <2>7. /\ pc' = "peek" /\ version' # 0 /\ cause' # "timeout"
        /\ since' <= keep'
    BY <1>0, <1>1, <1>2, <1>8, <2>1 DEF TimeLeft
  <2>8. \/ flight' # <<>> /\ idle' - left' <= keep' + age'
        \/ flight' = <<>> /\ idle' - left' <= since'
    BY <1>0, <1>1, <2>5
  <2> HIDE DEF a
  <2> QED
    BY <1>3, <2>6, <2>7, <2>8 DEF TimeLeft
<1> QED
  BY <1>0, <1>3, <1>5, <1>6, <1>7, <1>8 DEF Blocked

\* The CONNECT is the first packet, and the only one.
LEMMA ReadKeepsPromise ==
    ASSUME SyncInv, PromiseInv, ReadRequest
    PROVE  PromiseInv'
<1> SUFFICES ASSUME promise' PROVE OneConnect' /\ TimeLeft'
  BY DEF PromiseInv
<1> USE DEF ReadRequest, clientVars
<1>1. promise /\ OneConnect /\ TimeLeft
  BY DEF PromiseInv
<1>2. /\ queue # <<>> /\ Head(queue) \in Items[speaks]
      /\ Head(queue).ok /\ Found.packet = Head(queue).packet
  BY Front
<1>3. version' \in {4, 5}
  BY PacketRead DEF Found, SyncInv, ReaderInv, TypeOK
<1>4. /\ Len(queue) \in Nat /\ Len(queue') = Len(queue) - 1
      /\ 1 \in 1..Len(queue) /\ Head(queue) = queue[1]
      /\ \A i \in 1..Len(queue') : queue'[i] = queue[i + 1] /\ i + 1 \in 1..Len(queue)
  <2>1. /\ Len(Tail(queue)) = Len(queue) - 1 /\ queue' = Tail(queue)
        /\ \A i \in 1..Len(queue) - 1 : Tail(queue)[i] = queue[i + 1]
    BY <1>2, HeadTailProperties DEF SyncInv, ReaderInv, TypeOK
  <2> QED
    BY <1>1, <1>2, <2>1, KeptFacts
<1>5. version = 0 => IsConnect(Head(queue))
  BY <1>2, FirstIsConnect DEF Found, IsConnect
<1>6. IsConnect(Head(queue)) =>
         /\ version = 0 /\ Found.packet.val.KeepAliveSeconds = keep
         /\ keep \in Nat
  <2>1. IsConnect(Head(queue)) =>
           version = 0 /\ Head(queue).packet.val.KeepAliveSeconds = keep
    BY <1>1, <1>4 DEF OneConnect
  <2>2. IsConnect(Head(queue)) => Head(queue).packet.val.KeepAliveSeconds \in Nat
    BY <1>2, ItemsAssumption DEF IsConnect, SyncInv, ReaderInv, TypeOK
  <2> QED
    BY <1>2, <2>1, <2>2
<1>7. \A i \in 1..Len(queue') : ~IsConnect(queue'[i])
  <2>1. ASSUME NEW i \in 1..Len(queue'), IsConnect(queue[i + 1]) PROVE FALSE
    <3>1. i + 1 \in 1..Len(queue) /\ i + 1 # 1
      BY <1>4
    <3>2. version = 0
      BY <1>1, <2>1, <3>1 DEF OneConnect
    <3>3. IsConnect(queue[1])
      BY <1>4, <1>5, <3>2
    <3> QED
      BY <1>1, <1>4, <2>1, <3>1, <3>3 DEF OneConnect
  <2> QED
    BY <1>4, <2>1
<1>8. OneConnect'
  <2>1. \A i \in 1..Len(queue') : queue'[i].ok
    BY <1>1, <1>4 DEF OneConnect
  <2>2. keep' # NoKeepAlive
    <3>1. version # 0 => keep # NoKeepAlive
      BY <1>1 DEF OneConnect
    <3> QED
      BY <1>5, <1>6, <3>1 DEF NoKeepAlive
  <2>3. got'.type = CONNECT => IsConnect(Head(queue))
    BY <1>2 DEF IsConnect
  <2>4. got'.type = CONNECT => got'.val.KeepAliveSeconds = keep'
    BY <1>6, <2>3
  <2>5. ASSUME sock', keep' > 0, ~(got'.type = CONNECT)
        PROVE  idle' = IdleTimeout(keep')
    <3>1. version # 0
      BY <1>2, <1>5, <2>5 DEF IsConnect
    <3> QED
      BY <1>1, <2>5, <3>1 DEF OneConnect
  <2>6. version' # 0 /\ pc' = "handle"
    BY <1>3
  <2>7. /\ \A i \in 1..Len(queue') :
              IsConnect(queue'[i]) =>
                  version' = 0 /\ queue'[i].packet.val.KeepAliveSeconds = keep'
        /\ \A i, j \in 1..Len(queue') :
              IsConnect(queue'[i]) /\ IsConnect(queue'[j]) => i = j
    BY <1>7
  <2> HIDE DEF ReadRequest
  <2> QED
    BY <2>1, <2>2, <2>4, <2>5, <2>6, <2>7 DEF OneConnect
<1>9. TimeLeft'
  <2>1. since <= keep
    <3>1. CASE version = 0
      BY <1>1, <1>5, <1>6, <3>1 DEF OneConnect
    <3>2. CASE version # 0
      BY <1>1, <3>2 DEF TimeLeft
    <3> QED
      BY <3>1, <3>2
  <2> QED
    BY <1>1, <2>1 DEF TimeLeft
<1> QED
  BY <1>8, <1>9

\* Its handler sets the idle timeout, and the next wait begins.
LEMMA HandleKeepsPromise ==
    ASSUME SyncInv, PromiseInv, NEW login \in BOOLEAN, NEW closes \in BOOLEAN,
           Handle(login, closes)
    PROVE  PromiseInv'
<1> SUFFICES ASSUME promise' PROVE OneConnect' /\ TimeLeft'
  BY DEF PromiseInv
<1> USE DEF Handle, clientVars
<1>1. promise /\ OneConnect /\ TimeLeft
  BY DEF PromiseInv
<1>2. version # 0 /\ keep \in Nat
  BY <1>1, KeptFacts DEF OneConnect
<1>3. sock' /\ keep > 0 => idle' = IdleTimeout(keep)
  <2>1. SUFFICES ASSUME sock', keep > 0 PROVE idle' = IdleTimeout(keep)
    OBVIOUS
  <2>2. CASE got.type = CONNECT
    BY <1>1, <2>1, <2>2 DEF OneConnect
  <2>3. CASE got.type # CONNECT
    BY <1>1, <1>2, <2>1, <2>3 DEF OneConnect
  <2> QED
    BY <2>2, <2>3
<1>4. idle' \in Nat
  BY <1>1, KeptFacts DEF OneConnect, IdleTimeout
<1>5. OneConnect'
  BY <1>1, <1>2, <1>3 DEF OneConnect
<1>6. TimeLeft'
  <2>1. since <= keep /\ cause # "timeout" /\ since \in Nat /\ age \in Nat /\ timeout \in Nat
    BY <1>1, <1>2, KeptFacts DEF TimeLeft
  <2>2. CASE idle' = 0
    <3>1. sock' => keep = 0
      <4>1. keep > 0 => IdleTimeout(keep) > 0
        BY <1>2 DEF IdleTimeout
      <4> QED
        BY <1>2, <1>3, <2>2, <4>1
    <3>2. pc' = "read" /\ left' = ReadDeadline
      BY <2>2
    <3> QED
      BY <1>2, <2>1, <3>1, <3>2 DEF TimeLeft, ReadDeadline
  <2>3. CASE idle' # 0
    <3>1. pc' = "peek" /\ left' = idle' /\ idle' - left' = 0 /\ left' > 0
      BY <1>4, <2>3
    <3>2. 0 <= keep + age /\ 0 <= since
      BY <1>2, <2>1
    <3> QED
      BY <1>2, <2>1, <3>1, <3>2 DEF TimeLeft
  <2> QED
    BY <2>2, <2>3
<1> QED
  BY <1>5, <1>6

\* The idle wait is over when two bytes have come, and a packet follows.
LEMMA PeekKeepsPromise ==
    ASSUME SyncInv, PromiseInv, Peek
    PROVE  PromiseInv'
<1> SUFFICES ASSUME promise' PROVE OneConnect' /\ TimeLeft'
  BY DEF PromiseInv
<1> USE DEF Peek, streamVars, connVars, clientVars
<1>1. promise /\ OneConnect /\ TimeLeft
  BY DEF PromiseInv
<1>2. version # 0
  BY <1>1 DEF OneConnect
<1>3. OneConnect'
  BY <1>1, <1>2 DEF OneConnect
<1>4. sock => Found.st # "more" \/ flight # <<>>
  <2>1. queue = <<>> => Len(bufr) = 0
    BY Front
  <2>2. queue # <<>>
    BY <2>1
  <2> QED
    BY <1>1, <2>2, AllHere
<1>5. Found' = Found
  BY DEF Found
<1>6. TimeLeft'
  <2>1. since <= keep /\ cause # "timeout" /\ age \in Nat /\ timeout \in Nat
    BY <1>1, <1>2, KeptFacts DEF TimeLeft
  <2> QED
    BY <1>2, <1>4, <1>5, <2>1 DEF TimeLeft, ReadDeadline
<1> QED
  BY <1>3, <1>6

\* The goroutine ends, but never on a deadline.
LEMMA EndKeepsPromise ==
    ASSUME SyncInv, PromiseInv,
           ReadFails \/ ReadClosed \/ ReadTimesOut \/ HandledInShutdown
    PROVE  PromiseInv'
<1> SUFFICES ASSUME promise' PROVE OneConnect' /\ TimeLeft'
  BY DEF PromiseInv
<1> USE DEF ReadFails, ReadClosed, ReadTimesOut, HandledInShutdown, End,
            streamVars, connVars, clientVars
<1>1. promise /\ OneConnect /\ TimeLeft
  BY DEF PromiseInv
<1>2. ~ReadTimesOut
  <2>1. SUFFICES ASSUME Blocked, sock, left = 0 PROVE FALSE
    OBVIOUS
  <2>2. CASE pc = "peek"
    BY <1>1, <2>1, <2>2 DEF TimeLeft
  <2>3. CASE pc = "read"
    <3>1. timeout \in Nat
      BY <1>1, KeptFacts
    <3> QED
      BY <1>1, <2>1, <2>3, <3>1 DEF TimeLeft, NoDeadline
  <2> QED
    BY <2>1, <2>2, <2>3 DEF Blocked
<1>3. pc' = "closed" /\ cause' # "timeout" /\ version' = version
  BY <1>2
<1>4. OneConnect'
  BY <1>1, <1>3 DEF OneConnect
<1>5. TimeLeft'
  BY <1>1, <1>3 DEF TimeLeft
<1> QED
  BY <1>4, <1>5

\* With the place of the reader it is inductive.
KeptInv == SyncInv /\ PromiseInv

\* It is inductive.
LEMMA NextKeepsKeptInv == KeptInv /\ [Next]_vars => KeptInv'
<1> SUFFICES ASSUME SyncInv, PromiseInv, [Next]_vars PROVE PromiseInv'
  BY NextKeepsSyncInv DEF KeptInv
<1>1. SyncInv'
  BY NextKeepsSyncInv
<1>2. CASE UNCHANGED vars
  <2>1. Found' = Found
    BY <1>2 DEF vars, streamVars, connVars, Found
  <2> QED
    BY <1>2, <2>1 DEF vars, streamVars, connVars, goVars, clientVars,
                      PromiseInv, OneConnect, TimeLeft
<1>3. CASE ConnectionLost
  <2>1. Found' = Found
    BY <1>3 DEF ConnectionLost, connVars, Found
  <2> QED
    BY <1>3, <2>1 DEF ConnectionLost, connVars, goVars, clientVars,
                      PromiseInv, OneConnect, TimeLeft
<1>4. CASE ClientNext
  BY <1>1, <1>3, <1>4, SendKeepsPromise, FillKeepsPromise, TickKeepsPromise
     DEF ClientNext
<1>5. CASE ServerNext
  BY <1>5, ReadKeepsPromise, HandleKeepsPromise, PeekKeepsPromise,
     EndKeepsPromise DEF ServerNext
<1> QED
  BY <1>2, <1>4, <1>5 DEF Next

\* A client that keeps its keep-alive is never cut by a deadline: neither by the
\* idle timeout that its CONNECT has set nor by the read timeout
\* (handler.go:71-76, conn.go:47-49, 112-119).
THEOREM CompliantClientsStay == Spec => []CompliantNotCut
<1>1. Init => KeptInv
  BY InitSyncInv, InitPromiseInv DEF KeptInv
<1>2. KeptInv /\ [Next]_vars => KeptInv'
  BY NextKeepsKeptInv
<1>3. KeptInv => CompliantNotCut
  BY DEF KeptInv, PromiseInv, TimeLeft, CompliantNotCut
<1> QED
  BY <1>1, <1>2, <1>3, PTL DEF Spec
=================================================================================
