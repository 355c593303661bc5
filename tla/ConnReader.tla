------------------------------ MODULE ConnReader ------------------------------
(***************************************************************************)
(* The reading side of one connection: the loop of conn.serve              *)
(* (pkg/mqtt/server/conn.go) over the codec, its deadlines, and the idle   *)
(* timeout that the CONNECT handler derives from the client's keep-alive   *)
(* (pkg/mqtt/handler/handler.go). The client sends packets, or bytes that  *)
(* are none, one behind the other without waiting for answers; the network *)
(* delivers them late and in pieces.                                       *)
(*                                                                         *)
(* Time is counted in seconds. The steps of the goroutine take none, but   *)
(* for the handler. The rest of the connection's life is in MqttServer and *)
(* MqttSession.                                                            *)
(***************************************************************************)
EXTENDS MqttCodec, Integers

CONSTANTS
    Packets,        \* the packets a client may send
    Junk,           \* by version, sequences of bytes that are no packet
    ReadTimeouts,   \* values of Server.ReadTimeout; 0 is none
    IdleTimeouts,   \* values of Server.IdleTimeout; 0 is none
    Cuts,           \* where the network cuts: lengths bufr is filled to
    MaxQueue,       \* bound: packets sent and not yet read
    Pipelined,      \* bound: packets sent behind one that is not read yet
    MaxWait         \* bound: how long a wait is counted

ASSUME ReaderAssumption ==
    /\ ReadTimeouts \subseteq Nat
    /\ IdleTimeouts \subseteq Nat
    /\ Cuts \subseteq Nat \ {0}
    /\ MaxQueue \in Nat
    /\ MaxWait \in Nat
    /\ \A t \in ReadTimeouts : t <= MaxWait

VARIABLES
    timeout,    \* Server.ReadTimeout
    speaks,     \* the protocol version of the client
    sock,       \* rwc is open
    queue,      \* what was sent and is not read yet, in order
    flight,     \* bytes sent that have not reached bufr
    bufr,       \* bytes in bufr
    version,    \* properties.protocolVersion
    idle,       \* properties.idleTimeout
    pc,         \* control of the connection's goroutine
    left,       \* time to the read deadline
    got,        \* the request being handled
    want,       \* history: what the client sent at its place
    cause,      \* why the goroutine ended
    waited,     \* history: time since the goroutine began to wait
    keep,       \* history: the keep-alive the client announced
    since,      \* history: time since the client last sent a packet
    age,        \* history: time for which bytes have been under way
    promise     \* history: client and network have kept the keep-alive

streamVars == <<speaks, sock, queue, flight, bufr>>
connVars   == <<timeout, version, idle, got, want>>
goVars     == <<pc, left, cause>>
clientVars == <<keep, since, age, promise>>
vars == <<streamVars, connVars, goVars, waited, clientVars>>

NoDeadline == -1
NoKeepAlive == -1
Nothing == <<>>

\* What a client of a version sends, with its bytes.
Items == [v \in {4, 5} |->
    {[ok |-> TRUE, packet |-> p, raw |-> Write(p)] :
         p \in {q \in Packets : q.version = v}}
    \cup {[ok |-> FALSE, packet |-> Nothing, raw |-> b] : b \in Junk[v]}]

Byte == 0..255
Bytes == Seq(Byte)

\* A CONNECT whose level is the version it is encoded in.
Opens(p) == p.type = CONNECT /\ p.val.ProtocolLevel = p.version

\* What goes over the wire is bytes, and a keep-alive is a number.
ASSUME ItemsAssumption ==
    \A v \in {4, 5} : \A item \in Items[v] :
        /\ item.raw \in Bytes
        /\ item.ok /\ item.packet.type = CONNECT =>
              item.packet.val.KeepAliveSeconds \in Nat

\* The client's packets are packets and its junk is none: a whole item with
\* nothing behind it is read, later in the stream and at its beginning, as the
\* packet that it is, or it is refused.
ASSUME WholeItemsAssumption ==
    \A v \in {4, 5} : \A item \in Items[v], w \in {0, v} :
        LET r == ReadPacket(item.raw, w)
        IN  \/ /\ item.ok /\ r.st = "ok"
               /\ r.packet = item.packet /\ r.used = Len(item.raw)
            \/ /\ r.st \in {"bad", "refused"}
               /\ item.ok => w = 0 /\ ~Opens(item.packet)

TypeOK ==
    /\ timeout \in ReadTimeouts
    /\ speaks \in {4, 5}
    /\ sock \in BOOLEAN
    /\ queue \in Seq(Items[speaks]) /\ Len(queue) <= MaxQueue
    /\ flight \in Bytes
    /\ bufr \in Bytes
    /\ version \in {0, 4, 5}
    /\ idle \in Nat
    /\ pc \in {"read", "handle", "peek", "closed"}
    /\ left \in Nat \cup {NoDeadline}
    /\ cause \in {"none", "closed", "bad", "refused", "timeout", "shutdown"}
    /\ waited \in 0..MaxWait
    /\ keep \in Nat \cup {NoKeepAlive}
    /\ since \in Nat /\ age \in Nat
    /\ promise \in BOOLEAN

\* The deadline readRequest sets: none leaves the one that serve has cleared.
ReadDeadline == IF timeout > 0 THEN timeout ELSE NoDeadline

Init ==
    /\ timeout \in ReadTimeouts
    /\ speaks \in {4, 5}
    /\ sock = TRUE /\ queue = <<>> /\ flight = <<>> /\ bufr = <<>>
    /\ version = 0 /\ idle \in IdleTimeouts
    /\ pc = "read" /\ left = ReadDeadline /\ cause = "none"
    /\ got = Nothing /\ want = Nothing
    /\ waited = 0
    /\ keep = NoKeepAlive /\ since = 0 /\ age = 0 /\ promise = TRUE

\* What a read finds in bufr.
Found == ReadPacket(bufr, version)

\* The goroutine is in a read, and bufr is not enough for it.
Blocked ==
    \/ pc = "read" /\ Found.st = "more"
    \/ pc = "peek" /\ Len(bufr) < 2

End(why) ==
    /\ pc' = "closed" /\ cause' = why /\ left' = NoDeadline

(***************************************************************************)
(* Client and network.                                                     *)
(***************************************************************************)

\* The history of the keep-alive is kept while the promise lasts.
Clock(kept, k, s, a) ==
    /\ promise' = (promise /\ kept)
    /\ keep' = IF promise' THEN k ELSE NoKeepAlive
    /\ since' = IF promise' THEN s ELSE 0
    /\ age' = IF promise' THEN a ELSE 0

\* A packet of the client's version, or junk goes out. A client that keeps its promise
\* sends one CONNECT, and no junk.
ClientSends(item) ==
    /\ sock /\ pc # "closed" /\ Len(queue) < MaxQueue
    /\ queue # <<>> => item.ok /\ item.packet \in Pipelined
    /\ queue' = Append(queue, item)
    /\ flight' = flight \o item.raw
    /\ LET connect == item.ok /\ item.packet.type = CONNECT
       IN  Clock(item.ok /\ (connect => keep = NoKeepAlive),
                 IF connect THEN item.packet.val.KeepAliveSeconds ELSE keep,
                 0, age)
    /\ UNCHANGED <<speaks, sock, bufr, connVars, goVars, waited>>

\* Mutant: every piece that comes renews the deadline.
FillRearms(n) ==
    /\ sock /\ Blocked /\ n \in 1..Len(flight)
    /\ bufr' = bufr \o SubSeq(flight, 1, n)
    /\ flight' = Drop(flight, n)
    /\ Clock(TRUE, keep, since, IF flight' = <<>> THEN 0 ELSE age)
    /\ left' = IF pc = "read" THEN ReadDeadline ELSE left
    /\ UNCHANGED <<speaks, sock, queue, connVars, pc, cause, waited>>

\* The read the goroutine is blocked in returns n bytes.
Fill(n) ==
    /\ sock /\ Blocked /\ n \in 1..Len(flight)
    /\ bufr' = bufr \o SubSeq(flight, 1, n)
    /\ flight' = Drop(flight, n)
    /\ Clock(TRUE, keep, since, IF flight' = <<>> THEN 0 ELSE age)
    /\ UNCHANGED <<speaks, sock, queue, connVars, goVars, waited>>

\* The client goes, the connection breaks, or the server's shutdown closes it.
ConnectionLost ==
    /\ sock /\ pc # "closed"
    /\ sock' = FALSE /\ flight' = <<>>
    /\ UNCHANGED <<speaks, queue, bufr, connVars, goVars, waited, clientVars>>

\* A second passes. Nothing waits longer for the goroutine, and a deadline
\* that is reached ends its read. The keep-alive is kept if the client has
\* delivered its CONNECT before the first deadline, is never silent for longer
\* than the keep-alive, and its bytes arrive within the margin that the server
\* leaves (half of the keep-alive) and within the read timeout. Both are
\* counted from the moment the server has read the CONNECT.
Tick ==
    /\ pc = "handle" \/ (Blocked /\ sock /\ left # 0)
    /\ left' = IF left > 0 THEN left - 1 ELSE left
    /\ waited' = IF pc # "handle" /\ waited < MaxWait THEN waited + 1 ELSE waited
    /\ LET a == IF flight # <<>> /\ pc # "handle" THEN age + 1 ELSE age
       IN  Clock(IF version = 0
                 THEN timeout > 0 => waited' < timeout
                 ELSE /\ since + 1 <= keep
                      /\ a < keep \div 2
                      /\ timeout > 0 => a < timeout,
                 keep,
                 IF version = 0 THEN 0 ELSE since + 1,
                 IF version = 0 THEN 0 ELSE a)
    /\ UNCHANGED <<streamVars, connVars, pc, cause>>

(***************************************************************************)
(* The goroutine.                                                          *)
(***************************************************************************)

\* Mutant: each request is read by a new reader, and what the last one had
\* buffered is gone.
ReadRequestNewReader ==
    /\ pc = "read" /\ Found.st = "ok"
    /\ bufr' = <<>>
    /\ version' = Found.packet.version
    /\ got' = Found.packet
    /\ want' = IF queue = <<>> THEN Nothing ELSE Head(queue)
    /\ queue' = IF queue = <<>> THEN queue ELSE Tail(queue)
    /\ pc' = "handle" /\ left' = NoDeadline
    /\ UNCHANGED <<speaks, sock, flight, timeout, idle, cause, waited>>
    /\ UNCHANGED clientVars

\* readRequest returns a packet, and the version is stored.
ReadRequest ==
    /\ pc = "read" /\ Found.st = "ok"
    /\ bufr' = Drop(bufr, Found.used)
    /\ version' = Found.packet.version
    /\ got' = Found.packet
    /\ want' = IF queue = <<>> THEN Nothing ELSE Head(queue)
    /\ queue' = IF queue = <<>> THEN queue ELSE Tail(queue)
    /\ pc' = "handle" /\ left' = NoDeadline
    /\ UNCHANGED <<speaks, sock, flight, timeout, idle, cause, waited>>
    /\ UNCHANGED clientVars

\* readRequest returns an error of the codec. "refused" is the one that is
\* answered, with the CONNACK of an unacceptable protocol version.
ReadFails ==
    /\ pc = "read" /\ Found.st \in {"bad", "refused"}
    /\ End(Found.st)
    /\ UNCHANGED <<streamVars, connVars, waited, clientVars>>

\* A read that needs more bytes finds the connection closed.
ReadClosed ==
    /\ Blocked /\ ~sock
    /\ End("closed")
    /\ UNCHANGED <<streamVars, connVars, waited, clientVars>>

\* A read that needs more bytes reaches its deadline.
ReadTimesOut ==
    /\ Blocked /\ sock /\ left = 0
    /\ End("timeout")
    /\ UNCHANGED <<streamVars, connVars, waited, clientVars>>

\* Mutant: the idle timeout is the keep-alive itself.
IdleTimeoutPlain(k) == k

\* One and a half times the keep-alive, in whole seconds.
IdleTimeout(k) == (3 * k) \div 2

\* Mutant: the deadline is computed before the handler runs.
HandleStaleIdle(login, closes) ==
    /\ pc = "handle"
    /\ got.type = DISCONNECT => closes
    /\ ~login => got.type = CONNECT /\ closes
    /\ idle' = IF got.type = CONNECT /\ login /\ got.val.KeepAliveSeconds > 0
               THEN IdleTimeout(got.val.KeepAliveSeconds) ELSE idle
    /\ sock' = (sock /\ ~closes)
    /\ flight' = IF closes THEN <<>> ELSE flight
    /\ pc' = IF idle' # 0 THEN "peek" ELSE "read"
    /\ left' = IF idle' # 0 THEN idle ELSE ReadDeadline
    /\ waited' = 0 /\ got' = Nothing /\ want' = Nothing
    /\ UNCHANGED <<speaks, queue, bufr, timeout, version, cause, clientVars>>

\* The handler, and the deadline of the next wait. CONNECT sets the idle
\* timeout unless its login fails with an error (~login), which closes; every
\* handler may close, DISCONNECT does. A closed connection keeps what is in
\* bufr, and the loop goes on with it.
Handle(login, closes) ==
    /\ pc = "handle"
    /\ got.type = DISCONNECT => closes
    /\ ~login => got.type = CONNECT /\ closes
    /\ idle' = IF got.type = CONNECT /\ login /\ got.val.KeepAliveSeconds > 0
               THEN IdleTimeout(got.val.KeepAliveSeconds) ELSE idle
    /\ sock' = (sock /\ ~closes)
    /\ flight' = IF closes THEN <<>> ELSE flight
    /\ pc' = IF idle' # 0 THEN "peek" ELSE "read"
    /\ left' = IF idle' # 0 THEN idle' ELSE ReadDeadline
    /\ waited' = 0 /\ got' = Nothing /\ want' = Nothing
    /\ UNCHANGED <<speaks, queue, bufr, timeout, version, cause, clientVars>>

\* The server is in shutdown when the handler returns: serve ends.
HandledInShutdown ==
    /\ pc = "handle"
    /\ End("shutdown")
    /\ UNCHANGED <<streamVars, connVars, waited, clientVars>>

\* Two bytes have come: the idle deadline gives way to the read timeout.
Peek ==
    /\ pc = "peek" /\ Len(bufr) >= 2
    /\ pc' = "read" /\ left' = ReadDeadline
    /\ UNCHANGED <<streamVars, connVars, cause, waited, clientVars>>

(***************************************************************************)
(* The specification.                                                      *)
(***************************************************************************)

ClientNext ==
    \/ \E item \in Items[speaks] : ClientSends(item)
    \/ \E n \in Cuts : Fill(n - Len(bufr))
    \/ Fill(Len(flight))
    \/ ConnectionLost
    \/ Tick

ServerNext ==
    \/ ReadRequest
    \/ ReadFails
    \/ ReadClosed
    \/ ReadTimesOut
    \/ \E login, closes \in BOOLEAN : Handle(login, closes)
    \/ HandledInShutdown
    \/ Peek

Next == ClientNext \/ ServerNext

Spec == Init /\ [][Next]_vars

(***************************************************************************)
(* Properties.                                                             *)
(***************************************************************************)

\* The bytes of a sequence of items, one behind the other.
BytesOf(items) ==
    LET cat[i \in 0..Len(items)] ==
            IF i = 0 THEN <<>> ELSE cat[i - 1] \o items[i].raw
    IN  cat[Len(items)]

\* The bytes of all packets that are not read yet.
Unread == BytesOf(queue)

\* Whatever pieces the bytes come in, the reader never loses its place: what
\* is unread begins with the next packet, a handler gets exactly what the
\* client sent at that place and never something made of junk, and only junk,
\* or a first packet that is no CONNECT of a known level, is refused (codec/packets.go:13-33,
\* v311/packets.go:11-42, v5/packets.go:11-42, conn.go:46-56).
StreamInSync ==
    /\ pc # "closed" =>
          LET here == bufr \o flight
          IN  /\ Len(here) <= Len(Unread)
              /\ here = SubSeq(Unread, 1, Len(here))
              /\ sock => here = Unread
    /\ pc = "handle" => want # Nothing /\ want.ok /\ got = want.packet
    /\ cause \in {"bad", "refused"} =>
          /\ queue # <<>>
          /\ Head(queue).ok => version = 0 /\ ~Opens(Head(queue).packet)

\* A client that keeps its keep-alive, over a network with delays below half
\* of it and below the read timeout, is never cut by a deadline
\* (handler.go:72-74, conn.go:47-49, 112-119).
CompliantNotCut == promise => cause # "timeout"

\* The deadline in force fits the wait that it limits: in the idle wait it is
\* the one of the client's last accepted CONNECT (conn.go:47-49, 112-122,
\* handler.go:71-76).
DeadlinesAgree ==
    /\ pc = "peek" => idle > 0 /\ left \in Nat /\ left + waited <= idle
    /\ pc = "read" /\ timeout > 0 =>
          left \in Nat /\ left + waited <= idle + timeout

\* With a read timeout no client, however it cuts its bytes, holds the
\* goroutine in a read for longer than the idle timeout and the read timeout
\* together (conn.go:47-49, 112-119).
WaitBounded == timeout > 0 => waited <= idle + timeout

\* What a handler gets has a version, and a CONNECT a keep-alive.
RequestDecoded ==
    pc = "handle" =>
        /\ got.version \in {4, 5}
        /\ got.type = CONNECT => got.val.KeepAliveSeconds \in Nat

\* The inductive invariant: the deadline and the time waited agree with the
\* idle timeout, which comes from a decoded CONNECT (conn.go:46-123).
ReaderInv ==
    /\ TypeOK
    /\ RequestDecoded
    /\ DeadlinesAgree
    /\ WaitBounded
=============================================================================
