------------------------------ MODULE MqttSession ------------------------------
(***************************************************************************)
(* One MQTT connection from the first CONNECT on: the handlers of          *)
(* pkg/mqtt/handler/handler.go, dispatched by the ServeMux of              *)
(* pkg/mqtt/server/handler.go in the connection's goroutine, the callbacks *)
(* of asynchronous publishes in goroutines of the publisher, and the       *)
(* response.Write they share (pkg/mqtt/server/response.go).                *)
(*                                                                         *)
(* The publisher is the one of module Publisher: any implementation that   *)
(* keeps that contract. A callback that the publisher runs inside          *)
(* PublishAsync (rabbitmq, sqs, sns) runs in the connection's goroutine;   *)
(* one for an "accepted" request (kafka, noop) in a goroutine of its own.  *)
(*                                                                         *)
(* A handler that closes the connection does not end the goroutine's loop: *)
(* it goes on with the packets bufr already holds (buffered).              *)
(***************************************************************************)
EXTENDS Publisher, Naturals, FiniteSets

CONSTANTS
    Async,                \* the QoS levels published with PublishAsync
    AllowUnauthenticated, \* packet names served without authentication
    IgnoreUnsupported,    \* SUBSCRIBE, UNSUBSCRIBE have the ignore handler
    NoReq                 \* no request

ASSUME SessionAssumption ==
    /\ Async \subseteq 0..2
    /\ AllowUnauthenticated \subseteq {"PUBLISH", "PUBREL", "PINGREQ"}
    /\ IgnoreUnsupported \in BOOLEAN
    /\ NoReq \notin Requests

VARIABLES
    open,           \* the socket is open on this side
    buffered,       \* bufr holds a whole packet
    version,        \* a CONNECT has set the protocol version
    authenticated,  \* properties.authenticated
    login,          \* history: the last CONNECT answered on this connection
    qos,            \* the QoS of a forwarded PUBLISH
    decision,       \* history: login when the request was forwarded
    pc,             \* control of the connection's goroutine
    cur,            \* the request it handles
    frame,          \* the packet it writes
    cb,             \* callbacks run by the publisher's goroutines
    writers,        \* goroutines between bufw.Write and the end of Flush
    acks,           \* PUBACK or PUBREC writes issued for a request
    wire,           \* requests whose PUBACK or PUBREC was sent
    wErr,           \* bufw has failed, and fails from then on
    raced           \* history: two goroutines have been in bufw at once

connVars  == <<open, buffered, version, authenticated, login>>
reqVars   == <<qos, decision>>
goVars    == <<pc, cur, frame>>
writeVars == <<cb, writers, acks, wire, wErr, raced>>
vars == <<pubVars, connVars, reqVars, goVars, writeVars>>

Conn == "conn"    \* the connection's goroutine as a writer
Acks == {"PUBACK", "PUBREC"}
Frames == Acks \cup {"none", "CONNACK", "PUBCOMP", "PINGRESP"}

TypeOK ==
    /\ PubTypeOK
    /\ open \in BOOLEAN
    /\ buffered \in BOOLEAN
    /\ version \in BOOLEAN
    /\ authenticated \in BOOLEAN
    /\ login \in {"none", "accepted", "refused"}
    /\ qos \in [Requests -> 0..2]
    /\ decision \in [Requests -> {"none", "accepted", "refused"}]
    /\ pc \in {"read", "publish", "write", "writing", "done"}
    /\ cur \in Requests \cup {NoReq}
    /\ frame \in Frames
    /\ cb \in [Requests -> {"none", "due", "writing", "done"}]
    /\ writers \in SUBSET (Requests \cup {Conn})
    /\ acks \in [Requests -> Nat]
    /\ wire \in SUBSET Requests
    /\ wErr \in BOOLEAN
    /\ raced \in BOOLEAN

Init ==
    /\ PubInit
    /\ open = TRUE /\ buffered = FALSE /\ version = FALSE
    /\ authenticated = FALSE /\ login = "none"
    /\ qos = [r \in Requests |-> 0]
    /\ decision = [r \in Requests |-> "none"]
    /\ pc = "read" /\ cur = NoReq /\ frame = "none"
    /\ cb = [r \in Requests |-> "none"]
    /\ writers = {}
    /\ acks = [r \in Requests |-> 0]
    /\ wire = {} /\ wErr = FALSE /\ raced = FALSE

(***************************************************************************)
(* Reading. The first packet must be a CONNECT (codec.ReadPacket).         *)
(***************************************************************************)

\* readRequest returns a packet, from the socket or from bufr.
Receive ==
    /\ pc = "read"
    /\ open \/ buffered
    /\ buffered' \in BOOLEAN

\* readRequest fails (a first packet that is no CONNECT included): the
\* goroutine closes the connection and ends.
ReadFails ==
    /\ pc = "read"
    /\ pc' = "done" /\ open' = FALSE
    /\ UNCHANGED <<buffered, version, authenticated, login, cur, frame>>
    /\ UNCHANGED <<pubVars, reqVars, writeVars>>

\* The connection is closed from outside: by the server's shutdown, or it
\* breaks. The goroutine goes on.
ConnectionLost ==
    /\ open /\ open' = FALSE
    /\ UNCHANGED <<buffered, version, authenticated, login>>
    /\ UNCHANGED <<pubVars, reqVars, goVars, writeVars>>

(***************************************************************************)
(* The handlers.                                                           *)
(***************************************************************************)

\* The gate of disconnectUnauthenticated.
Served(name) == authenticated \/ name \in AllowUnauthenticated

\* Mutant: a refused login leaves the flag of an earlier, accepted one.
HandleConnectKeepsFlag(result) ==
    /\ Receive
    /\ version' = TRUE
    /\ \/ /\ result = "error"
          /\ open' = FALSE
          /\ UNCHANGED <<authenticated, login, goVars>>
       \/ /\ result # "error"
          /\ authenticated' = (authenticated \/ result = "accepted")
          /\ login' = result
          /\ pc' = "write" /\ frame' = "CONNACK" /\ cur' = NoReq
          /\ UNCHANGED open
    /\ UNCHANGED <<pubVars, reqVars, writeVars>>

\* handleConnect: a login that fails with an error closes at once; otherwise
\* the answer sets the flag and a CONNACK is written (see EndWrite).
HandleConnect(result) ==
    /\ Receive
    /\ version' = TRUE
    /\ \/ /\ result = "error"
          /\ open' = FALSE
          /\ UNCHANGED <<authenticated, login, goVars>>
       \/ /\ result # "error"
          /\ authenticated' = (result = "accepted")
          /\ login' = result
          /\ pc' = "write" /\ frame' = "CONNACK" /\ cur' = NoReq
          /\ UNCHANGED open
    /\ UNCHANGED <<pubVars, reqVars, writeVars>>

\* handlePublish up to the call of the publisher: the gate, and the QoS.
HandlePublish(r, q) ==
    /\ Receive /\ version /\ pub[r] = "new"
    /\ \/ /\ ~Served("PUBLISH")
          /\ open' = FALSE
          /\ UNCHANGED <<reqVars, pubVars, goVars>>
       \/ /\ Served("PUBLISH") /\ q = 3
          /\ UNCHANGED <<open, reqVars, pubVars, goVars>>
       \/ /\ Served("PUBLISH") /\ q # 3
          /\ Submit(r)
          /\ qos' = [qos EXCEPT ![r] = q]
          /\ decision' = [decision EXCEPT ![r] = login]
          /\ pc' = "publish" /\ cur' = r
          /\ UNCHANGED <<open, frame>>
    /\ UNCHANGED <<version, authenticated, login, writeVars>>

AckFrame(q) == IF q = 1 THEN "PUBACK" ELSE "PUBREC"

\* The publishCallback in the connection's goroutine, for a response: nothing
\* for QoS 0 and for an error, otherwise the acknowledgement is written.
CallbackInline ==
    \/ /\ pub[cur] = "ok" /\ qos[cur] # 0
       /\ pc' = "write" /\ frame' = AckFrame(qos[cur])
       /\ acks' = [acks EXCEPT ![cur] = @ + 1]
       /\ UNCHANGED cur
    \/ /\ pub[cur] = "failed" \/ qos[cur] = 0
       /\ pc' = "read" /\ cur' = NoReq
       /\ UNCHANGED <<frame, acks>>

\* Publish returned a response, or PublishAsync has run the callback itself.
PublishResponse ==
    /\ pc = "publish" /\ pub[cur] \in Responses /\ cb[cur] = "none"
    /\ CallbackInline
    /\ UNCHANGED <<pubVars, connVars, reqVars, cb, writers, wire, wErr, raced>>

\* doPublish returned an error: ignored for QoS 0, else the connection is
\* closed.
PublishError ==
    /\ pc = "publish" /\ pub[cur] = "error"
    /\ open' = (open /\ qos[cur] = 0)
    /\ pc' = "read" /\ cur' = NoReq
    /\ UNCHANGED <<buffered, version, authenticated, login, frame>>
    /\ UNCHANGED <<pubVars, reqVars, writeVars>>

\* PublishAsync returned nil and leaves the callback to another goroutine.
PublishAsyncReturns ==
    /\ pc = "publish"
    /\ pub[cur] = "accepted" \/ cb[cur] # "none"
    /\ pc' = "read" /\ cur' = NoReq
    /\ UNCHANGED frame
    /\ UNCHANGED <<pubVars, connVars, reqVars, writeVars>>

\* The publisher panics in the call (as rabbitmq's CloseChannel does): the
\* recover of conn.serve closes the connection and the goroutine ends.
PublishPanics ==
    /\ pc = "publish" /\ pub[cur] = "pending"
    /\ pc' = "done" /\ open' = FALSE
    /\ UNCHANGED <<buffered, version, authenticated, login, cur, frame>>
    /\ UNCHANGED <<pubVars, reqVars, writeVars>>

\* handlePublishRelease and handlePing: the gate, then the answer. No state
\* is kept of the packet identifiers of earlier PUBRECs.
HandleSimple(name, answer) ==
    /\ Receive /\ version
    /\ \/ /\ ~Served(name)
          /\ open' = FALSE /\ UNCHANGED goVars
       \/ /\ Served(name)
          /\ pc' = "write" /\ frame' = answer /\ cur' = NoReq
          /\ UNCHANGED open
    /\ UNCHANGED <<version, authenticated, login>>
    /\ UNCHANGED <<pubVars, reqVars, writeVars>>

HandlePublishRelease == HandleSimple("PUBREL", "PUBCOMP")

HandlePing == HandleSimple("PINGREQ", "PINGRESP")

HandleDisconnect ==
    /\ Receive /\ version
    /\ open' = FALSE
    /\ UNCHANGED <<version, authenticated, login>>
    /\ UNCHANGED <<pubVars, reqVars, goVars, writeVars>>

\* The mux closes the connection for a packet it has no handler for; the
\* ignore handler, registered for the types of an option, does nothing.
HandleUnsupported ==
    /\ Receive /\ version
    /\ \/ open' = FALSE
       \/ IgnoreUnsupported /\ UNCHANGED open
    /\ UNCHANGED <<version, authenticated, login>>
    /\ UNCHANGED <<pubVars, reqVars, goVars, writeVars>>

(***************************************************************************)
(* response.Write. Every request has its own response and mutex, so the    *)
(* mutex keeps nobody out of the connection's bufw.                        *)
(***************************************************************************)

BeginWrite ==
    /\ pc = "write"
    /\ writers' = writers \cup {Conn} /\ pc' = "writing"
    /\ raced' = (raced \/ writers # {})
    /\ UNCHANGED <<cur, frame, cb, acks, wire, wErr>>
    /\ UNCHANGED <<pubVars, connVars, reqVars>>


\* The frame is sent; or bufw fails, because the connection is closed or broken
\* or the write deadline has passed, and goes on failing; or, once two
\* goroutines have been in bufw, the frame is lost without an error. A frame
\* that reaches the client more than once or in pieces adds nothing to wire.
WriteResult(acked) ==
    \/ open /\ ~wErr /\ wire' = wire \cup acked /\ UNCHANGED wErr
    \/ wErr' = TRUE /\ UNCHANGED wire
    \/ raced /\ UNCHANGED <<wire, wErr>>

\* The write ends, an error of it is logged; a refused CONNECT is followed by
\* Close.
EndWrite ==
    /\ pc = "writing"
    /\ writers' = writers \ {Conn}
    /\ WriteResult(IF frame \in Acks THEN {cur} ELSE {})
    /\ open' = (open /\ ~(frame = "CONNACK" /\ ~authenticated))
    /\ pc' = "read" /\ cur' = NoReq /\ frame' = "none"
    /\ UNCHANGED <<buffered, version, authenticated, login, cb, acks, raced>>
    /\ UNCHANGED <<pubVars, reqVars>>

(***************************************************************************)
(* The publisher.                                                          *)
(***************************************************************************)

\* The broker stores a message.
BrokerStores(r) ==
    /\ Store(r)
    /\ UNCHANGED <<connVars, reqVars, goVars, writeVars>>

\* The call is answered while the connection's goroutine waits in it. Only
\* PublishAsync leaves a callback for later.
CallAnswered(r) ==
    /\ pc = "publish" /\ cur = r
    /\ \/ Refuse(r)
       \/ pub[r] = "pending" /\ \E res \in Responses : Respond(r, res)
       \/ qos[r] \in Async /\ Accepted(r)
    /\ UNCHANGED <<connVars, reqVars, goVars, writeVars>>

\* A goroutine of the publisher has the response and enters the callback.
CallbackStarts(r) ==
    /\ pub[r] = "accepted"
    /\ \E res \in Responses : Respond(r, res)
    /\ cb' = [cb EXCEPT ![r] = "due"]
    /\ UNCHANGED <<writers, acks, wire, wErr, raced>>
    /\ UNCHANGED <<connVars, reqVars, goVars>>

\* Mutant: the callback does not look at response.Error.
CallbackIgnoresError(r) ==
    /\ cb[r] = "due"
    /\ \/ /\ qos[r] # 0
          /\ cb' = [cb EXCEPT ![r] = "writing"]
          /\ writers' = writers \cup {r}
          /\ acks' = [acks EXCEPT ![r] = @ + 1]
          /\ raced' = (raced \/ writers # {})
       \/ /\ qos[r] = 0
          /\ cb' = [cb EXCEPT ![r] = "done"]
          /\ UNCHANGED <<writers, acks, raced>>
    /\ UNCHANGED <<wire, wErr>>
    /\ UNCHANGED <<pubVars, connVars, reqVars, goVars>>

\* The publishCallback in the publisher's goroutine.
Callback(r) ==
    /\ cb[r] = "due"
    /\ \/ /\ pub[r] = "ok" /\ qos[r] # 0
          /\ cb' = [cb EXCEPT ![r] = "writing"]
          /\ writers' = writers \cup {r}
          /\ acks' = [acks EXCEPT ![r] = @ + 1]
          /\ raced' = (raced \/ writers # {})
       \/ /\ pub[r] = "failed" \/ qos[r] = 0
          /\ cb' = [cb EXCEPT ![r] = "done"]
          /\ UNCHANGED <<writers, acks, raced>>
    /\ UNCHANGED <<wire, wErr>>
    /\ UNCHANGED <<pubVars, connVars, reqVars, goVars>>

CallbackEndWrite(r) ==
    /\ cb[r] = "writing"
    /\ cb' = [cb EXCEPT ![r] = "done"]
    /\ writers' = writers \ {r}
    /\ WriteResult({r})
    /\ UNCHANGED <<acks, raced>>
    /\ UNCHANGED <<pubVars, connVars, reqVars, goVars>>

(***************************************************************************)
(* The specification.                                                      *)
(***************************************************************************)

SessionNext ==
    \/ ReadFails
    \/ ConnectionLost
    \/ \E result \in {"accepted", "refused", "error"} : HandleConnect(result)
    \/ \E r \in Requests, q \in 0..3 : HandlePublish(r, q)
    \/ PublishResponse
    \/ PublishError
    \/ PublishAsyncReturns
    \/ PublishPanics
    \/ HandlePublishRelease
    \/ HandlePing
    \/ HandleDisconnect
    \/ HandleUnsupported
    \/ BeginWrite
    \/ EndWrite

PublisherNext(r) ==
    \/ BrokerStores(r)
    \/ CallAnswered(r)
    \/ CallbackStarts(r)
    \/ Callback(r)
    \/ CallbackEndWrite(r)

Next == SessionNext \/ \E r \in Requests : PublisherNext(r)

Spec == Init /\ [][Next]_vars

\* The goroutine and the callbacks run, and a write ends with its deadline at
\* the latest. Nothing is assumed of the client and of the publisher.
FairSpec ==
    /\ Spec
    /\ WF_vars(PublishResponse \/ PublishError \/ PublishAsyncReturns)
    /\ WF_vars(BeginWrite)
    /\ WF_vars(EndWrite)
    /\ \A r \in Requests :
           /\ WF_vars(Callback(r))
           /\ WF_vars(CallbackEndWrite(r))

(***************************************************************************)
(* Properties.                                                             *)
(***************************************************************************)

\* A client that has received PUBACK or PUBREC for a request whose publisher
\* confirms can rely on the broker: the message is stored, whichever goroutine
\* ran the callback and whatever else happened to the connection
\* (handler.go:161-198, 253-267).
AckConfirmed ==
    \A r \in wire : r \in Confirmed => r \in stored

\* A request is acknowledged at most once, and only after a response without
\* error: never after its publish call failed, timed out or was refused, even
\* if the broker stores the message later (handler.go:163, 182, 210-217).
OneAck ==
    \A r \in Requests :
        /\ acks[r] <= 1
        /\ acks[r] = 1 => pub[r] = "ok" /\ qos[r] # 0

\* Nothing is served on the strength of a login that was refused since: what
\* is forwarded or answered follows a CONNECT whose last answer was
\* "accepted", or is exempt by option. This covers packets already buffered
\* behind a second, refused CONNECT, which are handled after the connection
\* was closed (handler.go:43-55, 75-76, 91-95).
ServedAfterLogin ==
    /\ \A r \in Requests :
          pub[r] # "new" =>
              decision[r] = "accepted" \/ "PUBLISH" \in AllowUnauthenticated
    /\ pc \in {"write", "writing"} /\ frame = "PINGRESP" =>
          login = "accepted" \/ "PINGREQ" \in AllowUnauthenticated
    /\ pc \in {"write", "writing"} /\ frame = "PUBCOMP" =>
          login = "accepted" \/ "PUBREL" \in AllowUnauthenticated

\* How far a request has come, seen by the publisher, by the goroutine that
\* runs its callback and by the wire: what makes the second acknowledgement of
\* a request impossible.
AckProgress ==
    \A r \in Requests :
        /\ pub[r] \in {"new", "pending", "accepted"} =>
              acks[r] = 0 /\ cb[r] = "none"
        /\ cb[r] = "due" => acks[r] = 0 /\ pub[r] \in Responses
        /\ cb[r] = "writing" => acks[r] = 1
        /\ pc = "publish" /\ cur = r /\ cb[r] = "none" => acks[r] = 0
        /\ r \in wire => acks[r] = 1
        /\ pub[r] = "ok" /\ r \in Confirmed => r \in stored

\* What the connection's goroutine has in hand.
InHand ==
    /\ pc = "publish" => cur \in Requests
    /\ pc \in {"write", "writing"} /\ frame \in Acks =>
          cur \in Requests /\ acks[cur] = 1
    /\ authenticated = (login = "accepted")

\* The inductive invariant: at every step of the connection's goroutine and of
\* the callbacks the response, the acknowledgement issued and what was sent
\* agree, and the flag is the last login (handler.go:57-219).
SessionInv ==
    /\ TypeOK
    /\ AckProgress
    /\ InHand
    /\ OneAck
    /\ ServedAfterLogin


\* The comment "guards conn and Write" (response.go:81): the connection's
\* buffered writer is used by one goroutine at a time.
WriteGuarded == Cardinality(writers) <= 1

(***************************************************************************)
(* The session implements StoreThenAck: a message is what a forwarded      *)
(* request carries, acknowledged when its PUBACK or PUBREC was sent.       *)
(***************************************************************************)
Outside == INSTANCE StoreThenAck WITH
    Messages <- Requests,
    Durable <- Confirmed,
    sent <- {r \in Requests : pub[r] # "new"},
    acked <- wire

\* Seen from outside, every step of a session is a send, a store, an
\* acknowledgement of a stored message, or nothing (handler.go:142-219).
ImplementsStoreThenAck == Outside!Spec
=============================================================================
