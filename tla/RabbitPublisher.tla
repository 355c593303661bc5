---------------------------- MODULE RabbitPublisher ----------------------------
(***************************************************************************)
(* pkg/publisher/rabbitmq: for every QoS level a client with its one retry *)
(* (client.go), the shared AMQP channel it opens on first use              *)
(* (channel_provider.go), publishing with or without publisher confirms    *)
(* (channel.go), and the stop of the publisher (rabbitmq.go).              *)
(*                                                                         *)
(* Publish and PublishAsync do the same work in the calling goroutine, one *)
(* goroutine per request here. CloseChannel ends in                        *)
(* atomic.Value.CompareAndSwap(channel, nil), which panics for a nil new   *)
(* value: the goroutine unwinds to conn.serve, which closes the MQTT       *)
(* connection, and channelPtr keeps the closed channel.                    *)
(*                                                                         *)
(* RabbitMQ is modelled by what the code sees of it. A mandatory message   *)
(* that no queue takes is returned and then confirmed; nobody listens for  *)
(* returns, so it looks delivered.                                         *)
(***************************************************************************)
EXTENDS Naturals, FiniteSets

CONSTANTS
    Requests, NoReq,   \* publish requests; none
    Qos,               \* QoS levels, each with its client
    QosOf,             \* the QoS level of a request
    Channels, NoChan,  \* AMQP channels that can be opened; none
    Confirms,          \* the QoS levels with publisher confirms
    Routable           \* requests whose message some queue takes

ASSUME RabbitAssumption ==
    /\ NoReq \notin Requests
    /\ NoChan \notin Channels
    /\ QosOf \in [Requests -> Qos]
    /\ Confirms \subseteq Qos
    /\ Routable \subseteq Requests

VARIABLES
    pub, stored,  \* as in module Publisher
    pPc,          \* control of a request's goroutine
    ch,           \* the channel it got
    attempt,      \* 1, or 2 after the retry
    sent,         \* requests written to an open channel
    chan,         \* AMQP channels: "unused", "open" or "closed"
    ptr,          \* ChannelProvider.channelPtr of a client
    mu,           \* the holder of ChannelProvider.mu of a client
    stopPc,       \* control of Shutdown
    toClose,      \* the clients Close has not closed yet
    servePc,      \* control of Serve
    doomed        \* history: requests that began on a closed channel

pubVars  == <<pub, stored>>
goVars   == <<pPc, ch, attempt, sent, doomed>>
provVars == <<chan, ptr, mu>>
stopVars == <<stopPc, toClose, servePc>>
vars == <<pubVars, goVars, provVars, stopVars>>

TypeOK ==
    /\ pub \in [Requests ->
          {"new", "pending", "accepted", "ok", "failed", "error"}]
    /\ stored \in SUBSET Requests
    /\ pPc \in [Requests -> {"idle", "get", "lock", "dial", "send", "confirm",
                             "closeChannel", "done", "panicked"}]
    /\ ch \in [Requests -> Channels \cup {NoChan}]
    /\ attempt \in [Requests -> 0..2]
    /\ sent \in SUBSET Requests
    /\ chan \in [Channels -> {"unused", "open", "closed"}]
    /\ ptr \in [Qos -> Channels \cup {NoChan}]
    /\ mu \in [Qos -> Requests \cup {NoReq}]
    /\ stopPc \in {"running", "close", "done"}
    /\ toClose \in SUBSET Qos
    /\ servePc \in {"serving", "returned"}
    /\ doomed \in SUBSET Requests

Init ==
    /\ pub = [r \in Requests |-> "new"] /\ stored = {}
    /\ pPc = [r \in Requests |-> "idle"]
    /\ ch = [r \in Requests |-> NoChan]
    /\ attempt = [r \in Requests |-> 0]
    /\ sent = {}
    /\ chan = [c \in Channels |-> "unused"]
    /\ ptr = [q \in Qos |-> NoChan] /\ mu = [q \in Qos |-> NoReq]
    /\ stopPc = "running" /\ toClose = {} /\ servePc = "serving"
    /\ doomed = {}

\* The channel and the mutex of the client of r.
Ptr(r) == ptr[QosOf[r]]
MuFree(r) == mu[QosOf[r]] = NoReq
Lock(r) == mu' = [mu EXCEPT ![QosOf[r]] = r]
Unlock(r) == mu' = [mu EXCEPT ![QosOf[r]] = NoReq]

Goto(r, pc) == pPc' = [pPc EXCEPT ![r] = pc]

\* The call returns: "ok" or "error".
Return(r, result) ==
    /\ pub' = [pub EXCEPT ![r] = result]
    /\ Goto(r, "done")

(***************************************************************************)
(* sendMessage, client.Publish and doPublish.                              *)
(***************************************************************************)

\* sendMessage: no queue or no payload is an error, else the first doPublish.
SendMessage(r) ==
    /\ pub[r] = "new"
    /\ pub' = [pub EXCEPT ![r] = "pending"]
    /\ attempt' = [attempt EXCEPT ![r] = 1]
    /\ Goto(r, "get")
    /\ doomed' = doomed \cup
                    {d \in {r} : Ptr(r) # NoChan /\ chan[Ptr(r)] = "closed"}
    /\ UNCHANGED <<stored, ch, sent, provVars, stopVars>>

NotPublishable(r) ==
    /\ pPc[r] = "get" /\ attempt[r] = 1
    /\ Return(r, "error")
    /\ UNCHANGED <<stored, ch, attempt, sent, provVars, stopVars, doomed>>

\* GetChannel without the mutex.
GetChannel(r) ==
    /\ pPc[r] = "get"
    /\ \/ /\ Ptr(r) # NoChan
          /\ ch' = [ch EXCEPT ![r] = Ptr(r)] /\ Goto(r, "send")
       \/ Ptr(r) = NoChan /\ Goto(r, "lock") /\ UNCHANGED ch
    /\ UNCHANGED <<pubVars, attempt, sent, provVars, stopVars, doomed>>

\* Mutant: the pointer is not read again under the mutex.
GetChannelNoRecheck(r) ==
    /\ pPc[r] = "lock" /\ MuFree(r)
    /\ Lock(r) /\ Goto(r, "dial")
    /\ UNCHANGED <<ch, chan, ptr>>
    /\ UNCHANGED <<pubVars, attempt, sent, stopVars, doomed>>

\* GetChannel under the mutex: the second look, or NewChannel.
GetChannelLocked(r) ==
    /\ pPc[r] = "lock" /\ MuFree(r)
    /\ \/ /\ Ptr(r) # NoChan
          /\ ch' = [ch EXCEPT ![r] = Ptr(r)] /\ Goto(r, "send")
          /\ UNCHANGED mu
       \/ /\ Ptr(r) = NoChan
          /\ Lock(r) /\ Goto(r, "dial")
          /\ UNCHANGED ch
    /\ UNCHANGED <<chan, ptr>>
    /\ UNCHANGED <<pubVars, attempt, sent, stopVars, doomed>>

\* NewChannel succeeds: connection, channel and confirm mode. Which of the
\* unused channels it is makes no difference.
Dialed(r) ==
    /\ pPc[r] = "dial"
    /\ \E c \in Channels : chan[c] = "unused"
    /\ LET c == CHOOSE c \in Channels : chan[c] = "unused"
       IN  /\ chan' = [chan EXCEPT ![c] = "open"]
           /\ ptr' = [ptr EXCEPT ![QosOf[r]] = c]
           /\ ch' = [ch EXCEPT ![r] = c]
    /\ Unlock(r) /\ Goto(r, "send")
    /\ UNCHANGED <<pubVars, attempt, sent, stopVars, doomed>>

\* Mutant: the mutex is not released when the broker cannot be reached.
DialFailsKeepsMutex(r, retry) ==
    /\ pPc[r] = "dial"
    /\ \/ /\ retry /\ attempt[r] = 1
          /\ attempt' = [attempt EXCEPT ![r] = 2]
          /\ Goto(r, "get") /\ UNCHANGED pub
       \/ /\ ~retry \/ attempt[r] = 2
          /\ Return(r, "error") /\ UNCHANGED attempt
    /\ UNCHANGED <<stored, ch, sent, provVars, stopVars, doomed>>

\* NewChannel fails; an error whose cause is a network error is retried once
\* (shouldRetry), any other returned.
DialFails(r, retry) ==
    /\ pPc[r] = "dial"
    /\ Unlock(r)
    /\ \/ /\ retry /\ attempt[r] = 1
          /\ attempt' = [attempt EXCEPT ![r] = 2]
          /\ Goto(r, "get") /\ UNCHANGED pub
       \/ /\ ~retry \/ attempt[r] = 2
          /\ Return(r, "error") /\ UNCHANGED attempt
    /\ UNCHANGED <<stored, ch, sent, chan, ptr, stopVars, doomed>>

\* Mutant: with confirms on, the call returns as soon as the message is written.
SendUnconfirmed(r) ==
    /\ pPc[r] = "send" /\ chan[ch[r]] = "open"
    /\ sent' = sent \cup {r}
    /\ Return(r, "ok")
    /\ UNCHANGED <<stored, ch, attempt, provVars, stopVars, doomed>>

\* channel.Publish writes the message: done without confirms, else wait.
Send(r) ==
    /\ pPc[r] = "send" /\ chan[ch[r]] = "open"
    /\ sent' = sent \cup {r}
    /\ \/ QosOf[r] \notin Confirms /\ Return(r, "ok")
       \/ QosOf[r] \in Confirms /\ Goto(r, "confirm") /\ UNCHANGED pub
    /\ UNCHANGED <<stored, ch, attempt, provVars, stopVars, doomed>>

\* channel.Publish fails: the channel is not open, or the write fails or its
\* context is done.
SendFails(r) ==
    /\ pPc[r] = "send"
    /\ Goto(r, "closeChannel")
    /\ UNCHANGED <<pubVars, ch, attempt, sent, provVars, stopVars, doomed>>

\* The broker confirms: the message is stored, or was returned as unroutable.
ConfirmArrives(r) ==
    /\ pPc[r] = "confirm" /\ (r \in stored \/ r \notin Routable)
    /\ Return(r, "ok")
    /\ UNCHANGED <<stored, ch, attempt, sent, provVars, stopVars, doomed>>

\* The broker refuses, the channel is shut down, or the request times out.
NotConfirmed(r) ==
    /\ pPc[r] = "confirm"
    /\ Goto(r, "closeChannel")
    /\ UNCHANGED <<pubVars, ch, attempt, sent, provVars, stopVars, doomed>>

\* Mutant: CloseChannel empties the pointer and the error is retried.
CloseChannelResets(r) ==
    /\ pPc[r] = "closeChannel"
    /\ chan' = [chan EXCEPT ![ch[r]] = "closed"]
    /\ ptr' = [ptr EXCEPT ![QosOf[r]] = IF @ = ch[r] THEN NoChan ELSE @]
    /\ \/ attempt[r] = 1 /\ Goto(r, "get") /\ UNCHANGED pub
       \/ attempt[r] = 2 /\ Return(r, "error")
    /\ attempt' = [attempt EXCEPT ![r] = 2]
    /\ UNCHANGED <<stored, ch, sent, mu, stopVars, doomed>>

\* CloseChannel closes the AMQP channel; the CompareAndSwap panics.
CloseChannel(r) ==
    /\ pPc[r] = "closeChannel"
    /\ chan' = [chan EXCEPT ![ch[r]] = "closed"]
    /\ Goto(r, "panicked")
    /\ UNCHANGED <<pubVars, ch, attempt, sent, ptr, mu, stopVars, doomed>>

(***************************************************************************)
(* The broker, and the stop.                                               *)
(***************************************************************************)

BrokerStores(r) ==
    /\ r \in sent \ stored /\ r \in Routable
    /\ stored' = stored \cup {r}
    /\ UNCHANGED <<pub, goVars, provVars, stopVars>>

\* The connection or the channel breaks: the library closes the channel.
ChannelBreaks(c) ==
    /\ chan[c] = "open"
    /\ chan' = [chan EXCEPT ![c] = "closed"]
    /\ UNCHANGED <<pubVars, goVars, ptr, mu, stopVars>>

\* Shutdown closes the done channel, then one client after the other: its
\* channel, if it has one. A client stays usable: GetChannel looks at neither.
ShutdownDone ==
    /\ stopPc = "running" /\ stopPc' = "close" /\ toClose' = Qos
    /\ UNCHANGED <<servePc, pubVars, goVars, provVars>>

ShutdownClose(q) ==
    /\ stopPc = "close" /\ q \in toClose
    /\ toClose' = toClose \ {q}
    /\ stopPc' = IF toClose = {q} THEN "done" ELSE "close"
    /\ chan' = [c \in Channels |-> IF c = ptr[q] THEN "closed" ELSE chan[c]]
    /\ UNCHANGED <<servePc, pubVars, goVars, ptr, mu>>

ServeReturns ==
    /\ servePc = "serving" /\ stopPc # "running"
    /\ servePc' = "returned"
    /\ UNCHANGED <<stopPc, toClose, pubVars, goVars, provVars>>

RequestNext(r) ==
    \/ SendMessage(r) \/ NotPublishable(r)
    \/ GetChannel(r) \/ GetChannelLocked(r)
    \/ Dialed(r) \/ \E retry \in BOOLEAN : DialFails(r, retry)
    \/ Send(r) \/ SendFails(r)
    \/ ConfirmArrives(r) \/ NotConfirmed(r)
    \/ CloseChannel(r)

Next ==
    \/ \E r \in Requests : RequestNext(r) \/ BrokerStores(r)
    \/ \E c \in Channels : ChannelBreaks(c)
    \/ ShutdownDone \/ ServeReturns
    \/ \E q \in Qos : ShutdownClose(q)

Spec == Init /\ [][Next]_vars

(***************************************************************************)
(* Properties.                                                             *)
(***************************************************************************)

Contract == INSTANCE Publisher WITH
    Confirmed <- {r \in Routable : QosOf[r] \in Confirms}

\* The RabbitMQ publisher keeps the contract of the handler: with confirms on,
\* "ok" for a message that some queue takes means that the broker has it
\* (rabbitmq.go:64-85, channel.go:132-145). A call that panics never answers.
ImplementsPublisher == Contract!PubSpec

\* However many connections publish for the first time at once, one AMQP
\* channel per QoS level serves them all: a channel that is not closed is one
\* that a channelPtr holds, so none leaks (channel_provider.go:23-41).
OneChannel ==
    \A c \in Channels :
        chan[c] = "open" => \E q \in Qos : ptr[q] = c

\* The mutex of a client is held by a goroutine that is dialling for that
\* client, and by no other: whoever waits for it waits for a dial, never for a
\* call that has failed, been retried or panicked, so that one failure does not
\* stop all publishing of a QoS level (channel_provider.go:26-37,
\* client.go:40-67).
MutexHolderDials ==
    \A q \in Qos, r \in Requests :
        mu[q] = r <=> pPc[r] = "dial" /\ QosOf[r] = q

\* There is no recovery from a closed channel: a request that starts when
\* channelPtr holds one never succeeds, because CloseChannel panics before the
\* pointer is emptied and before client.Publish can retry
\* (channel_provider.go:52-57, client.go:41-46, 61-64).
NoRecovery == \A r \in doomed : pub[r] # "ok"

\* The caller's view of a request follows the control of its goroutine, and only
\* what a call has sent is stored.
CallProgress ==
    \A r \in Requests :
        /\ pub[r] = "new" <=> pPc[r] = "idle"
        /\ pPc[r] \in {"get", "lock", "dial", "send", "confirm",
                       "closeChannel", "panicked"} => pub[r] = "pending"
        /\ pPc[r] = "done" => pub[r] \in {"ok", "error"}
        /\ r \in sent => pub[r] # "new"

\* A goroutine dials only while its client has no channel: the second look at
\* channelPtr holds until the mutex is released.
DialsOnlyWithout == \A r \in Requests : pPc[r] = "dial" => Ptr(r) = NoChan

\* A request that began on a closed channel still has it, and has got no
\* further than to its CloseChannel.
DoomedIsStuck ==
    \A r \in doomed :
        /\ Ptr(r) \in Channels /\ chan[Ptr(r)] = "closed"
        /\ pPc[r] \in {"get", "send", "closeChannel", "panicked", "done"}
        /\ pPc[r] = "send" => ch[r] = Ptr(r)

\* The inductive invariant: the mutex, the pointer it guards and the channels
\* agree at every step of the calls, of the broker and of the stop
\* (channel_provider.go:14-57, client.go:40-74).
RabbitInv ==
    /\ TypeOK
    /\ CallProgress
    /\ MutexHolderDials
    /\ DialsOnlyWithout
    /\ OneChannel
    /\ DoomedIsStuck
    /\ NoRecovery
=============================================================================
