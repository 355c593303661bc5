---------------------------- MODULE KafkaPublisher ----------------------------
(***************************************************************************)
(* pkg/publisher/kafka/kafka.go: a producer per QoS level, synchronous and *)
(* asynchronous publishing, the workers that turn delivery reports into    *)
(* callbacks, and the graceful stop that flushes the producers.            *)
(*                                                                         *)
(* Callers may publish at any time, also during and after the stop: the    *)
(* run group stops the publisher before the MQTT server (cmd/server.go).   *)
(* The producer itself (confluent-kafka-go, librdkafka) is modelled by     *)
(* what kafka.go sees of it: messages wait in its queue, the broker may    *)
(* store them, a delivery report with the outcome comes back on the call's *)
(* own channel or on Events().                                             *)
(***************************************************************************)
EXTENDS Naturals, FiniteSets

CONSTANTS
    Requests, NoReq,  \* publish requests; none
    Qos,              \* the QoS levels, each with a producer of its own
    QosOf,            \* the QoS of a request, which selects its producer
    AsyncRequests,    \* those published with PublishAsync
    Workers,          \* the workers of one producer (options.workers)
    PublishTimeout,   \* the caller's context has a deadline
    GracePeriods      \* whether options.gracePeriod > 0; with both values the
                      \* option is chosen when it is read

ASSUME KafkaAssumption ==
    /\ Qos \subseteq 0..2
    /\ QosOf \in [Requests -> Qos]
    /\ AsyncRequests \subseteq Requests
    /\ NoReq \notin Requests
    /\ PublishTimeout \in BOOLEAN
    /\ GracePeriods \subseteq BOOLEAN

VARIABLES
    pub, stored,      \* as in module Publisher
    produced,         \* requests handed to Produce without error
    outq,             \* requests in a producer's queue or in flight
    report,           \* the delivery report of a request
    dchan,            \* synchronous requests with a report in deliveryChan
    events,           \* asynchronous requests with a report in Events()
    fatal,            \* QoS levels with a fatal error in Events()
    wPc, wReq,        \* workers: control and the request of the callback
    workersDone,      \* Publisher.workersDone is closed
    servePc,          \* control of Serve
    producerOpen,     \* producers that are not closed
    sPc,              \* control of Shutdown
    toFlush, remain,  \* flush: producers still flushing; some are not empty
    toClose,          \* Close: producers still to close
    ctxDone,          \* the grace period is over
    before,           \* history: requests produced before the stop began
    quiet,            \* history: the stop ended because nothing remained
    misused           \* history: requests produced on a closed producer

callVars  == <<pub, stored, produced>>
queueVars == <<outq, report, dchan, events, fatal>>
workVars  == <<wPc, wReq, workersDone, servePc>>
stopVars  == <<producerOpen, sPc, toFlush, remain, toClose, ctxDone, before,
               quiet>>
vars == <<callVars, queueVars, workVars, stopVars, misused>>

AllWorkers == Qos \X Workers

TypeOK ==
    /\ pub \in [Requests ->
          {"new", "pending", "accepted", "ok", "failed", "error"}]
    /\ stored \in SUBSET Requests
    /\ produced \in SUBSET Requests
    /\ outq \in SUBSET Requests
    /\ report \in [Requests -> {"none", "ok", "failed"}]
    /\ dchan \in SUBSET (Requests \ AsyncRequests)
    /\ events \in SUBSET AsyncRequests
    /\ fatal \in SUBSET Qos
    /\ wPc \in [AllWorkers -> {"off", "loop", "callback", "exited"}]
    /\ wReq \in [AllWorkers -> AsyncRequests \cup {NoReq}]
    /\ workersDone \in BOOLEAN
    /\ servePc \in {"start", "serving", "returned"}
    /\ producerOpen \in SUBSET Qos
    /\ sPc \in {"running", "flush", "poll", "close", "closing", "done"}
    /\ toFlush \in SUBSET Qos
    /\ remain \in BOOLEAN
    /\ toClose \in SUBSET Qos
    /\ ctxDone \in BOOLEAN
    /\ before \in SUBSET Requests
    /\ quiet \in BOOLEAN
    /\ misused \in SUBSET Requests

Init ==
    /\ pub = [r \in Requests |-> "new"] /\ stored = {} /\ produced = {}
    /\ outq = {} /\ report = [r \in Requests |-> "none"]
    /\ dchan = {} /\ events = {} /\ fatal = {}
    /\ wPc = [w \in AllWorkers |-> "off"]
    /\ wReq = [w \in AllWorkers |-> NoReq]
    /\ workersDone = FALSE /\ servePc = "start"
    /\ producerOpen = Qos /\ sPc = "running"
    /\ toFlush = {} /\ remain = FALSE /\ toClose = {} /\ ctxDone = FALSE
    /\ before = {} /\ quiet = FALSE
    /\ misused = {}

(***************************************************************************)
(* Publish and PublishAsync, in a connection's goroutine.                  *)
(***************************************************************************)

Call(r) ==
    /\ pub[r] = "new"
    /\ pub' = [pub EXCEPT ![r] = "pending"]
    /\ UNCHANGED <<stored, produced, queueVars, workVars, stopVars, misused>>

\* No topic for the message, a body that cannot be built, or a full queue.
ProduceFails(r) ==
    /\ pub[r] = "pending" /\ r \notin produced
    /\ pub' = [pub EXCEPT ![r] = "error"]
    /\ UNCHANGED <<stored, produced, queueVars, workVars, stopVars, misused>>

\* Produce takes the message; PublishAsync returns nil, Publish waits. On a
\* closed producer, about which the library promises nothing, the message is
\* gone or the call fails.
Produce(r) ==
    /\ pub[r] = "pending" /\ r \notin produced
    /\ produced' = produced \cup {r}
    /\ \/ pub' = [pub EXCEPT
                     ![r] = IF r \in AsyncRequests THEN "accepted" ELSE @]
       \/ QosOf[r] \notin producerOpen /\ pub' = [pub EXCEPT ![r] = "error"]
    /\ \/ /\ QosOf[r] \in producerOpen
          /\ outq' = outq \cup {r} /\ UNCHANGED misused
       \/ /\ QosOf[r] \notin producerOpen
          /\ misused' = misused \cup {r} /\ UNCHANGED outq
    /\ UNCHANGED <<stored, report, dchan, events, fatal, workVars, stopVars>>

\* The select of Publish: the delivery report ...
SyncDelivered(r) ==
    /\ r \in dchan /\ pub[r] = "pending"
    /\ dchan' = dchan \ {r}
    /\ pub' = [pub EXCEPT ![r] = report[r]]
    /\ UNCHANGED <<stored, produced, outq, report, events, fatal>>
    /\ UNCHANGED <<workVars, stopVars, misused>>

\* ... or the end of the caller's context; a report that comes later is left
\* in the channel of the call.
SyncTimeout(r) ==
    /\ PublishTimeout
    /\ r \in produced \ AsyncRequests /\ pub[r] = "pending"
    /\ pub' = [pub EXCEPT ![r] = "error"]
    /\ UNCHANGED <<stored, produced, queueVars, workVars, stopVars, misused>>

(***************************************************************************)
(* The producers and the broker.                                           *)
(***************************************************************************)

BrokerStores(r) ==
    /\ r \in outq \ stored
    /\ stored' = stored \cup {r}
    /\ UNCHANGED <<pub, produced, queueVars, workVars, stopVars, misused>>

\* Mutant: the producer of QoS 1 and 2 runs with acks=0, as that of QoS 0.
ReportUnacked(r, res) ==
    /\ r \in outq /\ QosOf[r] \in producerOpen
    /\ outq' = outq \ {r}
    /\ report' = [report EXCEPT ![r] = res]
    /\ IF r \in AsyncRequests
       THEN events' = events \cup {r} /\ UNCHANGED dchan
       ELSE dchan' = dchan \cup {r} /\ UNCHANGED events
    /\ UNCHANGED <<callVars, fatal, workVars, stopVars, misused>>

\* Mutant: the producers run with delivery.report.only.error=true.
ReportOnlyErrors(r, res) ==
    /\ r \in outq /\ QosOf[r] \in producerOpen
    /\ res = "ok" /\ QosOf[r] # 0 => r \in stored
    /\ outq' = outq \ {r}
    /\ report' = [report EXCEPT ![r] = res]
    /\ events' = events \cup {e \in {r} \cap AsyncRequests : res = "failed"}
    /\ dchan' = dchan \cup {e \in {r} \ AsyncRequests : res = "failed"}
    /\ UNCHANGED <<callVars, fatal, workVars, stopVars, misused>>

\* A delivery report. With acks=all (QoS 1 and 2) success means the broker has
\* the message; with acks=0 (QoS 0) it means it was sent.
Report(r, res) ==
    /\ r \in outq /\ QosOf[r] \in producerOpen
    /\ res = "ok" /\ QosOf[r] # 0 => r \in stored
    /\ outq' = outq \ {r}
    /\ report' = [report EXCEPT ![r] = res]
    /\ IF r \in AsyncRequests
       THEN events' = events \cup {r} /\ UNCHANGED dchan
       ELSE dchan' = dchan \cup {r} /\ UNCHANGED events
    /\ UNCHANGED <<callVars, fatal, workVars, stopVars, misused>>

\* The client library puts a fatal error on Events().
FatalError(q) ==
    /\ q \in producerOpen /\ q \notin fatal
    /\ fatal' = fatal \cup {q}
    /\ UNCHANGED <<outq, report, dchan, events>>
    /\ UNCHANGED <<callVars, workVars, stopVars, misused>>

(***************************************************************************)
(* Serve and its workers (deliveryReportEventLoop).                        *)
(***************************************************************************)

ServeStarts ==
    /\ servePc = "start"
    /\ servePc' = "serving"
    /\ wPc' = [w \in AllWorkers |-> "loop"]
    /\ UNCHANGED <<wReq, workersDone, callVars, queueVars, stopVars, misused>>

ServeReturns ==
    /\ servePc = "serving" /\ workersDone
    /\ servePc' = "returned"
    /\ UNCHANGED <<wPc, wReq, workersDone, callVars, queueVars, stopVars,
                   misused>>

\* A delivery report: the callback is given the response.
WorkerTakes(w, r) ==
    /\ wPc[w] = "loop" /\ r \in events /\ QosOf[r] = w[1]
    /\ events' = events \ {r}
    /\ pub' = [pub EXCEPT ![r] = report[r]]
    /\ wPc' = [wPc EXCEPT ![w] = "callback"]
    /\ wReq' = [wReq EXCEPT ![w] = r]
    /\ UNCHANGED <<stored, produced, outq, report, dchan, fatal>>
    /\ UNCHANGED <<workersDone, servePc, stopVars, misused>>

WorkerCallbackEnds(w) ==
    /\ wPc[w] = "callback"
    /\ wPc' = [wPc EXCEPT ![w] = "loop"]
    /\ wReq' = [wReq EXCEPT ![w] = NoReq]
    /\ UNCHANGED <<workersDone, servePc, callVars, queueVars, stopVars,
                   misused>>

\* Mutant: a worker that leaves does not close workersDone.
WorkerFatalSilent(w) ==
    /\ wPc[w] = "loop" /\ w[1] \in fatal
    /\ fatal' = fatal \ {w[1]}
    /\ wPc' = [wPc EXCEPT ![w] = "exited"]
    /\ UNCHANGED <<outq, report, dchan, events, wReq, workersDone, servePc>>
    /\ UNCHANGED <<callVars, stopVars, misused>>

\* A fatal error ends the worker, and with it all the others.
WorkerFatal(w) ==
    /\ wPc[w] = "loop" /\ w[1] \in fatal
    /\ fatal' = fatal \ {w[1]}
    /\ wPc' = [wPc EXCEPT ![w] = "exited"]
    /\ workersDone' = TRUE
    /\ UNCHANGED <<outq, report, dchan, events, wReq, servePc>>
    /\ UNCHANGED <<callVars, stopVars, misused>>

\* workersDone is closed, or Events() is closed and empty (a nil event).
WorkerStops(w) ==
    /\ wPc[w] = "loop"
    /\ \/ workersDone
       \/ /\ w[1] \notin producerOpen
          /\ ~ \E r \in events : QosOf[r] = w[1]
    /\ wPc' = [wPc EXCEPT ![w] = "exited"]
    /\ workersDone' = TRUE
    /\ UNCHANGED <<wReq, servePc, callVars, queueVars, stopVars, misused>>

(***************************************************************************)
(* Shutdown and Close, called by the run group.                            *)
(***************************************************************************)

Shutdown ==
    /\ sPc = "running"
    /\ before' = produced
    /\ \/ /\ FALSE \in GracePeriods
          /\ sPc' = "close" /\ UNCHANGED <<toFlush, remain>>
       \/ /\ TRUE \in GracePeriods
          /\ sPc' = "flush" /\ toFlush' = Qos /\ remain' = FALSE
    /\ UNCHANGED <<producerOpen, toClose, ctxDone, quiet>>
    /\ UNCHANGED <<callVars, queueVars, workVars, misused>>

\* Producer.Len() > 0: messages not yet reported, events not yet taken.
NotEmpty(q) ==
    \/ \E r \in outq \cup events : QosOf[r] = q
    \/ q \in fatal

\* Mutant: the last producer's count replaces the sum.
FlushProducerOverwrites(q) ==
    /\ sPc = "flush" /\ q \in toFlush
    /\ toFlush' = toFlush \ {q}
    /\ remain' = NotEmpty(q)
    /\ UNCHANGED <<producerOpen, sPc, toClose, ctxDone, before, quiet>>
    /\ UNCHANGED <<callVars, queueVars, workVars, misused>>

\* One producer's Flush returns: it is empty, or the half second is over.
FlushProducer(q) ==
    /\ sPc = "flush" /\ q \in toFlush
    /\ toFlush' = toFlush \ {q}
    /\ remain' = (remain \/ NotEmpty(q))
    /\ UNCHANGED <<producerOpen, sPc, toClose, ctxDone, before, quiet>>
    /\ UNCHANGED <<callVars, queueVars, workVars, misused>>

\* All have returned: nothing remains, or wait for the ticker.
FlushEnds ==
    /\ sPc = "flush" /\ toFlush = {}
    /\ sPc' = IF remain THEN "poll" ELSE "close"
    /\ quiet' = ~remain
    /\ UNCHANGED <<producerOpen, toFlush, remain, toClose, ctxDone, before>>
    /\ UNCHANGED <<callVars, queueVars, workVars, misused>>

PollTick ==
    /\ sPc = "poll"
    /\ sPc' = "flush" /\ toFlush' = Qos /\ remain' = FALSE
    /\ UNCHANGED <<producerOpen, toClose, ctxDone, before, quiet>>
    /\ UNCHANGED <<callVars, queueVars, workVars, misused>>

\* Mutant: the loop does not look at the context.
PollExpiredIgnored ==
    FALSE /\ UNCHANGED vars

PollExpired ==
    /\ sPc = "poll" /\ ctxDone
    /\ sPc' = "close"
    /\ UNCHANGED <<producerOpen, toFlush, remain, toClose, ctxDone, before,
                   quiet>>
    /\ UNCHANGED <<callVars, queueVars, workVars, misused>>

GraceExpires ==
    /\ sPc \in {"flush", "poll"} /\ ~ctxDone
    /\ ctxDone' = TRUE
    /\ UNCHANGED <<producerOpen, sPc, toFlush, remain, toClose, before, quiet>>
    /\ UNCHANGED <<callVars, queueVars, workVars, misused>>

\* Close: workersDone first ...
CloseWorkers ==
    /\ sPc = "close"
    /\ workersDone' = TRUE
    /\ sPc' = "closing" /\ toClose' = Qos
    /\ UNCHANGED <<producerOpen, toFlush, remain, ctxDone, before, quiet>>
    /\ UNCHANGED <<wPc, wReq, servePc, callVars, queueVars, misused>>

\* ... then the producers one by one. What is left in a queue stays there.
CloseProducer(q) ==
    /\ sPc = "closing" /\ q \in toClose
    /\ producerOpen' = producerOpen \ {q}
    /\ toClose' = toClose \ {q}
    /\ sPc' = IF toClose = {q} THEN "done" ELSE "closing"
    /\ UNCHANGED <<toFlush, remain, ctxDone, before, quiet>>
    /\ UNCHANGED <<callVars, queueVars, workVars, misused>>

(***************************************************************************)
(* The specification.                                                      *)
(***************************************************************************)

CallNext(r) ==
    \/ Call(r) \/ ProduceFails(r) \/ Produce(r)
    \/ SyncDelivered(r) \/ SyncTimeout(r)

ProducerNext(r) ==
    \/ BrokerStores(r)
    \/ \E res \in {"ok", "failed"} : Report(r, res)

WorkerNext(w) ==
    \/ \E r \in Requests : WorkerTakes(w, r)
    \/ WorkerCallbackEnds(w) \/ WorkerFatal(w) \/ WorkerStops(w)

StopNext ==
    \/ Shutdown
    \/ \E q \in Qos : FlushProducer(q)
    \/ FlushEnds \/ PollTick \/ PollExpired \/ GraceExpires
    \/ CloseWorkers
    \/ \E q \in Qos : CloseProducer(q)

Next ==
    \/ \E r \in Requests : CallNext(r) \/ ProducerNext(r)
    \/ \E q \in Qos : FatalError(q)
    \/ ServeStarts \/ ServeReturns
    \/ \E w \in AllWorkers : WorkerNext(w)
    \/ StopNext

Spec == Init /\ [][Next]_vars

\* Goroutines run; a message is reported in the end (librdkafka gives up after
\* message.timeout.ms); contexts and the grace period expire, and a select with
\* an expired context does not choose the other case for ever (SF).
FairSpec ==
    /\ Spec
    /\ \A r \in Requests :
          /\ WF_vars(ProduceFails(r) \/ Produce(r))
          /\ WF_vars(SyncDelivered(r))
          /\ WF_vars(SyncTimeout(r))
          /\ WF_vars(\E res \in {"ok", "failed"} : Report(r, res))
    /\ WF_vars(ServeStarts)
    /\ WF_vars(ServeReturns)
    /\ \A w \in AllWorkers :
          /\ WF_vars(WorkerCallbackEnds(w))
          /\ WF_vars(WorkerNext(w))
    /\ WF_vars(StopNext /\ sPc # "running")
    /\ WF_vars(GraceExpires)
    /\ SF_vars(PollExpired)

(***************************************************************************)
(* Properties.                                                             *)
(***************************************************************************)

\* An accepted request, and a synchronous one in its wait, is always to be found
\* on its way to an answer: in its producer's queue, or with a report where the
\* one who waits will look for it. Only a closed producer swallows a request,
\* and by then the workers were told to stop (kafka.go:140-155, 278-340).
AcceptedAccounted ==
    /\ \A r \in Requests :
          /\ pub[r] = "accepted" => r \in outq \cup events \cup misused
          /\ pub[r] = "pending" /\ r \in produced =>
                r \in outq \cup dchan \cup misused
    /\ misused # {} => workersDone

Contract == INSTANCE Publisher WITH
    Confirmed <- {r \in Requests : QosOf[r] # 0}

\* The Kafka publisher keeps the contract the MQTT handler relies on: one
\* answer per request, "ok" for QoS 1 and 2 only when the broker has the
\* message, no response after an error, also when the report arrives after the
\* timeout (kafka.go:266-315, 342-375).
ImplementsPublisher == Contract!PubSpec

\* A graceful stop that ended because nothing remained has answered every
\* request produced before it began: none is left in a queue or in Events()
\* when the workers are stopped and the producers closed (kafka.go:81-99,
\* 117-138).
FlushedNotLost ==
    quiet => before \cap (outq \cup events) = {}

\* A request is in one place at a time, and the caller's view of it tells where
\* it may be: an asynchronous one in a queue is "accepted".
PlacesAgree ==
    \A r \in Requests :
        /\ r \in outq \cup dchan \cup events => r \in produced
        /\ r \in outq => r \notin dchan \cup events
        /\ r \in produced => pub[r] # "new"
        /\ r \in produced \cap AsyncRequests => pub[r] # "pending"
        /\ pub[r] = "accepted" => r \in AsyncRequests
        /\ r \in AsyncRequests /\ r \in outq \cup events =>
              pub[r] = "accepted"

\* A report has an outcome, and a true one where the producer waits for acks.
ReportsAreTrue ==
    \A r \in Requests :
        /\ r \in dchan \cup events => report[r] # "none"
        /\ report[r] = "ok" /\ QosOf[r] # 0 => r \in stored

\* The workers are told to stop before the first producer is closed, and the
\* outcome of the flush is known only after it.
StopInOrder ==
    /\ sPc \in {"closing", "done"} => workersDone
    /\ producerOpen # Qos => sPc \in {"closing", "done"}
    /\ sPc \in {"running", "flush", "poll"} => ~quiet
    /\ before \subseteq produced

\* While the count of what remains is zero, the requests of the stop's beginning
\* are only in producers whose Flush has not returned yet.
FlushCovers ==
    sPc = "flush" /\ ~remain =>
        \A r \in before \cap (outq \cup events) : QosOf[r] \in toFlush

\* The inductive invariant: the places a request passes through, its report and
\* the caller's view agree, and the stop goes in order (kafka.go:81-155,
\* 266-375).
KafkaInv ==
    /\ TypeOK
    /\ AcceptedAccounted
    /\ PlacesAgree
    /\ ReportsAreTrue
    /\ StopInOrder
    /\ FlushCovers
    /\ FlushedNotLost

\* An accepted request is answered by its callback as long as the workers are
\* not told to stop; a worker that leaves for a fatal error tells them, so no
\* callback is waited for silently (kafka.go:317-340, 356-358).
CallbackOrDone ==
    \A r \in Requests :
        (pub[r] = "accepted") ~>
            (pub[r] \in {"ok", "failed"} \/ workersDone)

\* A publish call returns. Without a deadline, the default and what the run
\* checks, it waits for the report, and only the stop, which closes the producer
\* under a waiting call, can keep it for ever; with one, not even the stop can
\* (kafka.go:282-292, 144-155).
PublishReturns ==
    \A r \in Requests :
        (pub[r] = "pending") ~>
            \/ pub[r] # "pending"
            \/ ~PublishTimeout /\ QosOf[r] \notin producerOpen

\* Once the stop began, the producers are closed and Serve has returned in the
\* end, with or without workers left to empty Events() (kafka.go:101-138, 335).
StopCompletes ==
    (sPc # "running") ~> (sPc = "done" /\ servePc = "returned")
=============================================================================
