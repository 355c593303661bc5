----------------------------- MODULE AwsPublisher -----------------------------
(***************************************************************************)
(* pkg/publisher/sqs/sqs.go and pkg/publisher/sns/sns.go: one request to   *)
(* the service per publish, in the calling goroutine. SQS first looks up   *)
(* the URL of the queue and caches it; SNS is given the ARN of the topic   *)
(* by the options and starts at "send". A proxy uses one of the two; here  *)
(* a request goes through the publisher its queue or topic belongs to.     *)
(*                                                                         *)
(* For a FIFO queue or topic the MQTT packet identifier is used as the     *)
(* deduplication identifier. The service, modelled by what it documents    *)
(* for such a request, answers a message whose identifier it has seen in   *)
(* the last minutes with success and drops it.                             *)
(***************************************************************************)
EXTENDS Naturals, FiniteSets

CONSTANTS
    Requests,       \* publish requests
    AsyncRequests,  \* those published with PublishAsync
    Queues,         \* SQS queues and SNS topics
    Topics,         \* the SNS topics among them
    Fifo,           \* those that end in ".fifo"
    QueueOf,        \* the queue of a request (findQueueName, findTopicARN)
    MessageID       \* the MQTT packet identifier of a request, 0 for QoS 0

\* Packet identifiers have 16 bits.
PacketIDs == 0..65535

ASSUME AwsAssumption ==
    /\ AsyncRequests \subseteq Requests
    /\ Fifo \subseteq Queues
    /\ Topics \subseteq Queues
    /\ QueueOf \in [Requests -> Queues]
    /\ MessageID \in [Requests -> PacketIDs]

VARIABLES
    pub, stored,  \* as in module Publisher
    aPc,          \* control of a request's goroutine
    queueUrls,    \* SQS: the queues whose URL is cached
    seen          \* the service: identifiers a queue remembers

vars == <<pub, stored, aPc, queueUrls, seen>>

TypeOK ==
    /\ pub \in [Requests ->
          {"new", "pending", "accepted", "ok", "failed", "error"}]
    /\ stored \in SUBSET Requests
    /\ aPc \in [Requests -> {"idle", "url", "lookup", "send", "taken", "done"}]
    /\ queueUrls \in SUBSET Queues
    /\ seen \in [Queues -> SUBSET PacketIDs]

Init ==
    /\ pub = [r \in Requests |-> "new"] /\ stored = {}
    /\ aPc = [r \in Requests |-> "idle"]
    /\ queueUrls = {}
    /\ seen = [q \in Queues |-> {}]

Goto(r, pc) == aPc' = [aPc EXCEPT ![r] = pc]

\* Publish or PublishAsync is called, and calls sendMessage.
Call(r) ==
    /\ pub[r] = "new"
    /\ pub' = [pub EXCEPT ![r] = "pending"]
    /\ Goto(r, IF QueueOf[r] \in Topics THEN "send" ELSE "url")
    /\ UNCHANGED <<stored, queueUrls, seen>>

\* sendMessage returns an error before the service is asked to store: no
\* queue for the MQTT topic, a body that cannot be built, a failed lookup.
NotSent(r) ==
    /\ aPc[r] \in {"url", "lookup", "send"}
    /\ pub' = [pub EXCEPT ![r] = "error"]
    /\ Goto(r, "done")
    /\ UNCHANGED <<stored, queueUrls, seen>>

\* getGetQueueURL: the cache ...
CachedURL(r) ==
    /\ aPc[r] = "url"
    /\ Goto(r, IF QueueOf[r] \in queueUrls THEN "send" ELSE "lookup")
    /\ UNCHANGED <<pub, stored, queueUrls, seen>>

\* Mutant: the URL is cached under the request instead of the queue.
LookupURLWrongKey(r) ==
    /\ aPc[r] = "lookup"
    /\ queueUrls' = queueUrls \cup {r}
    /\ Goto(r, "send")
    /\ UNCHANGED <<pub, stored, seen>>

\* ... or GetQueueUrl; two goroutines may both ask, and store the same URL.
LookupURL(r) ==
    /\ aPc[r] = "lookup"
    /\ queueUrls' = queueUrls \cup {QueueOf[r]}
    /\ Goto(r, "send")
    /\ UNCHANGED <<pub, stored, seen>>

\* Mutant: the deduplication identifier is that of the message group.
ServiceTakesByGroup(r) ==
    /\ aPc[r] = "send"
    /\ IF QueueOf[r] \in Fifo
       THEN /\ seen' = [seen EXCEPT ![QueueOf[r]] = {0}]
            /\ stored' = IF seen[QueueOf[r]] # {} THEN stored
                                                 ELSE stored \cup {r}
       ELSE stored' = stored \cup {r} /\ UNCHANGED seen
    /\ Goto(r, "taken")
    /\ UNCHANGED <<pub, queueUrls>>

\* The request of sendMessage reaches the service, which stores the message or
\* drops it as a duplicate.
ServiceTakes(r) ==
    /\ aPc[r] = "send"
    /\ IF QueueOf[r] \in Fifo
       THEN /\ seen' = [seen EXCEPT ![QueueOf[r]] = @ \cup {MessageID[r]}]
            /\ stored' = IF MessageID[r] \in seen[QueueOf[r]]
                         THEN stored ELSE stored \cup {r}
       ELSE stored' = stored \cup {r} /\ UNCHANGED seen
    /\ Goto(r, "taken")
    /\ UNCHANGED <<pub, queueUrls>>

\* The service answers with an identifier: a response without error.
Answered(r) ==
    /\ aPc[r] = "taken"
    /\ pub' = [pub EXCEPT ![r] = "ok"]
    /\ Goto(r, "done")
    /\ UNCHANGED <<stored, queueUrls, seen>>

\* Mutant: PublishAsync drops the error of the service.
SendFailsIgnored(r) ==
    /\ aPc[r] \in {"send", "taken"}
    /\ pub' = [pub EXCEPT ![r] = IF r \in AsyncRequests THEN "ok" ELSE "error"]
    /\ Goto(r, "done")
    /\ UNCHANGED <<stored, queueUrls, seen>>

\* The call fails, before or after the service took the message (the context
\* ends, the answer is lost): Publish returns the error, PublishAsync gives it
\* to the callback.
SendFails(r) ==
    /\ aPc[r] \in {"send", "taken"}
    /\ pub' = [pub EXCEPT ![r] =
                  IF r \in AsyncRequests THEN "failed" ELSE "error"]
    /\ Goto(r, "done")
    /\ UNCHANGED <<stored, queueUrls, seen>>

\* The service forgets an identifier.
Forget(q, id) ==
    /\ id \in seen[q]
    /\ seen' = [seen EXCEPT ![q] = @ \ {id}]
    /\ UNCHANGED <<pub, stored, aPc, queueUrls>>

Next ==
    \/ \E r \in Requests :
          \/ Call(r) \/ NotSent(r) \/ CachedURL(r) \/ LookupURL(r)
          \/ ServiceTakes(r) \/ Answered(r) \/ SendFails(r)
    \/ \E q \in Queues : \E id \in seen[q] : Forget(q, id)

Spec == Init /\ [][Next]_vars

(***************************************************************************)
(* Properties.                                                             *)
(***************************************************************************)

Contract == INSTANCE Publisher WITH
    Confirmed <- {r \in Requests : QueueOf[r] \notin Fifo}

\* The SQS and SNS publishers keep the contract of the handler; outside FIFO
\* queues "ok" means that the service has the message, and an error is final
\* even if the service took the message (sqs.go:105-180, sns.go:79-157).
ImplementsPublisher == Contract!PubSpec

\* A message with the packet identifier of r is stored in the FIFO queue of r.
Shadowed(r) ==
    /\ QueueOf[r] \in Fifo
    /\ \E s \in stored :
          QueueOf[s] = QueueOf[r] /\ MessageID[s] = MessageID[r]

\* "ok" means that the message is stored, with one exception: a FIFO queue
\* dropped it because it had a message with the same packet identifier, of
\* whatever client, not long ago (sqs.go:145-176, sns.go:121-153).
OkStoredOrShadowed ==
    \A r \in Requests : pub[r] = "ok" => r \in stored \/ Shadowed(r)

\* The caller's view of a request follows the control of its goroutine, and what
\* the service has was sent to it by a call.
CallProgress ==
    \A r \in Requests :
        /\ pub[r] = "new" <=> aPc[r] = "idle"
        /\ aPc[r] \in {"url", "lookup", "send", "taken"} => pub[r] = "pending"
        /\ r \in stored => aPc[r] \in {"taken", "done"}

\* An identifier is remembered for a message that was stored, and a message that
\* was taken is stored or shadowed.
SeenIsStored ==
    /\ \A q \in Queues : \A id \in seen[q] :
          \E s \in stored : QueueOf[s] = q /\ MessageID[s] = id
    /\ \A r \in Requests :
          aPc[r] = "taken" => r \in stored \/ Shadowed(r)

\* The inductive invariant: the goroutine, the service's memory and the answer
\* agree (sqs.go:105-180, sns.go:79-157).
AwsInv ==
    /\ TypeOK
    /\ CallProgress
    /\ SeenIsStored
    /\ OkStoredOrShadowed
=============================================================================
