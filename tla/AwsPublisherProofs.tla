-------------------------- MODULE AwsPublisherProofs --------------------------
(***************************************************************************)
(* Proofs about AwsPublisher, for any number of requests, queues and       *)
(* topics.                                                                 *)
(***************************************************************************)
EXTENDS AwsPublisher, TLAPS

\* A stored message stays stored, so what shadows a request goes on doing so.
LEMMA ShadowStays ==
    ASSUME NEW r \in Requests, Shadowed(r), stored \subseteq stored'
    PROVE  Shadowed(r)'
BY DEF Shadowed

\* The initial state satisfies the inductive invariant.
LEMMA InitAwsInv == Init => AwsInv
<1> SUFFICES ASSUME Init PROVE AwsInv
  OBVIOUS
<1> USE AwsAssumption DEF Init
<1>1. TypeOK
  BY DEF TypeOK
<1>2. CallProgress /\ SeenIsStored /\ OkStoredOrShadowed
  BY DEF CallProgress, SeenIsStored, OkStoredOrShadowed
<1> QED
  BY <1>1, <1>2 DEF AwsInv

\* A step of a call that leaves the service alone.
LEMMA CallerStepKeepsAwsInv ==
    ASSUME AwsInv, NEW r \in Requests,
           \/ Call(r) \/ NotSent(r) \/ CachedURL(r) \/ LookupURL(r)
           \/ Answered(r) \/ SendFails(r)
    PROVE  AwsInv'
<1> USE AwsAssumption DEF AwsInv, Goto
<1> USE DEF Call, NotSent, CachedURL, LookupURL, Answered, SendFails
<1>1. stored' = stored /\ seen' = seen
  OBVIOUS
<1>2. TypeOK'
  BY DEF TypeOK
<1>3. CallProgress'
  BY DEF TypeOK, CallProgress
<1>4. SeenIsStored'
  BY <1>1 DEF TypeOK, SeenIsStored, Shadowed
<1>5. OkStoredOrShadowed'
  BY <1>1 DEF TypeOK, SeenIsStored, OkStoredOrShadowed, Shadowed
<1> QED
  BY <1>2, <1>3, <1>4, <1>5

\* The service takes a message: it is stored, or dropped because its identifier
\* is remembered, and then the message it is remembered for shadows it.
LEMMA ServiceTakesKeepsAwsInv ==
    ASSUME AwsInv, NEW r \in Requests, ServiceTakes(r) PROVE AwsInv'
<1> USE AwsAssumption DEF AwsInv, Goto, ServiceTakes
<1>1. QueueOf[r] \in Queues /\ MessageID[r] \in PacketIDs
  OBVIOUS
<1>2. TypeOK'
  BY <1>1 DEF TypeOK
<1>3. CallProgress'
  BY DEF TypeOK, CallProgress
<1>4. stored \subseteq stored'
  OBVIOUS
<1>5. r \in stored' \/ Shadowed(r)'
  <2>1. CASE QueueOf[r] \in Fifo /\ MessageID[r] \in seen[QueueOf[r]]
    BY <1>1, <1>4, <2>1 DEF SeenIsStored, Shadowed
  <2>2. CASE ~(QueueOf[r] \in Fifo /\ MessageID[r] \in seen[QueueOf[r]])
    BY <2>2
  <2> QED
    BY <2>1, <2>2
<1>6. ASSUME NEW q \in Queues, NEW id \in seen'[q]
      PROVE  \E s \in stored' : QueueOf[s] = q /\ MessageID[s] = id
  <2>1. CASE id \in seen[q]
    BY <1>4, <2>1 DEF SeenIsStored
  <2>2. CASE id \notin seen[q]
    <3>1. q = QueueOf[r] /\ id = MessageID[r] /\ r \in stored'
      BY <1>1, <1>6, <2>2 DEF TypeOK
    <3> QED
      BY <3>1
  <2> QED
    BY <2>1, <2>2
<1>7. ASSUME NEW s \in Requests, aPc'[s] = "taken"
      PROVE  s \in stored' \/ Shadowed(s)'
  BY <1>4, <1>5, <1>7, ShadowStays DEF TypeOK, SeenIsStored
<1>8. OkStoredOrShadowed'
  BY <1>4, ShadowStays DEF OkStoredOrShadowed
<1> QED
  BY <1>2, <1>3, <1>6, <1>7, <1>8 DEF SeenIsStored

\* The service forgets an identifier.
LEMMA ForgetKeepsAwsInv ==
    ASSUME AwsInv, NEW q \in Queues, NEW id \in seen[q], Forget(q, id)
    PROVE  AwsInv'
<1> USE DEF AwsInv, Forget
<1>1. TypeOK'
  BY DEF TypeOK
<1>2. CallProgress' /\ OkStoredOrShadowed'
  BY DEF CallProgress, OkStoredOrShadowed, Shadowed
<1>3. \A p \in Queues : seen'[p] \subseteq seen[p]
  BY DEF TypeOK
<1>4. SeenIsStored'
  BY <1>3 DEF SeenIsStored, Shadowed
<1> QED
  BY <1>1, <1>2, <1>4

LEMMA NextKeepsAwsInv == AwsInv /\ [Next]_vars => AwsInv'
<1> SUFFICES ASSUME AwsInv, [Next]_vars PROVE AwsInv'
  OBVIOUS
<1>1. CASE UNCHANGED vars
  BY <1>1 DEF vars, AwsInv, TypeOK, CallProgress, SeenIsStored,
              OkStoredOrShadowed, Shadowed
<1> QED
  BY <1>1, CallerStepKeepsAwsInv, ServiceTakesKeepsAwsInv, ForgetKeepsAwsInv
     DEF Next

\* The inductive invariant holds in every behaviour, for any number of requests,
\* queues and topics (sqs.go:105-180, sns.go:79-157).
THEOREM AwsInvariant == Spec => []AwsInv
<1> QED
  BY InitAwsInv, NextKeepsAwsInv, PTL DEF Spec

\* A request that was answered "ok" is stored, or its FIFO queue has another
\* message with the same packet identifier (sqs.go:145-176, sns.go:121-153).
THEOREM OkIsStored == Spec => []OkStoredOrShadowed
<1>1. AwsInv => OkStoredOrShadowed
  BY DEF AwsInv
<1> QED
  BY <1>1, AwsInvariant, PTL

\* A step of a call is a step of the contract or a stutter.
LEMMA CallStepMaps ==
    ASSUME AwsInv, NEW r \in Requests,
           \/ Call(r) \/ NotSent(r) \/ CachedURL(r) \/ LookupURL(r)
           \/ ServiceTakes(r) \/ Answered(r) \/ SendFails(r)
    PROVE  [Contract!PubNext]_<<pub, stored>>
<1> USE DEF AwsInv, CallProgress
<1>1. CASE Call(r)
  <2>1. Contract!Submit(r)
    BY <1>1 DEF Call, Contract!Submit
  <2> QED
    BY <2>1 DEF Contract!PubNext
<1>2. CASE NotSent(r) \/ (SendFails(r) /\ r \notin AsyncRequests)
  <2>1. Contract!Refuse(r)
    BY <1>2 DEF NotSent, SendFails, Contract!Refuse
  <2> QED
    BY <2>1 DEF Contract!PubNext
<1>3. CASE SendFails(r) /\ r \in AsyncRequests
  <2>1. Contract!Respond(r, "failed")
    BY <1>3 DEF SendFails, Contract!Respond
  <2> QED
    BY <2>1 DEF Contract!PubNext, Contract!Responses
<1>4. CASE Answered(r)
  <2>1. QueueOf[r] \notin Fifo => r \in stored
    BY <1>4 DEF Answered, SeenIsStored, Shadowed
  <2>2. Contract!Respond(r, "ok")
    BY <1>4, <2>1 DEF Answered, Contract!Respond
  <2> QED
    BY <2>2 DEF Contract!PubNext, Contract!Responses
<1>5. CASE ServiceTakes(r)
  <2>1. Contract!Store(r) \/ UNCHANGED <<pub, stored>>
    BY <1>5 DEF ServiceTakes, Contract!Store
  <2> QED
    BY <2>1 DEF Contract!PubNext
<1> QED
  BY <1>1, <1>2, <1>3, <1>4, <1>5 DEF CachedURL, LookupURL

\* The SQS and SNS publishers keep the contract of apis.Publisher: a call is
\* answered once, and outside FIFO queues "ok" means that the service has the
\* message (sqs.go:105-180, sns.go:79-157).
THEOREM AwsImplementsPublisher == Spec => ImplementsPublisher
<1>1. Init => Contract!PubInit
  BY DEF Init, Contract!PubInit
<1>2. ASSUME AwsInv, [Next]_vars
      PROVE  [Contract!PubNext]_<<pub, stored>>
  BY <1>2, CallStepMaps DEF Next, Forget, vars
<1> QED
  BY <1>1, <1>2, AwsInvariant, PTL
     DEF Spec, ImplementsPublisher, Contract!PubSpec, Contract!pubVars
=============================================================================
