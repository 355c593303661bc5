-------------------------- MODULE KafkaPublisherProofs ------------------------
(***************************************************************************)
(* Proofs about KafkaPublisher, for any number of requests, producers and  *)
(* workers.                                                                *)
(***************************************************************************)
EXTENDS KafkaPublisher, TLAPS

\* The initial state satisfies the inductive invariant.
LEMMA InitKafkaInv == Init => KafkaInv
<1> SUFFICES ASSUME Init PROVE KafkaInv
  OBVIOUS
<1> USE KafkaAssumption DEF Init
<1>1. TypeOK
  BY DEF TypeOK
<1>2. AcceptedAccounted /\ PlacesAgree /\ ReportsAreTrue
  BY DEF AcceptedAccounted, PlacesAgree, ReportsAreTrue
<1>3. StopInOrder /\ FlushCovers /\ FlushedNotLost
  BY DEF StopInOrder, FlushCovers, FlushedNotLost
<1> QED
  BY <1>1, <1>2, <1>3 DEF KafkaInv

\* The steps of a call and of the producer with its request.
LEMMA CallKeepsKafkaInv ==
    ASSUME KafkaInv, NEW r \in Requests, CallNext(r) \/ ProducerNext(r)
    PROVE  KafkaInv'
<1> USE KafkaAssumption DEF KafkaInv
<1> USE DEF callVars, queueVars, workVars, stopVars
<1>1. ASSUME Call(r) PROVE KafkaInv'
  <2> USE <1>1 DEF Call
  <2>1. TypeOK'
    BY DEF TypeOK
  <2>2. AcceptedAccounted'
    BY DEF TypeOK, AcceptedAccounted, PlacesAgree, StopInOrder
  <2>3. PlacesAgree'
    BY DEF TypeOK, PlacesAgree
  <2>4. ReportsAreTrue'
    BY DEF TypeOK, PlacesAgree, ReportsAreTrue
  <2>5. StopInOrder'
    BY DEF TypeOK, StopInOrder
  <2>6. FlushCovers'
    BY DEF TypeOK, StopInOrder, PlacesAgree, FlushCovers
  <2>7. FlushedNotLost'
    BY DEF TypeOK, StopInOrder, PlacesAgree, FlushCovers, FlushedNotLost
  <2> QED
    BY <2>1, <2>2, <2>3, <2>4, <2>5, <2>6, <2>7
<1>2. ASSUME ProduceFails(r) PROVE KafkaInv'
  <2> USE <1>2 DEF ProduceFails
  <2>1. TypeOK'
    BY DEF TypeOK
  <2>2. AcceptedAccounted'
    BY DEF TypeOK, AcceptedAccounted, PlacesAgree, StopInOrder
  <2>3. PlacesAgree'
    BY DEF TypeOK, PlacesAgree
  <2>4. ReportsAreTrue'
    BY DEF TypeOK, PlacesAgree, ReportsAreTrue
  <2>5. StopInOrder'
    BY DEF TypeOK, StopInOrder
  <2>6. FlushCovers'
    BY DEF TypeOK, StopInOrder, PlacesAgree, FlushCovers
  <2>7. FlushedNotLost'
    BY DEF TypeOK, StopInOrder, PlacesAgree, FlushCovers, FlushedNotLost
  <2> QED
    BY <2>1, <2>2, <2>3, <2>4, <2>5, <2>6, <2>7
<1>3. ASSUME Produce(r) PROVE KafkaInv'
  <2> USE <1>3 DEF Produce
  <2>1. TypeOK'
    BY DEF TypeOK
  <2>2. AcceptedAccounted'
    BY DEF TypeOK, AcceptedAccounted, PlacesAgree, StopInOrder
  <2>3. PlacesAgree'
    BY DEF TypeOK, PlacesAgree
  <2>4. ReportsAreTrue'
    BY DEF TypeOK, PlacesAgree, ReportsAreTrue
  <2>5. StopInOrder'
    BY DEF TypeOK, StopInOrder
  <2>6. FlushCovers'
    BY DEF TypeOK, StopInOrder, PlacesAgree, FlushCovers
  <2>7. FlushedNotLost'
    BY DEF TypeOK, StopInOrder, PlacesAgree, FlushCovers, FlushedNotLost
  <2> QED
    BY <2>1, <2>2, <2>3, <2>4, <2>5, <2>6, <2>7
<1>4. ASSUME SyncDelivered(r) PROVE KafkaInv'
  <2> USE <1>4 DEF SyncDelivered
  <2>1. TypeOK'
    BY DEF TypeOK, PlacesAgree, ReportsAreTrue
  <2>2. AcceptedAccounted'
    BY DEF TypeOK, AcceptedAccounted, PlacesAgree, ReportsAreTrue
  <2>3. PlacesAgree'
    BY DEF TypeOK, PlacesAgree, ReportsAreTrue
  <2>4. ReportsAreTrue'
    BY DEF TypeOK, PlacesAgree, ReportsAreTrue
  <2>5. StopInOrder'
    BY DEF TypeOK, StopInOrder
  <2>6. FlushCovers'
    BY DEF TypeOK, StopInOrder, PlacesAgree, FlushCovers
  <2>7. FlushedNotLost'
    BY DEF TypeOK, StopInOrder, PlacesAgree, FlushCovers, FlushedNotLost
  <2> QED
    BY <2>1, <2>2, <2>3, <2>4, <2>5, <2>6, <2>7
<1>5. ASSUME SyncTimeout(r) PROVE KafkaInv'
  <2> USE <1>5 DEF SyncTimeout
  <2>1. TypeOK'
    BY DEF TypeOK
  <2>2. AcceptedAccounted'
    BY DEF TypeOK, AcceptedAccounted, PlacesAgree, StopInOrder
  <2>3. PlacesAgree'
    BY DEF TypeOK, PlacesAgree
  <2>4. ReportsAreTrue'
    BY DEF TypeOK, PlacesAgree, ReportsAreTrue
  <2>5. StopInOrder'
    BY DEF TypeOK, StopInOrder
  <2>6. FlushCovers'
    BY DEF TypeOK, StopInOrder, PlacesAgree, FlushCovers
  <2>7. FlushedNotLost'
    BY DEF TypeOK, StopInOrder, PlacesAgree, FlushCovers, FlushedNotLost
  <2> QED
    BY <2>1, <2>2, <2>3, <2>4, <2>5, <2>6, <2>7
<1>6. ASSUME BrokerStores(r) PROVE KafkaInv'
  <2> USE <1>6 DEF BrokerStores
  <2>1. TypeOK'
    BY DEF TypeOK
  <2>2. AcceptedAccounted'
    BY DEF TypeOK, AcceptedAccounted, PlacesAgree, StopInOrder
  <2>3. PlacesAgree'
    BY DEF TypeOK, PlacesAgree
  <2>4. ReportsAreTrue'
    BY DEF TypeOK, PlacesAgree, ReportsAreTrue
  <2>5. StopInOrder'
    BY DEF TypeOK, StopInOrder
  <2>6. FlushCovers'
    BY DEF TypeOK, StopInOrder, PlacesAgree, FlushCovers
  <2>7. FlushedNotLost'
    BY DEF TypeOK, StopInOrder, PlacesAgree, FlushCovers, FlushedNotLost
  <2> QED
    BY <2>1, <2>2, <2>3, <2>4, <2>5, <2>6, <2>7
<1>7. ASSUME NEW res \in {"ok", "failed"}, Report(r, res) PROVE KafkaInv'
  <2> USE <1>7 DEF Report
  <2>1. TypeOK'
    BY DEF TypeOK
  <2>2. AcceptedAccounted'
    BY DEF TypeOK, AcceptedAccounted, PlacesAgree, StopInOrder
  <2>3. PlacesAgree'
    BY DEF TypeOK, PlacesAgree
  <2>4. ReportsAreTrue'
    BY DEF TypeOK, PlacesAgree, ReportsAreTrue
  <2>5. StopInOrder'
    BY DEF TypeOK, StopInOrder
  <2>6. FlushCovers'
    BY DEF TypeOK, StopInOrder, PlacesAgree, FlushCovers
  <2>7. FlushedNotLost'
    BY DEF TypeOK, StopInOrder, PlacesAgree, FlushCovers, FlushedNotLost
  <2> QED
    BY <2>1, <2>2, <2>3, <2>4, <2>5, <2>6, <2>7
<1> QED
  BY <1>1, <1>2, <1>3, <1>4, <1>5, <1>6, <1>7 DEF CallNext, ProducerNext

\* What a step cannot disturb that leaves the requests and the stop alone.
LEMMA WorkersKeepKafkaInv ==
    ASSUME KafkaInv, TypeOK', workersDone => workersDone',
           UNCHANGED <<callVars, outq, report, dchan, events, stopVars,
                       misused>>
    PROVE  KafkaInv'
<1> USE DEF callVars, stopVars, KafkaInv
<1>1. AcceptedAccounted'
  BY DEF AcceptedAccounted
<1>2. PlacesAgree' /\ ReportsAreTrue'
  BY DEF PlacesAgree, ReportsAreTrue
<1>3. StopInOrder' /\ FlushCovers' /\ FlushedNotLost'
  BY DEF StopInOrder, FlushCovers, FlushedNotLost
<1> QED
  BY <1>1, <1>2, <1>3

\* The steps of Serve and its workers, and a fatal error of the library.
LEMMA ServeKeepsKafkaInv ==
    ASSUME KafkaInv,
           \/ \E q \in Qos : FatalError(q)
           \/ ServeStarts \/ ServeReturns
           \/ \E w \in AllWorkers : WorkerNext(w)
    PROVE  KafkaInv'
<1> USE KafkaAssumption DEF KafkaInv
<1> USE DEF callVars, queueVars, workVars, stopVars
<1>1. ASSUME NEW q \in Qos, FatalError(q) PROVE KafkaInv'
  <2> USE <1>1 DEF FatalError
  <2>1. TypeOK'
    BY DEF TypeOK
  <2> QED
    BY <2>1, WorkersKeepKafkaInv
<1>2. ASSUME ServeStarts PROVE KafkaInv'
  <2> USE <1>2 DEF ServeStarts
  <2>1. TypeOK'
    BY DEF TypeOK
  <2> QED
    BY <2>1, WorkersKeepKafkaInv
<1>3. ASSUME ServeReturns PROVE KafkaInv'
  <2> USE <1>3 DEF ServeReturns
  <2>1. TypeOK'
    BY DEF TypeOK
  <2> QED
    BY <2>1, WorkersKeepKafkaInv
<1>4. ASSUME NEW w \in AllWorkers, NEW r \in Requests, WorkerTakes(w, r) PROVE KafkaInv'
  <2> USE <1>4 DEF WorkerTakes
  <2>1. TypeOK'
    BY DEF TypeOK, PlacesAgree, ReportsAreTrue
  <2>2. AcceptedAccounted'
    BY DEF TypeOK, AcceptedAccounted, PlacesAgree, ReportsAreTrue
  <2>3. PlacesAgree'
    BY DEF TypeOK, PlacesAgree, ReportsAreTrue
  <2>4. ReportsAreTrue'
    BY DEF TypeOK, PlacesAgree, ReportsAreTrue
  <2>5. StopInOrder'
    BY DEF TypeOK, StopInOrder
  <2>6. FlushCovers'
    BY DEF TypeOK, StopInOrder, PlacesAgree, FlushCovers
  <2>7. FlushedNotLost'
    BY DEF TypeOK, StopInOrder, PlacesAgree, FlushCovers, FlushedNotLost
  <2> QED
    BY <2>1, <2>2, <2>3, <2>4, <2>5, <2>6, <2>7
<1>5. ASSUME NEW w \in AllWorkers, WorkerCallbackEnds(w) PROVE KafkaInv'
  <2> USE <1>5 DEF WorkerCallbackEnds
  <2>1. TypeOK'
    BY DEF TypeOK
  <2> QED
    BY <2>1, WorkersKeepKafkaInv
<1>6. ASSUME NEW w \in AllWorkers, WorkerFatal(w) PROVE KafkaInv'
  <2> USE <1>6 DEF WorkerFatal
  <2>1. TypeOK'
    BY DEF TypeOK
  <2> QED
    BY <2>1, WorkersKeepKafkaInv
<1>7. ASSUME NEW w \in AllWorkers, WorkerStops(w) PROVE KafkaInv'
  <2> USE <1>7 DEF WorkerStops
  <2>1. TypeOK'
    BY DEF TypeOK
  <2> QED
    BY <2>1, WorkersKeepKafkaInv
<1> QED
  BY <1>1, <1>2, <1>3, <1>4, <1>5, <1>6, <1>7 DEF WorkerNext

\* What a step of the stop cannot disturb: the requests stay where they are.
LEMMA StopKeepsPlaces ==
    ASSUME KafkaInv, workersDone => workersDone',
           UNCHANGED <<callVars, queueVars, misused>>
    PROVE  AcceptedAccounted' /\ PlacesAgree' /\ ReportsAreTrue'
<1> USE DEF callVars, queueVars, KafkaInv
<1>1. AcceptedAccounted'
  BY DEF AcceptedAccounted
<1>2. PlacesAgree' /\ ReportsAreTrue'
  BY DEF PlacesAgree, ReportsAreTrue
<1> QED
  BY <1>1, <1>2

\* The steps of the stop.
LEMMA StopKeepsKafkaInv == ASSUME KafkaInv, StopNext PROVE KafkaInv'
<1> USE KafkaAssumption DEF KafkaInv
<1> USE DEF callVars, queueVars, workVars, stopVars
<1>1. ASSUME Shutdown PROVE KafkaInv'
  <2> USE <1>1 DEF Shutdown
  <2>1. TypeOK'
    BY DEF TypeOK
  <2>2. AcceptedAccounted' /\ PlacesAgree' /\ ReportsAreTrue'
    BY StopKeepsPlaces
  <2>3. StopInOrder'
    BY DEF TypeOK, StopInOrder
  <2>4. FlushCovers' /\ FlushedNotLost'
    BY DEF TypeOK, StopInOrder, FlushCovers, FlushedNotLost
  <2> QED
    BY <2>1, <2>2, <2>3, <2>4
<1>2. ASSUME NEW q \in Qos, FlushProducer(q) PROVE KafkaInv'
  <2> USE <1>2 DEF FlushProducer
  <2>1. TypeOK'
    BY DEF TypeOK
  <2>2. AcceptedAccounted' /\ PlacesAgree' /\ ReportsAreTrue'
    BY StopKeepsPlaces
  <2>3. StopInOrder'
    BY DEF TypeOK, StopInOrder
  <2>4. FlushCovers' /\ FlushedNotLost'
    BY DEF TypeOK, StopInOrder, FlushCovers, FlushedNotLost, NotEmpty
  <2> QED
    BY <2>1, <2>2, <2>3, <2>4
<1>3. ASSUME FlushEnds PROVE KafkaInv'
  <2> USE <1>3 DEF FlushEnds
  <2>1. TypeOK'
    BY DEF TypeOK
  <2>2. AcceptedAccounted' /\ PlacesAgree' /\ ReportsAreTrue'
    BY StopKeepsPlaces
  <2>3. StopInOrder'
    BY DEF TypeOK, StopInOrder
  <2>4. FlushCovers' /\ FlushedNotLost'
    BY DEF TypeOK, StopInOrder, FlushCovers, FlushedNotLost
  <2> QED
    BY <2>1, <2>2, <2>3, <2>4
<1>4. ASSUME PollTick PROVE KafkaInv'
  <2> USE <1>4 DEF PollTick
  <2>1. TypeOK'
    BY DEF TypeOK
  <2>2. AcceptedAccounted' /\ PlacesAgree' /\ ReportsAreTrue'
    BY StopKeepsPlaces
  <2>3. StopInOrder'
    BY DEF TypeOK, StopInOrder
  <2>4. FlushCovers' /\ FlushedNotLost'
    BY DEF TypeOK, StopInOrder, FlushCovers, FlushedNotLost
  <2> QED
    BY <2>1, <2>2, <2>3, <2>4
<1>5. ASSUME PollExpired PROVE KafkaInv'
  <2> USE <1>5 DEF PollExpired
  <2>1. TypeOK'
    BY DEF TypeOK
  <2>2. AcceptedAccounted' /\ PlacesAgree' /\ ReportsAreTrue'
    BY StopKeepsPlaces
  <2>3. StopInOrder'
    BY DEF TypeOK, StopInOrder
  <2>4. FlushCovers' /\ FlushedNotLost'
    BY DEF TypeOK, StopInOrder, FlushCovers, FlushedNotLost
  <2> QED
    BY <2>1, <2>2, <2>3, <2>4
<1>6. ASSUME GraceExpires PROVE KafkaInv'
  <2> USE <1>6 DEF GraceExpires
  <2>1. TypeOK'
    BY DEF TypeOK
  <2>2. AcceptedAccounted' /\ PlacesAgree' /\ ReportsAreTrue'
    BY StopKeepsPlaces
  <2>3. StopInOrder'
    BY DEF TypeOK, StopInOrder
  <2>4. FlushCovers' /\ FlushedNotLost'
    BY DEF TypeOK, StopInOrder, FlushCovers, FlushedNotLost
  <2> QED
    BY <2>1, <2>2, <2>3, <2>4
<1>7. ASSUME CloseWorkers PROVE KafkaInv'
  <2> USE <1>7 DEF CloseWorkers
  <2>1. TypeOK'
    BY DEF TypeOK
  <2>2. AcceptedAccounted' /\ PlacesAgree' /\ ReportsAreTrue'
    BY StopKeepsPlaces
  <2>3. StopInOrder'
    BY DEF TypeOK, StopInOrder
  <2>4. FlushCovers' /\ FlushedNotLost'
    BY DEF TypeOK, StopInOrder, FlushCovers, FlushedNotLost
  <2> QED
    BY <2>1, <2>2, <2>3, <2>4
<1>8. ASSUME NEW q \in Qos, CloseProducer(q) PROVE KafkaInv'
  <2> USE <1>8 DEF CloseProducer
  <2>1. TypeOK'
    BY DEF TypeOK
  <2>2. AcceptedAccounted' /\ PlacesAgree' /\ ReportsAreTrue'
    BY StopKeepsPlaces
  <2>3. StopInOrder'
    BY DEF TypeOK, StopInOrder
  <2>4. FlushCovers' /\ FlushedNotLost'
    BY DEF TypeOK, StopInOrder, FlushCovers, FlushedNotLost
  <2> QED
    BY <2>1, <2>2, <2>3, <2>4
<1> QED
  BY <1>1, <1>2, <1>3, <1>4, <1>5, <1>6, <1>7, <1>8 DEF StopNext

LEMMA NextKeepsKafkaInv == KafkaInv /\ [Next]_vars => KafkaInv'
<1> SUFFICES ASSUME KafkaInv, [Next]_vars PROVE KafkaInv'
  OBVIOUS
<1>1. CASE \E r \in Requests : CallNext(r) \/ ProducerNext(r)
  BY <1>1, CallKeepsKafkaInv
<1>2. CASE \/ \E q \in Qos : FatalError(q)
           \/ ServeStarts \/ ServeReturns
           \/ \E w \in AllWorkers : WorkerNext(w)
  BY <1>2, ServeKeepsKafkaInv
<1>3. CASE StopNext
  BY <1>3, StopKeepsKafkaInv
<1>4. CASE UNCHANGED vars
  <2>1. TypeOK'
    BY <1>4 DEF KafkaInv, TypeOK, vars, callVars, queueVars, workVars, stopVars
  <2> QED
    BY <1>4, <2>1, WorkersKeepKafkaInv DEF vars, queueVars, workVars
<1> QED
  BY <1>1, <1>2, <1>3, <1>4 DEF Next

\* The inductive invariant holds in every behaviour, whatever the number of
\* requests, producers and workers, with and without a grace period and a publish
\* timeout (kafka.go:81-155, 266-375).
THEOREM KafkaInvariant == Spec => []KafkaInv
<1> QED
  BY InitKafkaInv, NextKeepsKafkaInv, PTL DEF Spec

\* An accepted request, and a synchronous one in its wait, is always in a queue
\* or has a report where the one who waits looks for it, unless its producer
\* was closed (kafka.go:140-155, 278-340).
THEOREM NoRequestLost == Spec => []AcceptedAccounted
<1>1. KafkaInv => AcceptedAccounted
  BY DEF KafkaInv
<1> QED
  BY <1>1, KafkaInvariant, PTL

\* A graceful stop that ended because nothing remained leaves no request of its
\* beginning in a queue or in Events() (kafka.go:81-99, 117-138).
THEOREM FlushIsComplete == Spec => []FlushedNotLost
<1>1. KafkaInv => FlushedNotLost
  BY DEF KafkaInv
<1> QED
  BY <1>1, KafkaInvariant, PTL

\* A step of a call, or of the producer with its request, is a step of the
\* contract or a stutter.
LEMMA CallStepMaps ==
    ASSUME KafkaInv, NEW r \in Requests, CallNext(r) \/ ProducerNext(r)
    PROVE  [Contract!PubNext]_<<pub, stored>>
<1> USE DEF KafkaInv, callVars
<1>1. CASE Call(r)
  <2>1. Contract!Submit(r)
    BY <1>1 DEF Call, Contract!Submit
  <2> QED
    BY <2>1 DEF Contract!PubNext
<1>2. CASE ProduceFails(r) \/ SyncTimeout(r)
  <2>1. Contract!Refuse(r)
    BY <1>2 DEF ProduceFails, SyncTimeout, Contract!Refuse
  <2> QED
    BY <2>1 DEF Contract!PubNext
<1>3. CASE Produce(r)
  <2>1. \/ Contract!Accepted(r)
        \/ Contract!Refuse(r)
        \/ UNCHANGED <<pub, stored>>
    BY <1>3 DEF Produce, TypeOK, Contract!Accepted, Contract!Refuse
  <2> QED
    BY <2>1 DEF Contract!PubNext
<1>4. CASE SyncDelivered(r)
  <2>1. report[r] \in {"ok", "failed"}
    BY <1>4 DEF SyncDelivered, TypeOK, ReportsAreTrue
  <2>2. Contract!Respond(r, report[r])
    BY <1>4 DEF SyncDelivered, ReportsAreTrue, Contract!Respond
  <2> QED
    BY <2>1, <2>2 DEF Contract!PubNext, Contract!Responses
<1>5. CASE BrokerStores(r)
  <2>1. Contract!Store(r)
    BY <1>5 DEF BrokerStores, PlacesAgree, Contract!Store
  <2> QED
    BY <2>1 DEF Contract!PubNext
<1>6. ASSUME NEW res \in {"ok", "failed"}, Report(r, res)
      PROVE  UNCHANGED <<pub, stored>>
  BY <1>6 DEF Report
<1> QED
  BY <1>1, <1>2, <1>3, <1>4, <1>5, <1>6 DEF CallNext, ProducerNext

\* The response that a worker hands to a callback is one the contract allows.
LEMMA WorkerStepMaps ==
    ASSUME KafkaInv, NEW w \in AllWorkers, NEW r \in Requests,
           WorkerTakes(w, r)
    PROVE  Contract!PubNext
<1> USE DEF KafkaInv, WorkerTakes
<1>1. report[r] \in {"ok", "failed"}
  BY DEF TypeOK, ReportsAreTrue
<1>2. pub[r] = "accepted"
  BY DEF TypeOK, PlacesAgree
<1>3. Contract!Respond(r, report[r])
  BY <1>2 DEF ReportsAreTrue, Contract!Respond
<1> QED
  BY <1>1, <1>3 DEF Contract!PubNext, Contract!Responses

\* The Kafka publisher keeps the contract of apis.Publisher: one answer per
\* request, "ok" for QoS 1 and 2 only when the broker has the message, also
\* when a report arrives after the timeout (kafka.go:266-315, 342-375).
THEOREM KafkaImplementsPublisher == Spec => ImplementsPublisher
<1>1. Init => Contract!PubInit
  BY DEF Init, Contract!PubInit
<1>2. ASSUME KafkaInv, [Next]_vars
      PROVE  [Contract!PubNext]_<<pub, stored>>
  <2>1. CASE \E r \in Requests : CallNext(r) \/ ProducerNext(r)
    BY <1>2, <2>1, CallStepMaps
  <2>2. CASE \E w \in AllWorkers, r \in Requests : WorkerTakes(w, r)
    BY <1>2, <2>2, WorkerStepMaps
  <2>3. CASE StopNext
    BY <2>3 DEF StopNext, Shutdown, FlushProducer, FlushEnds, PollTick,
                PollExpired, GraceExpires, CloseWorkers, CloseProducer,
                callVars
  <2>4. CASE UNCHANGED vars
    BY <2>4 DEF vars, callVars
  <2> QED
    BY <1>2, <2>1, <2>2, <2>3, <2>4
       DEF Next, FatalError, ServeStarts, ServeReturns, WorkerNext,
           WorkerCallbackEnds, WorkerFatal, WorkerStops, callVars
<1> QED
  BY <1>1, <1>2, KafkaInvariant, PTL
     DEF Spec, ImplementsPublisher, Contract!PubSpec, Contract!pubVars
=============================================================================
