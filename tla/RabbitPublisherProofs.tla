------------------------- MODULE RabbitPublisherProofs ------------------------
(***************************************************************************)
(* Proofs about RabbitPublisher, for any number of requests, QoS levels    *)
(* and AMQP channels.                                                      *)
(***************************************************************************)
EXTENDS RabbitPublisher, TLAPS

\* The initial state satisfies the inductive invariant.
LEMMA InitRabbitInv == Init => RabbitInv
<1> SUFFICES ASSUME Init PROVE RabbitInv
  OBVIOUS
<1> USE RabbitAssumption DEF Init
<1>1. TypeOK
  BY DEF TypeOK
<1>2. CallProgress
  BY DEF CallProgress
<1>3. MutexHolderDials
  BY DEF MutexHolderDials
<1>4. DialsOnlyWithout /\ OneChannel /\ DoomedIsStuck /\ NoRecovery
  BY DEF DialsOnlyWithout, OneChannel, DoomedIsStuck, NoRecovery
<1> QED
  BY <1>1, <1>2, <1>3, <1>4 DEF RabbitInv

\* The steps of a call preserve the invariant.
LEMMA RequestKeepsRabbitInv ==
    ASSUME RabbitInv, NEW r \in Requests, RequestNext(r) PROVE RabbitInv'
<1> USE RabbitAssumption DEF RabbitInv, Ptr, MuFree, Lock, Unlock, Goto, Return
<1> USE DEF pubVars, goVars, provVars, stopVars
<1>1. ASSUME SendMessage(r) PROVE RabbitInv'
  <2> USE <1>1 DEF SendMessage
  <2>1. TypeOK'
    BY DEF TypeOK
  <2>2. CallProgress'
    BY DEF TypeOK, CallProgress
  <2>3. MutexHolderDials'
    BY DEF TypeOK, CallProgress, MutexHolderDials
  <2>4. DialsOnlyWithout'
    BY DEF TypeOK, CallProgress, MutexHolderDials, DialsOnlyWithout
  <2>5. OneChannel'
    BY DEF TypeOK, OneChannel
  <2>6. DoomedIsStuck'
    BY DEF TypeOK, CallProgress, DialsOnlyWithout, DoomedIsStuck
  <2>7. NoRecovery'
    BY DEF TypeOK, CallProgress, DoomedIsStuck, NoRecovery
  <2> QED
    BY <2>1, <2>2, <2>3, <2>4, <2>5, <2>6, <2>7
<1>2. ASSUME NotPublishable(r) PROVE RabbitInv'
  <2> USE <1>2 DEF NotPublishable
  <2>1. TypeOK'
    BY DEF TypeOK
  <2>2. CallProgress'
    BY DEF TypeOK, CallProgress
  <2>3. MutexHolderDials'
    BY DEF TypeOK, CallProgress, MutexHolderDials
  <2>4. DialsOnlyWithout'
    BY DEF TypeOK, CallProgress, MutexHolderDials, DialsOnlyWithout
  <2>5. OneChannel'
    BY DEF TypeOK, OneChannel
  <2>6. DoomedIsStuck'
    BY DEF TypeOK, CallProgress, DialsOnlyWithout, DoomedIsStuck
  <2>7. NoRecovery'
    BY DEF TypeOK, CallProgress, DoomedIsStuck, NoRecovery
  <2> QED
    BY <2>1, <2>2, <2>3, <2>4, <2>5, <2>6, <2>7
<1>3. ASSUME GetChannel(r) PROVE RabbitInv'
  <2> USE <1>3 DEF GetChannel
  <2>1. TypeOK'
    BY DEF TypeOK
  <2>2. CallProgress'
    BY DEF TypeOK, CallProgress
  <2>3. MutexHolderDials'
    BY DEF TypeOK, CallProgress, MutexHolderDials
  <2>4. DialsOnlyWithout'
    BY DEF TypeOK, CallProgress, MutexHolderDials, DialsOnlyWithout
  <2>5. OneChannel'
    BY DEF TypeOK, OneChannel
  <2>6. DoomedIsStuck'
    BY DEF TypeOK, CallProgress, DialsOnlyWithout, DoomedIsStuck
  <2>7. NoRecovery'
    BY DEF TypeOK, CallProgress, DoomedIsStuck, NoRecovery
  <2> QED
    BY <2>1, <2>2, <2>3, <2>4, <2>5, <2>6, <2>7
<1>4. ASSUME GetChannelLocked(r) PROVE RabbitInv'
  <2> USE <1>4 DEF GetChannelLocked
  <2>1. TypeOK'
    BY DEF TypeOK
  <2>2. CallProgress'
    BY DEF TypeOK, CallProgress
  <2>3. MutexHolderDials'
    BY DEF TypeOK, CallProgress, MutexHolderDials
  <2>4. DialsOnlyWithout'
    BY DEF TypeOK, CallProgress, MutexHolderDials, DialsOnlyWithout
  <2>5. OneChannel'
    BY DEF TypeOK, OneChannel
  <2>6. DoomedIsStuck'
    BY DEF TypeOK, CallProgress, DialsOnlyWithout, DoomedIsStuck
  <2>7. NoRecovery'
    BY DEF TypeOK, CallProgress, DoomedIsStuck, NoRecovery
  <2> QED
    BY <2>1, <2>2, <2>3, <2>4, <2>5, <2>6, <2>7
<1>5. ASSUME Dialed(r) PROVE RabbitInv'
  <2> USE <1>5 DEF Dialed
  <2>1. TypeOK'
    BY DEF TypeOK
  <2>2. CallProgress'
    BY DEF TypeOK, CallProgress
  <2>3. MutexHolderDials'
    BY DEF TypeOK, CallProgress, MutexHolderDials
  <2>4. DialsOnlyWithout'
    BY DEF TypeOK, CallProgress, MutexHolderDials, DialsOnlyWithout
  <2>5. OneChannel'
    <3>1. PICK c \in Channels :
             /\ chan[c] = "unused"
             /\ chan' = [chan EXCEPT ![c] = "open"]
             /\ ptr' = [ptr EXCEPT ![QosOf[r]] = c]
      OBVIOUS
    <3>2. ptr'[QosOf[r]] = c
      BY <3>1 DEF TypeOK
    <3>3. ASSUME NEW d \in Channels, chan'[d] = "open", d # c
          PROVE  \E q \in Qos : ptr'[q] = d
      <4>1. PICK q \in Qos : ptr[q] = d
        BY <3>1, <3>3 DEF TypeOK, OneChannel
      <4>2. q # QosOf[r]
        BY <4>1 DEF DialsOnlyWithout
      <4> QED
        BY <3>1, <4>1, <4>2 DEF TypeOK
    <3> QED
      BY <3>2, <3>3 DEF OneChannel
  <2>6. DoomedIsStuck'
    BY DEF TypeOK, CallProgress, DialsOnlyWithout, DoomedIsStuck
  <2>7. NoRecovery'
    BY DEF TypeOK, CallProgress, DoomedIsStuck, NoRecovery
  <2> QED
    BY <2>1, <2>2, <2>3, <2>4, <2>5, <2>6, <2>7
<1>6. ASSUME NEW retry \in BOOLEAN, DialFails(r, retry) PROVE RabbitInv'
  <2> USE <1>6 DEF DialFails
  <2>1. TypeOK'
    BY DEF TypeOK
  <2>2. CallProgress'
    BY DEF TypeOK, CallProgress
  <2>3. MutexHolderDials'
    BY DEF TypeOK, CallProgress, MutexHolderDials
  <2>4. DialsOnlyWithout'
    BY DEF TypeOK, CallProgress, MutexHolderDials, DialsOnlyWithout
  <2>5. OneChannel'
    BY DEF TypeOK, OneChannel
  <2>6. DoomedIsStuck'
    BY DEF TypeOK, CallProgress, DialsOnlyWithout, DoomedIsStuck
  <2>7. NoRecovery'
    BY DEF TypeOK, CallProgress, DoomedIsStuck, NoRecovery
  <2> QED
    BY <2>1, <2>2, <2>3, <2>4, <2>5, <2>6, <2>7
<1>7. ASSUME Send(r) PROVE RabbitInv'
  <2> USE <1>7 DEF Send
  <2>1. TypeOK'
    BY DEF TypeOK
  <2>2. CallProgress'
    BY DEF TypeOK, CallProgress
  <2>3. MutexHolderDials'
    BY DEF TypeOK, CallProgress, MutexHolderDials
  <2>4. DialsOnlyWithout'
    BY DEF TypeOK, CallProgress, MutexHolderDials, DialsOnlyWithout
  <2>5. OneChannel'
    BY DEF TypeOK, OneChannel
  <2>6. DoomedIsStuck'
    BY DEF TypeOK, CallProgress, DialsOnlyWithout, DoomedIsStuck
  <2>7. NoRecovery'
    BY DEF TypeOK, CallProgress, DoomedIsStuck, NoRecovery
  <2> QED
    BY <2>1, <2>2, <2>3, <2>4, <2>5, <2>6, <2>7
<1>8. ASSUME SendFails(r) PROVE RabbitInv'
  <2> USE <1>8 DEF SendFails
  <2>1. TypeOK'
    BY DEF TypeOK
  <2>2. CallProgress'
    BY DEF TypeOK, CallProgress
  <2>3. MutexHolderDials'
    BY DEF TypeOK, CallProgress, MutexHolderDials
  <2>4. DialsOnlyWithout'
    BY DEF TypeOK, CallProgress, MutexHolderDials, DialsOnlyWithout
  <2>5. OneChannel'
    BY DEF TypeOK, OneChannel
  <2>6. DoomedIsStuck'
    BY DEF TypeOK, CallProgress, DialsOnlyWithout, DoomedIsStuck
  <2>7. NoRecovery'
    BY DEF TypeOK, CallProgress, DoomedIsStuck, NoRecovery
  <2> QED
    BY <2>1, <2>2, <2>3, <2>4, <2>5, <2>6, <2>7
<1>9. ASSUME ConfirmArrives(r) PROVE RabbitInv'
  <2> USE <1>9 DEF ConfirmArrives
  <2>1. TypeOK'
    BY DEF TypeOK
  <2>2. CallProgress'
    BY DEF TypeOK, CallProgress
  <2>3. MutexHolderDials'
    BY DEF TypeOK, CallProgress, MutexHolderDials
  <2>4. DialsOnlyWithout'
    BY DEF TypeOK, CallProgress, MutexHolderDials, DialsOnlyWithout
  <2>5. OneChannel'
    BY DEF TypeOK, OneChannel
  <2>6. DoomedIsStuck'
    BY DEF TypeOK, CallProgress, DialsOnlyWithout, DoomedIsStuck
  <2>7. NoRecovery'
    BY DEF TypeOK, CallProgress, DoomedIsStuck, NoRecovery
  <2> QED
    BY <2>1, <2>2, <2>3, <2>4, <2>5, <2>6, <2>7
<1>10. ASSUME NotConfirmed(r) PROVE RabbitInv'
  <2> USE <1>10 DEF NotConfirmed
  <2>1. TypeOK'
    BY DEF TypeOK
  <2>2. CallProgress'
    BY DEF TypeOK, CallProgress
  <2>3. MutexHolderDials'
    BY DEF TypeOK, CallProgress, MutexHolderDials
  <2>4. DialsOnlyWithout'
    BY DEF TypeOK, CallProgress, MutexHolderDials, DialsOnlyWithout
  <2>5. OneChannel'
    BY DEF TypeOK, OneChannel
  <2>6. DoomedIsStuck'
    BY DEF TypeOK, CallProgress, DialsOnlyWithout, DoomedIsStuck
  <2>7. NoRecovery'
    BY DEF TypeOK, CallProgress, DoomedIsStuck, NoRecovery
  <2> QED
    BY <2>1, <2>2, <2>3, <2>4, <2>5, <2>6, <2>7
<1>11. ASSUME CloseChannel(r) PROVE RabbitInv'
  <2> USE <1>11 DEF CloseChannel
  <2>1. TypeOK'
    BY DEF TypeOK
  <2>2. CallProgress'
    BY DEF TypeOK, CallProgress
  <2>3. MutexHolderDials'
    BY DEF TypeOK, CallProgress, MutexHolderDials
  <2>4. DialsOnlyWithout'
    BY DEF TypeOK, CallProgress, MutexHolderDials, DialsOnlyWithout
  <2>5. OneChannel'
    BY DEF TypeOK, OneChannel
  <2>6. DoomedIsStuck'
    BY DEF TypeOK, CallProgress, DialsOnlyWithout, DoomedIsStuck
  <2>7. NoRecovery'
    BY DEF TypeOK, CallProgress, DoomedIsStuck, NoRecovery
  <2> QED
    BY <2>1, <2>2, <2>3, <2>4, <2>5, <2>6, <2>7
<1> QED
  BY <1>1, <1>2, <1>3, <1>4, <1>5, <1>6, <1>7, <1>8, <1>9, <1>10, <1>11 DEF RequestNext

\* The steps of the broker and of the stop preserve the invariant.
LEMMA OutsideKeepsRabbitInv ==
    ASSUME RabbitInv,
           \/ \E r \in Requests : BrokerStores(r)
           \/ \E c \in Channels : ChannelBreaks(c)
           \/ ShutdownDone \/ ServeReturns
           \/ \E q \in Qos : ShutdownClose(q)
    PROVE  RabbitInv'
<1> USE RabbitAssumption DEF RabbitInv, Ptr
<1> USE DEF pubVars, goVars, provVars, stopVars
<1>1. ASSUME NEW r \in Requests, BrokerStores(r) PROVE RabbitInv'
  <2> USE <1>1 DEF BrokerStores
  <2>1. TypeOK'
    BY DEF TypeOK
  <2>2. CallProgress'
    BY DEF TypeOK, CallProgress
  <2>3. MutexHolderDials'
    BY DEF TypeOK, CallProgress, MutexHolderDials
  <2>4. DialsOnlyWithout'
    BY DEF TypeOK, CallProgress, MutexHolderDials, DialsOnlyWithout
  <2>5. OneChannel'
    BY DEF TypeOK, OneChannel
  <2>6. DoomedIsStuck'
    BY DEF TypeOK, CallProgress, DialsOnlyWithout, DoomedIsStuck
  <2>7. NoRecovery'
    BY DEF TypeOK, CallProgress, DoomedIsStuck, NoRecovery
  <2> QED
    BY <2>1, <2>2, <2>3, <2>4, <2>5, <2>6, <2>7
<1>2. ASSUME NEW c \in Channels, ChannelBreaks(c) PROVE RabbitInv'
  <2> USE <1>2 DEF ChannelBreaks
  <2>1. TypeOK'
    BY DEF TypeOK
  <2>2. CallProgress'
    BY DEF TypeOK, CallProgress
  <2>3. MutexHolderDials'
    BY DEF TypeOK, CallProgress, MutexHolderDials
  <2>4. DialsOnlyWithout'
    BY DEF TypeOK, CallProgress, MutexHolderDials, DialsOnlyWithout
  <2>5. OneChannel'
    BY DEF TypeOK, OneChannel
  <2>6. DoomedIsStuck'
    BY DEF TypeOK, CallProgress, DialsOnlyWithout, DoomedIsStuck
  <2>7. NoRecovery'
    BY DEF TypeOK, CallProgress, DoomedIsStuck, NoRecovery
  <2> QED
    BY <2>1, <2>2, <2>3, <2>4, <2>5, <2>6, <2>7
<1>3. ASSUME ShutdownDone PROVE RabbitInv'
  <2> USE <1>3 DEF ShutdownDone
  <2>1. TypeOK'
    BY DEF TypeOK
  <2>2. CallProgress'
    BY DEF TypeOK, CallProgress
  <2>3. MutexHolderDials'
    BY DEF TypeOK, CallProgress, MutexHolderDials
  <2>4. DialsOnlyWithout'
    BY DEF TypeOK, CallProgress, MutexHolderDials, DialsOnlyWithout
  <2>5. OneChannel'
    BY DEF TypeOK, OneChannel
  <2>6. DoomedIsStuck'
    BY DEF TypeOK, CallProgress, DialsOnlyWithout, DoomedIsStuck
  <2>7. NoRecovery'
    BY DEF TypeOK, CallProgress, DoomedIsStuck, NoRecovery
  <2> QED
    BY <2>1, <2>2, <2>3, <2>4, <2>5, <2>6, <2>7
<1>4. ASSUME ServeReturns PROVE RabbitInv'
  <2> USE <1>4 DEF ServeReturns
  <2>1. TypeOK'
    BY DEF TypeOK
  <2>2. CallProgress'
    BY DEF TypeOK, CallProgress
  <2>3. MutexHolderDials'
    BY DEF TypeOK, CallProgress, MutexHolderDials
  <2>4. DialsOnlyWithout'
    BY DEF TypeOK, CallProgress, MutexHolderDials, DialsOnlyWithout
  <2>5. OneChannel'
    BY DEF TypeOK, OneChannel
  <2>6. DoomedIsStuck'
    BY DEF TypeOK, CallProgress, DialsOnlyWithout, DoomedIsStuck
  <2>7. NoRecovery'
    BY DEF TypeOK, CallProgress, DoomedIsStuck, NoRecovery
  <2> QED
    BY <2>1, <2>2, <2>3, <2>4, <2>5, <2>6, <2>7
<1>5. ASSUME NEW q \in Qos, ShutdownClose(q) PROVE RabbitInv'
  <2> USE <1>5 DEF ShutdownClose
  <2>1. TypeOK'
    BY DEF TypeOK
  <2>2. CallProgress'
    BY DEF TypeOK, CallProgress
  <2>3. MutexHolderDials'
    BY DEF TypeOK, CallProgress, MutexHolderDials
  <2>4. DialsOnlyWithout'
    BY DEF TypeOK, CallProgress, MutexHolderDials, DialsOnlyWithout
  <2>5. OneChannel'
    BY DEF TypeOK, OneChannel
  <2>6. DoomedIsStuck'
    BY DEF TypeOK, CallProgress, DialsOnlyWithout, DoomedIsStuck
  <2>7. NoRecovery'
    BY DEF TypeOK, CallProgress, DoomedIsStuck, NoRecovery
  <2> QED
    BY <2>1, <2>2, <2>3, <2>4, <2>5, <2>6, <2>7
<1> QED
  BY <1>1, <1>2, <1>3, <1>4, <1>5

LEMMA NextKeepsRabbitInv == RabbitInv /\ [Next]_vars => RabbitInv'
<1> SUFFICES ASSUME RabbitInv, [Next]_vars PROVE RabbitInv'
  OBVIOUS
<1>1. CASE \E r \in Requests : RequestNext(r)
  BY <1>1, RequestKeepsRabbitInv
<1>2. CASE Next /\ ~ \E r \in Requests : RequestNext(r)
  BY <1>2, OutsideKeepsRabbitInv DEF Next
<1>3. CASE UNCHANGED vars
  BY <1>3 DEF vars, pubVars, goVars, provVars, stopVars, RabbitInv, TypeOK,
              CallProgress, MutexHolderDials, DialsOnlyWithout, OneChannel,
              DoomedIsStuck, NoRecovery, Ptr
<1> QED
  BY <1>1, <1>2, <1>3

\* The inductive invariant holds in every behaviour, for any number of requests,
\* clients and channels (channel_provider.go:14-57, client.go:40-74).
THEOREM RabbitInvariant == Spec => []RabbitInv
<1> QED
  BY InitRabbitInv, NextKeepsRabbitInv, PTL DEF Spec

\* The mutex of a client is held exactly while one of its calls dials, so no
\* failed, retried or panicked call keeps it (channel_provider.go:26-37,
\* client.go:40-67).
THEOREM MutexReleased == Spec => []MutexHolderDials
<1>1. RabbitInv => MutexHolderDials
  BY DEF RabbitInv
<1> QED
  BY <1>1, RabbitInvariant, PTL

\* No AMQP channel leaks, however many calls dial at once: an open one is held
\* by a channelPtr (channel_provider.go:23-41).
THEOREM NoChannelLeaks == Spec => []OneChannel
<1>1. RabbitInv => OneChannel
  BY DEF RabbitInv
<1> QED
  BY <1>1, RabbitInvariant, PTL

\* A request that begins while channelPtr holds a closed channel never succeeds
\* (channel_provider.go:52-57, client.go:41-46, 61-64).
THEOREM ClosedChannelStays == Spec => []NoRecovery
<1>1. RabbitInv => NoRecovery
  BY DEF RabbitInv
<1> QED
  BY <1>1, RabbitInvariant, PTL

\* A step of a call is a step of the contract, or changes nothing in it: only
\* SendMessage submits, and every way out of a call answers it once.
LEMMA RequestStepMaps ==
    ASSUME RabbitInv, NEW r \in Requests, RequestNext(r)
    PROVE  [Contract!PubNext]_<<pub, stored>>
<1> USE DEF RabbitInv, CallProgress, pubVars, Return
<1>1. CASE SendMessage(r)
  <2>1. Contract!Submit(r)
    BY <1>1 DEF SendMessage, Contract!Submit
  <2> QED
    BY <2>1 DEF Contract!PubNext
<1>2. CASE pub' = [pub EXCEPT ![r] = "error"] /\ pub[r] = "pending"
           /\ stored' = stored
  <2>1. Contract!Refuse(r)
    BY <1>2 DEF Contract!Refuse
  <2> QED
    BY <2>1 DEF Contract!PubNext
<1>3. CASE /\ pub' = [pub EXCEPT ![r] = "ok"] /\ pub[r] = "pending"
           /\ stored' = stored
           /\ r \in Routable /\ QosOf[r] \in Confirms => r \in stored
  <2>1. Contract!Respond(r, "ok")
    BY <1>3 DEF Contract!Respond
  <2> QED
    BY <2>1 DEF Contract!PubNext, Contract!Responses
<1>4. CASE UNCHANGED <<pub, stored>>
  BY <1>4
<1>5. ASSUME NEW retry \in BOOLEAN, DialFails(r, retry)
      PROVE  /\ stored' = stored
             /\ \/ pub' = pub
                \/ pub' = [pub EXCEPT ![r] = "error"] /\ pub[r] = "pending"
  BY <1>5 DEF DialFails
<1> QED
  BY <1>1, <1>2, <1>3, <1>4, <1>5
     DEF RequestNext, NotPublishable, GetChannel, GetChannelLocked, Dialed,
         Send, SendFails, ConfirmArrives, NotConfirmed, CloseChannel

\* The RabbitMQ publisher keeps the contract of apis.Publisher: a call is
\* answered at most once, and "ok" for a routable message with confirms on
\* means that the broker has it (rabbitmq.go:64-85, channel.go:132-145).
THEOREM RabbitImplementsPublisher == Spec => ImplementsPublisher
<1>1. Init => Contract!PubInit
  BY DEF Init, Contract!PubInit
<1>2. ASSUME RabbitInv, [Next]_vars
      PROVE  [Contract!PubNext]_<<pub, stored>>
  <2>1. ASSUME NEW r \in Requests, BrokerStores(r) PROVE Contract!Store(r)
    BY <1>2, <2>1 DEF RabbitInv, CallProgress, BrokerStores, Contract!Store
  <2>2. CASE UNCHANGED <<pub, stored>>
    BY <2>2
  <2>3. CASE \E r \in Requests : RequestNext(r)
    BY <1>2, <2>3, RequestStepMaps
  <2> QED
    BY <1>2, <2>1, <2>2, <2>3
       DEF Next, vars, pubVars, ChannelBreaks, ShutdownDone, ServeReturns,
           ShutdownClose, Contract!PubNext
<1> QED
  BY <1>1, <1>2, RabbitInvariant, PTL
     DEF Spec, ImplementsPublisher, Contract!PubSpec, Contract!pubVars
=============================================================================
