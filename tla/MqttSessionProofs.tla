--------------------------- MODULE MqttSessionProofs ---------------------------
(***************************************************************************)
(* Proofs about MqttSession, for every set of requests, every choice of    *)
(* asynchronous QoS levels and every publisher that keeps the contract of  *)
(* module Publisher.                                                       *)
(***************************************************************************)
EXTENDS MqttSession, TLAPS

\* A new connection satisfies the inductive invariant (server.go:89-106,
\* response.go:28-65).
LEMMA InitSessionInv == Init => SessionInv
<1> SUFFICES ASSUME Init PROVE SessionInv
  OBVIOUS
<1> USE SessionAssumption, PublisherAssumption DEF Init, PubInit
<1>1. TypeOK
  <2>1. PubTypeOK
    BY DEF PubTypeOK, PubStates
  <2>2. /\ qos \in [Requests -> 0..2]
        /\ acks \in [Requests -> Nat]
    OBVIOUS
  <2> QED
    BY <2>1, <2>2 DEF TypeOK, Frames, Acks
<1>2. AckProgress /\ OneAck
  BY DEF AckProgress, OneAck, Responses
<1>3. InHand /\ ServedAfterLogin
  BY DEF InHand, ServedAfterLogin, Acks
<1> QED
  BY <1>1, <1>2, <1>3 DEF SessionInv

\* Every step of the connection's goroutine, and the loss of the connection,
\* preserves the invariant (handler.go:57-374, conn.go:59-123).
LEMMA SessionKeepsInv ==
    ASSUME SessionInv, SessionNext PROVE SessionInv'
<1> USE SessionAssumption, PublisherAssumption DEF SessionInv
<1> USE DEF pubVars, connVars, reqVars, goVars, writeVars
<1>1. ASSUME ReadFails PROVE SessionInv'
  <2>1. TypeOK'
    BY <1>1 DEF ReadFails, TypeOK, PubTypeOK
  <2>2. AckProgress'
    BY <1>1 DEF ReadFails, TypeOK, PubTypeOK, AckProgress
  <2>3. OneAck'
    BY <1>1 DEF ReadFails, TypeOK, PubTypeOK, AckProgress,
       OneAck
  <2>4. InHand'
    BY <1>1 DEF ReadFails, TypeOK, InHand, Acks
  <2>5. ServedAfterLogin'
    BY <1>1 DEF ReadFails, TypeOK, PubTypeOK, InHand,
       ServedAfterLogin
  <2> QED
    BY <2>1, <2>2, <2>3, <2>4, <2>5
<1>2. ASSUME ConnectionLost PROVE SessionInv'
  <2>1. TypeOK'
    BY <1>2 DEF ConnectionLost, TypeOK, PubTypeOK
  <2>2. AckProgress'
    BY <1>2 DEF ConnectionLost, TypeOK, PubTypeOK, AckProgress
  <2>3. OneAck'
    BY <1>2 DEF ConnectionLost, TypeOK, PubTypeOK, AckProgress, OneAck
  <2>4. InHand'
    BY <1>2 DEF ConnectionLost, TypeOK, InHand, Acks
  <2>5. ServedAfterLogin'
    BY <1>2 DEF ConnectionLost, TypeOK, PubTypeOK, InHand,
       ServedAfterLogin
  <2> QED
    BY <2>1, <2>2, <2>3, <2>4, <2>5
<1>3. ASSUME NEW result \in {"accepted", "refused", "error"},
             HandleConnect(result)
      PROVE  SessionInv'
  <2>1. TypeOK'
    BY <1>3 DEF HandleConnect, Receive, TypeOK, PubTypeOK, Frames, Acks
  <2>2. AckProgress'
    BY <1>3 DEF HandleConnect, Receive, TypeOK, PubTypeOK, AckProgress
  <2>3. OneAck'
    BY <1>3 DEF HandleConnect, Receive, TypeOK, PubTypeOK, AckProgress,
       OneAck
  <2>4. InHand'
    BY <1>3 DEF HandleConnect, Receive, TypeOK, InHand, Acks
  <2>5. ServedAfterLogin'
    BY <1>3 DEF HandleConnect, Receive, TypeOK, PubTypeOK, InHand,
       ServedAfterLogin
  <2> QED
    BY <2>1, <2>2, <2>3, <2>4, <2>5
<1>4. ASSUME NEW r \in Requests, NEW q \in 0..3, HandlePublish(r, q)
      PROVE  SessionInv'
  <2>1. TypeOK'
    <3>1. PubTypeOK'
      BY <1>4 DEF HandlePublish, Submit, TypeOK, PubTypeOK, PubStates
    <3>2. /\ qos' \in [Requests -> 0..2]
          /\ acks' \in [Requests -> Nat]
      BY <1>4 DEF HandlePublish, TypeOK
    <3>3. open' \in BOOLEAN /\ buffered' \in BOOLEAN
      BY <1>4 DEF HandlePublish, Receive, TypeOK
    <3>4. /\ decision' \in [Requests -> {"none", "accepted", "refused"}]
          /\ pc' \in {"read", "publish", "write", "writing", "done"}
          /\ cur' \in Requests \cup {NoReq}
          /\ frame' = frame
      BY <1>4 DEF HandlePublish, TypeOK
    <3> QED
      BY <1>4, <3>1, <3>2, <3>3, <3>4 DEF HandlePublish, TypeOK
  <2>2. AckProgress'
    BY <1>4 DEF HandlePublish, Receive, Submit, Served, TypeOK,
       PubTypeOK, AckProgress
  <2>3. OneAck'
    BY <1>4 DEF HandlePublish, Receive, Submit, Served, TypeOK,
       PubTypeOK, AckProgress, OneAck
  <2>4. InHand'
    BY <1>4 DEF HandlePublish, Receive, Submit, Served, TypeOK, InHand,
       Acks
  <2>5. ServedAfterLogin'
    <3>1. login' = login /\ frame' = frame /\ pc' \in {"read", "publish"}
      BY <1>4 DEF HandlePublish, Receive, TypeOK
    <3>2. CASE UNCHANGED <<pub, decision>>
      BY <3>1, <3>2 DEF ServedAfterLogin
    <3>3. CASE Submit(r) /\ Served("PUBLISH")
                /\ decision' = [decision EXCEPT ![r] = login]
      <4>1. login = "accepted" \/ "PUBLISH" \in AllowUnauthenticated
        BY <3>3 DEF Served, InHand
      <4> QED
        BY <3>1, <3>3, <4>1 DEF Submit, TypeOK, PubTypeOK, ServedAfterLogin
    <3> QED
      BY <1>4, <3>2, <3>3 DEF HandlePublish
  <2> QED
    BY <2>1, <2>2, <2>3, <2>4, <2>5
<1>5. ASSUME PublishResponse PROVE SessionInv'
  <2>1. TypeOK'
    BY <1>5 DEF PublishResponse, CallbackInline, Responses, TypeOK,
       PubTypeOK, Frames, Acks, AckFrame
  <2>2. AckProgress'
    BY <1>5 DEF PublishResponse, CallbackInline, Responses, TypeOK,
       PubTypeOK, AckProgress, InHand
  <2>3. OneAck'
    BY <1>5 DEF PublishResponse, CallbackInline, Responses, TypeOK,
       PubTypeOK, AckProgress, OneAck, InHand
  <2>4. InHand'
    BY <1>5 DEF PublishResponse, CallbackInline, Responses, TypeOK,
       InHand, AckProgress, Acks, AckFrame
  <2>5. ServedAfterLogin'
    BY <1>5 DEF PublishResponse, CallbackInline, Responses, TypeOK,
       PubTypeOK, InHand, ServedAfterLogin, AckFrame
  <2> QED
    BY <2>1, <2>2, <2>3, <2>4, <2>5
<1>6. ASSUME PublishError PROVE SessionInv'
  <2>1. TypeOK'
    BY <1>6 DEF PublishError, TypeOK, PubTypeOK
  <2>2. AckProgress'
    BY <1>6 DEF PublishError, TypeOK, PubTypeOK, AckProgress
  <2>3. OneAck'
    BY <1>6 DEF PublishError, TypeOK, PubTypeOK, AckProgress, OneAck
  <2>4. InHand'
    BY <1>6 DEF PublishError, TypeOK, InHand, Acks
  <2>5. ServedAfterLogin'
    BY <1>6 DEF PublishError, TypeOK, PubTypeOK, InHand,
       ServedAfterLogin
  <2> QED
    BY <2>1, <2>2, <2>3, <2>4, <2>5
<1>7. ASSUME PublishAsyncReturns PROVE SessionInv'
  <2>1. TypeOK'
    BY <1>7 DEF PublishAsyncReturns, TypeOK, PubTypeOK
  <2>2. AckProgress'
    BY <1>7 DEF PublishAsyncReturns, TypeOK, PubTypeOK, AckProgress,
       InHand
  <2>3. OneAck'
    BY <1>7 DEF PublishAsyncReturns, TypeOK, PubTypeOK, AckProgress,
       OneAck
  <2>4. InHand'
    BY <1>7 DEF PublishAsyncReturns, TypeOK, InHand, Acks
  <2>5. ServedAfterLogin'
    BY <1>7 DEF PublishAsyncReturns, TypeOK, PubTypeOK, InHand,
       ServedAfterLogin
  <2> QED
    BY <2>1, <2>2, <2>3, <2>4, <2>5
<1>8. ASSUME PublishPanics PROVE SessionInv'
  <2>1. TypeOK'
    BY <1>8 DEF PublishPanics, TypeOK, PubTypeOK
  <2>2. AckProgress'
    BY <1>8 DEF PublishPanics, TypeOK, PubTypeOK, AckProgress
  <2>3. OneAck'
    BY <1>8 DEF PublishPanics, TypeOK, PubTypeOK, AckProgress, OneAck
  <2>4. InHand'
    BY <1>8 DEF PublishPanics, TypeOK, InHand, Acks
  <2>5. ServedAfterLogin'
    BY <1>8 DEF PublishPanics, TypeOK, PubTypeOK, InHand,
       ServedAfterLogin
  <2> QED
    BY <2>1, <2>2, <2>3, <2>4, <2>5
<1>9. ASSUME HandlePublishRelease PROVE SessionInv'
  <2>1. TypeOK'
    BY <1>9 DEF HandlePublishRelease, HandleSimple, Receive, Served,
       TypeOK, PubTypeOK, Frames, Acks
  <2>2. AckProgress'
    BY <1>9 DEF HandlePublishRelease, HandleSimple, Receive, Served,
       TypeOK, PubTypeOK, AckProgress
  <2>3. OneAck'
    BY <1>9 DEF HandlePublishRelease, HandleSimple, Receive, Served,
       TypeOK, PubTypeOK, AckProgress, OneAck
  <2>4. InHand'
    BY <1>9 DEF HandlePublishRelease, HandleSimple, Receive, Served,
       TypeOK, InHand, Acks
  <2>5. ServedAfterLogin'
    BY <1>9 DEF HandlePublishRelease, HandleSimple, Receive, Served,
       TypeOK, PubTypeOK, InHand, ServedAfterLogin
  <2> QED
    BY <2>1, <2>2, <2>3, <2>4, <2>5
<1>10. ASSUME HandlePing PROVE SessionInv'
  <2>1. TypeOK'
    BY <1>10 DEF HandlePing, HandleSimple, Receive, Served, TypeOK,
       PubTypeOK, Frames, Acks
  <2>2. AckProgress'
    BY <1>10 DEF HandlePing, HandleSimple, Receive, Served, TypeOK,
       PubTypeOK, AckProgress
  <2>3. OneAck'
    BY <1>10 DEF HandlePing, HandleSimple, Receive, Served, TypeOK,
       PubTypeOK, AckProgress, OneAck
  <2>4. InHand'
    BY <1>10 DEF HandlePing, HandleSimple, Receive, Served, TypeOK,
       InHand, Acks
  <2>5. ServedAfterLogin'
    BY <1>10 DEF HandlePing, HandleSimple, Receive, Served, TypeOK,
       PubTypeOK, InHand, ServedAfterLogin
  <2> QED
    BY <2>1, <2>2, <2>3, <2>4, <2>5
<1>11. CASE HandleDisconnect \/ HandleUnsupported
  <2>1. TypeOK'
    BY <1>11 DEF HandleDisconnect, HandleUnsupported, Receive, TypeOK, PubTypeOK
  <2>2. AckProgress'
    BY <1>11 DEF HandleDisconnect, HandleUnsupported,
       Receive, TypeOK, PubTypeOK,
       AckProgress
  <2>3. OneAck'
    BY <1>11 DEF HandleDisconnect, HandleUnsupported,
       Receive, TypeOK, PubTypeOK,
       AckProgress, OneAck
  <2>4. InHand'
    BY <1>11 DEF HandleDisconnect, HandleUnsupported,
       Receive, TypeOK, InHand, Acks
  <2>5. ServedAfterLogin'
    BY <1>11 DEF HandleDisconnect, HandleUnsupported,
       Receive, TypeOK, PubTypeOK,
       InHand, ServedAfterLogin
  <2> QED
    BY <2>1, <2>2, <2>3, <2>4, <2>5
<1>12. ASSUME BeginWrite PROVE SessionInv'
  <2>1. TypeOK'
    BY <1>12 DEF BeginWrite, TypeOK, PubTypeOK, Conn
  <2>2. AckProgress'
    BY <1>12 DEF BeginWrite, TypeOK, PubTypeOK, AckProgress
  <2>3. OneAck'
    BY <1>12 DEF BeginWrite, TypeOK, PubTypeOK, AckProgress, OneAck
  <2>4. InHand'
    BY <1>12 DEF BeginWrite, TypeOK, InHand, Acks
  <2>5. ServedAfterLogin'
    BY <1>12 DEF BeginWrite, TypeOK, PubTypeOK, InHand, ServedAfterLogin
  <2> QED
    BY <2>1, <2>2, <2>3, <2>4, <2>5
<1>13. ASSUME EndWrite PROVE SessionInv'
  <2>1. TypeOK'
    <3>1. wire' \in SUBSET Requests /\ wErr' \in BOOLEAN
      BY <1>13 DEF EndWrite, WriteResult, TypeOK, InHand
    <3>2. open' \in BOOLEAN
      BY <1>13 DEF EndWrite, TypeOK
    <3>3. writers' \in SUBSET (Requests \cup {Conn})
      BY <1>13 DEF EndWrite, TypeOK
    <3> QED
      BY <1>13, <3>1, <3>2, <3>3 DEF EndWrite, TypeOK, PubTypeOK, Frames
  <2>2. AckProgress'
    BY <1>13 DEF EndWrite, WriteResult, TypeOK, PubTypeOK, AckProgress, InHand
  <2>3. OneAck'
    BY <1>13 DEF EndWrite, TypeOK, PubTypeOK, AckProgress, OneAck
  <2>4. InHand'
    BY <1>13 DEF EndWrite, TypeOK, InHand, Acks
  <2>5. ServedAfterLogin'
    BY <1>13 DEF EndWrite, TypeOK, PubTypeOK, InHand, ServedAfterLogin
  <2> QED
    BY <2>1, <2>2, <2>3, <2>4, <2>5
<1> QED
  BY <1>1, <1>2, <1>3, <1>4, <1>5, <1>6, <1>7, <1>8, <1>9, <1>10, <1>11,
     <1>12, <1>13 DEF SessionNext

\* Every step of the publisher, its callbacks and the broker preserves the
\* invariant (handler.go:161-198).
LEMMA PublisherKeepsInv ==
    ASSUME SessionInv, NEW r \in Requests, PublisherNext(r) PROVE SessionInv'
<1> USE SessionAssumption, PublisherAssumption DEF SessionInv
<1> USE DEF pubVars, connVars, reqVars, goVars, writeVars
<1>1. ASSUME BrokerStores(r) PROVE SessionInv'
  <2>1. TypeOK'
    BY <1>1 DEF BrokerStores, Store, TypeOK, PubTypeOK, PubStates
  <2>2. AckProgress'
    BY <1>1 DEF BrokerStores, Store, TypeOK, PubTypeOK, AckProgress
  <2>3. OneAck'
    BY <1>1 DEF BrokerStores, Store, TypeOK, PubTypeOK, AckProgress,
       OneAck
  <2>4. InHand'
    BY <1>1 DEF BrokerStores, Store, TypeOK, InHand, Acks
  <2>5. ServedAfterLogin'
    BY <1>1 DEF BrokerStores, Store, TypeOK, PubTypeOK, InHand,
       ServedAfterLogin
  <2> QED
    BY <2>1, <2>2, <2>3, <2>4, <2>5
<1>2. ASSUME CallAnswered(r) PROVE SessionInv'
  <2>1. TypeOK'
    BY <1>2 DEF CallAnswered, Refuse, Respond, Accepted, Responses,
       TypeOK, PubTypeOK, PubStates
  <2>2. AckProgress'
    BY <1>2 DEF CallAnswered, Refuse, Respond, Accepted, Responses,
       TypeOK, PubTypeOK, AckProgress, InHand
  <2>3. OneAck'
    BY <1>2 DEF CallAnswered, Refuse, Respond, Accepted, Responses,
       TypeOK, PubTypeOK, AckProgress, OneAck
  <2>4. InHand'
    BY <1>2 DEF CallAnswered, Refuse, Respond, Accepted, Responses,
       TypeOK, InHand, Acks
  <2>5. ServedAfterLogin'
    BY <1>2 DEF CallAnswered, Refuse, Respond, Accepted, Responses,
       TypeOK, PubTypeOK, InHand, ServedAfterLogin
  <2> QED
    BY <2>1, <2>2, <2>3, <2>4, <2>5
<1>3. ASSUME CallbackStarts(r) PROVE SessionInv'
  <2>1. TypeOK'
    BY <1>3 DEF CallbackStarts, Respond, Responses, TypeOK, PubTypeOK,
       PubStates
  <2>2. AckProgress'
    BY <1>3 DEF CallbackStarts, Respond, Responses, TypeOK, PubTypeOK,
       AckProgress
  <2>3. OneAck'
    BY <1>3 DEF CallbackStarts, Respond, Responses, TypeOK, PubTypeOK,
       AckProgress, OneAck
  <2>4. InHand'
    BY <1>3 DEF CallbackStarts, Respond, Responses, TypeOK, InHand, Acks
  <2>5. ServedAfterLogin'
    BY <1>3 DEF CallbackStarts, Respond, Responses, TypeOK, PubTypeOK,
       InHand, ServedAfterLogin
  <2> QED
    BY <2>1, <2>2, <2>3, <2>4, <2>5
<1>4. ASSUME Callback(r) PROVE SessionInv'
  <2>1. TypeOK'
    <3>1. cb' \in [Requests -> {"none", "due", "writing", "done"}]
      BY <1>4 DEF Callback, TypeOK
    <3>2. acks' \in [Requests -> Nat]
      BY <1>4 DEF Callback, TypeOK
    <3>3. writers' \in SUBSET (Requests \cup {Conn})
      BY <1>4 DEF Callback, TypeOK
    <3>4. raced' \in BOOLEAN
      <4>1. raced' = raced \/ raced' = (raced \/ writers # {})
        BY <1>4 DEF Callback
      <4> QED
        BY <4>1 DEF TypeOK
    <3> QED
      BY <1>4, <3>1, <3>2, <3>3, <3>4 DEF Callback, TypeOK, PubTypeOK
  <2>2. AckProgress'
    BY <1>4 DEF Callback, TypeOK, PubTypeOK, AckProgress, Responses
  <2>3. OneAck'
    BY <1>4 DEF Callback, TypeOK, PubTypeOK, AckProgress, OneAck
  <2>4. InHand'
    BY <1>4 DEF Callback, TypeOK, InHand, AckProgress, Acks
  <2>5. ServedAfterLogin'
    BY <1>4 DEF Callback, TypeOK, PubTypeOK, InHand, ServedAfterLogin
  <2> QED
    BY <2>1, <2>2, <2>3, <2>4, <2>5
<1>5. ASSUME CallbackEndWrite(r) PROVE SessionInv'
  <2>1. TypeOK'
    BY <1>5 DEF CallbackEndWrite, WriteResult, TypeOK, PubTypeOK
  <2>2. AckProgress'
    BY <1>5 DEF CallbackEndWrite, WriteResult, TypeOK, PubTypeOK,
       AckProgress, Responses
  <2>3. OneAck'
    BY <1>5 DEF CallbackEndWrite, TypeOK, PubTypeOK, AckProgress, OneAck
  <2>4. InHand'
    BY <1>5 DEF CallbackEndWrite, TypeOK, InHand, Acks
  <2>5. ServedAfterLogin'
    BY <1>5 DEF CallbackEndWrite, TypeOK, PubTypeOK, InHand,
       ServedAfterLogin
  <2> QED
    BY <2>1, <2>2, <2>3, <2>4, <2>5
<1> QED
  BY <1>1, <1>2, <1>3, <1>4, <1>5 DEF PublisherNext

\* Every step of the session, and stuttering, preserves the invariant.
LEMMA NextKeepsSessionInv == SessionInv /\ [Next]_vars => SessionInv'
<1> SUFFICES ASSUME SessionInv, [Next]_vars PROVE SessionInv'
  OBVIOUS
<1>1. CASE SessionNext
  BY <1>1, SessionKeepsInv
<1>2. CASE \E r \in Requests : PublisherNext(r)
  BY <1>2, PublisherKeepsInv
<1>3. CASE UNCHANGED vars
  BY <1>3 DEF SessionInv, vars, pubVars, connVars, reqVars, goVars, writeVars,
     TypeOK, PubTypeOK, AckProgress, InHand, OneAck, ServedAfterLogin
<1> QED
  BY <1>1, <1>2, <1>3 DEF Next

\* The inductive invariant holds in every reachable state of a session.
THEOREM SessionInvariant == Spec => []SessionInv
<1> QED
  BY InitSessionInv, NextKeepsSessionInv, PTL DEF Spec

\* Type correctness of a session (response.go:28-65, handler.go:142-219).
THEOREM SessionTypeCorrect == Spec => []TypeOK
<1>1. SessionInv => TypeOK
  BY DEF SessionInv
<1> QED
  BY <1>1, SessionInvariant, PTL

\* A request is acknowledged at most once, and only after a response without
\* error (handler.go:161-217, 253-267).
THEOREM AcknowledgedOnce == Spec => []OneAck
<1>1. SessionInv => OneAck
  BY DEF SessionInv
<1> QED
  BY <1>1, SessionInvariant, PTL

\* A PUBACK or PUBREC that was sent for a confirmed request means that the
\* broker has the message (handler.go:161-217, 253-267).
THEOREM Acknowledgement == Spec => []AckConfirmed
<1>1. SessionInv => AckConfirmed
  <2> SUFFICES ASSUME SessionInv, NEW r \in wire, r \in Confirmed
               PROVE  r \in stored
    BY DEF SessionInv, AckConfirmed
  <2>1. r \in Requests
    BY DEF SessionInv, TypeOK
  <2>2. acks[r] = 1
    BY <2>1 DEF SessionInv, AckProgress
  <2>3. pub[r] = "ok"
    BY <2>1, <2>2 DEF SessionInv, OneAck
  <2> QED
    BY <2>1, <2>3 DEF SessionInv, AckProgress
<1> QED
  BY <1>1, SessionInvariant, PTL

\* Nothing is forwarded or answered on the strength of a login that was
\* refused since (handler.go:43-55, 75-76, 91-95).
THEOREM LoginGate == Spec => []ServedAfterLogin
<1>1. SessionInv => ServedAfterLogin
  BY DEF SessionInv
<1> QED
  BY <1>1, SessionInvariant, PTL

\* The messages of StoreThenAck that have been sent.
Sent == {r \in Requests : pub[r] # "new"}

\* A step that leaves the wire alone is a send, a store or a stutter of
\* StoreThenAck when it is a step of the publisher's contract or leaves the
\* publisher alone.
LEMMA PublisherStepMaps ==
    ASSUME SessionInv, wire' = wire,
           PubNext \/ UNCHANGED pubVars
    PROVE  [Outside!Next]_<<Sent, stored, wire>>
<1> USE DEF SessionInv, TypeOK, PubTypeOK, Sent
<1>1. CASE UNCHANGED pubVars
  BY <1>1 DEF pubVars
<1>2. ASSUME NEW r \in Requests, Submit(r) PROVE Outside!Send(r)
  BY <1>2 DEF Submit, Outside!Send
<1>3. ASSUME NEW r \in Requests, Store(r) PROVE Outside!Store(r)
  BY <1>3 DEF Store, Outside!Store
<1>4. ASSUME NEW r \in Requests,
             Refuse(r) \/ Accepted(r) \/ \E res \in Responses : Respond(r, res)
      PROVE  UNCHANGED <<Sent, stored>>
  BY <1>4 DEF Refuse, Accepted, Respond, Responses
<1> QED
  BY <1>1, <1>2, <1>3, <1>4 DEF PubNext, Outside!Next

\* The acknowledgement of a request whose response was without error is an
\* Ack of StoreThenAck, or a stutter.
LEMMA AckMaps ==
    ASSUME SessionInv, UNCHANGED pubVars,
           NEW r \in Requests, acks[r] = 1, wire' = wire \cup {r}
    PROVE  [Outside!Next]_<<Sent, stored, wire>>
<1>1. pub[r] = "ok"
  BY DEF SessionInv, OneAck
<1>2. r \in Confirmed => r \in stored
  BY <1>1 DEF SessionInv, AckProgress
<1>3. Sent' = Sent /\ stored' = stored /\ r \in Sent
  BY <1>1 DEF Sent, pubVars
<1>4. CASE r \in wire
  BY <1>3, <1>4
<1>5. CASE r \notin wire
  <2>1. Outside!Ack(r)
    BY <1>2, <1>3, <1>5 DEF Outside!Ack, Sent
  <2> QED
    BY <2>1 DEF Outside!Next
<1> QED
  BY <1>4, <1>5

\* Every step of a session is a step or a stutter of StoreThenAck.
LEMMA NextMaps ==
    ASSUME SessionInv, [Next]_vars
    PROVE  [Outside!Next]_<<Sent, stored, wire>>
<1> USE DEF pubVars, connVars, reqVars, goVars, writeVars
<1>1. CASE UNCHANGED vars
  BY <1>1, PublisherStepMaps DEF vars
<1>2. ASSUME NEW r \in Requests, NEW q \in 0..3, HandlePublish(r, q)
      PROVE  wire' = wire /\ (PubNext \/ UNCHANGED pubVars)
  BY <1>2 DEF HandlePublish, PubNext
<1>3. CASE EndWrite
  <2>1. CASE frame \in Acks /\ wire' = wire \cup {cur}
    <3>1. cur \in Requests /\ acks[cur] = 1
      BY <1>3, <2>1 DEF SessionInv, InHand, EndWrite
    <3> QED
      BY <1>3, <2>1, <3>1, AckMaps DEF EndWrite
  <2>2. CASE wire' = wire
    BY <1>3, <2>2, PublisherStepMaps DEF EndWrite
  <2> QED
    BY <1>3, <2>1, <2>2 DEF EndWrite, WriteResult
<1>4. CASE SessionNext /\ ~EndWrite
  <2>1. wire' = wire /\ (PubNext \/ UNCHANGED pubVars)
    BY <1>2, <1>4
       DEF SessionNext, ReadFails, ConnectionLost, HandleConnect,
           PublishResponse, PublishError, PublishAsyncReturns, PublishPanics,
           HandlePublishRelease, HandlePing, HandleSimple,
           HandleDisconnect, HandleUnsupported, BeginWrite
  <2> QED
    BY <2>1, PublisherStepMaps
<1>5. ASSUME NEW r \in Requests, PublisherNext(r)
      PROVE  [Outside!Next]_<<Sent, stored, wire>>
  <2>1. CASE CallbackEndWrite(r)
    <3>1. acks[r] = 1
      BY <2>1 DEF SessionInv, AckProgress, CallbackEndWrite
    <3>2. CASE wire' = wire
      BY <2>1, <3>2, PublisherStepMaps DEF CallbackEndWrite
    <3> QED
      BY <2>1, <3>1, <3>2, AckMaps DEF CallbackEndWrite, WriteResult
  <2>2. CASE ~CallbackEndWrite(r)
    <3>1. wire' = wire /\ (PubNext \/ UNCHANGED pubVars)
      BY <1>5, <2>2 DEF PublisherNext, PubNext, BrokerStores, CallAnswered,
         CallbackStarts, Callback
    <3> QED
      BY <3>1, PublisherStepMaps
  <2> QED
    BY <2>1, <2>2
<1> QED
  BY <1>1, <1>3, <1>4, <1>5 DEF Next

\* A session implements StoreThenAck: seen from outside, a message is sent,
\* stored and acknowledged in this order (handler.go:142-219).
THEOREM Implementation == Spec => ImplementsStoreThenAck
<1>1. Init => Outside!Init
  BY DEF Init, PubInit, Outside!Init
<1>2. SessionInv /\ [Next]_vars => [Outside!Next]_<<Sent, stored, wire>>
  BY NextMaps
<1> QED
  BY <1>1, <1>2, SessionInvariant, PTL
     DEF Spec, ImplementsStoreThenAck, Outside!Spec, Sent
=============================================================================
