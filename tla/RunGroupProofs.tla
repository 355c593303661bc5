----------------------------- MODULE RunGroupProofs ---------------------------
(***************************************************************************)
(* Proofs about RunGroup.                                                  *)
(***************************************************************************)
EXTENDS RunGroup, TLAPS

\* The order in which the actors were added.
LEMMA ActorOrder ==
    /\ Len(Order) = 4
    /\ Order[1] = "http" /\ Order[2] = "publisher"
    /\ Order[3] = "mqtt" /\ Order[4] = "signal"
BY DEF Order

\* The initial state satisfies the inductive invariant.
LEMMA InitGroupInv == Init => GroupInv
<1> SUFFICES ASSUME Init PROVE GroupInv
  OBVIOUS
<1> USE DEF Init
<1>1. TypeOK
  <2>1. gNext \in 1..Len(Order)
    BY ActorOrder
  <2> QED
    BY <2>1 DEF TypeOK
<1>2. ListenersServe /\ NothingLeft
  BY DEF ListenersServe, NothingLeft
<1>3. StopsInOrder
  BY ActorOrder DEF StopsInOrder
<1> QED
  BY <1>1, <1>2, <1>3 DEF GroupInv

\* The steps of an actor preserve the invariant.
LEMMA ActorKeepsGroupInv ==
    ASSUME GroupInv, NEW a \in Actors, ActorNext(a) PROVE GroupInv'
<1> USE DEF GroupInv, actorVars, groupVars
<1>1. ASSUME Begin(a) PROVE GroupInv'
  <2> USE <1>1 DEF Begin
  <2>1. TypeOK'
    BY DEF TypeOK
  <2>2. ListenersServe'
    BY DEF TypeOK, ListenersServe
  <2>3. StopsInOrder'
    BY DEF StopsInOrder
  <2>4. NothingLeft'
    BY DEF TypeOK, NothingLeft
  <2> QED
    BY <2>1, <2>2, <2>3, <2>4
<1>2. ASSUME Serve(a) PROVE GroupInv'
  <2> USE <1>2 DEF Serve
  <2>1. TypeOK'
    BY DEF TypeOK
  <2>2. ListenersServe'
    <3>1. CASE a \notin stopped /\ exec' = [exec EXCEPT ![a] = "serving"]
                /\ listening' = listening \cup ({a} \cap Listeners)
      BY <3>1 DEF TypeOK, ListenersServe
    <3>2. CASE exec' = [exec EXCEPT ![a] = "returned"] /\ listening' = listening
      BY <3>2 DEF TypeOK, ListenersServe
    <3> QED
      BY <3>1, <3>2
  <2>3. StopsInOrder'
    BY DEF StopsInOrder
  <2>4. NothingLeft'
    BY DEF TypeOK, NothingLeft
  <2> QED
    BY <2>1, <2>2, <2>3, <2>4
<1>3. ASSUME Stops(a) PROVE GroupInv'
  <2> USE <1>3 DEF Stops
  <2>1. TypeOK'
    BY DEF TypeOK
  <2>2. ListenersServe'
    BY DEF TypeOK, ListenersServe
  <2>3. StopsInOrder'
    BY DEF StopsInOrder
  <2>4. NothingLeft'
    BY DEF TypeOK, NothingLeft
  <2> QED
    BY <2>1, <2>2, <2>3, <2>4
<1>4. ASSUME Ends(a) PROVE GroupInv'
  <2> USE <1>4 DEF Ends
  <2>1. TypeOK'
    BY DEF TypeOK
  <2>2. ListenersServe'
    BY DEF TypeOK, ListenersServe
  <2>3. StopsInOrder'
    BY DEF StopsInOrder
  <2>4. NothingLeft'
    BY DEF TypeOK, NothingLeft
  <2> QED
    BY <2>1, <2>2, <2>3, <2>4
<1> QED
  BY <1>1, <1>2, <1>3, <1>4 DEF ActorNext

\* The steps of the group preserve the invariant.
LEMMA GroupKeepsGroupInv == ASSUME GroupInv, GroupNext PROVE GroupInv'
<1> USE DEF GroupInv, actorVars, groupVars
<1>1. ASSUME NEW a \in Actors, FirstReturns(a) PROVE GroupInv'
  <2> USE <1>1 DEF FirstReturns
  <2>1. TypeOK'
    BY ActorOrder DEF TypeOK
  <2>2. ListenersServe'
    BY DEF TypeOK, ListenersServe
  <2>3. StopsInOrder'
    BY ActorOrder DEF TypeOK, StopsInOrder
  <2>4. NothingLeft'
    BY DEF TypeOK, NothingLeft
  <2> QED
    BY <2>1, <2>2, <2>3, <2>4
<1>2. ASSUME NotReady PROVE GroupInv'
  <2> USE <1>2 DEF NotReady
  <2>1. TypeOK'
    BY DEF TypeOK
  <2>2. ListenersServe'
    BY DEF TypeOK, ListenersServe
  <2>3. StopsInOrder'
    BY ActorOrder DEF TypeOK, StopsInOrder
  <2>4. NothingLeft'
    BY DEF TypeOK, NothingLeft
  <2> QED
    BY <2>1, <2>2, <2>3, <2>4
<1>3. ASSUME Shutdown PROVE GroupInv'
  <2> USE <1>3 DEF Shutdown
  <2>1. TypeOK'
    <3>1. Order[gNext] \in Actors
      BY ActorOrder DEF TypeOK, Actors
    <3> QED
      BY <3>1 DEF TypeOK
  <2>2. ListenersServe'
    BY DEF TypeOK, ListenersServe
  <2>3. StopsInOrder'
    BY ActorOrder DEF TypeOK, StopsInOrder
  <2>4. NothingLeft'
    BY DEF TypeOK, NothingLeft
  <2> QED
    BY <2>1, <2>2, <2>3, <2>4
<1>4. ASSUME NotHealthy PROVE GroupInv'
  <2> USE <1>4 DEF NotHealthy
  <2>1. TypeOK'
    BY DEF TypeOK
  <2>2. ListenersServe'
    BY DEF TypeOK, ListenersServe
  <2>3. StopsInOrder'
    BY ActorOrder DEF TypeOK, StopsInOrder
  <2>4. NothingLeft'
    BY DEF TypeOK, NothingLeft
  <2> QED
    BY <2>1, <2>2, <2>3, <2>4
<1>5. ASSUME Drain PROVE GroupInv'
  <2> USE <1>5 DEF Drain
  <2>1. TypeOK'
    BY DEF TypeOK
  <2>2. ListenersServe'
    BY DEF TypeOK, ListenersServe
  <2>3. StopsInOrder'
    BY ActorOrder DEF TypeOK, StopsInOrder
  <2>4. NothingLeft'
    BY DEF TypeOK, ListenersServe, NothingLeft, Listeners, Actors
  <2> QED
    BY <2>1, <2>2, <2>3, <2>4
<1> QED
  BY <1>1, <1>2, <1>3, <1>4, <1>5 DEF GroupNext

LEMMA NextKeepsGroupInv == GroupInv /\ [Next]_vars => GroupInv'
<1> SUFFICES ASSUME GroupInv, [Next]_vars PROVE GroupInv'
  OBVIOUS
<1>1. CASE UNCHANGED vars
  BY <1>1 DEF vars, GroupInv, TypeOK, ListenersServe, StopsInOrder,
              NothingLeft
<1> QED
  BY <1>1, ActorKeepsGroupInv, GroupKeepsGroupInv DEF Next

\* The inductive invariant holds in every behaviour: in particular nothing
\* listens for an actor that was stopped or has returned, and nothing is left
\* when Run returns (cmd/root.go:80-104, group.go:45-57).
THEOREM GroupInvariant == Spec => []GroupInv
<1> QED
  BY InitGroupInv, NextKeepsGroupInv, PTL DEF Spec

\* The publisher is stopped only after the http actor, whose listener is closed
\* by then.
LEMMA HttpStopsFirst == GroupInv => ReadyBeforeStop
<1> SUFFICES ASSUME GroupInv, "publisher" \in stopped PROVE "http" \notin listening
  BY DEF ReadyBeforeStop
<1>1. gNext >= 2
  BY ActorOrder DEF GroupInv, TypeOK, StopsInOrder
<1>2. "http" \in stopped
  BY <1>1, ActorOrder DEF GroupInv, TypeOK, StopsInOrder
<1> QED
  BY <1>2 DEF GroupInv, ListenersServe

\* The readiness endpoint never says OK once the publisher was told to stop
\* (cmd/server.go:54-62, 161-165, 234-241).
THEOREM NotReadyOnceStopped == Spec => []ReadyBeforeStop
<1> QED
  BY HttpStopsFirst, GroupInvariant, PTL
=============================================================================
