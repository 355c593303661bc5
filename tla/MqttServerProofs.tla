--------------------------- MODULE MqttServerProofs ---------------------------
(***************************************************************************)
(* Proofs about MqttServer, for every set of connections and with or       *)
(* without TLS, read deadline and grace period.                            *)
(***************************************************************************)
EXTENDS MqttServer, TLAPS

\* The initial state satisfies the inductive invariant (a Server before
\* ListenAndServe, server.go:21-45).
LEMMA InitServerInv == Init => ServerInv
<1> SUFFICES ASSUME Init PROVE ServerInv
  OBVIOUS
<1> USE ServerAssumption DEF Init
<1>1. TypeOK
  BY DEF TypeOK, APcs, AErrs, ServeErrs, CPcs, ConnStates, MPcs, GPcs
<1>2. AcceptorHolds /\ OpenConnTracked
  BY DEF AcceptorHolds, OpenConnTracked, Serving
<1>3. ListenerMatchesDone /\ ServeReportsShutdown
  BY DEF ListenerMatchesDone, ServeReportsShutdown
<1>4. LateIsLeaving /\ ScanCovers /\ BusyNotVictim
  BY DEF LateIsLeaving, ScanCovers, BusyNotVictim
<1> QED
  BY <1>1, <1>2, <1>3, <1>4 DEF ServerInv

\* The invariant is preserved by every step of the acceptor (ListenAndServe and
\* Serve, server.go:47-130).
LEMMA AcceptorKeepsServerInv ==
    ASSUME ServerInv, AcceptorNext PROVE ServerInv'
<1> USE ServerAssumption DEF ServerInv
<1> USE DEF serverVars, trackVars, acceptorVars, connVars, stopVars, scanVars
<1>1. ASSUME ListenAndServe PROVE ServerInv'
  <2>1. TypeOK'
    BY <1>1 DEF ListenAndServe, TypeOK, APcs, ServeErrs
  <2>2. (AcceptorHolds /\ OpenConnTracked)'
    BY <1>1 DEF ListenAndServe, TypeOK, AcceptorHolds, OpenConnTracked,
       Serving, MuFree, FirstPc, ListenerMatchesDone
  <2>3. (ListenerMatchesDone /\ ServeReportsShutdown)'
    BY <1>1 DEF ListenAndServe, TypeOK, ListenerMatchesDone,
       ServeReportsShutdown, MuFree, AcceptorHolds
  <2>4. LateIsLeaving'
    BY <1>1 DEF ListenAndServe, TypeOK, LateIsLeaving
  <2>5. ScanCovers'
    BY <1>1 DEF ListenAndServe, TypeOK, ScanCovers, AcceptorHolds,
       OpenConnTracked, ListenerMatchesDone, Serving, MuFree, FirstPc
  <2>6. BusyNotVictim'
    BY <1>1 DEF ListenAndServe, TypeOK, BusyNotVictim
  <2> QED
    BY <2>1, <2>2, <2>3, <2>4, <2>5, <2>6
<1>2. ASSUME TrackListener PROVE ServerInv'
  <2>1. TypeOK'
    BY <1>2 DEF TrackListener, TypeOK, APcs, ServeErrs
  <2>2. (AcceptorHolds /\ OpenConnTracked)'
    BY <1>2 DEF TrackListener, TypeOK, AcceptorHolds, OpenConnTracked,
       Serving, MuFree, FirstPc, ListenerMatchesDone
  <2>3. (ListenerMatchesDone /\ ServeReportsShutdown)'
    <3>1. CASE inShutdown
      BY <1>2, <3>1 DEF TrackListener, TypeOK, ListenerMatchesDone,
         ServeReportsShutdown
    <3>2. CASE ~inShutdown
      <4>1. aErr # "closed" /\ aErr' # "closed"
        BY <1>2 DEF TrackListener, ListenerMatchesDone
      <4>2. listeners' /\ aPc' = "accept" /\ listening' = listening
        BY <1>2, <3>2 DEF TrackListener
      <4>3. listening /\ ~doneClosed
        BY <1>2, <3>2 DEF TrackListener, ListenerMatchesDone
      <4>4. ListenerMatchesDone'
        BY <1>2, <4>1, <4>2, <4>3 DEF TrackListener, ListenerMatchesDone
      <4> QED
        BY <4>1, <4>4 DEF ServeReportsShutdown
    <3> QED
      BY <3>1, <3>2
  <2>4. LateIsLeaving'
    BY <1>2 DEF TrackListener, TypeOK, LateIsLeaving
  <2>5. ScanCovers'
    BY <1>2 DEF TrackListener, TypeOK, ScanCovers, AcceptorHolds,
       OpenConnTracked, ListenerMatchesDone, Serving, MuFree, FirstPc
  <2>6. BusyNotVictim'
    BY <1>2 DEF TrackListener, TypeOK, BusyNotVictim
  <2> QED
    BY <2>1, <2>2, <2>3, <2>4, <2>5, <2>6
<1>3. ASSUME NEW c \in Conns, Accept(c) PROVE ServerInv'
  <2>1. TypeOK'
    BY <1>3 DEF Accept, TypeOK, APcs, CPcs
  <2>2. (AcceptorHolds /\ OpenConnTracked)'
    BY <1>3 DEF Accept, TypeOK, AcceptorHolds, OpenConnTracked, Serving,
       MuFree, FirstPc, ListenerMatchesDone
  <2>3. (ListenerMatchesDone /\ ServeReportsShutdown)'
    BY <1>3 DEF Accept, TypeOK, ListenerMatchesDone, ServeReportsShutdown,
       MuFree, AcceptorHolds
  <2>4. LateIsLeaving'
    BY <1>3 DEF Accept, TypeOK, LateIsLeaving
  <2>5. ScanCovers'
    BY <1>3 DEF Accept, TypeOK, ScanCovers, AcceptorHolds,
       OpenConnTracked, ListenerMatchesDone, Serving, MuFree, FirstPc
  <2>6. BusyNotVictim'
    BY <1>3 DEF Accept, TypeOK, BusyNotVictim
  <2> QED
    BY <2>1, <2>2, <2>3, <2>4, <2>5, <2>6
<1>4. ASSUME NEW kind \in AErrs \ {"none"}, AcceptError(kind) PROVE ServerInv'
  <2>1. TypeOK'
    BY <1>4 DEF AcceptError, TypeOK, APcs, AErrs
  <2>2. (AcceptorHolds /\ OpenConnTracked)'
    BY <1>4 DEF AcceptError, TypeOK, AcceptorHolds, OpenConnTracked,
       Serving, MuFree, FirstPc, ListenerMatchesDone
  <2>3. (ListenerMatchesDone /\ ServeReportsShutdown)'
    BY <1>4 DEF AcceptError, TypeOK, ListenerMatchesDone,
       ServeReportsShutdown, MuFree, AcceptorHolds
  <2>4. LateIsLeaving'
    BY <1>4 DEF AcceptError, TypeOK, LateIsLeaving
  <2>5. ScanCovers'
    BY <1>4 DEF AcceptError, TypeOK, ScanCovers, AcceptorHolds,
       OpenConnTracked, ListenerMatchesDone, Serving, MuFree, FirstPc
  <2>6. BusyNotVictim'
    BY <1>4 DEF AcceptError, TypeOK, BusyNotVictim
  <2> QED
    BY <2>1, <2>2, <2>3, <2>4, <2>5, <2>6
<1>5. ASSUME HandleAcceptError PROVE ServerInv'
  <2>1. TypeOK'
    BY <1>5 DEF HandleAcceptError, TypeOK, APcs, AErrs, ServeErrs
  <2>2. (AcceptorHolds /\ OpenConnTracked)'
    BY <1>5 DEF HandleAcceptError, TypeOK, AcceptorHolds, OpenConnTracked,
       Serving, MuFree, FirstPc, ListenerMatchesDone
  <2>3. (ListenerMatchesDone /\ ServeReportsShutdown)'
    BY <1>5 DEF HandleAcceptError, TypeOK, ListenerMatchesDone,
       ServeReportsShutdown, MuFree, AcceptorHolds
  <2>4. LateIsLeaving'
    BY <1>5 DEF HandleAcceptError, TypeOK, LateIsLeaving
  <2>5. ScanCovers'
    BY <1>5 DEF HandleAcceptError, TypeOK, ScanCovers, AcceptorHolds,
       OpenConnTracked, ListenerMatchesDone, Serving, MuFree, FirstPc
  <2>6. BusyNotVictim'
    BY <1>5 DEF HandleAcceptError, TypeOK, BusyNotVictim
  <2> QED
    BY <2>1, <2>2, <2>3, <2>4, <2>5, <2>6
<1>6. ASSUME TrackNew PROVE ServerInv'
  <2>1. TypeOK'
    BY <1>6 DEF TrackNew, TypeOK, APcs, AcceptorHolds
  <2>2. (AcceptorHolds /\ OpenConnTracked)'
    BY <1>6 DEF TrackNew, TypeOK, AcceptorHolds, OpenConnTracked, Serving,
       MuFree, FirstPc, ListenerMatchesDone
  <2>3. (ListenerMatchesDone /\ ServeReportsShutdown)'
    BY <1>6 DEF TrackNew, TypeOK, ListenerMatchesDone,
       ServeReportsShutdown, MuFree, AcceptorHolds
  <2>4. LateIsLeaving'
    BY <1>6 DEF TrackNew, TypeOK, LateIsLeaving
  <2>5. ScanCovers'
    BY <1>6 DEF TrackNew, TypeOK, ScanCovers, AcceptorHolds,
       OpenConnTracked, ListenerMatchesDone, Serving, MuFree, FirstPc
  <2>6. BusyNotVictim'
    BY <1>6 DEF TrackNew, TypeOK, BusyNotVictim
  <2> QED
    BY <2>1, <2>2, <2>3, <2>4, <2>5, <2>6
<1>7. ASSUME StoreNewAndGo PROVE ServerInv'
  <2>1. TypeOK'
    BY <1>7 DEF StoreNewAndGo, TypeOK, APcs, CPcs, ConnStates, FirstPc
  <2>2. (AcceptorHolds /\ OpenConnTracked)'
    BY <1>7 DEF StoreNewAndGo, TypeOK, AcceptorHolds, OpenConnTracked,
       Serving, MuFree, FirstPc, ListenerMatchesDone
  <2>3. (ListenerMatchesDone /\ ServeReportsShutdown)'
    BY <1>7 DEF StoreNewAndGo, TypeOK, ListenerMatchesDone,
       ServeReportsShutdown, MuFree, AcceptorHolds
  <2>4. LateIsLeaving'
    BY <1>7 DEF StoreNewAndGo, TypeOK, LateIsLeaving, AcceptorHolds
  <2>5. ScanCovers'
    BY <1>7 DEF StoreNewAndGo, TypeOK, ScanCovers, AcceptorHolds,
       OpenConnTracked, ListenerMatchesDone, Serving, MuFree, FirstPc
  <2>6. BusyNotVictim'
    BY <1>7 DEF StoreNewAndGo, TypeOK, BusyNotVictim, AcceptorHolds,
       FirstPc
  <2> QED
    BY <2>1, <2>2, <2>3, <2>4, <2>5, <2>6
<1>8. ASSUME LeaveServe PROVE ServerInv'
  <2>1. TypeOK'
    BY <1>8 DEF LeaveServe, TypeOK, APcs
  <2>2. (AcceptorHolds /\ OpenConnTracked)'
    BY <1>8 DEF LeaveServe, TypeOK, AcceptorHolds, OpenConnTracked,
       Serving, MuFree, FirstPc, ListenerMatchesDone
  <2>3. (ListenerMatchesDone /\ ServeReportsShutdown)'
    BY <1>8 DEF LeaveServe, TypeOK, ListenerMatchesDone,
       ServeReportsShutdown, MuFree, AcceptorHolds
  <2>4. LateIsLeaving'
    BY <1>8 DEF LeaveServe, TypeOK, LateIsLeaving
  <2>5. ScanCovers'
    BY <1>8 DEF LeaveServe, TypeOK, ScanCovers, AcceptorHolds,
       OpenConnTracked, ListenerMatchesDone, Serving, MuFree, FirstPc
  <2>6. BusyNotVictim'
    BY <1>8 DEF LeaveServe, TypeOK, BusyNotVictim
  <2> QED
    BY <2>1, <2>2, <2>3, <2>4, <2>5, <2>6
<1> QED
  BY <1>1, <1>2, <1>3, <1>4, <1>5, <1>6, <1>7, <1>8 DEF AcceptorNext

\* The invariant is preserved by every step of a connection's goroutine
\* (conn.serve, conn.go:59-123).
LEMMA ConnKeepsServerInv ==
    ASSUME NEW c \in Conns, ServerInv, ConnNext(c) PROVE ServerInv'
<1> USE ServerAssumption DEF ServerInv
<1> USE DEF serverVars, trackVars, acceptorVars, connVars, stopVars, scanVars
<1>1. ASSUME Handshake(c) PROVE ServerInv'
  <2>1. TypeOK'
    BY <1>1 DEF Handshake, TypeOK, CPcs
  <2>2. (AcceptorHolds /\ OpenConnTracked)'
    BY <1>1 DEF Handshake, TypeOK, AcceptorHolds, OpenConnTracked,
       Serving, MuFree, FirstPc, ListenerMatchesDone
  <2>3. (ListenerMatchesDone /\ ServeReportsShutdown)'
    BY <1>1 DEF Handshake, TypeOK, ListenerMatchesDone,
       ServeReportsShutdown, MuFree, AcceptorHolds
  <2>4. LateIsLeaving'
    BY <1>1 DEF Handshake, TypeOK, LateIsLeaving
  <2>5. ScanCovers'
    BY <1>1 DEF Handshake, TypeOK, ScanCovers, AcceptorHolds,
       OpenConnTracked, ListenerMatchesDone, Serving, MuFree, FirstPc
  <2>6. BusyNotVictim'
    BY <1>1 DEF Handshake, TypeOK, BusyNotVictim
  <2> QED
    BY <2>1, <2>2, <2>3, <2>4, <2>5, <2>6
<1>2. ASSUME ReadRequest(c) PROVE ServerInv'
  <2>1. TypeOK'
    BY <1>2 DEF ReadRequest, TypeOK, CPcs
  <2>2. (AcceptorHolds /\ OpenConnTracked)'
    BY <1>2 DEF ReadRequest, TypeOK, AcceptorHolds, OpenConnTracked,
       Serving, MuFree, FirstPc, ListenerMatchesDone
  <2>3. (ListenerMatchesDone /\ ServeReportsShutdown)'
    BY <1>2 DEF ReadRequest, TypeOK, ListenerMatchesDone,
       ServeReportsShutdown, MuFree, AcceptorHolds
  <2>4. LateIsLeaving'
    BY <1>2 DEF ReadRequest, TypeOK, LateIsLeaving
  <2>5. ScanCovers'
    BY <1>2 DEF ReadRequest, TypeOK, ScanCovers, AcceptorHolds,
       OpenConnTracked, ListenerMatchesDone, Serving, MuFree, FirstPc
  <2>6. BusyNotVictim'
    BY <1>2 DEF ReadRequest, TypeOK, BusyNotVictim
  <2> QED
    BY <2>1, <2>2, <2>3, <2>4, <2>5, <2>6
<1>3. ASSUME ReadError(c) PROVE ServerInv'
  <2>1. TypeOK'
    BY <1>3 DEF ReadError, TypeOK, CPcs
  <2>2. (AcceptorHolds /\ OpenConnTracked)'
    BY <1>3 DEF ReadError, TypeOK, AcceptorHolds, OpenConnTracked,
       Serving, MuFree, FirstPc, ListenerMatchesDone
  <2>3. (ListenerMatchesDone /\ ServeReportsShutdown)'
    BY <1>3 DEF ReadError, TypeOK, ListenerMatchesDone,
       ServeReportsShutdown, MuFree, AcceptorHolds
  <2>4. LateIsLeaving'
    BY <1>3 DEF ReadError, TypeOK, LateIsLeaving
  <2>5. ScanCovers'
    BY <1>3 DEF ReadError, TypeOK, ScanCovers, AcceptorHolds,
       OpenConnTracked, ListenerMatchesDone, Serving, MuFree, FirstPc
  <2>6. BusyNotVictim'
    BY <1>3 DEF ReadError, TypeOK, BusyNotVictim
  <2> QED
    BY <2>1, <2>2, <2>3, <2>4, <2>5, <2>6
<1>4. ASSUME ReadDeadline(c) PROVE ServerInv'
  <2>1. TypeOK'
    BY <1>4 DEF ReadDeadline, TypeOK, CPcs
  <2>2. (AcceptorHolds /\ OpenConnTracked)'
    BY <1>4 DEF ReadDeadline, TypeOK, AcceptorHolds, OpenConnTracked,
       Serving, MuFree, FirstPc, ListenerMatchesDone
  <2>3. (ListenerMatchesDone /\ ServeReportsShutdown)'
    BY <1>4 DEF ReadDeadline, TypeOK, ListenerMatchesDone,
       ServeReportsShutdown, MuFree, AcceptorHolds
  <2>4. LateIsLeaving'
    BY <1>4 DEF ReadDeadline, TypeOK, LateIsLeaving
  <2>5. ScanCovers'
    BY <1>4 DEF ReadDeadline, TypeOK, ScanCovers, AcceptorHolds,
       OpenConnTracked, ListenerMatchesDone, Serving, MuFree, FirstPc
  <2>6. BusyNotVictim'
    BY <1>4 DEF ReadDeadline, TypeOK, BusyNotVictim
  <2> QED
    BY <2>1, <2>2, <2>3, <2>4, <2>5, <2>6
<1>5. ASSUME SetActive(c) PROVE ServerInv'
  <2>1. TypeOK'
    <3>1. CASE cPc[c] = "gotRequest"
      <4>1. late' \in [Conns -> Nat]
        BY <1>5, <3>1 DEF SetActive, TypeOK
      <4> QED
        BY <1>5, <3>1, <4>1 DEF SetActive, TypeOK, CPcs, ConnStates
    <3>2. CASE cPc[c] = "gotError"
      BY <1>5, <3>2 DEF SetActive, TypeOK, CPcs, ConnStates
    <3> QED
      BY <1>5, <3>1, <3>2 DEF SetActive
  <2>2. (AcceptorHolds /\ OpenConnTracked)'
    BY <1>5 DEF SetActive, TypeOK, AcceptorHolds, OpenConnTracked,
       Serving, MuFree, FirstPc, ListenerMatchesDone
  <2>3. (ListenerMatchesDone /\ ServeReportsShutdown)'
    BY <1>5 DEF SetActive, TypeOK, ListenerMatchesDone,
       ServeReportsShutdown, MuFree, AcceptorHolds
  <2>4. LateIsLeaving'
    BY <1>5 DEF SetActive, TypeOK, LateIsLeaving
  <2>5. ScanCovers'
    BY <1>5 DEF SetActive, TypeOK, ScanCovers, AcceptorHolds,
       OpenConnTracked, ListenerMatchesDone, Serving, MuFree, FirstPc
  <2>6. BusyNotVictim'
    BY <1>5 DEF SetActive, TypeOK, BusyNotVictim, ListenerMatchesDone
  <2> QED
    BY <2>1, <2>2, <2>3, <2>4, <2>5, <2>6
<1>6. ASSUME HandlerReturns(c) PROVE ServerInv'
  <2>1. TypeOK'
    <3>1. /\ cPc' \in [Conns -> CPcs]
          /\ curState' \in [Conns -> ConnStates]
          /\ sock' \in [Conns -> BOOLEAN]
      BY <1>6 DEF HandlerReturns, TypeOK, CPcs, ConnStates
    <3>2. UNCHANGED <<buffered, late, serverVars, trackVars, acceptorVars,
                      stopVars, scanVars>>
      BY <1>6 DEF HandlerReturns
    <3> QED
      BY <3>1, <3>2 DEF TypeOK
  <2>2. (AcceptorHolds /\ OpenConnTracked)'
    BY <1>6 DEF HandlerReturns, TypeOK, AcceptorHolds, OpenConnTracked,
       Serving, MuFree, FirstPc, ListenerMatchesDone
  <2>3. (ListenerMatchesDone /\ ServeReportsShutdown)'
    BY <1>6 DEF HandlerReturns, TypeOK, ListenerMatchesDone,
       ServeReportsShutdown, MuFree, AcceptorHolds
  <2>4. LateIsLeaving'
    BY <1>6 DEF HandlerReturns, TypeOK, LateIsLeaving
  <2>5. ScanCovers'
    BY <1>6 DEF HandlerReturns, TypeOK, ScanCovers, AcceptorHolds,
       OpenConnTracked, ListenerMatchesDone, Serving, MuFree, FirstPc
  <2>6. BusyNotVictim'
    BY <1>6 DEF HandlerReturns, TypeOK, BusyNotVictim
  <2> QED
    BY <2>1, <2>2, <2>3, <2>4, <2>5, <2>6
<1>7. ASSUME HandlerPanics(c) PROVE ServerInv'
  <2>1. TypeOK'
    BY <1>7 DEF HandlerPanics, TypeOK, CPcs
  <2>2. (AcceptorHolds /\ OpenConnTracked)'
    BY <1>7 DEF HandlerPanics, TypeOK, AcceptorHolds, OpenConnTracked,
       Serving, MuFree, FirstPc, ListenerMatchesDone
  <2>3. (ListenerMatchesDone /\ ServeReportsShutdown)'
    BY <1>7 DEF HandlerPanics, TypeOK, ListenerMatchesDone,
       ServeReportsShutdown, MuFree, AcceptorHolds
  <2>4. LateIsLeaving'
    BY <1>7 DEF HandlerPanics, TypeOK, LateIsLeaving
  <2>5. ScanCovers'
    BY <1>7 DEF HandlerPanics, TypeOK, ScanCovers, AcceptorHolds,
       OpenConnTracked, ListenerMatchesDone, Serving, MuFree, FirstPc
  <2>6. BusyNotVictim'
    BY <1>7 DEF HandlerPanics, TypeOK, BusyNotVictim
  <2> QED
    BY <2>1, <2>2, <2>3, <2>4, <2>5, <2>6
<1>8. ASSUME KeepAlive(c) PROVE ServerInv'
  <2>1. TypeOK'
    BY <1>8 DEF KeepAlive, TypeOK, CPcs
  <2>2. (AcceptorHolds /\ OpenConnTracked)'
    BY <1>8 DEF KeepAlive, TypeOK, AcceptorHolds, OpenConnTracked,
       Serving, MuFree, FirstPc, ListenerMatchesDone
  <2>3. (ListenerMatchesDone /\ ServeReportsShutdown)'
    BY <1>8 DEF KeepAlive, TypeOK, ListenerMatchesDone,
       ServeReportsShutdown, MuFree, AcceptorHolds
  <2>4. LateIsLeaving'
    BY <1>8 DEF KeepAlive, TypeOK, LateIsLeaving
  <2>5. ScanCovers'
    BY <1>8 DEF KeepAlive, TypeOK, ScanCovers, AcceptorHolds,
       OpenConnTracked, ListenerMatchesDone, Serving, MuFree, FirstPc
  <2>6. BusyNotVictim'
    BY <1>8 DEF KeepAlive, TypeOK, BusyNotVictim
  <2> QED
    BY <2>1, <2>2, <2>3, <2>4, <2>5, <2>6
<1>9. ASSUME Peek(c) PROVE ServerInv'
  <2>1. TypeOK'
    BY <1>9 DEF Peek, TypeOK, CPcs
  <2>2. (AcceptorHolds /\ OpenConnTracked)'
    BY <1>9 DEF Peek, TypeOK, AcceptorHolds, OpenConnTracked, Serving,
       MuFree, FirstPc, ListenerMatchesDone
  <2>3. (ListenerMatchesDone /\ ServeReportsShutdown)'
    BY <1>9 DEF Peek, TypeOK, ListenerMatchesDone, ServeReportsShutdown,
       MuFree, AcceptorHolds
  <2>4. LateIsLeaving'
    BY <1>9 DEF Peek, TypeOK, LateIsLeaving
  <2>5. ScanCovers'
    BY <1>9 DEF Peek, TypeOK, ScanCovers, AcceptorHolds, OpenConnTracked,
       ListenerMatchesDone, Serving, MuFree, FirstPc
  <2>6. BusyNotVictim'
    BY <1>9 DEF Peek, TypeOK, BusyNotVictim
  <2> QED
    BY <2>1, <2>2, <2>3, <2>4, <2>5, <2>6
<1>10. ASSUME Exit(c) PROVE ServerInv'
  <2>1. TypeOK'
    BY <1>10 DEF Exit, TypeOK, CPcs, ConnStates
  <2>2. (AcceptorHolds /\ OpenConnTracked)'
    BY <1>10 DEF Exit, TypeOK, AcceptorHolds, OpenConnTracked, Serving,
       MuFree, FirstPc, ListenerMatchesDone
  <2>3. (ListenerMatchesDone /\ ServeReportsShutdown)'
    BY <1>10 DEF Exit, TypeOK, ListenerMatchesDone, ServeReportsShutdown,
       MuFree, AcceptorHolds
  <2>4. LateIsLeaving'
    BY <1>10 DEF Exit, TypeOK, LateIsLeaving
  <2>5. ScanCovers'
    BY <1>10 DEF Exit, TypeOK, ScanCovers, AcceptorHolds, OpenConnTracked,
       ListenerMatchesDone, Serving, MuFree, FirstPc
  <2>6. BusyNotVictim'
    BY <1>10 DEF Exit, TypeOK, BusyNotVictim
  <2> QED
    BY <2>1, <2>2, <2>3, <2>4, <2>5, <2>6
<1>11. ASSUME NewGetsOld(c) PROVE ServerInv'
  <2>1. TypeOK'
    BY <1>11 DEF NewGetsOld, TypeOK, ConnStates
  <2>2. (AcceptorHolds /\ OpenConnTracked)'
    BY <1>11 DEF NewGetsOld, TypeOK, AcceptorHolds, OpenConnTracked,
       Serving, MuFree, FirstPc, ListenerMatchesDone
  <2>3. (ListenerMatchesDone /\ ServeReportsShutdown)'
    BY <1>11 DEF NewGetsOld, TypeOK, ListenerMatchesDone,
       ServeReportsShutdown, MuFree, AcceptorHolds
  <2>4. LateIsLeaving'
    BY <1>11 DEF NewGetsOld, TypeOK, LateIsLeaving
  <2>5. ScanCovers'
    BY <1>11 DEF NewGetsOld, TypeOK, ScanCovers, AcceptorHolds,
       OpenConnTracked, ListenerMatchesDone, Serving, MuFree, FirstPc
  <2>6. BusyNotVictim'
    BY <1>11 DEF NewGetsOld, TypeOK, BusyNotVictim
  <2> QED
    BY <2>1, <2>2, <2>3, <2>4, <2>5, <2>6
<1> QED
  BY <1>1, <1>2, <1>3, <1>4, <1>5, <1>6, <1>7, <1>8, <1>9, <1>10, <1>11 DEF
     ConnNext

\* The invariant is preserved by every step of the interrupt function
\* (mqtt.Server.Shutdown and Close, mqtt.go:74-98, server.go:161-173).
LEMMA StopKeepsServerInv ==
    ASSUME ServerInv, StopNext PROVE ServerInv'
<1> USE ServerAssumption DEF ServerInv
<1> USE DEF serverVars, trackVars, acceptorVars, connVars, stopVars, scanVars
<1>1. ASSUME Interrupt PROVE ServerInv'
  <2>1. TypeOK'
    <3>1. mPc' \in MPcs /\ gPc' \in GPcs
      BY <1>1 DEF Interrupt, TypeOK, MPcs, GPcs
    <3>2. UNCHANGED <<serverVars, trackVars, acceptorVars, connVars, ctxDone,
                      todo, victim, quiescent>>
      BY <1>1 DEF Interrupt
    <3> QED
      BY <3>1, <3>2 DEF TypeOK
  <2>2. (AcceptorHolds /\ OpenConnTracked)'
    BY <1>1 DEF Interrupt, TypeOK, AcceptorHolds, OpenConnTracked,
       Serving, MuFree, FirstPc, ListenerMatchesDone
  <2>3. (ListenerMatchesDone /\ ServeReportsShutdown)'
    BY <1>1 DEF Interrupt, TypeOK, ListenerMatchesDone,
       ServeReportsShutdown, MuFree, AcceptorHolds
  <2>4. LateIsLeaving'
    BY <1>1 DEF Interrupt, TypeOK, LateIsLeaving
  <2>5. ScanCovers'
    BY <1>1 DEF Interrupt, TypeOK, ScanCovers, AcceptorHolds,
       OpenConnTracked, ListenerMatchesDone, Serving, MuFree, FirstPc
  <2>6. BusyNotVictim'
    BY <1>1 DEF Interrupt, TypeOK, BusyNotVictim
  <2> QED
    BY <2>1, <2>2, <2>3, <2>4, <2>5, <2>6
<1>2. ASSUME GraceExpires PROVE ServerInv'
  <2>1. TypeOK'
    BY <1>2 DEF GraceExpires, TypeOK
  <2>2. (AcceptorHolds /\ OpenConnTracked)'
    BY <1>2 DEF GraceExpires, TypeOK, AcceptorHolds, OpenConnTracked,
       Serving, MuFree, FirstPc, ListenerMatchesDone
  <2>3. (ListenerMatchesDone /\ ServeReportsShutdown)'
    BY <1>2 DEF GraceExpires, TypeOK, ListenerMatchesDone,
       ServeReportsShutdown, MuFree, AcceptorHolds
  <2>4. LateIsLeaving'
    BY <1>2 DEF GraceExpires, TypeOK, LateIsLeaving
  <2>5. ScanCovers'
    BY <1>2 DEF GraceExpires, TypeOK, ScanCovers, AcceptorHolds,
       OpenConnTracked, ListenerMatchesDone, Serving, MuFree, FirstPc
  <2>6. BusyNotVictim'
    BY <1>2 DEF GraceExpires, TypeOK, BusyNotVictim
  <2> QED
    BY <2>1, <2>2, <2>3, <2>4, <2>5, <2>6
<1>3. ASSUME Select PROVE ServerInv'
  <2>1. TypeOK'
    BY <1>3 DEF Select, TypeOK, MPcs
  <2>2. (AcceptorHolds /\ OpenConnTracked)'
    BY <1>3 DEF Select, TypeOK, AcceptorHolds, OpenConnTracked, Serving,
       MuFree, FirstPc, ListenerMatchesDone
  <2>3. (ListenerMatchesDone /\ ServeReportsShutdown)'
    BY <1>3 DEF Select, TypeOK, ListenerMatchesDone, ServeReportsShutdown,
       MuFree, AcceptorHolds
  <2>4. LateIsLeaving'
    BY <1>3 DEF Select, TypeOK, LateIsLeaving
  <2>5. ScanCovers'
    BY <1>3 DEF Select, TypeOK, ScanCovers, AcceptorHolds,
       OpenConnTracked, ListenerMatchesDone, Serving, MuFree, FirstPc
  <2>6. BusyNotVictim'
    BY <1>3 DEF Select, TypeOK, BusyNotVictim
  <2> QED
    BY <2>1, <2>2, <2>3, <2>4, <2>5, <2>6
<1>4. ASSUME CloseStore PROVE ServerInv'
  <2>1. TypeOK'
    BY <1>4 DEF CloseStore, TypeOK, MPcs
  <2>2. (AcceptorHolds /\ OpenConnTracked)'
    BY <1>4 DEF CloseStore, TypeOK, AcceptorHolds, OpenConnTracked,
       Serving, MuFree, FirstPc, ListenerMatchesDone
  <2>3. (ListenerMatchesDone /\ ServeReportsShutdown)'
    BY <1>4 DEF CloseStore, TypeOK, ListenerMatchesDone,
       ServeReportsShutdown, MuFree, AcceptorHolds
  <2>4. LateIsLeaving'
    BY <1>4 DEF CloseStore, TypeOK, LateIsLeaving
  <2>5. ScanCovers'
    BY <1>4 DEF CloseStore, TypeOK, ScanCovers, AcceptorHolds,
       OpenConnTracked, ListenerMatchesDone, Serving, MuFree, FirstPc
  <2>6. BusyNotVictim'
    BY <1>4 DEF CloseStore, TypeOK, BusyNotVictim
  <2> QED
    BY <2>1, <2>2, <2>3, <2>4, <2>5, <2>6
<1>5. ASSUME CloseLocked PROVE ServerInv'
  <2>1. TypeOK'
    BY <1>5 DEF CloseLocked, TypeOK, MPcs
  <2>2. (AcceptorHolds /\ OpenConnTracked)'
    BY <1>5 DEF CloseLocked, TypeOK, AcceptorHolds, OpenConnTracked,
       Serving, MuFree, FirstPc, ListenerMatchesDone
  <2>3. (ListenerMatchesDone /\ ServeReportsShutdown)'
    BY <1>5 DEF CloseLocked, TypeOK, ListenerMatchesDone,
       ServeReportsShutdown, MuFree, AcceptorHolds
  <2>4. LateIsLeaving'
    BY <1>5 DEF CloseLocked, TypeOK, LateIsLeaving
  <2>5. ScanCovers'
    BY <1>5 DEF CloseLocked, TypeOK, ScanCovers, AcceptorHolds,
       OpenConnTracked, ListenerMatchesDone, Serving, MuFree, FirstPc
  <2>6. BusyNotVictim'
    BY <1>5 DEF CloseLocked, TypeOK, BusyNotVictim
  <2> QED
    BY <2>1, <2>2, <2>3, <2>4, <2>5, <2>6
<1> QED
  BY <1>1, <1>2, <1>3, <1>4, <1>5 DEF StopNext

\* The invariant is preserved by every step of the graceful stop
\* (mqttserver.Server.Shutdown and closeIdleConns, server.go:175-216).
LEMMA ShutdownKeepsServerInv ==
    ASSUME ServerInv, ShutdownNext PROVE ServerInv'
<1> USE ServerAssumption DEF ServerInv
<1> USE DEF serverVars, trackVars, acceptorVars, connVars, stopVars, scanVars
<1>1. ASSUME ShutdownStore PROVE ServerInv'
  <2>1. TypeOK'
    BY <1>1 DEF ShutdownStore, TypeOK, GPcs
  <2>2. (AcceptorHolds /\ OpenConnTracked)'
    BY <1>1 DEF ShutdownStore, TypeOK, AcceptorHolds, OpenConnTracked,
       Serving, MuFree, FirstPc, ListenerMatchesDone
  <2>3. (ListenerMatchesDone /\ ServeReportsShutdown)'
    BY <1>1 DEF ShutdownStore, TypeOK, ListenerMatchesDone,
       ServeReportsShutdown, MuFree, AcceptorHolds
  <2>4. LateIsLeaving'
    BY <1>1 DEF ShutdownStore, TypeOK, LateIsLeaving
  <2>5. ScanCovers'
    BY <1>1 DEF ShutdownStore, TypeOK, ScanCovers, AcceptorHolds,
       OpenConnTracked, ListenerMatchesDone, Serving, MuFree, FirstPc
  <2>6. BusyNotVictim'
    BY <1>1 DEF ShutdownStore, TypeOK, BusyNotVictim
  <2> QED
    BY <2>1, <2>2, <2>3, <2>4, <2>5, <2>6
<1>2. ASSUME ShutdownLocked PROVE ServerInv'
  <2>1. TypeOK'
    BY <1>2 DEF ShutdownLocked, TypeOK, GPcs
  <2>2. (AcceptorHolds /\ OpenConnTracked)'
    BY <1>2 DEF ShutdownLocked, TypeOK, AcceptorHolds, OpenConnTracked,
       Serving, MuFree, FirstPc, ListenerMatchesDone
  <2>3. (ListenerMatchesDone /\ ServeReportsShutdown)'
    BY <1>2 DEF ShutdownLocked, TypeOK, ListenerMatchesDone,
       ServeReportsShutdown, MuFree, AcceptorHolds
  <2>4. LateIsLeaving'
    BY <1>2 DEF ShutdownLocked, TypeOK, LateIsLeaving
  <2>5. ScanCovers'
    BY <1>2 DEF ShutdownLocked, TypeOK, ScanCovers, AcceptorHolds,
       OpenConnTracked, ListenerMatchesDone, Serving, MuFree, FirstPc
  <2>6. BusyNotVictim'
    BY <1>2 DEF ShutdownLocked, TypeOK, BusyNotVictim
  <2> QED
    BY <2>1, <2>2, <2>3, <2>4, <2>5, <2>6
<1>3. ASSUME CloseIdleStart PROVE ServerInv'
  <2>1. TypeOK'
    BY <1>3 DEF CloseIdleStart, TypeOK, GPcs
  <2>2. (AcceptorHolds /\ OpenConnTracked)'
    BY <1>3 DEF CloseIdleStart, TypeOK, AcceptorHolds, OpenConnTracked,
       Serving, MuFree, FirstPc, ListenerMatchesDone
  <2>3. (ListenerMatchesDone /\ ServeReportsShutdown)'
    BY <1>3 DEF CloseIdleStart, TypeOK, ListenerMatchesDone,
       ServeReportsShutdown, MuFree, AcceptorHolds
  <2>4. LateIsLeaving'
    BY <1>3 DEF CloseIdleStart, TypeOK, LateIsLeaving
  <2>5. ScanCovers'
    BY <1>3 DEF CloseIdleStart, TypeOK, ScanCovers, AcceptorHolds,
       OpenConnTracked, ListenerMatchesDone, Serving, MuFree, FirstPc
  <2>6. BusyNotVictim'
    BY <1>3 DEF CloseIdleStart, TypeOK, BusyNotVictim
  <2> QED
    BY <2>1, <2>2, <2>3, <2>4, <2>5, <2>6
<1>4. ASSUME NEW c \in Conns, CloseIdleVisit(c) PROVE ServerInv'
  <2>1. TypeOK'
    BY <1>4 DEF CloseIdleVisit, TypeOK, GPcs
  <2>2. (AcceptorHolds /\ OpenConnTracked)'
    BY <1>4 DEF CloseIdleVisit, TypeOK, AcceptorHolds, OpenConnTracked,
       Serving, MuFree, FirstPc, ListenerMatchesDone
  <2>3. (ListenerMatchesDone /\ ServeReportsShutdown)'
    BY <1>4 DEF CloseIdleVisit, TypeOK, ListenerMatchesDone,
       ServeReportsShutdown, MuFree, AcceptorHolds
  <2>4. LateIsLeaving'
    BY <1>4 DEF CloseIdleVisit, TypeOK, LateIsLeaving
  <2>5. ScanCovers'
    BY <1>4 DEF CloseIdleVisit, TypeOK, ScanCovers, AcceptorHolds,
       OpenConnTracked, ListenerMatchesDone, Serving, MuFree, FirstPc
  <2>6. BusyNotVictim'
    BY <1>4 DEF CloseIdleVisit, TypeOK, BusyNotVictim
  <2> QED
    BY <2>1, <2>2, <2>3, <2>4, <2>5, <2>6
<1>5. ASSUME CloseIdleClose PROVE ServerInv'
  <2>1. TypeOK'
    BY <1>5 DEF CloseIdleClose, TypeOK, GPcs
  <2>2. (AcceptorHolds /\ OpenConnTracked)'
    BY <1>5 DEF CloseIdleClose, TypeOK, AcceptorHolds, OpenConnTracked,
       Serving, MuFree, FirstPc, ListenerMatchesDone
  <2>3. (ListenerMatchesDone /\ ServeReportsShutdown)'
    BY <1>5 DEF CloseIdleClose, TypeOK, ListenerMatchesDone,
       ServeReportsShutdown, MuFree, AcceptorHolds
  <2>4. LateIsLeaving'
    BY <1>5 DEF CloseIdleClose, TypeOK, LateIsLeaving
  <2>5. ScanCovers'
    BY <1>5 DEF CloseIdleClose, TypeOK, ScanCovers, AcceptorHolds,
       OpenConnTracked, ListenerMatchesDone, Serving, MuFree, FirstPc
  <2>6. BusyNotVictim'
    BY <1>5 DEF CloseIdleClose, TypeOK, BusyNotVictim
  <2> QED
    BY <2>1, <2>2, <2>3, <2>4, <2>5, <2>6
<1>6. ASSUME CloseIdleEnd PROVE ServerInv'
  <2>1. TypeOK'
    BY <1>6 DEF CloseIdleEnd, TypeOK, GPcs
  <2>2. (AcceptorHolds /\ OpenConnTracked)'
    BY <1>6 DEF CloseIdleEnd, TypeOK, AcceptorHolds, OpenConnTracked,
       Serving, MuFree, FirstPc, ListenerMatchesDone
  <2>3. (ListenerMatchesDone /\ ServeReportsShutdown)'
    BY <1>6 DEF CloseIdleEnd, TypeOK, ListenerMatchesDone,
       ServeReportsShutdown, MuFree, AcceptorHolds
  <2>4. LateIsLeaving'
    BY <1>6 DEF CloseIdleEnd, TypeOK, LateIsLeaving
  <2>5. ScanCovers'
    BY <1>6 DEF CloseIdleEnd, TypeOK, ScanCovers, AcceptorHolds,
       OpenConnTracked, ListenerMatchesDone, Serving, MuFree, FirstPc
  <2>6. BusyNotVictim'
    BY <1>6 DEF CloseIdleEnd, TypeOK, BusyNotVictim
  <2> QED
    BY <2>1, <2>2, <2>3, <2>4, <2>5, <2>6
<1>7. ASSUME NumListeners PROVE ServerInv'
  <2>1. TypeOK'
    BY <1>7 DEF NumListeners, TypeOK, GPcs
  <2>2. (AcceptorHolds /\ OpenConnTracked)'
    BY <1>7 DEF NumListeners, TypeOK, AcceptorHolds, OpenConnTracked,
       Serving, MuFree, FirstPc, ListenerMatchesDone
  <2>3. (ListenerMatchesDone /\ ServeReportsShutdown)'
    BY <1>7 DEF NumListeners, TypeOK, ListenerMatchesDone,
       ServeReportsShutdown, MuFree, AcceptorHolds
  <2>4. LateIsLeaving'
    BY <1>7 DEF NumListeners, TypeOK, LateIsLeaving
  <2>5. ScanCovers'
    BY <1>7 DEF NumListeners, TypeOK, ScanCovers, AcceptorHolds,
       OpenConnTracked, ListenerMatchesDone, Serving, MuFree, FirstPc
  <2>6. BusyNotVictim'
    BY <1>7 DEF NumListeners, TypeOK, BusyNotVictim
  <2> QED
    BY <2>1, <2>2, <2>3, <2>4, <2>5, <2>6
<1>8. ASSUME PollTick PROVE ServerInv'
  <2>1. TypeOK'
    BY <1>8 DEF PollTick, TypeOK, GPcs
  <2>2. (AcceptorHolds /\ OpenConnTracked)'
    BY <1>8 DEF PollTick, TypeOK, AcceptorHolds, OpenConnTracked, Serving,
       MuFree, FirstPc, ListenerMatchesDone
  <2>3. (ListenerMatchesDone /\ ServeReportsShutdown)'
    BY <1>8 DEF PollTick, TypeOK, ListenerMatchesDone,
       ServeReportsShutdown, MuFree, AcceptorHolds
  <2>4. LateIsLeaving'
    BY <1>8 DEF PollTick, TypeOK, LateIsLeaving
  <2>5. ScanCovers'
    BY <1>8 DEF PollTick, TypeOK, ScanCovers, AcceptorHolds,
       OpenConnTracked, ListenerMatchesDone, Serving, MuFree, FirstPc
  <2>6. BusyNotVictim'
    BY <1>8 DEF PollTick, TypeOK, BusyNotVictim
  <2> QED
    BY <2>1, <2>2, <2>3, <2>4, <2>5, <2>6
<1>9. ASSUME PollExpired PROVE ServerInv'
  <2>1. TypeOK'
    BY <1>9 DEF PollExpired, TypeOK, GPcs
  <2>2. (AcceptorHolds /\ OpenConnTracked)'
    BY <1>9 DEF PollExpired, TypeOK, AcceptorHolds, OpenConnTracked,
       Serving, MuFree, FirstPc, ListenerMatchesDone
  <2>3. (ListenerMatchesDone /\ ServeReportsShutdown)'
    BY <1>9 DEF PollExpired, TypeOK, ListenerMatchesDone,
       ServeReportsShutdown, MuFree, AcceptorHolds
  <2>4. LateIsLeaving'
    BY <1>9 DEF PollExpired, TypeOK, LateIsLeaving
  <2>5. ScanCovers'
    BY <1>9 DEF PollExpired, TypeOK, ScanCovers, AcceptorHolds,
       OpenConnTracked, ListenerMatchesDone, Serving, MuFree, FirstPc
  <2>6. BusyNotVictim'
    BY <1>9 DEF PollExpired, TypeOK, BusyNotVictim
  <2> QED
    BY <2>1, <2>2, <2>3, <2>4, <2>5, <2>6
<1> QED
  BY <1>1, <1>2, <1>3, <1>4, <1>5, <1>6, <1>7, <1>8, <1>9 DEF ShutdownNext

\* Every step of the server, and stuttering, preserves the invariant.
LEMMA NextKeepsServerInv == ServerInv /\ [Next]_vars => ServerInv'
<1> SUFFICES ASSUME ServerInv, [Next]_vars PROVE ServerInv'
  OBVIOUS
<1>1. CASE AcceptorNext
  BY <1>1, AcceptorKeepsServerInv
<1>2. CASE \E c \in Conns : ConnNext(c)
  BY <1>2, ConnKeepsServerInv
<1>3. CASE StopNext
  BY <1>3, StopKeepsServerInv
<1>4. CASE ShutdownNext
  BY <1>4, ShutdownKeepsServerInv
<1>5. CASE UNCHANGED vars
  BY <1>5 DEF ServerInv, vars, serverVars, trackVars, acceptorVars, connVars,
     stopVars, scanVars, TypeOK, AcceptorHolds, OpenConnTracked, Serving,
     ListenerMatchesDone, ServeReportsShutdown, LateIsLeaving, ScanCovers,
     BusyNotVictim
<1> QED
  BY <1>1, <1>2, <1>3, <1>4, <1>5 DEF Next

\* The inductive invariant holds in every reachable state of the server.
THEOREM ServerInvariant == Spec => []ServerInv
<1> QED
  BY InitServerInv, NextKeepsServerInv, PTL DEF Spec

\* Type correctness of the server's state (server.go:37-44, conn.go:30-43).
THEOREM TypeCorrect == Spec => []TypeOK
<1>1. ServerInv => TypeOK
  BY DEF ServerInv
<1> QED
  BY <1>1, ServerInvariant, PTL

\* An open connection that is being served is always in activeConn: Close does
\* not lose a connection that it has to close (server.go:161-173, 197-216).
THEOREM ConnectionTracking == Spec => []OpenConnTracked
<1>1. ServerInv => OpenConnTracked
  BY DEF ServerInv
<1> QED
  BY <1>1, ServerInvariant, PTL

\* A connection whose goroutine ended is not in activeConn, although the
\* connection is added by the accept loop and removed by its own goroutine and
\* by the scans (server.go:83-84, 161-173, 197-216).
THEOREM NoConnectionKept == Spec => []DoneConnUntracked
<1>1. ServerInv => DoneConnUntracked
  BY DEF ServerInv, AcceptorHolds, DoneConnUntracked
<1> QED
  BY <1>1, ServerInvariant, PTL

\* After the done channel is closed nobody waits on an open listener
\* (server.go:178-181, 265-280).
THEOREM StopEndsServe == Spec => []NoAcceptAfterStop
<1>1. ServerInv => NoAcceptAfterStop
  BY DEF ServerInv, ListenerMatchesDone, NoAcceptAfterStop
<1> QED
  BY <1>1, ServerInvariant, PTL

\* An Accept that failed because of the stop is reported as ErrServerClosed
\* (server.go:60-65, 178-181).
THEOREM StopIsReported == Spec => []ServeReportsShutdown
<1>1. ServerInv => ServeReportsShutdown
  BY DEF ServerInv
<1> QED
  BY <1>1, ServerInvariant, PTL

\* No connection handles more than one request after inShutdown was set
\* (conn.go:110-113).
THEOREM LateRequests == Spec => []OneLateRequest
<1>1. ServerInv => OneLateRequest
  BY DEF ServerInv, LateIsLeaving, OneLateRequest
<1> QED
  BY <1>1, ServerInvariant, PTL

\* A Shutdown that returned nil left at most one open connection behind
\* (server.go:186).
THEOREM Stragglers == Spec => []AtMostOneStraggler
<1>1. ServerInv => AtMostOneStraggler
  BY DEF ServerInv, ScanCovers, AtMostOneStraggler
<1> QED
  BY <1>1, ServerInvariant, PTL

\* A step that closes the socket under a request begun before the stop is the
\* one of Close; the graceful stop's own scan never is (server.go:202-214).
THEOREM GraceProtects == Spec => GraceProtectsRequests
<1>1. ASSUME ServerInv, [Next]_vars, NEW c \in Conns, CutsRequest(c)
      PROVE  mPc = "closeLocked"
  <2> USE DEF CutsRequest
  <2> USE DEF serverVars, trackVars, acceptorVars, connVars, stopVars, scanVars
  <2>1. CASE UNCHANGED vars
    BY <1>1, <2>1 DEF vars
  <2>2. CASE AcceptorNext
    <3>1. ASSUME NEW d \in Conns, Accept(d) PROVE FALSE
      BY <1>1, <3>1 DEF Accept, ServerInv, TypeOK
    <3>2. ASSUME AcceptorNext, ~ \E d \in Conns : Accept(d)
          PROVE  UNCHANGED sock
      BY <3>2 DEF AcceptorNext, ListenAndServe, TrackListener, AcceptError,
         HandleAcceptError, TrackNew, StoreNewAndGo, LeaveServe
    <3> QED
      BY <1>1, <2>2, <3>1, <3>2
  <2>3. CASE \E d \in Conns : ConnNext(d)
    <3>1. PICK d \in Conns : ConnNext(d)
      BY <2>3
    <3>2. CASE SetActive(d) \/ HandlerReturns(d) \/ Exit(d)
      BY <1>1, <3>2 DEF SetActive, HandlerReturns, Exit, ServerInv, TypeOK
    <3>3. CASE ~(SetActive(d) \/ HandlerReturns(d) \/ Exit(d))
      <4>1. UNCHANGED sock
        BY <3>1, <3>3 DEF ConnNext, Handshake, ReadRequest, ReadError,
           ReadDeadline, HandlerPanics, KeepAlive, Peek, NewGetsOld
      <4> QED
        BY <1>1, <4>1
    <3> QED
      BY <3>2, <3>3
  <2>4. CASE StopNext
    BY <1>1, <2>4 DEF StopNext, Interrupt, GraceExpires, Select, CloseStore,
       CloseLocked
  <2>5. CASE ShutdownNext
    <3>1. CASE CloseIdleClose
      BY <1>1, <3>1 DEF CloseIdleClose, ServerInv, TypeOK, BusyNotVictim
    <3>2. CASE ~CloseIdleClose
      <4>1. UNCHANGED sock
        BY <2>5, <3>2 DEF ShutdownNext, ShutdownStore, ShutdownLocked,
           CloseIdleStart, CloseIdleVisit, CloseIdleEnd, NumListeners,
           PollTick, PollExpired
      <4> QED
        BY <1>1, <4>1
    <3> QED
      BY <3>1, <3>2
  <2> QED
    BY <1>1, <2>1, <2>2, <2>3, <2>4, <2>5 DEF Next
<1>2. ServerInv /\ [Next]_vars =>
          [\A c \in Conns : CutsRequest(c) => mPc = "closeLocked"]_vars
  BY <1>1
<1> QED
  BY <1>2, ServerInvariant, PTL DEF Spec, GraceProtectsRequests
=============================================================================
