------------------------------ MODULE MqttServer ------------------------------
(***************************************************************************)
(* The MQTT listener and its connections: pkg/mqtt/server/server.go and    *)
(* conn.go, with the graceful stop of pkg/server/mqtt/mqtt.go on top.      *)
(*                                                                         *)
(* The goroutines are                                                      *)
(*   - the acceptor (ListenAndServe, Serve): aPc;                          *)
(*   - one goroutine for every accepted connection (conn.serve): cPc[c];   *)
(*   - the interrupt function of the run group (mqtt.Server.Shutdown): mPc;*)
(*   - the goroutine it starts for mqttserver.Server.Shutdown: gPc.        *)
(*                                                                         *)
(* srv.mu is held across several steps only by closeIdleConns, which reads *)
(* the state of a connection and closes it in two steps while the          *)
(* connection's goroutine runs on; every other critical section touches    *)
(* only what the mutex guards and is one step that needs MuFree.           *)
(* Time is a choice: a read deadline, the 5 seconds a new connection is    *)
(* given and the grace period may pass at any moment.                      *)
(***************************************************************************)
EXTENDS Naturals, FiniteSets

CONSTANTS
    Conns,        \* the connections clients open, each accepted at most once
    NoConn,       \* no connection
    UseTLS,       \* TLSConfig is set: connections start with a handshake
    ReadTimeout,  \* Server.ReadTimeout > 0: a silent client's read fails
    GracePeriods  \* whether options.gracePeriod > 0 (Shutdown) or not (Close);
                  \* with both values the option is chosen when it is read

ASSUME ServerAssumption ==
    /\ NoConn \notin Conns
    /\ UseTLS \in BOOLEAN
    /\ ReadTimeout \in BOOLEAN
    /\ GracePeriods \subseteq BOOLEAN

VARIABLES
    inShutdown,   \* Server.inShutdown
    listening,    \* the net.Listener is open
    listeners,    \* the listener is in Server.listeners
    doneClosed,   \* Server.doneChan is closed
    activeConn,   \* Server.activeConn
    totalConn,    \* Server.totalConn
    aPc, aConn,   \* acceptor: control, and the connection it has in hand
    aErr,         \* acceptor: the last error of Accept
    serveErr,     \* what ListenAndServe returned
    cPc,          \* control of a connection's goroutine
    curState,     \* conn.curState; "NewOld" is StateNew set over 5 s ago
    sock,         \* conn.rwc is open on this side
    buffered,     \* conn.bufr holds a whole request
    late,         \* history: requests handled since inShutdown was set
    mPc,          \* control of mqtt.Server.Shutdown
    ctxDone,      \* the grace period is over
    gPc,          \* control of mqttserver.Server.Shutdown
    todo, victim, \* closeIdleConns: connections to visit, and to close next
    quiescent     \* closeIdleConns: its result so far

serverVars   == <<inShutdown, listening, listeners, doneClosed>>
trackVars    == <<activeConn, totalConn>>
acceptorVars == <<aPc, aConn, aErr, serveErr>>
connVars     == <<cPc, curState, sock, buffered, late>>
stopVars     == <<mPc, ctxDone>>
scanVars     == <<gPc, todo, victim, quiescent>>
vars == <<serverVars, trackVars, acceptorVars, connVars, stopVars, scanVars>>

APcs == {"start", "track", "accept", "error", "trackConn", "storeNew",
         "leave", "returned"}
AErrs == {"none", "closed", "temporary", "permanent"}
ServeErrs == {"none", "ErrServerClosed", "listen", "closed", "permanent"}
CPcs == {"none", "accepted", "handshake", "read", "gotRequest", "gotError",
         "handling", "keepAlive", "peek", "exit", "done"}
ConnStates == {"Zero", "New", "NewOld", "Active", "Idle", "Closed"}
MPcs == {"running", "select", "closeStore", "closeLocked", "done"}
GPcs == {"none", "store", "lock", "idleStart", "scan", "closing",
         "numListeners", "poll", "quiet", "expired"}

TypeOK ==
    /\ inShutdown \in BOOLEAN
    /\ listening \in BOOLEAN
    /\ listeners \in BOOLEAN
    /\ doneClosed \in BOOLEAN
    /\ activeConn \in SUBSET Conns
    /\ totalConn \in Nat
    /\ aPc \in APcs
    /\ aConn \in Conns \cup {NoConn}
    /\ aErr \in AErrs
    /\ serveErr \in ServeErrs
    /\ cPc \in [Conns -> CPcs]
    /\ curState \in [Conns -> ConnStates]
    /\ sock \in [Conns -> BOOLEAN]
    /\ buffered \in [Conns -> BOOLEAN]
    /\ late \in [Conns -> Nat]
    /\ mPc \in MPcs
    /\ ctxDone \in BOOLEAN
    /\ gPc \in GPcs
    /\ todo \in SUBSET Conns
    /\ victim \in Conns \cup {NoConn}
    /\ quiescent \in BOOLEAN

Init ==
    /\ inShutdown = FALSE /\ listening = FALSE
    /\ listeners = FALSE /\ doneClosed = FALSE
    /\ activeConn = {} /\ totalConn = 0
    /\ aPc = "start" /\ aConn = NoConn /\ aErr = "none" /\ serveErr = "none"
    /\ cPc = [c \in Conns |-> "none"]
    /\ curState = [c \in Conns |-> "Zero"]
    /\ sock = [c \in Conns |-> FALSE]
    /\ buffered = [c \in Conns |-> FALSE]
    /\ late = [c \in Conns |-> 0]
    /\ mPc = "running" /\ ctxDone = FALSE
    /\ gPc = "none" /\ todo = {} /\ victim = NoConn /\ quiescent = FALSE

\* srv.mu can be locked.
MuFree == gPc \notin {"scan", "closing"}

(***************************************************************************)
(* The acceptor.                                                           *)
(***************************************************************************)

\* ListenAndServe up to the call of Serve: refused in shutdown, or net.Listen
\* fails, or the listener is open.
ListenAndServe ==
    /\ aPc = "start"
    /\ \/ /\ inShutdown
          /\ serveErr' = "ErrServerClosed" /\ aPc' = "returned"
          /\ UNCHANGED listening
       \/ /\ ~inShutdown
          /\ serveErr' = "listen" /\ aPc' = "returned"
          /\ UNCHANGED listening
       \/ /\ ~inShutdown
          /\ listening' = TRUE /\ aPc' = "track"
          /\ UNCHANGED serveErr
    /\ UNCHANGED <<inShutdown, listeners, doneClosed, aConn, aErr>>
    /\ UNCHANGED <<trackVars, connVars, stopVars, scanVars>>

\* Mutant: the listener is tracked without asking whether the server stops.
TrackListenerUnchecked ==
    /\ aPc = "track" /\ MuFree
    /\ listeners' = TRUE /\ aPc' = "accept"
    /\ UNCHANGED <<inShutdown, listening, doneClosed, aConn, aErr, serveErr>>
    /\ UNCHANGED <<trackVars, connVars, stopVars, scanVars>>

\* Serve: trackListener(add); a refusal runs the deferred l.Close.
TrackListener ==
    /\ aPc = "track" /\ MuFree
    /\ \/ /\ inShutdown
          /\ listening' = FALSE /\ aPc' = "returned"
          /\ serveErr' = "ErrServerClosed"
          /\ UNCHANGED listeners
       \/ /\ ~inShutdown
          /\ listeners' = TRUE /\ aPc' = "accept"
          /\ UNCHANGED <<listening, serveErr>>
    /\ UNCHANGED <<inShutdown, doneClosed, aConn, aErr>>
    /\ UNCHANGED <<trackVars, connVars, stopVars, scanVars>>

\* Accept returns a connection; the acceptor has it in hand.
Accept(c) ==
    /\ aPc = "accept" /\ listening /\ cPc[c] = "none"
    /\ aPc' = "trackConn" /\ aConn' = c
    /\ cPc' = [cPc EXCEPT ![c] = "accepted"]
    /\ sock' = [sock EXCEPT ![c] = TRUE]
    /\ UNCHANGED <<aErr, serveErr, curState, buffered, late>>
    /\ UNCHANGED <<serverVars, trackVars, stopVars, scanVars>>

\* Accept fails: the listener was closed, or the operating system refused.
AcceptError(kind) ==
    /\ aPc = "accept"
    /\ (kind = "closed") <=> ~listening
    /\ aPc' = "error" /\ aErr' = kind
    /\ UNCHANGED <<aConn, serveErr>>
    /\ UNCHANGED <<serverVars, trackVars, connVars, stopVars, scanVars>>

\* Serve's error branch: the done channel first, then Temporary().
HandleAcceptError ==
    /\ aPc = "error" /\ MuFree
    /\ \/ /\ doneClosed
          /\ serveErr' = "ErrServerClosed" /\ aPc' = "leave"
       \/ /\ ~doneClosed /\ aErr = "temporary"
          /\ aPc' = "accept" /\ UNCHANGED serveErr
       \/ /\ ~doneClosed /\ aErr # "temporary"
          /\ serveErr' = aErr /\ aPc' = "leave"
    /\ UNCHANGED <<aConn, aErr>>
    /\ UNCHANGED <<serverVars, trackVars, connVars, stopVars, scanVars>>

\* Where conn.serve starts.
FirstPc == IF UseTLS THEN "handshake" ELSE "read"

\* Mutant: the goroutine is started before the connection is tracked.
TrackNewAfterGo ==
    /\ aPc = "trackConn" /\ MuFree
    /\ \/ /\ cPc[aConn] = "accepted"
          /\ cPc' = [cPc EXCEPT ![aConn] = FirstPc]
          /\ UNCHANGED <<activeConn, totalConn, aPc>>
       \/ /\ cPc[aConn] # "accepted"
          /\ activeConn' = activeConn \cup {aConn}
          /\ totalConn' = totalConn + 1
          /\ aPc' = "accept"
          /\ UNCHANGED cPc
    /\ UNCHANGED <<aConn, aErr, serveErr, curState, sock, buffered, late>>
    /\ UNCHANGED <<serverVars, stopVars, scanVars>>

\* setState(StateNew): trackConn(c, true) under the mutex ...
TrackNew ==
    /\ aPc = "trackConn" /\ MuFree
    /\ activeConn' = activeConn \cup {aConn}
    /\ totalConn' = totalConn + 1
    /\ aPc' = "storeNew"
    /\ UNCHANGED <<aConn, aErr, serveErr>>
    /\ UNCHANGED <<serverVars, connVars, stopVars, scanVars>>

\* ... then curState is stored, and the connection's goroutine starts.
StoreNewAndGo ==
    /\ aPc = "storeNew"
    /\ curState' = [curState EXCEPT ![aConn] = "New"]
    /\ cPc' = [cPc EXCEPT ![aConn] = FirstPc]
    /\ aPc' = "accept" /\ aConn' = NoConn
    /\ UNCHANGED <<aErr, serveErr, sock, buffered, late>>
    /\ UNCHANGED <<serverVars, trackVars, stopVars, scanVars>>

\* Serve returns: the deferred trackListener(false), then l.Close.
LeaveServe ==
    /\ aPc = "leave" /\ MuFree
    /\ listeners' = FALSE /\ listening' = FALSE
    /\ aPc' = "returned"
    /\ UNCHANGED <<inShutdown, doneClosed, aConn, aErr, serveErr>>
    /\ UNCHANGED <<trackVars, connVars, stopVars, scanVars>>

(***************************************************************************)
(* A connection's goroutine, conn.serve.                                   *)
(***************************************************************************)

\* The TLS handshake succeeds, or fails: closed socket, deadline, bad peer.
Handshake(c) ==
    /\ cPc[c] = "handshake"
    /\ \/ sock[c] /\ cPc' = [cPc EXCEPT ![c] = "read"]
       \/ cPc' = [cPc EXCEPT ![c] = "exit"]
    /\ UNCHANGED <<curState, sock, buffered, late>>
    /\ UNCHANGED <<serverVars, trackVars, acceptorVars, stopVars, scanVars>>

\* readRequest returns a packet, from the socket or from what bufr still
\* holds; more whole packets may be behind it.
ReadRequest(c) ==
    /\ cPc[c] = "read"
    /\ sock[c] \/ buffered[c]
    /\ cPc' = [cPc EXCEPT ![c] = "gotRequest"]
    /\ \E more \in BOOLEAN : buffered' = [buffered EXCEPT ![c] = more]
    /\ UNCHANGED <<curState, sock, late>>
    /\ UNCHANGED <<serverVars, trackVars, acceptorVars, stopVars, scanVars>>

\* readRequest fails: end of file, closed socket, malformed packet or
\* unsupported version.
ReadError(c) ==
    /\ cPc[c] = "read"
    /\ cPc' = [cPc EXCEPT ![c] = "gotError"]
    /\ UNCHANGED <<curState, sock, buffered, late>>
    /\ UNCHANGED <<serverVars, trackVars, acceptorVars, stopVars, scanVars>>

\* Mutant: the deadline is set after the read, too late for a silent client.
ReadDeadlineAfterRead(c) ==
    /\ cPc[c] = "read" /\ ReadTimeout /\ ~sock[c]
    /\ cPc' = [cPc EXCEPT ![c] = "gotError"]
    /\ UNCHANGED <<curState, sock, buffered, late>>
    /\ UNCHANGED <<serverVars, trackVars, acceptorVars, stopVars, scanVars>>

\* The read deadline set at the start of readRequest passes.
ReadDeadline(c) ==
    /\ cPc[c] = "read" /\ ReadTimeout
    /\ cPc' = [cPc EXCEPT ![c] = "gotError"]
    /\ UNCHANGED <<curState, sock, buffered, late>>
    /\ UNCHANGED <<serverVars, trackVars, acceptorVars, stopVars, scanVars>>

\* setState(StateActive), after the read; an error closes the connection.
SetActive(c) ==
    /\ curState' = [curState EXCEPT ![c] = "Active"]
    /\ \/ /\ cPc[c] = "gotRequest"
          /\ cPc' = [cPc EXCEPT ![c] = "handling"]
          /\ late' = [late EXCEPT ![c] = IF inShutdown THEN @ + 1 ELSE @]
          /\ UNCHANGED sock
       \/ /\ cPc[c] = "gotError"
          /\ cPc' = [cPc EXCEPT ![c] = "exit"]
          /\ sock' = [sock EXCEPT ![c] = FALSE]
          /\ UNCHANGED late
    /\ UNCHANGED buffered
    /\ UNCHANGED <<serverVars, trackVars, acceptorVars, stopVars, scanVars>>

\* The handler returns, having closed the connection or not, and the
\* goroutine sets StateIdle.
HandlerReturns(c) ==
    /\ cPc[c] = "handling"
    /\ \E open \in {sock[c], FALSE} : sock' = [sock EXCEPT ![c] = open]
    /\ curState' = [curState EXCEPT ![c] = "Idle"]
    /\ cPc' = [cPc EXCEPT ![c] = "keepAlive"]
    /\ UNCHANGED <<buffered, late>>
    /\ UNCHANGED <<serverVars, trackVars, acceptorVars, stopVars, scanVars>>

\* The handler panics; serve recovers and leaves.
HandlerPanics(c) ==
    /\ cPc[c] = "handling"
    /\ cPc' = [cPc EXCEPT ![c] = "exit"]
    /\ UNCHANGED <<curState, sock, buffered, late>>
    /\ UNCHANGED <<serverVars, trackVars, acceptorVars, stopVars, scanVars>>

\* Mutant: the loop goes on without looking at inShutdown.
KeepAliveUnchecked(c) ==
    /\ cPc[c] = "keepAlive"
    /\ \E next \in {"peek", "read"} : cPc' = [cPc EXCEPT ![c] = next]
    /\ UNCHANGED <<curState, sock, buffered, late>>
    /\ UNCHANGED <<serverVars, trackVars, acceptorVars, stopVars, scanVars>>

\* doKeepAlives: leave in shutdown; else wait for the next packet with the
\* idle timeout (Peek) if there is one, or go straight to the next read.
KeepAlive(c) ==
    /\ cPc[c] = "keepAlive"
    /\ \/ inShutdown /\ cPc' = [cPc EXCEPT ![c] = "exit"]
       \/ /\ ~inShutdown
          /\ \E next \in {"peek", "read"} : cPc' = [cPc EXCEPT ![c] = next]
    /\ UNCHANGED <<curState, sock, buffered, late>>
    /\ UNCHANGED <<serverVars, trackVars, acceptorVars, stopVars, scanVars>>

\* bufr.Peek(2) succeeds (filling bufr from an open socket) or fails.
Peek(c) ==
    /\ cPc[c] = "peek"
    /\ \/ /\ cPc' = [cPc EXCEPT ![c] = "read"]
          /\ \E whole \in {buffered[c], buffered[c] \/ sock[c]} :
                buffered' = [buffered EXCEPT ![c] = whole]
       \/ /\ cPc' = [cPc EXCEPT ![c] = "exit"]
          /\ UNCHANGED buffered
    /\ UNCHANGED <<curState, sock, late>>
    /\ UNCHANGED <<serverVars, trackVars, acceptorVars, stopVars, scanVars>>

\* serve's deferred function: close the socket, setState(StateClosed).
Exit(c) ==
    /\ cPc[c] = "exit" /\ MuFree
    /\ sock' = [sock EXCEPT ![c] = FALSE]
    /\ activeConn' = activeConn \ {c}
    /\ curState' = [curState EXCEPT ![c] = "Closed"]
    /\ cPc' = [cPc EXCEPT ![c] = "done"]
    /\ UNCHANGED <<totalConn, buffered, late>>
    /\ UNCHANGED <<serverVars, acceptorVars, stopVars, scanVars>>

\* Five seconds pass for a connection that is still in StateNew.
NewGetsOld(c) ==
    /\ curState[c] = "New"
    /\ curState' = [curState EXCEPT ![c] = "NewOld"]
    /\ UNCHANGED <<cPc, sock, buffered, late>>
    /\ UNCHANGED <<serverVars, trackVars, acceptorVars, stopVars, scanVars>>

(***************************************************************************)
(* mqtt.Server.Shutdown, called once when the run group is interrupted.    *)
(***************************************************************************)

\* Without a grace period Close at once; with one start the graceful stop.
Interrupt ==
    /\ mPc = "running"
    /\ \/ FALSE \in GracePeriods /\ mPc' = "closeStore" /\ UNCHANGED gPc
       \/ TRUE \in GracePeriods /\ mPc' = "select" /\ gPc' = "store"
    /\ UNCHANGED <<ctxDone, todo, victim, quiescent>>
    /\ UNCHANGED <<serverVars, trackVars, acceptorVars, connVars>>

GraceExpires ==
    /\ mPc = "select" /\ ~ctxDone
    /\ ctxDone' = TRUE
    /\ UNCHANGED mPc
    /\ UNCHANGED <<serverVars, trackVars, acceptorVars, connVars, scanVars>>

\* The select between ctx.Done() and stopped.
Select ==
    /\ mPc = "select"
    /\ \/ ctxDone /\ mPc' = "closeStore"
       \/ gPc \in {"quiet", "expired"} /\ mPc' = "done"
    /\ UNCHANGED ctxDone
    /\ UNCHANGED <<serverVars, trackVars, acceptorVars, connVars, scanVars>>

\* Close: inShutdown is stored before the mutex is taken.
CloseStore ==
    /\ mPc = "closeStore"
    /\ inShutdown' = TRUE /\ mPc' = "closeLocked"
    /\ UNCHANGED <<listening, listeners, doneClosed, ctxDone>>
    /\ UNCHANGED <<trackVars, acceptorVars, connVars, scanVars>>

\* Mutant: Close drops the connections without closing them.
CloseLockedNoClose ==
    /\ mPc = "closeLocked" /\ MuFree
    /\ doneClosed' = TRUE
    /\ listening' = (listening /\ ~listeners)
    /\ activeConn' = {}
    /\ mPc' = "done"
    /\ UNCHANGED <<inShutdown, listeners, ctxDone, totalConn>>
    /\ UNCHANGED <<connVars, acceptorVars, scanVars>>

\* Close under the mutex: done channel, listeners, every tracked connection.
CloseLocked ==
    /\ mPc = "closeLocked" /\ MuFree
    /\ doneClosed' = TRUE
    /\ listening' = (listening /\ ~listeners)
    /\ sock' = [c \in Conns |-> sock[c] /\ c \notin activeConn]
    /\ activeConn' = {}
    /\ mPc' = "done"
    /\ UNCHANGED <<inShutdown, listeners, ctxDone, totalConn>>
    /\ UNCHANGED <<cPc, curState, buffered, late, acceptorVars, scanVars>>

(***************************************************************************)
(* mqttserver.Server.Shutdown, in a goroutine of its own.                  *)
(***************************************************************************)

ShutdownStore ==
    /\ gPc = "store"
    /\ inShutdown' = TRUE /\ gPc' = "lock"
    /\ UNCHANGED <<listening, listeners, doneClosed>>
    /\ UNCHANGED <<todo, victim, quiescent>>
    /\ UNCHANGED <<trackVars, acceptorVars, connVars, stopVars>>

\* Mutant: the done channel is left open.
ShutdownLockedNoDone ==
    /\ gPc = "lock"
    /\ listening' = (listening /\ ~listeners)
    /\ gPc' = "idleStart"
    /\ UNCHANGED <<inShutdown, listeners, doneClosed>>
    /\ UNCHANGED <<todo, victim, quiescent>>
    /\ UNCHANGED <<trackVars, acceptorVars, connVars, stopVars>>

\* Under the mutex: closeListenersLocked, closeDoneChanLocked.
ShutdownLocked ==
    /\ gPc = "lock"
    /\ listening' = (listening /\ ~listeners)
    /\ doneClosed' = TRUE
    /\ gPc' = "idleStart"
    /\ UNCHANGED <<inShutdown, listeners>>
    /\ UNCHANGED <<todo, victim, quiescent>>
    /\ UNCHANGED <<trackVars, acceptorVars, connVars, stopVars>>

\* closeIdleConns locks the mutex and starts its loop.
CloseIdleStart ==
    /\ gPc = "idleStart"
    /\ gPc' = "scan" /\ todo' = activeConn /\ quiescent' = TRUE
    /\ UNCHANGED victim
    /\ UNCHANGED <<serverVars, trackVars, acceptorVars, connVars, stopVars>>

\* Mutant: a connection that is not idle does not make the result false.
CloseIdleVisitKeepsQuiescent(c) ==
    /\ gPc = "scan" /\ c \in todo
    /\ todo' = todo \ {c}
    /\ \/ /\ curState[c] \in {"Idle", "NewOld"}
          /\ victim' = c /\ gPc' = "closing"
       \/ /\ curState[c] \notin {"Idle", "NewOld"}
          /\ UNCHANGED <<victim, gPc>>
    /\ UNCHANGED quiescent
    /\ UNCHANGED <<serverVars, trackVars, acceptorVars, connVars, stopVars>>

\* Mutant: the loop does not go on to the next connection after a busy one.
CloseIdleVisitNoContinue(c) ==
    /\ gPc = "scan" /\ c \in todo
    /\ todo' = todo \ {c}
    /\ victim' = c /\ gPc' = "closing"
    /\ quiescent' = (quiescent /\ curState[c] \in {"Idle", "NewOld"})
    /\ UNCHANGED <<serverVars, trackVars, acceptorVars, connVars, stopVars>>

\* One turn of the loop: getState, and for an idle connection the decision
\* to close it. A connection with no state stored yet counts as busy.
CloseIdleVisit(c) ==
    /\ gPc = "scan" /\ c \in todo
    /\ todo' = todo \ {c}
    /\ \/ /\ curState[c] \in {"Idle", "NewOld"}
          /\ victim' = c /\ gPc' = "closing"
          /\ UNCHANGED quiescent
       \/ /\ curState[c] \notin {"Idle", "NewOld"}
          /\ quiescent' = FALSE
          /\ UNCHANGED <<victim, gPc>>
    /\ UNCHANGED <<serverVars, trackVars, acceptorVars, connVars, stopVars>>

\* rwc.Close and delete, for the connection just found idle.
CloseIdleClose ==
    /\ gPc = "closing"
    /\ sock' = [sock EXCEPT ![victim] = FALSE]
    /\ activeConn' = activeConn \ {victim}
    /\ victim' = NoConn /\ gPc' = "scan"
    /\ UNCHANGED <<totalConn, cPc, curState, buffered, late, todo, quiescent>>
    /\ UNCHANGED <<serverVars, acceptorVars, stopVars>>

\* Mutant: the mutex is not released on the way out with a false result.
CloseIdleEndKeepsMutex ==
    /\ gPc = "scan" /\ todo = {} /\ quiescent
    /\ gPc' = "numListeners"
    /\ UNCHANGED <<todo, victim, quiescent>>
    /\ UNCHANGED <<serverVars, trackVars, acceptorVars, connVars, stopVars>>

\* The loop is over and the mutex released.
CloseIdleEnd ==
    /\ gPc = "scan" /\ todo = {}
    /\ gPc' = IF quiescent THEN "numListeners" ELSE "poll"
    /\ UNCHANGED <<todo, victim, quiescent>>
    /\ UNCHANGED <<serverVars, trackVars, acceptorVars, connVars, stopVars>>

\* numListeners() == 0, the second half of the condition.
NumListeners ==
    /\ gPc = "numListeners"
    /\ gPc' = IF listeners THEN "poll" ELSE "quiet"
    /\ UNCHANGED <<todo, victim, quiescent>>
    /\ UNCHANGED <<serverVars, trackVars, acceptorVars, connVars, stopVars>>

PollTick ==
    /\ gPc = "poll"
    /\ gPc' = "idleStart"
    /\ UNCHANGED <<todo, victim, quiescent>>
    /\ UNCHANGED <<serverVars, trackVars, acceptorVars, connVars, stopVars>>

PollExpired ==
    /\ gPc = "poll" /\ ctxDone
    /\ gPc' = "expired"
    /\ UNCHANGED <<todo, victim, quiescent>>
    /\ UNCHANGED <<serverVars, trackVars, acceptorVars, connVars, stopVars>>

(***************************************************************************)
(* The specification.                                                      *)
(***************************************************************************)

AcceptorNext ==
    \/ ListenAndServe
    \/ TrackListener
    \/ \E c \in Conns : Accept(c)
    \/ \E kind \in AErrs \ {"none"} : AcceptError(kind)
    \/ HandleAcceptError
    \/ TrackNew
    \/ StoreNewAndGo
    \/ LeaveServe

ConnNext(c) ==
    \/ Handshake(c)
    \/ ReadRequest(c)
    \/ ReadError(c)
    \/ ReadDeadline(c)
    \/ SetActive(c)
    \/ HandlerReturns(c)
    \/ HandlerPanics(c)
    \/ KeepAlive(c)
    \/ Peek(c)
    \/ Exit(c)
    \/ NewGetsOld(c)

StopNext ==
    \/ Interrupt
    \/ GraceExpires
    \/ Select
    \/ CloseStore
    \/ CloseLocked

ShutdownNext ==
    \/ ShutdownStore
    \/ ShutdownLocked
    \/ CloseIdleStart
    \/ \E c \in Conns : CloseIdleVisit(c)
    \/ CloseIdleClose
    \/ CloseIdleEnd
    \/ NumListeners
    \/ PollTick
    \/ PollExpired

Next ==
    \/ AcceptorNext
    \/ \E c \in Conns : ConnNext(c)
    \/ StopNext
    \/ ShutdownNext

Spec == Init /\ [][Next]_vars

(***************************************************************************)
(* Fairness. Goroutines are scheduled and mutexes granted (WF); deadlines  *)
(* and the grace period pass (WF); the select of Shutdown, which picks     *)
(* among ready cases at random, does not take the ticker for ever once the *)
(* context is done (SF). Nothing says that a handler returns: publishing   *)
(* has no timeout by default, and the publisher is stopped before the      *)
(* server (cmd/server.go:161-165, kafka.go:282-292).                       *)
(***************************************************************************)
AcceptorFairness ==
    /\ WF_vars(ListenAndServe)
    /\ WF_vars(TrackListener)
    /\ WF_vars(AcceptError("closed"))
    /\ WF_vars(HandleAcceptError)
    /\ WF_vars(TrackNew)
    /\ WF_vars(StoreNewAndGo)
    /\ WF_vars(LeaveServe)

ConnFairness(c) ==
    /\ WF_vars(Handshake(c))
    /\ WF_vars(~sock[c] /\ ReadError(c))
    /\ WF_vars(ReadDeadline(c))
    /\ WF_vars(SetActive(c))
    /\ WF_vars(KeepAlive(c))
    /\ WF_vars(Peek(c))
    /\ WF_vars(Exit(c))

StopFairness ==
    /\ WF_vars(GraceExpires)
    /\ WF_vars(Select)
    /\ WF_vars(CloseStore)
    /\ WF_vars(CloseLocked)
    /\ WF_vars(ShutdownNext)
    /\ SF_vars(PollExpired)

FairSpec ==
    /\ Spec
    /\ AcceptorFairness
    /\ \A c \in Conns : ConnFairness(c)
    /\ StopFairness

(***************************************************************************)
(* Properties.                                                             *)
(***************************************************************************)

\* The goroutine of c has been started and has not ended.
Serving(c) == cPc[c] \notin {"none", "accepted", "done"}

\* A connection that is being served over an open socket is in activeConn, so
\* Close and closeIdleConns can find it: nothing removes it from the map
\* (server.go:168-171, 212-213, 291) without closing its socket first.
OpenConnTracked ==
    \A c \in Conns : Serving(c) /\ sock[c] => c \in activeConn

\* A connection whose goroutine has ended is not in activeConn: setState(New)
\* comes before "go c.serve" (server.go:83-84), so the entry cannot be added
\* after StateClosed removed it and stay for ever.
DoneConnUntracked ==
    \A c \in Conns : cPc[c] = "done" => c \notin activeConn

\* When Accept failed because the server closed its own listener, Serve returns
\* ErrServerClosed and never the raw accept error: the listener and the done
\* channel are closed in one critical section (server.go:178-181, 163-167).
ServeReportsShutdown ==
    aPc \in {"leave", "returned"} /\ aErr = "closed"
        => serveErr = "ErrServerClosed"

\* Once the done channel is closed no acceptor waits on an open listener, even
\* when the stop came between net.Listen and trackListener (server.go:121, 272).
NoAcceptAfterStop ==
    doneClosed /\ aPc = "accept" => ~listening

\* After inShutdown is set a connection handles at most one more request,
\* whatever its client has pipelined into the read buffer (conn.go:110-113).
OneLateRequest ==
    \A c \in Conns : late[c] <= 1

\* A graceful stop that reports success (Shutdown returned nil) leaves at most
\* one open connection behind: the one Accept had delivered when the listener
\* was closed. Every connection tracked when the last scan began is closed or
\* ending (server.go:186, 197-216).
AtMostOneStraggler ==
    gPc = "quiet" =>
        \A c, d \in Conns : sock[c] /\ sock[d] => c = d

\* A step closes the socket under a request begun before the stop.
CutsRequest(c) ==
    /\ cPc[c] = "handling" /\ cPc'[c] = "handling" /\ late[c] = 0
    /\ sock[c] /\ ~sock'[c]

\* A request that was being handled when the stop began keeps its connection,
\* and so its answer, through every scan of the graceful stop: only Close, once
\* the grace period is over, may cut it, although the scan reads the state of a
\* connection and closes it in two steps (server.go:202-214, conn.go:93-109).
GraceProtectsRequests ==
    [][\A c \in Conns : CutsRequest(c) => mPc = "closeLocked"]_vars

(***************************************************************************)
(* The inductive invariant behind the safety properties.                   *)
(***************************************************************************)

\* The acceptor has exactly the accepted connection in hand, and a connection
\* without goroutine is closed and untracked.
AcceptorHolds ==
    /\ aPc \in {"trackConn", "storeNew"} =>
           aConn \in Conns /\ cPc[aConn] = "accepted"
    /\ \A c \in Conns :
           /\ cPc[c] = "accepted" =>
                  c = aConn /\ aPc \in {"trackConn", "storeNew"}
           /\ cPc[c] \in {"none", "done"} => ~sock[c] /\ c \notin activeConn
           /\ cPc[c] = "accepted" /\ aPc = "storeNew" /\ sock[c] =>
                  c \in activeConn

\* A tracked listener is open exactly until the done channel is closed.
ListenerMatchesDone ==
    /\ listeners <=>
           aPc \in {"accept", "error", "trackConn", "storeNew", "leave"}
    /\ aPc = "track" => listening
    /\ listeners => (listening <=> ~doneClosed)
    /\ doneClosed => inShutdown
    /\ mPc = "closeLocked" \/ gPc \notin {"none", "store"} => inShutdown
    /\ gPc \notin {"none", "store", "lock"} => doneClosed
    /\ aErr = "closed" => aPc \in {"error", "leave", "returned"}
    /\ aErr = "closed" /\ aPc = "error" => doneClosed

\* A connection that handled a request since the stop began is on its way out.
LateIsLeaving ==
    \A c \in Conns :
        /\ late[c] <= 1
        /\ late[c] = 1 =>
               /\ inShutdown
               /\ cPc[c] \in {"handling", "keepAlive", "exit", "done"}

\* What a scan has passed is closed, or has made the result false; only a
\* connection the acceptor could not track yet is neither.
ScanCovers ==
    /\ gPc = "closing" => victim \in Conns
    /\ gPc \in {"scan", "closing"} =>
           \A c \in Conns : sock[c] =>
               \/ c \in todo
               \/ gPc = "closing" /\ c = victim
               \/ ~quiescent
               \/ cPc[c] = "accepted" /\ aPc = "trackConn"
    /\ gPc \in {"numListeners", "quiet"} =>
           \A c, d \in Conns : sock[c] /\ sock[d] => c = d

\* A connection that handles a request is Active, and the one that the scan is
\* about to close handles none that was begun before the stop.
BusyNotVictim ==
    \A c \in Conns : cPc[c] = "handling" =>
        /\ curState[c] = "Active"
        /\ gPc = "closing" /\ victim = c => late[c] # 0

\* The strengthening of the safety properties that every step preserves
\* (server.go:47-86, 161-216 and conn.go:59-143 together).
ServerInv ==
    /\ TypeOK
    /\ AcceptorHolds
    /\ OpenConnTracked
    /\ ListenerMatchesDone
    /\ ServeReportsShutdown
    /\ LateIsLeaving
    /\ ScanCovers
    /\ BusyNotVictim

\* mqtt.Server.Shutdown returns: by quiescence, or by the grace period followed
\* by Close, which gets the mutex in the end (mqtt.go:74-98).
ShutdownReturns == (mPc # "running") ~> (mPc = "done")

\* After a stop every connection's goroutine ends, also that of a connection
\* accepted while Close ran, which no Close will ever see: the read deadline or
\* the keep-alive check ends it (conn.go:47-49, 110-113). The exception is a
\* handler that never returns, such as a synchronous publish to a producer that
\* is closed already (kafka.go:282-292). It keeps its goroutine; its connection
\* is closed all the same when its request was there before the stop, unless
\* the graceful stop saw the grace period expire, in which case both cases of
\* the select may be ready and Close is not called (mqtt.go:91-97).
ConnsDrain ==
    \A c \in Conns :
        inShutdown ~>
            \/ cPc[c] \in {"none", "done"}
            \/ [](/\ cPc[c] = "handling"
                  /\ sock[c] => late[c] # 0 \/ gPc = "expired")

\* "Shutdown gracefully shuts down the server by waiting for specified amount
\* of time (by gracePeriod) for connections to return to idle and then shut
\* down" (mqtt.go:71-73): when the wait ended by quiescence, before the grace
\* period, no connection is still being served over an open socket.
GracefulStopDrains ==
    gPc = "quiet" /\ ~ctxDone => \A c \in Conns : ~(Serving(c) /\ sock[c])
=============================================================================
