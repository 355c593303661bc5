------------------------------- MODULE RunGroup -------------------------------
(***************************************************************************)
(* The process: cmd/root.go runs the actors of cmd/server.go in a          *)
(* run.Group, which interrupts all of them, in the order they were added,  *)
(* when the first returns, and ends when the last has returned. The        *)
(* readiness and health flags (pkg/prober) are set by the actors and       *)
(* answered by the HTTP server (pkg/server/http) while it listens.         *)
(*                                                                         *)
(* An actor is a goroutine: it may be slow to start and be interrupted     *)
(* before its first step. Each server is reduced to the promise the other  *)
(* modules make for it: Shutdown closes what it listens on, and makes a    *)
(* ListenAndServe or Serve that comes later return at once.                *)
(***************************************************************************)
EXTENDS Naturals, Sequences

\* In the order of group.Add.
Order == <<"http", "publisher", "mqtt", "signal">>
Actors == {"http", "publisher", "mqtt", "signal"}
Listeners == {"http", "mqtt"}

VARIABLES
    exec,         \* control of an actor's execute function
    stopped,      \* actors whose interrupt function has taken effect
    listening,    \* servers with an open listener
    ready,        \* HTTPProbe.ready
    healthy,      \* HTTPProbe.healthy
    gPc, gNext,   \* control of Group.Run; the actor it interrupts next
    first         \* the actor whose return ended the wait

actorVars == <<exec, listening, ready, healthy>>
groupVars == <<stopped, gPc, gNext, first>>
vars == <<exec, stopped, listening, ready, healthy, gPc, gNext, first>>

TypeOK ==
    /\ exec \in [Actors -> {"new", "begin", "serving", "returned"}]
    /\ stopped \in SUBSET Actors
    /\ listening \in SUBSET Listeners
    /\ ready \in BOOLEAN
    /\ healthy \in BOOLEAN
    /\ gPc \in {"wait", "notReady", "shutdown", "notHealthy", "drain",
                "returned"}
    /\ gNext \in 1..Len(Order)
    /\ first \in Actors \cup {"none"}

Init ==
    /\ exec = [a \in Actors |-> "new"]
    /\ stopped = {} /\ listening = {}
    /\ ready = FALSE /\ healthy = FALSE
    /\ gPc = "wait" /\ gNext = 1 /\ first = "none"

(***************************************************************************)
(* The actors.                                                             *)
(***************************************************************************)

\* The goroutine starts: the http actor reports healthy, the mqtt actor ready.
Begin(a) ==
    /\ exec[a] = "new"
    /\ exec' = [exec EXCEPT ![a] = "begin"]
    /\ healthy' = (healthy \/ a = "http")
    /\ ready' = (ready \/ a = "mqtt")
    /\ UNCHANGED <<listening, groupVars>>

\* Mutant: a server that was shut down listens all the same.
ServeAnyway(a) ==
    /\ exec[a] = "begin"
    /\ \/ /\ exec' = [exec EXCEPT ![a] = "serving"]
          /\ listening' = listening \cup ({a} \cap Listeners)
       \/ /\ a \in Listeners
          /\ exec' = [exec EXCEPT ![a] = "returned"]
          /\ UNCHANGED listening
    /\ UNCHANGED <<ready, healthy, groupVars>>

\* ListenAndServe, publisher.Serve or interrupt: serves, or returns at once
\* because it was shut down before or cannot listen.
Serve(a) ==
    /\ exec[a] = "begin"
    /\ \/ /\ a \notin stopped
          /\ exec' = [exec EXCEPT ![a] = "serving"]
          /\ listening' = listening \cup ({a} \cap Listeners)
       \/ /\ a \in stopped \/ a \in Listeners
          /\ exec' = [exec EXCEPT ![a] = "returned"]
          /\ UNCHANGED listening
    /\ UNCHANGED <<ready, healthy, groupVars>>

\* It returns because it was shut down.
Stops(a) ==
    /\ exec[a] = "serving" /\ a \in stopped
    /\ exec' = [exec EXCEPT ![a] = "returned"]
    /\ UNCHANGED <<listening, ready, healthy, groupVars>>

\* It returns of its own: an Accept error, the Kafka workers left after a fatal
\* error, a signal was caught.
Ends(a) ==
    /\ exec[a] = "serving" /\ a \notin stopped
    /\ exec' = [exec EXCEPT ![a] = "returned"]
    /\ listening' = listening \ {a}
    /\ UNCHANGED <<ready, healthy, groupVars>>

(***************************************************************************)
(* Group.Run and the interrupt functions.                                  *)
(***************************************************************************)

\* The first error arrives on the channel.
FirstReturns(a) ==
    /\ gPc = "wait" /\ exec[a] = "returned"
    /\ first' = a /\ gPc' = "notReady" /\ gNext' = 1
    /\ UNCHANGED <<actorVars, stopped>>

\* httpProbe.NotReady, the first call of two of the interrupt functions.
NotReady ==
    /\ gPc = "notReady"
    /\ ready' = (ready /\ Order[gNext] \notin Listeners)
    /\ gPc' = "shutdown"
    /\ UNCHANGED <<exec, listening, healthy, stopped, gNext, first>>

\* Mutant: the interrupt function of the signal actor forgets close(cancel).
ShutdownKeepsSignal ==
    /\ gPc = "shutdown"
    /\ stopped' = stopped \cup ({Order[gNext]} \ {"signal"})
    /\ listening' = listening \ {Order[gNext]}
    /\ gPc' = "notHealthy"
    /\ UNCHANGED <<exec, ready, healthy, gNext, first>>

\* Mutant: the actors are interrupted in the reverse order, as deferred calls.
ShutdownReversed ==
    /\ gPc = "shutdown"
    /\ LET a == Order[Len(Order) + 1 - gNext]
       IN  /\ stopped' = stopped \cup {a}
           /\ listening' = listening \ {a}
    /\ gPc' = "notHealthy"
    /\ UNCHANGED <<exec, ready, healthy, gNext, first>>

\* Shutdown of the server or publisher, or close(cancel).
Shutdown ==
    /\ gPc = "shutdown"
    /\ stopped' = stopped \cup {Order[gNext]}
    /\ listening' = listening \ {Order[gNext]}
    /\ gPc' = "notHealthy"
    /\ UNCHANGED <<exec, ready, healthy, gNext, first>>

\* The deferred httpProbe.NotHealthy of the http actor; then the next actor.
NotHealthy ==
    /\ gPc = "notHealthy"
    /\ healthy' = (healthy /\ Order[gNext] # "http")
    /\ \/ /\ gNext < Len(Order)
          /\ gPc' = "notReady" /\ gNext' = gNext + 1
       \/ /\ gNext = Len(Order)
          /\ gPc' = "drain" /\ UNCHANGED gNext
    /\ UNCHANGED <<exec, listening, ready, stopped, first>>

\* All others have sent their error.
Drain ==
    /\ gPc = "drain"
    /\ \A a \in Actors : exec[a] = "returned"
    /\ gPc' = "returned"
    /\ UNCHANGED <<actorVars, stopped, gNext, first>>

ActorNext(a) == Begin(a) \/ Serve(a) \/ Stops(a) \/ Ends(a)

GroupNext ==
    \/ \E a \in Actors : FirstReturns(a)
    \/ NotReady \/ Shutdown \/ NotHealthy \/ Drain

Next == GroupNext \/ \E a \in Actors : ActorNext(a)

Spec == Init /\ [][Next]_vars

\* Goroutines run, and every server keeps the promise that it returns after its
\* Shutdown; nothing is assumed to end of its own.
FairSpec ==
    /\ Spec
    /\ WF_vars(GroupNext)
    /\ \A a \in Actors : WF_vars(Begin(a) \/ Serve(a) \/ Stops(a))

(***************************************************************************)
(* Properties.                                                             *)
(***************************************************************************)

\* The readiness endpoint never says OK once the publisher was told to stop:
\* the http actor comes first in the group, so its listener is closed by then,
\* even if the mqtt actor is so late that its Ready comes after every NotReady
\* (cmd/server.go:54-62, 161-165, 234-241).
ReadyBeforeStop ==
    "http" \in listening /\ ready => "publisher" \notin stopped

\* When Run returns no actor runs and nothing listens any more, whichever actor
\* returned first and however late the others started (group.go:45-57).
NothingLeft ==
    gPc = "returned" =>
        /\ listening = {}
        /\ \A a \in Actors : exec[a] = "returned"

\* A listener accepts only while its actor serves and was not told to stop, also
\* when the stop came before the actor's first step (cmd/server.go:54-62,
\* 234-241, server.go:121, 272).
ListenersServe == \A a \in listening : exec[a] = "serving" /\ a \notin stopped

\* The actors are stopped one after the other, in the order they were added.
StopsInOrder ==
    /\ gPc = "wait" => gNext = 1
    /\ \A i \in 1..Len(Order) :
          Order[i] \in stopped <=>
              \/ i < gNext
              \/ i = gNext /\ gPc \in {"notHealthy", "drain", "returned"}

\* The inductive invariant: the group's position, the actors it has stopped and
\* what still listens agree (cmd/root.go:80-104, group.go:45-57).
GroupInv ==
    /\ TypeOK
    /\ ListenersServe
    /\ StopsInOrder
    /\ NothingLeft

\* One actor that returns (a signal, a port in use, a fatal Kafka error) ends
\* the process: no actor, started or not, is waited for in vain
\* (cmd/root.go:80-104, cmd/server.go:54-62, 161-165, 234-241).
ProcessEnds ==
    (\E a \in Actors : exec[a] = "returned") ~> (gPc = "returned")
=============================================================================
