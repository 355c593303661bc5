------------------------------- MODULE Publisher -------------------------------
(***************************************************************************)
(* What apis.Publisher promises its caller, the MQTT handler, about a      *)
(* publish request: apis/publish.go as the handler uses it.                *)
(*                                                                         *)
(* A request is submitted once, by Publish or PublishAsync. Then           *)
(*   - the call returns an error ("error"), and nothing more is heard; or  *)
(*   - a response is given, without ("ok") or with ("failed") an Error, as *)
(*     Publish's result or by the callback in the calling goroutine; or    *)
(*   - PublishAsync returns nil ("accepted") and the callback is given the *)
(*     response later, by a goroutine of the publisher.                    *)
(* The broker may store a message whose caller was told of a failure: a    *)
(* timeout does not call a message back.                                   *)
(***************************************************************************)
CONSTANTS
    Requests,   \* publish requests
    Confirmed   \* those for which "ok" means that the broker has confirmed

ASSUME PublisherAssumption == Confirmed \subseteq Requests

VARIABLES
    pub,        \* what the caller knows of a request
    stored      \* the requests whose message the broker has stored

pubVars == <<pub, stored>>

PubStates == {"new", "pending", "accepted", "ok", "failed", "error"}
Responses == {"ok", "failed"}

PubTypeOK ==
    /\ pub \in [Requests -> PubStates]
    /\ stored \in SUBSET Requests

PubInit ==
    /\ pub = [r \in Requests |-> "new"]
    /\ stored = {}

\* Publish or PublishAsync is called.
Submit(r) ==
    /\ pub[r] = "new"
    /\ pub' = [pub EXCEPT ![r] = "pending"]
    /\ UNCHANGED stored

\* The broker stores the message.
Store(r) ==
    /\ pub[r] # "new" /\ r \notin stored
    /\ stored' = stored \cup {r}
    /\ UNCHANGED pub

\* The call returns an error.
Refuse(r) ==
    /\ pub[r] = "pending"
    /\ pub' = [pub EXCEPT ![r] = "error"]
    /\ UNCHANGED stored

\* PublishAsync returns nil, its callback is still to come.
Accepted(r) ==
    /\ pub[r] = "pending"
    /\ pub' = [pub EXCEPT ![r] = "accepted"]
    /\ UNCHANGED stored

\* Mutant: success is reported before the broker has confirmed.
RespondUnconfirmed(r, res) ==
    /\ pub[r] \in {"pending", "accepted"}
    /\ pub' = [pub EXCEPT ![r] = res]
    /\ UNCHANGED stored

\* A response is handed to the caller, or to the callback.
Respond(r, res) ==
    /\ pub[r] \in {"pending", "accepted"}
    /\ res = "ok" /\ r \in Confirmed => r \in stored
    /\ pub' = [pub EXCEPT ![r] = res]
    /\ UNCHANGED stored

PubNext ==
    \E r \in Requests :
        \/ Submit(r)
        \/ Store(r)
        \/ Refuse(r)
        \/ Accepted(r)
        \/ \E res \in Responses : Respond(r, res)

PubSpec == PubInit /\ [][PubNext]_pubVars
=============================================================================
