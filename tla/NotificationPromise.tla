------------------------- MODULE NotificationPromise -------------------------
(***************************************************************************)
(* What the notification module promises of an event, whichever process    *)
(* handles it and however often it is retried: it is told once, to the     *)
(* users active and the destinations open at that moment, or refused for   *)
(* good; and every destination it is owed to ends in exactly one way.      *)
(***************************************************************************)
CONSTANTS
    Events,          \* notification events, by their producer's event id
    Users,           \* user accounts
    Destinations,    \* webhook destinations of the installation
    Supported,       \* events whose envelope the server understands
    InboxOnly        \* events of a kind that is not sent to destinations

VARIABLES
    users,           \* active users
    open,            \* destinations that are enabled and subscribed
    state,           \* state[e]: "unheard", "due", "told" or "refused"
    audience,        \* audience[e]: the users told
    result           \* result[e][d]: how the delivery of e to d stands

settings == <<users, open>>
promise == <<state, audience, result>>

PromiseInit ==
    /\ users \subseteq Users
    /\ open \subseteq Destinations
    /\ state = [e \in Events |-> "unheard"]
    /\ audience = [e \in Events |-> {}]
    /\ result = [e \in Events |-> [d \in Destinations |-> "none"]]

Hear(e) ==
    /\ state[e] = "unheard"
    /\ state' = [state EXCEPT ![e] = "due"]
    /\ UNCHANGED <<settings, audience, result>>

(* Everybody at once, from the settings of that moment. *)
Tell(e) ==
    /\ state[e] = "due"
    /\ e \in Supported
    /\ state' = [state EXCEPT ![e] = "told"]
    /\ audience' = [audience EXCEPT ![e] = users]
    /\ result' = [result EXCEPT ![e] =
           [d \in Destinations |->
               IF d \in open /\ e \notin InboxOnly THEN "owed" ELSE "none"]]
    /\ UNCHANGED settings

Refuse(e) ==
    /\ state[e] = "due"
    /\ e \notin Supported
    /\ state' = [state EXCEPT ![e] = "refused"]
    /\ UNCHANGED <<settings, audience, result>>

Settle(e, d) ==
    /\ result[e][d] = "owed"
    /\ \E r \in {"delivered", "failed"} : result' = [result EXCEPT ![e][d] = r]
    /\ UNCHANGED <<settings, state, audience>>

Forget(e, d) ==
    /\ result[e][d] \in {"delivered", "failed"}
    /\ result' = [result EXCEPT ![e][d] = "forgotten"]
    /\ UNCHANGED <<settings, state, audience>>

Reconfigure ==
    /\ users' \subseteq Users
    /\ open' \subseteq Destinations
    /\ UNCHANGED promise

PromiseNext ==
    \/ \E e \in Events : Hear(e) \/ Tell(e) \/ Refuse(e)
    \/ \E e \in Events, d \in Destinations : Settle(e, d) \/ Forget(e, d)
    \/ Reconfigure

PromiseSpec == PromiseInit /\ [][PromiseNext]_<<settings, promise>>
=============================================================================
