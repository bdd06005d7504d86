--------------------------- MODULE TargetLifecycle ---------------------------
(* What deleting a target promises. A live target owns things: schedules,     *)
(* organisation links, its policy, active scans, asset rows. Deleting it is   *)
(* one step; from then on what it owns only shrinks, and its cleanup is       *)
(* reported complete only when it owns nothing. The one exception is what was *)
(* admitted while the target lived and is still on its way: it may land at    *)
(* any time.                                                                  *)
CONSTANTS Targets, Things

VARIABLES
    phase,  \* phase[t]: "absent", "live", "deleted" or "clear"
    owned,  \* owned[t]: what belongs to target t
    late    \* late[t]: what was admitted for it and has not landed

lifecycle == <<phase, owned, late>>

LifecycleInit ==
    /\ phase = [t \in Targets |-> "absent"]
    /\ owned = [t \in Targets |-> {}]
    /\ late = [t \in Targets |-> {}]

\* A target appears with what it owns from the start.
Appear(t) ==
    /\ phase[t] = "absent"
    /\ phase' = [phase EXCEPT ![t] = "live"]
    /\ \E things \in SUBSET Things : owned' = [owned EXCEPT ![t] = things]
    /\ UNCHANGED late

\* Live targets gain and lose things; one thing may move between two of them.
Change ==
    /\ \A t \in Targets : owned'[t] # owned[t] => phase[t] = "live"
    /\ owned' \in [Targets -> SUBSET Things]
    /\ UNCHANGED <<phase, late>>

\* Something is admitted for a live target and not yet written.
Admit(t) ==
    /\ phase[t] = "live"
    /\ \E thing \in Things : late' = [late EXCEPT ![t] = @ \cup {thing}]
    /\ UNCHANGED <<phase, owned>>

Land(t) ==
    /\ \E thing \in late[t] :
         /\ owned' = [owned EXCEPT ![t] = @ \cup {thing}]
         /\ late' = [late EXCEPT ![t] = @ \ {thing}]
    /\ UNCHANGED phase

\* A restart loses what was on its way.
Lose ==
    /\ late' = [t \in Targets |-> {}]
    /\ UNCHANGED <<phase, owned>>

\* One request may delete several targets.
Disappear(ts) ==
    /\ \A t \in ts : phase[t] = "live"
    /\ phase' = [t \in Targets |-> IF t \in ts THEN "deleted" ELSE phase[t]]
    /\ UNCHANGED <<owned, late>>

\* What a deleted target owns shrinks; meanwhile nothing else is touched.
Shrink(t) ==
    /\ phase[t] = "deleted"
    /\ owned'[t] \subseteq owned[t]
    /\ owned' = [owned EXCEPT ![t] = owned'[t]]
    /\ UNCHANGED <<phase, late>>

Clear(t) ==
    /\ phase[t] = "deleted"
    /\ owned[t] = {}
    /\ phase' = [phase EXCEPT ![t] = "clear"]
    /\ UNCHANGED <<owned, late>>

LifecycleNext ==
    \/ Change \/ Lose
    \/ \E ts \in SUBSET Targets : Disappear(ts)
    \/ \E t \in Targets : Appear(t) \/ Admit(t) \/ Land(t) \/ Shrink(t) \/ Clear(t)

LifecycleSpec == LifecycleInit /\ [][LifecycleNext]_lifecycle
=============================================================================
