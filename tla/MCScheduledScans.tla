--------------------------- MODULE MCScheduledScans ---------------------------
(* Small instances of ScheduledScans for TLC.                              *)
EXTENDS ScheduledScans, TLC

CONSTANTS org, odd, every

(* One rule matches the odd instants, the other every instant. *)
RuleMatches == [r \in Rules |-> {m \in 1 .. MaxTime + 2 : r = odd => m % 2 = 1}]

(* Two schedules that are due together: one of target 1, which may be edited to
   belong to target 2 under another rule, and one of the organization, which may
   be created disabled. *)
Plan(o, r, e) == [owner |-> o, rule |-> r, enabled |-> e]

CreatePlans == 1 :> {Plan(1, every, TRUE)} @@ 2 :> {Plan(org, odd, TRUE), Plan(org, odd, FALSE)}
UpdatePlans == 1 :> {Plan(2, odd, TRUE)} @@ 2 :> {}

Delays == [n \in 1 .. MaxRetries |-> 1]
==============================================================================
