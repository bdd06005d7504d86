--------------------------- MODULE OccurrenceLedger ---------------------------
(***************************************************************************)
(* What the scheduler promises about the occurrences of schedules: each is *)
(* materialised at most once, later than every earlier one of its          *)
(* schedule; one is handed off at a time; its hand-off creates at most one *)
(* scan per target; it is tried again only when that created nothing, and  *)
(* what is closed, lost or gone is never tried again.  Where the database  *)
(* left a commit unacknowledged, a hand-off may be tried again over it.    *)
(***************************************************************************)
EXTENDS Integers

CONSTANTS
    Schedules,  \* identifiers of schedules
    Times,      \* instants, numbers
    Targets     \* identifiers of targets

VARIABLES
    state,      \* state[s][t]: none, open, trying, closed, lost or gone
    made,       \* made[s][t][x]: scans created of target x for the occurrence
    untold      \* occurrences of which a commit went unacknowledged

ledger == <<state, made, untold>>

LedgerInit ==
    /\ state = [s \in Schedules |-> [t \in Times |-> "none"]]
    /\ made = [s \in Schedules |-> [t \in Times |-> [x \in Targets |-> 0]]]
    /\ untold = {}

Become(s, t, from, to) ==
    /\ state[s][t] = from
    /\ state' = [state EXCEPT ![s][t] = to]

Untouched(s, t) ==
    <<s, t>> \in untold \/ \A x \in Targets : made[s][t][x] = 0

Materialize(s, t) ==
    /\ Become(s, t, "none", "open")
    /\ \A u \in Times : u > t => state[s][u] = "none"
    /\ UNCHANGED <<made, untold>>

Begin(s, t) ==
    /\ Become(s, t, "open", "trying")
    /\ \A r \in Schedules : \A u \in Times : state[r][u] # "trying"
    /\ UNCHANGED <<made, untold>>

MakeScan(s, t, x) ==
    /\ state[s][t] = "trying"
    /\ made[s][t][x] = 0 \/ <<s, t>> \in untold
    /\ made' = [made EXCEPT ![s][t][x] = @ + 1]
    /\ untold' \in {untold, untold \cup {<<s, t>>}}
    /\ UNCHANGED state

TryAgain(s, t) ==
    /\ Become(s, t, "trying", "open")
    /\ Untouched(s, t)
    /\ UNCHANGED <<made, untold>>

(* The outcome is known, unknown, or of no interest any more. *)
Conclude(s, t) ==
    /\ \E to \in {"closed", "lost", "gone"} : Become(s, t, "trying", to)
    /\ UNCHANGED <<made, untold>>

(* Rows are removed by operators and by retention. *)
Drop ==
    /\ state' \in [Schedules -> [Times -> {"none", "open", "trying", "closed", "lost", "gone"}]]
    /\ \A s \in Schedules : \A t \in Times :
           \/ state'[s][t] = state[s][t]
           \/ state[s][t] \in {"open", "closed", "lost"} /\ state'[s][t] = "gone"
    /\ UNCHANGED <<made, untold>>

LedgerNext ==
    \/ \E s \in Schedules : \E t \in Times :
           \/ Materialize(s, t)
           \/ Begin(s, t)
           \/ \E x \in Targets : MakeScan(s, t, x)
           \/ TryAgain(s, t)
           \/ Conclude(s, t)
    \/ Drop

LedgerSpec == LedgerInit /\ [][LedgerNext]_ledger
==============================================================================
