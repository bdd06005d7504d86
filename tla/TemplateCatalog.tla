--------------------------- MODULE TemplateCatalog ---------------------------
(***************************************************************************)
(* What the Nuclei template module promises of its catalogue: one sync at  *)
(* a time; a sync that succeeds installs all it has validated, at once,    *)
(* and says so; one that fails or is cancelled leaves the catalogue as it  *)
(* was; one that its operator has stopped ends as cancelled only;         *)
(* and a template keeps the switch its operator set for as long as it     *)
(* stays in the catalogue.                                                 *)
(***************************************************************************)
CONSTANTS
    Requests,    \* sync requests; a request makes at most one task
    Templates    \* Nuclei templates, by their template id

VARIABLES
    catalog,     \* catalog[t]: "absent", "disabled" or "enabled"
    phase,       \* phase[r]: "none", "open", "stopping" or how the sync of r ended
    offer,       \* offer[r]: the templates the sync of r has validated
    told         \* the notifications queued: <<r, outcome>>

catalogVars == <<catalog, phase, offer, told>>

CatalogInit ==
    /\ catalog = [t \in Templates |-> "absent"]
    /\ phase = [r \in Requests |-> "none"]
    /\ offer = [r \in Requests |-> {}]
    /\ told = {}

Quiet == \A r \in Requests : phase[r] \notin {"open", "stopping"}

Open(r) ==
    /\ phase[r] = "none"
    /\ Quiet
    /\ phase' = [phase EXCEPT ![r] = "open"]
    /\ UNCHANGED <<catalog, offer, told>>

(* A sync that has been given up may still find out what it would install. *)
Validate(r) ==
    /\ phase[r] # "none"
    /\ offer[r] = {}
    /\ \E T \in SUBSET Templates : offer' = [offer EXCEPT ![r] = T]
    /\ UNCHANGED <<catalog, phase, told>>

Install(T) ==
    [t \in Templates |->
        IF t \notin T THEN "absent"
        ELSE IF catalog[t] = "absent" THEN "disabled" ELSE catalog[t]]

Succeed(r) ==
    /\ phase[r] = "open"
    /\ offer[r] # {}
    /\ catalog' = Install(offer[r])
    /\ phase' = [phase EXCEPT ![r] = "succeeded"]
    /\ told' = told \cup {<<r, "succeeded">>}
    /\ UNCHANGED offer

Lose(r) ==
    /\ phase[r] = "open"
    /\ phase' = [phase EXCEPT ![r] = "failed"]
    /\ told' = told \cup {<<r, "failed">>}
    /\ UNCHANGED <<catalog, offer>>

Stop(r) ==
    /\ phase[r] = "open"
    /\ phase' = [phase EXCEPT ![r] = "stopping"]
    /\ UNCHANGED <<catalog, offer, told>>

Stopped(r) ==
    /\ phase[r] = "stopping"
    /\ phase' = [phase EXCEPT ![r] = "cancelled"]
    /\ UNCHANGED <<catalog, offer, told>>

Switched(T, flag) ==
    [t \in Templates |-> IF t \in T /\ catalog[t] # "absent" THEN flag ELSE catalog[t]]

Switch(t, flag) ==
    /\ catalog' = Switched({t}, flag)
    /\ UNCHANGED <<phase, offer, told>>

(* Many templates are switched at once only while no sync is open. *)
SwitchMany(T, flag) ==
    /\ Quiet
    /\ catalog' = Switched(T, flag)
    /\ UNCHANGED <<phase, offer, told>>

CatalogNext ==
    \/ \E r \in Requests :
          Open(r) \/ Validate(r) \/ Succeed(r) \/ Lose(r) \/ Stop(r) \/ Stopped(r)
    \/ \E t \in Templates, flag \in {"disabled", "enabled"} : Switch(t, flag)
    \/ \E T \in SUBSET Templates, flag \in {"disabled", "enabled"} : SwitchMany(T, flag)

CatalogSpec == CatalogInit /\ [][CatalogNext]_catalogVars
=============================================================================
