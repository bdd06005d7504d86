------------------------ MODULE NotificationPipeline ------------------------
(***************************************************************************)
(* The notification module (src/server/internal/modules/notification): the *)
(* outbox that producers write in their own transactions, the worker that  *)
(* turns an event into a fact with its audience and its deliveries, and    *)
(* the worker that delivers them to webhooks.  Every server process runs   *)
(* both workers under lease owners of its own, and a new process may start *)
(* before the old one is gone.                                             *)
(*                                                                         *)
(* A step is one transaction or one webhook request with the local work    *)
(* around it.  Of the lease of a row the model keeps whether it has run    *)
(* out, of next_attempt_at whether it has come, and of the retry window    *)
(* nothing: a retryable failure may always have been the last.             *)
(***************************************************************************)
EXTENDS Integers, FiniteSets

CONSTANTS
    Events,          \* notification events, by their producer's event id
    Users,           \* rows of auth_user
    Destinations,    \* rows of notification_destination
    Supported,       \* events whose envelope the server understands
    InboxOnly,       \* events of a kind that is not externally deliverable
    Processes,       \* server processes, one after the other
    OutboxBatch,     \* OutboxWorkerOptions.BatchSize
    DeliveryBatch,   \* DeliveryWorkerOptions.BatchSize
    MaxAttempts,     \* maxDeliveryAttempts
    MaxFaults,       \* bound on crashes, failed queries, lost answers, slow batches, changes
                     \* of settings and replays, all together
    None             \* SQL NULL; no row

Work == Events \X Destinations

Waiting == {"pending", "retrying"}

Answers == {"accepted", "retryable", "rejected"}

OutboxRows == [status : {"pending", "processing", "published", "unsupported"},
               owner : Processes \cup {None}, lapsed : BOOLEAN]

FactRows == [recipients : SUBSET Users, destinations : SUBSET Destinations]

DeliveryRows == [status : Waiting \cup {"processing", "delivered", "failed_terminal"},
                 owner : Processes \cup {None}, lapsed : BOOLEAN,
                 due : BOOLEAN, count : Nat]

ASSUME NotificationAssumption ==
    /\ Supported \subseteq Events
    /\ InboxOnly \subseteq Events
    /\ OutboxBatch \in Nat \ {0} /\ DeliveryBatch \in Nat \ {0}
    /\ MaxAttempts \in Nat \ {0}
    /\ MaxFaults \in Nat
    /\ IsFiniteSet(Processes)
    /\ None \notin Processes \cup Events \cup Work \cup Answers
    /\ None \notin OutboxRows \cup FactRows \cup DeliveryRows

VARIABLES
    active,      \* users with is_active
    enabled,     \* destinations with enabled
    subscribed,  \* destinations with a subscription to the deliverable kind
    outbox,      \* outbox[e]: row of notification_outbox
    fact,        \* fact[e]: row of notification_fact with its recipients
    delivery,    \* delivery[w]: row of notification_delivery
    attempts,    \* attempts[w]: attempt numbers in notification_delivery_attempt
    up,          \* up[p]: "new", "up" or "down"
    telling,     \* telling[p]: the outbox worker of process p
    sending,     \* sending[p]: the delivery worker of process p
    faults,      \* crashes, failed queries, lost answers and slow batches so far
    changes,     \* changes of settings and replays so far
    \* For checking only:
    accepted     \* accepted[w]: how often the provider took the message

settings == <<active, enabled, subscribed>>
tables == <<outbox, fact, delivery, attempts>>
workers == <<up, telling, sending>>
vars == <<settings, tables, workers, faults, changes, accepted>>

Idle == [pc |-> "idle", todo |-> {}, item |-> None, next |-> 0, answer |-> None]

Init ==
    /\ active = Users
    /\ enabled = Destinations
    /\ subscribed = Destinations
    /\ outbox = [e \in Events |-> None]
    /\ fact = [e \in Events |-> None]
    /\ delivery = [w \in Work |-> None]
    /\ attempts = [w \in Work |-> {}]
    /\ up = [p \in Processes |-> "new"]
    /\ telling = [p \in Processes |-> Idle]
    /\ sending = [p \in Processes |-> Idle]
    /\ faults = 0
    /\ changes = 0
    /\ accepted = [w \in Work |-> 0]

Fault == faults + changes < MaxFaults /\ faults' = faults + 1
Change == faults + changes < MaxFaults /\ changes' = changes + 1

-----------------------------------------------------------------------------
(* Producers and operators                                                 *)

(* In the transaction of the business change; a replay meets the row. *)
CreateOccurrence(e) ==
    /\ outbox[e] = None
    /\ IF fact[e] = None THEN UNCHANGED changes ELSE Change
    /\ outbox' = [outbox EXCEPT ![e] = [status |-> "pending", owner |-> None, lapsed |-> FALSE]]
    /\ UNCHANGED <<settings, fact, delivery, attempts, workers, faults, accepted>>

SetActive(u) ==
    /\ Change
    /\ active' = IF u \in active THEN active \ {u} ELSE active \cup {u}
    /\ UNCHANGED <<enabled, subscribed, tables, workers, faults, accepted>>

UpdateDestination(d) ==
    /\ Change
    /\ enabled' \in {enabled \cup {d}, enabled \ {d}}
    /\ subscribed' \in {subscribed \cup {d}, subscribed \ {d}}
    /\ <<enabled', subscribed'>> # <<enabled, subscribed>>
    /\ UNCHANGED <<active, tables, workers, faults, accepted>>

-----------------------------------------------------------------------------
(* Leases, of both tables                                                  *)

(* Mutant: leases that ran out are not taken over. *)
ClaimableWaiting(row) == row # None /\ row.status \in Waiting

(* The status and lease part of both Claim predicates. *)
Claimable(row) ==
    /\ row # None
    /\ row.status \in Waiting \/ (row.status = "processing" /\ row.lapsed)

Leased(row, p) == [row EXCEPT !.status = "processing", !.owner = p, !.lapsed = FALSE]

Unleased(row, status) == [row EXCEPT !.status = status, !.owner = None, !.lapsed = FALSE]

(* Mutant: a worker writes to any row that is being processed. *)
OwnsAnyway(row, p) == row # None /\ row.status = "processing"

(* The condition of every update of a claimed row: the expiry is not in it. *)
Owns(row, p) == row # None /\ row.status = "processing" /\ row.owner = p

(* One claim takes the first rows up to the limit. *)
Batches(rows, limit) ==
    {b \in SUBSET rows :
        Cardinality(b) = IF Cardinality(rows) <= limit THEN Cardinality(rows) ELSE limit}

Done(worker) == [worker EXCEPT !.pc = "batch", !.item = None, !.next = 0, !.answer = None]

-----------------------------------------------------------------------------
(* OutboxWorker.runOnce                                                    *)

ClaimEvents(p) ==
    /\ up[p] = "up"
    /\ telling[p].pc = "idle"
    /\ \E batch \in Batches({e \in Events : Claimable(outbox[e])}, OutboxBatch) \ {{}} :
           /\ outbox' = [e \in Events |->
                  IF e \in batch THEN Leased(outbox[e], p) ELSE outbox[e]]
           /\ telling' = [telling EXCEPT ![p].pc = "batch", ![p].todo = batch]
    /\ UNCHANGED <<settings, fact, delivery, attempts, up, sending, faults, changes, accepted>>

(* CreateOrGetFact and CreateRecipientsAndInbox: a frozen fact is kept. *)
CreateFact(e) ==
    IF fact[e] # None THEN fact[e]
    ELSE [recipients |-> active,
          destinations |-> IF e \in InboxOnly THEN {} ELSE enabled \cap subscribed]

(* Mutant: the deliveries are made from the settings of every attempt. *)
CreateDeliveriesAgain(e) ==
    [w \in Work |->
        IF w[1] = e /\ w[2] \in enabled \cap subscribed /\ e \notin InboxOnly
           /\ delivery[w] = None
        THEN [status |-> "pending", owner |-> None, lapsed |-> FALSE, due |-> TRUE, count |-> 0]
        ELSE delivery[w]]

CreateDeliveries(e) ==
    [w \in Work |->
        IF w[1] = e /\ fact[e] = None /\ w[2] \in CreateFact(e).destinations
        THEN [status |-> "pending", owner |-> None, lapsed |-> FALSE, due |-> TRUE, count |-> 0]
        ELSE delivery[w]]

Materialize(p, e) ==
    /\ telling[p].pc = "batch"
    /\ e \in telling[p].todo
    /\ e \in Supported
    /\ fact' = [fact EXCEPT ![e] = CreateFact(e)]
    /\ delivery' = CreateDeliveries(e)
    /\ telling' = [telling EXCEPT ![p].pc = "publish", ![p].item = e, ![p].todo = @ \ {e}]
    /\ UNCHANGED <<settings, outbox, attempts, up, sending, faults, changes, accepted>>

RejectEnvelope(p, e) ==
    /\ telling[p].pc = "batch"
    /\ e \in telling[p].todo \ Supported
    /\ telling' = [telling EXCEPT ![p].pc = "refuse", ![p].item = e, ![p].todo = @ \ {e}]
    /\ UNCHANGED <<settings, tables, up, sending, faults, changes, accepted>>

(* The transaction rolls back. *)
MaterializeFails(p, e) ==
    /\ telling[p].pc = "batch"
    /\ e \in telling[p].todo \cap Supported
    /\ Fault
    /\ telling' = [telling EXCEPT ![p].pc = "release", ![p].item = e, ![p].todo = @ \ {e}]
    /\ UNCHANGED <<settings, tables, up, sending, changes, accepted>>

StatusAfter == [publish |-> "published", refuse |-> "unsupported", release |-> "pending"]

(* MarkPublished, MarkUnsupported, ReleaseLease; losing the lease ends the batch. *)
SettleEvent(p) ==
    LET e == telling[p].item
    IN  /\ telling[p].pc \in DOMAIN StatusAfter
        /\ \/ /\ Owns(outbox[e], p)
              /\ outbox' = [outbox EXCEPT ![e] = Unleased(@, StatusAfter[telling[p].pc])]
              /\ telling' = [telling EXCEPT ![p] = Done(@)]
           \/ /\ ~Owns(outbox[e], p)
              /\ telling' = [telling EXCEPT ![p] = Idle]
              /\ UNCHANGED outbox
        /\ UNCHANGED <<settings, fact, delivery, attempts, up, sending, faults, changes, accepted>>

EndEvents(p) ==
    /\ telling[p].pc = "batch"
    /\ telling[p].todo = {}
    /\ telling' = [telling EXCEPT ![p] = Idle]
    /\ UNCHANGED <<settings, tables, up, sending, faults, changes, accepted>>

-----------------------------------------------------------------------------
(* DeliveryWorker.RunOnce                                                  *)

DueDeliveries ==
    {w \in Work : Claimable(delivery[w]) /\ (delivery[w].status \in Waiting => delivery[w].due)}

(* todo holds the claimed rows with the attempt count that was read. *)
ClaimDeliveries(p) ==
    /\ up[p] = "up"
    /\ sending[p].pc = "idle"
    /\ \E batch \in Batches(DueDeliveries, DeliveryBatch) \ {{}} :
           /\ delivery' = [w \in Work |->
                  IF w \in batch THEN Leased(delivery[w], p) ELSE delivery[w]]
           /\ sending' = [sending EXCEPT ![p].pc = "batch",
                  ![p].todo = {<<w, delivery[w].count>> : w \in batch}]
    /\ UNCHANGED <<settings, outbox, fact, attempts, up, telling, faults, changes, accepted>>

(* processDelivery reads the destination before it calls the provider. *)
LoadDestination(p) ==
    /\ sending[p].pc = "batch"
    /\ \E claimed \in sending[p].todo :
           sending' = [sending EXCEPT
               ![p].pc = IF claimed[1][2] \in enabled THEN "request" ELSE "disabled",
               ![p].item = claimed[1], ![p].next = claimed[2] + 1, ![p].todo = @ \ {claimed}]
    /\ UNCHANGED <<settings, tables, up, telling, faults, changes, accepted>>

LoadDestinationFails(p) ==
    /\ sending[p].pc = "batch"
    /\ Fault
    /\ \E claimed \in sending[p].todo :
           sending' = [sending EXCEPT ![p].pc = "unloaded", ![p].item = claimed[1],
                                      ![p].todo = @ \ {claimed}]
    /\ UNCHANGED <<settings, tables, up, telling, changes, accepted>>

(* adapter.Deliver.  A provider that took the message may still look like a
   timeout. *)
CallProvider(p) ==
    /\ sending[p].pc = "request"
    /\ \/ /\ accepted' = [accepted EXCEPT ![sending[p].item] = @ + 1]
          /\ sending' = [sending EXCEPT ![p].pc = "answered", ![p].answer = "accepted"]
          /\ UNCHANGED faults
       \/ /\ Fault
          /\ accepted' = [accepted EXCEPT ![sending[p].item] = @ + 1]
          /\ sending' = [sending EXCEPT ![p].pc = "answered", ![p].answer = "retryable"]
       \/ /\ \E answer \in {"retryable", "rejected"} :
                 sending' = [sending EXCEPT ![p].pc = "answered", ![p].answer = answer]
          /\ UNCHANGED <<accepted, faults>>
    /\ UNCHANGED <<settings, tables, up, telling, changes>>

RecordAttempt(p) ==
    LET w == sending[p].item
        number == sending[p].next
    IN  /\ sending[p].pc = "answered"
        /\ \/ /\ Owns(delivery[w], p)
              /\ number <= delivery[w].count + 1
              /\ attempts' = [attempts EXCEPT ![w] = @ \cup {number}]
              /\ delivery' = [delivery EXCEPT ![w].count =
                     IF number <= @ THEN @ ELSE number]
              /\ sending' = [sending EXCEPT ![p].pc = "recorded"]
           \/ /\ ~(Owns(delivery[w], p) /\ number <= delivery[w].count + 1)
              /\ sending' = [sending EXCEPT ![p] = Idle]
              /\ UNCHANGED <<attempts, delivery>>
        /\ UNCHANGED <<settings, outbox, fact, up, telling, faults, changes, accepted>>

(* Mutant: an accepted message is retried when it was not the first try. *)
OutcomesUnlessFirst(worker) ==
    CASE worker.pc = "recorded" /\ worker.answer = "accepted" /\ worker.next = 1 -> {"delivered"}
      [] worker.pc = "recorded" /\ worker.answer # "rejected" -> {"retrying", "failed_terminal"}
      [] worker.pc = "unloaded" -> {"retrying"}
      [] OTHER -> {"failed_terminal"}

(* Mutant: the last attempt may be retried. *)
OutcomesOneMore(worker) ==
    CASE worker.pc = "unloaded" -> {"retrying"}
      [] worker.pc = "disabled" -> {"failed_terminal"}
      [] worker.answer = "accepted" -> {"delivered"}
      [] worker.answer = "retryable" /\ worker.next <= MaxAttempts -> {"retrying", "failed_terminal"}
      [] OTHER -> {"failed_terminal"}

(* The rest of processDelivery.  nextRetryAt may find the window closed. *)
Outcomes(worker) ==
    CASE worker.pc = "unloaded" -> {"retrying"}
      [] worker.pc = "disabled" -> {"failed_terminal"}
      [] worker.answer = "accepted" -> {"delivered"}
      [] worker.answer = "retryable" /\ worker.next < MaxAttempts -> {"retrying", "failed_terminal"}
      [] OTHER -> {"failed_terminal"}

(* MarkDelivered, MarkRetry, MarkFailedTerminal. *)
SettleDelivery(p) ==
    LET w == sending[p].item
    IN  /\ sending[p].pc \in {"unloaded", "disabled", "recorded"}
        /\ \/ /\ Owns(delivery[w], p)
              /\ \E status \in Outcomes(sending[p]) :
                     delivery' = [delivery EXCEPT ![w] =
                         [Unleased(@, status) EXCEPT !.due = sending[p].pc = "unloaded"]]
              /\ sending' = [sending EXCEPT ![p] = Done(@)]
           \/ /\ ~Owns(delivery[w], p)
              /\ sending' = [sending EXCEPT ![p] = Idle]
              /\ UNCHANGED delivery
        /\ UNCHANGED <<settings, outbox, fact, attempts, up, telling, faults, changes, accepted>>

EndDeliveries(p) ==
    /\ sending[p].pc = "batch"
    /\ sending[p].todo = {}
    /\ sending' = [sending EXCEPT ![p] = Idle]
    /\ UNCHANGED <<settings, tables, up, telling, faults, changes, accepted>>

-----------------------------------------------------------------------------
(* Time, retention, processes and faults                                   *)

BackoffPasses(w) ==
    /\ delivery[w] # None
    /\ delivery[w].status = "retrying"
    /\ ~delivery[w].due
    /\ delivery' = [delivery EXCEPT ![w].due = TRUE]
    /\ UNCHANGED <<settings, outbox, fact, attempts, workers, faults, changes, accepted>>

Handles(worker, items, p) == worker[p].pc # "idle" /\ items \cap (worker[p].todo \cup {worker[p].item}) # {}

Processing(row) == row # None /\ row.status = "processing" /\ ~row.lapsed

(* The wall clock passes lease_expires_at.  A worker that still handles the row
   is late, which is a fault; otherwise its batch or its process has ended. *)
EventLeaseLapses(e) ==
    /\ Processing(outbox[e])
    /\ IF Handles(telling, {e}, outbox[e].owner) THEN Fault ELSE UNCHANGED faults
    /\ outbox' = [outbox EXCEPT ![e].lapsed = TRUE]
    /\ UNCHANGED <<settings, fact, delivery, attempts, workers, changes, accepted>>

DeliveryLeaseLapses(w) ==
    /\ Processing(delivery[w])
    /\ IF Handles(sending, {w} \cup ({w} \X (0 .. MaxAttempts + MaxFaults)), delivery[w].owner)
       THEN Fault ELSE UNCHANGED faults
    /\ delivery' = [delivery EXCEPT ![w].lapsed = TRUE]
    /\ UNCHANGED <<settings, outbox, fact, attempts, workers, changes, accepted>>

DeletePublished(e) ==
    /\ outbox[e] # None
    /\ outbox[e].status = "published"
    /\ outbox' = [outbox EXCEPT ![e] = None]
    /\ UNCHANGED <<settings, fact, delivery, attempts, workers, faults, changes, accepted>>

(* Attempt rows go with their delivery. *)
DeleteTerminal(w) ==
    /\ delivery[w] # None
    /\ delivery[w].status \in {"delivered", "failed_terminal"}
    /\ delivery' = [delivery EXCEPT ![w] = None]
    /\ attempts' = [attempts EXCEPT ![w] = {}]
    /\ UNCHANGED <<settings, outbox, fact, workers, faults, changes, accepted>>

Start(p) ==
    /\ up[p] = "new"
    /\ up' = [up EXCEPT ![p] = "up"]
    /\ UNCHANGED <<settings, tables, telling, sending, faults, changes, accepted>>

(* A crash, or a shutdown between two items; the last process stays. *)
Crash(p) ==
    /\ up[p] = "up"
    /\ \E other \in Processes \ {p} : up[other] # "down"
    /\ Fault
    /\ up' = [up EXCEPT ![p] = "down"]
    /\ telling' = [telling EXCEPT ![p] = Idle]
    /\ sending' = [sending EXCEPT ![p] = Idle]
    /\ UNCHANGED <<settings, tables, changes, accepted>>

(* The error ends the batch; its rows stay leased. *)
WriteFails(p) ==
    /\ Fault
    /\ \/ /\ telling[p].pc \in DOMAIN StatusAfter
          /\ telling' = [telling EXCEPT ![p] = Idle]
          /\ UNCHANGED sending
       \/ /\ sending[p].pc \in {"answered", "recorded", "unloaded", "disabled"}
          /\ sending' = [sending EXCEPT ![p] = Idle]
          /\ UNCHANGED telling
    /\ UNCHANGED <<settings, tables, up, changes, accepted>>

-----------------------------------------------------------------------------
OutboxWorker(p) ==
    \/ ClaimEvents(p) \/ SettleEvent(p) \/ EndEvents(p)
    \/ \E e \in Events : Materialize(p, e) \/ RejectEnvelope(p, e)

DeliveryWorker(p) ==
    \/ ClaimDeliveries(p) \/ LoadDestination(p) \/ CallProvider(p)
    \/ RecordAttempt(p) \/ SettleDelivery(p) \/ EndDeliveries(p)

Next ==
    \/ \E e \in Events : CreateOccurrence(e) \/ EventLeaseLapses(e) \/ DeletePublished(e)
    \/ \E u \in Users : SetActive(u)
    \/ \E d \in Destinations : UpdateDestination(d)
    \/ \E p \in Processes :
           \/ OutboxWorker(p) \/ DeliveryWorker(p)
           \/ LoadDestinationFails(p) \/ WriteFails(p) \/ Start(p) \/ Crash(p)
           \/ \E e \in Events : MaterializeFails(p, e)
    \/ \E w \in Work : BackoffPasses(w) \/ DeliveryLeaseLapses(w) \/ DeleteTerminal(w)

Spec == Init /\ [][Next]_vars

(* The workers poll for ever, processes are started, and the clock runs: a
   lease nobody works under runs out and a retry comes due.  This asks less
   than that of them: some worker goes on as long as one can, and the clock. *)
Fairness ==
    /\ WF_vars(\E p \in Processes : Start(p) \/ OutboxWorker(p) \/ DeliveryWorker(p))
    /\ WF_vars(\/ \E e \in Events : EventLeaseLapses(e)
               \/ \E w \in Work : BackoffPasses(w) \/ DeliveryLeaseLapses(w))

FairSpec == Spec /\ Fairness

-----------------------------------------------------------------------------
(* Properties                                                              *)

LeaseOK(row) ==
    /\ row.owner # None <=> row.status = "processing"
    /\ row.lapsed => row.status = "processing"

Tellers ==
    [pc : {"idle", "batch"} \cup DOMAIN StatusAfter, todo : SUBSET Events,
     item : Events \cup {None}, next : {0}, answer : {None}]

Senders ==
    [pc : {"idle", "batch", "request", "disabled", "unloaded", "answered", "recorded"},
     todo : SUBSET (Work \X Nat), item : Work \cup {None}, next : Nat,
     answer : Answers \cup {None}]

(* Rows hold what the code writes into them; a row has a lease owner exactly
   while it is being processed.  The attempt rows are numbered without gaps up
   to the count in the delivery, and the count exceeds the budget only by
   attempts whose outcome a fault kept from being written: the budget is
   checked after an attempt, never before. *)
TypeOK ==
    /\ active \subseteq Users /\ enabled \subseteq Destinations /\ subscribed \subseteq Destinations
    /\ outbox \in [Events -> OutboxRows \cup {None}]
    /\ \A e \in Events : outbox[e] # None => LeaseOK(outbox[e])
    /\ fact \in [Events -> FactRows \cup {None}]
    /\ delivery \in [Work -> DeliveryRows \cup {None}]
    /\ attempts \in [Work -> SUBSET Nat]
    /\ \A w \in Work : delivery[w] # None =>
           /\ LeaseOK(delivery[w])
           /\ delivery[w].count <= MaxAttempts + faults
           /\ attempts[w] = 1 .. delivery[w].count
    /\ up \in [Processes -> {"new", "up", "down"}]
    /\ telling \in [Processes -> Tellers]
    /\ sending \in [Processes -> Senders]
    /\ faults \in Nat /\ changes \in Nat /\ faults + changes <= MaxFaults
    /\ accepted \in [Work -> Nat]

(* Whoever took a message is asked again only because of a fault (a crash, a
   failed write, a lost answer, a batch slower than its lease): without one, a
   message that was taken is a delivered one, or is about to be. *)
AcceptanceIsAccounted ==
    \A w \in Work :
        LET delivered == \/ delivery[w] # None /\ delivery[w].status = "delivered"
                         \/ \E p \in Processes :
                                sending[p].item = w /\ sending[p].answer = "accepted"
        IN  delivery[w] # None =>
                accepted[w] <= faults + IF delivered THEN 1 ELSE 0

Changed(row, after) ==
    row # None /\ after # None /\ row.status = "processing"
    /\ (after.status # "processing" \/ after # [row EXCEPT !.owner = after.owner, !.lapsed = after.lapsed])

(* A row under a lease is settled, and an attempt counted, only by the worker
   that holds the lease: a worker that was too late and lost it changes nothing,
   whatever it still writes. *)
OnlyTheOwnerDecides ==
    [][/\ \A e \in Events : Changed(outbox[e], outbox'[e]) =>
              telling'[outbox[e].owner] # telling[outbox[e].owner]
       /\ \A w \in Work : Changed(delivery[w], delivery'[w]) =>
              sending'[delivery[w].owner] # sending[delivery[w].owner]]_vars

(* An event is told once, to the users active and the destinations open when it
   is first materialised, and a delivery ends once: replays by producers,
   workers that take over, retention and new settings change nothing of it. *)
Promise == INSTANCE NotificationPromise WITH
    users <- active,
    open <- enabled \cap subscribed,
    state <- [e \in Events |->
        IF fact[e] # None THEN "told"
        ELSE IF outbox[e] = None THEN "unheard"
        ELSE IF outbox[e].status = "unsupported" THEN "refused" ELSE "due"],
    audience <- [e \in Events |-> IF fact[e] = None THEN {} ELSE fact[e].recipients],
    result <- [e \in Events |-> [d \in Destinations |->
        IF fact[e] = None THEN "none"
        ELSE IF d \notin fact[e].destinations THEN "none"
        ELSE IF delivery[<<e, d>>] = None THEN "forgotten"
        ELSE CASE delivery[<<e, d>>].status = "delivered" -> "delivered"
               [] delivery[<<e, d>>].status = "failed_terminal" -> "failed"
               [] OTHER -> "owed"]]

KeepsThePromise == Promise!PromiseSpec

(* Every occurrence a producer commits is told or refused in the end, and every
   delivery is delivered or given up. *)
NothingIsStuck ==
    /\ \A e \in Events :
           outbox[e] # None ~>
               outbox[e] = None \/ outbox[e].status \in {"published", "unsupported"}
    /\ \A w \in Work :
           delivery[w] # None ~>
               delivery[w] = None \/ delivery[w].status \in {"delivered", "failed_terminal"}
=============================================================================
