--------------------- MODULE NotificationPipelineProofs ---------------------
(***************************************************************************)
(* Theorems about NotificationPipeline, for any events, users,             *)
(* destinations and processes, any batch sizes and any number of faults.   *)
(***************************************************************************)
EXTENDS NotificationPipeline, FiniteSetTheorems, TLAPS

-----------------------------------------------------------------------------
(* The inductive invariant                                                 *)

(* A claimed event has its row, or had it until its fact was published. *)
TellersFollowEvents ==
    \A p \in Processes :
        /\ telling[p].item = None <=> telling[p].pc \in {"idle", "batch"}
        /\ \A e \in Events : e \in telling[p].todo \/ e = telling[p].item =>
               outbox[e] # None \/ fact[e] # None
        /\ telling[p].pc = "publish" => fact[telling[p].item] # None
        /\ telling[p].pc = "refuse" => telling[p].item \notin Supported

(* Published events have a fact, and those refused could not have one. *)
EventsEndRight ==
    \A e \in Events :
        /\ outbox[e] # None /\ outbox[e].status = "published" => fact[e] # None
        /\ outbox[e] # None /\ outbox[e].status = "unsupported" => e \notin Supported
        /\ fact[e] # None => e \in Supported

Has(p, w) == sending[p].item = w \/ \E n \in Nat : <<w, n>> \in sending[p].todo

(* A delivery belongs to a fact, and before the fact there is nothing of it. *)
DeliveriesAreOwed ==
    \A w \in Work :
        /\ delivery[w] # None => fact[w[1]] # None /\ w[2] \in fact[w[1]].destinations
        /\ fact[w[1]] = None => accepted[w] = 0 /\ \A p \in Processes : ~Has(p, w)

(* Attempt rows go with their delivery. *)
AttemptsAreOwned == \A w \in Work : delivery[w] = None => attempts[w] = {}

(* The locals of a delivery worker. *)
SendersAreTidy ==
    \A p \in Processes :
        /\ sending[p].item = None <=> sending[p].pc \in {"idle", "batch"}
        /\ sending[p].pc = "idle" => sending[p].todo = {}
        /\ sending[p].answer = None <=> sending[p].pc \notin {"answered", "recorded"}
        /\ \A w \in Work, m, n \in Nat :
               <<w, n>> \in sending[p].todo =>
                   /\ w # sending[p].item
                   /\ n <= MaxAttempts + MaxFaults
                   /\ <<w, m>> \in sending[p].todo => m = n

(* As long as a worker holds a lease, the attempt count it read is the row's. *)
Fresh(p, w) ==
    Owns(delivery[w], p) =>
        /\ \A n \in Nat : <<w, n>> \in sending[p].todo => n = delivery[w].count
        /\ sending[p].item = w =>
               /\ sending[p].pc \in {"request", "answered"} =>
                      sending[p].next = delivery[w].count + 1
               /\ sending[p].pc = "recorded" => sending[p].next = delivery[w].count

CountsAreFresh == \A p \in Processes, w \in Work : Fresh(p, w)

Leasing(p, w) == Owns(delivery[w], p) /\ ~delivery[w].lapsed

(* The workers that will call the provider for w once more. *)
Calls(p, w) ==
    \/ \E n \in Nat : <<w, n>> \in sending[p].todo
    \/ sending[p].pc = "request" /\ sending[p].item = w

Callers(w) == {p \in Processes : Calls(p, w)}

Trying(p, w) == Calls(p, w) \/ (sending[p].pc = "answered" /\ sending[p].item = w)

Settling(p, w) == Leasing(p, w) /\ sending[p].item = w /\ sending[p].pc = "recorded"

(* The worker is late, which was a fault, and will record one more attempt
   unless another takes over. *)
Late(p, w) == Owns(delivery[w], p) /\ delivery[w].lapsed /\ Trying(p, w)

(* A delivery that may still be tried has budget left, and more than one
   attempt of it if a late worker takes one, but for the attempt a worker has
   recorded and, under its lease, is about to settle. *)
BudgetIsKept ==
    \A w \in Work :
        /\ delivery[w] # None
        /\ delivery[w].status \notin {"delivered", "failed_terminal"}
        => \/ \E p \in Processes : Settling(p, w)
           \/ /\ delivery[w].count < MaxAttempts + faults
              /\ \A p \in Processes :
                     Late(p, w) => delivery[w].count + 1 < MaxAttempts + faults

Holds(p, w) ==
    /\ Leasing(p, w)
    /\ Calls(p, w) \/ (sending[p].item = w /\ sending[p].answer = "accepted")

(* One acceptance needs no fault: that of the delivery that ended so, or that
   of the worker that holds the lease and has it already or still calls. *)
Credit(w) ==
    IF delivery[w].status = "delivered" \/ \E p \in Processes : Holds(p, w) THEN 1 ELSE 0

CallsAreAccounted ==
    \A w \in Work :
        delivery[w] # None => accepted[w] + Cardinality(Callers(w)) <= faults + Credit(w)

-----------------------------------------------------------------------------
(* Constants and types                                                     *)

LEMMA Names ==
    /\ \A p \in Processes : p # None
    /\ \A e \in Events : e # None
    /\ \A w \in Work : w # None
    /\ \A a \in Answers : a # None
    /\ None \notin OutboxRows /\ None \notin FactRows /\ None \notin DeliveryRows
  BY NotificationAssumption, Zenon

LEMMA Bounds ==
    /\ MaxAttempts \in Nat /\ MaxAttempts > 0 /\ MaxFaults \in Nat
    /\ IsFiniteSet(Processes)
    /\ Supported \subseteq Events
  BY NotificationAssumption

Types ==
    /\ active \subseteq Users /\ enabled \subseteq Destinations /\ subscribed \subseteq Destinations
    /\ outbox \in [Events -> OutboxRows \cup {None}]
    /\ fact \in [Events -> FactRows \cup {None}]
    /\ delivery \in [Work -> DeliveryRows \cup {None}]
    /\ attempts \in [Work -> SUBSET Nat]
    /\ up \in [Processes -> {"new", "up", "down"}]
    /\ telling \in [Processes -> Tellers]
    /\ sending \in [Processes -> Senders]
    /\ faults \in Nat /\ changes \in Nat /\ faults + changes <= MaxFaults
    /\ accepted \in [Work -> Nat]

EventLeases == \A e \in Events : outbox[e] # None => LeaseOK(outbox[e])

DeliveryLeases == \A w \in Work : delivery[w] # None => LeaseOK(delivery[w])

CountsOK ==
    \A w \in Work : delivery[w] # None =>
        delivery[w].count <= MaxAttempts + faults /\ attempts[w] = 1 .. delivery[w].count

LEMMA TypeParts == TypeOK <=> Types /\ EventLeases /\ DeliveryLeases /\ CountsOK
  BY DEF TypeOK, Types, EventLeases, DeliveryLeases, CountsOK

(* How a step changes one worker of a process. *)
TellerBecomes(p, pc, item, todo) ==
    /\ telling' \in [Processes -> Tellers]
    /\ \A q \in Processes : q # p => telling'[q] = telling[q]
    /\ telling'[p].pc = pc /\ telling'[p].item = item /\ telling'[p].todo = todo

SenderBecomes(p, pc, item, todo, next, answer) ==
    /\ sending' \in [Processes -> Senders]
    /\ \A q \in Processes : q # p => sending'[q] = sending[q]
    /\ sending'[p].pc = pc /\ sending'[p].item = item /\ sending'[p].todo = todo
    /\ sending'[p].next = next /\ sending'[p].answer = answer

(* The forms in which the actions write them. *)
LEMMA TellerForms ==
  ASSUME Types, NEW p \in Processes
  PROVE  /\ \A pc \in {"publish", "refuse", "release"}, e \in Events :
                telling' = [telling EXCEPT ![p].pc = pc, ![p].item = e, ![p].todo = @ \ {e}]
                => TellerBecomes(p, pc, e, telling[p].todo \ {e})
         /\ \A batch \in SUBSET Events :
                telling' = [telling EXCEPT ![p].pc = "batch", ![p].todo = batch]
                => TellerBecomes(p, "batch", telling[p].item, batch)
         /\ telling' = [telling EXCEPT ![p] = Idle] => TellerBecomes(p, "idle", None, {})
         /\ telling' = [telling EXCEPT ![p] = Done(@)]
            => TellerBecomes(p, "batch", None, telling[p].todo)
<1> USE DEF Types, Tellers, StatusAfter, TellerBecomes
<1>1. ASSUME NEW pc \in {"publish", "refuse", "release"}, NEW e \in Events,
             telling' = [telling EXCEPT ![p].pc = pc, ![p].item = e, ![p].todo = @ \ {e}]
      PROVE  TellerBecomes(p, pc, e, telling[p].todo \ {e})
  <2> DEFINE new == [pc |-> pc, todo |-> telling[p].todo \ {e}, item |-> e,
                     next |-> telling[p].next, answer |-> telling[p].answer]
  <2>1. telling[p] \in Tellers
    OBVIOUS
  <2>2. new \in Tellers
    BY <2>1
  <2>3. DOMAIN telling' = Processes /\ \A q \in Processes : q # p => telling'[q] = telling[q]
    BY <1>1, <2>1
  <2>4. telling'[p] = new
    BY <1>1, <2>1
  <2>5. telling' = [q \in DOMAIN telling' |-> telling'[q]]
    BY <1>1, <2>1
  <2>6. telling' \in [Processes -> Tellers]
    BY <2>2, <2>3, <2>4, <2>5
  <2>7. QED
    BY <2>3, <2>4, <2>6
<1>2. ASSUME NEW batch \in SUBSET Events,
             telling' = [telling EXCEPT ![p].pc = "batch", ![p].todo = batch]
      PROVE  TellerBecomes(p, "batch", telling[p].item, batch)
  BY <1>2
<1>3. ASSUME telling' = [telling EXCEPT ![p] = Idle]
      PROVE  TellerBecomes(p, "idle", None, {})
  BY <1>3 DEF Idle
<1>4. ASSUME telling' = [telling EXCEPT ![p] = Done(@)]
      PROVE  TellerBecomes(p, "batch", None, telling[p].todo)
  BY <1>4 DEF Done
<1>5. QED
  BY <1>1, <1>2, <1>3, <1>4

LEMMA SenderForms ==
  ASSUME Types, NEW p \in Processes
  PROVE  /\ \A pc \in {"request", "disabled"}, w \in Work, c \in Work \X Nat, n \in Nat :
                sending' = [sending EXCEPT ![p].pc = pc, ![p].item = w, ![p].next = n,
                                           ![p].todo = @ \ {c}]
                => SenderBecomes(p, pc, w, sending[p].todo \ {c}, n, sending[p].answer)
         /\ \A w \in Work, c \in Work \X Nat :
                sending' = [sending EXCEPT ![p].pc = "unloaded", ![p].item = w,
                                           ![p].todo = @ \ {c}]
                => SenderBecomes(p, "unloaded", w, sending[p].todo \ {c}, sending[p].next,
                                 sending[p].answer)
         /\ \A batch \in SUBSET (Work \X Nat) :
                sending' = [sending EXCEPT ![p].pc = "batch", ![p].todo = batch]
                => SenderBecomes(p, "batch", sending[p].item, batch, sending[p].next,
                                 sending[p].answer)
         /\ \A answer \in Answers :
                sending' = [sending EXCEPT ![p].pc = "answered", ![p].answer = answer]
                => SenderBecomes(p, "answered", sending[p].item, sending[p].todo,
                                 sending[p].next, answer)
         /\ sending' = [sending EXCEPT ![p].pc = "recorded"]
            => SenderBecomes(p, "recorded", sending[p].item, sending[p].todo,
                             sending[p].next, sending[p].answer)
         /\ sending' = [sending EXCEPT ![p] = Idle]
            => SenderBecomes(p, "idle", None, {}, 0, None)
         /\ sending' = [sending EXCEPT ![p] = Done(@)]
            => SenderBecomes(p, "batch", None, sending[p].todo, 0, None)
<1> USE DEF Types, Senders, SenderBecomes
<1>1. ASSUME NEW pc \in {"request", "disabled"}, NEW w \in Work, NEW c \in Work \X Nat,
             NEW n \in Nat,
             sending' = [sending EXCEPT ![p].pc = pc, ![p].item = w, ![p].next = n,
                                        ![p].todo = @ \ {c}]
      PROVE  SenderBecomes(p, pc, w, sending[p].todo \ {c}, n, sending[p].answer)
  <2> DEFINE new == [pc |-> pc, todo |-> sending[p].todo \ {c}, item |-> w,
                     next |-> n, answer |-> sending[p].answer]
  <2>1. sending[p] \in Senders
    OBVIOUS
  <2>2. new \in Senders
    BY <2>1
  <2>3. DOMAIN sending' = Processes /\ \A q \in Processes : q # p => sending'[q] = sending[q]
    BY <1>1, <2>1
  <2>4. sending'[p] = new
    BY <1>1, <2>1
  <2>5. sending' = [q \in DOMAIN sending' |-> sending'[q]]
    BY <1>1, <2>1
  <2>6. sending' \in [Processes -> Senders]
    BY <2>2, <2>3, <2>4, <2>5
  <2>7. QED
    BY <2>3, <2>4, <2>6
<1>2. ASSUME NEW w \in Work, NEW c \in Work \X Nat,
             sending' = [sending EXCEPT ![p].pc = "unloaded", ![p].item = w, ![p].todo = @ \ {c}]
      PROVE  SenderBecomes(p, "unloaded", w, sending[p].todo \ {c}, sending[p].next,
                           sending[p].answer)
  <2> DEFINE new == [pc |-> "unloaded", todo |-> sending[p].todo \ {c}, item |-> w,
                     next |-> sending[p].next, answer |-> sending[p].answer]
  <2>1. sending[p] \in Senders
    OBVIOUS
  <2>2. new \in Senders
    BY <2>1
  <2>3. DOMAIN sending' = Processes /\ \A q \in Processes : q # p => sending'[q] = sending[q]
    BY <1>2, <2>1
  <2>4. sending'[p] = new
    BY <1>2, <2>1
  <2>5. sending' = [q \in DOMAIN sending' |-> sending'[q]]
    BY <1>2, <2>1
  <2>6. sending' \in [Processes -> Senders]
    BY <2>2, <2>3, <2>4, <2>5
  <2>7. QED
    BY <2>3, <2>4, <2>6
<1>3. ASSUME NEW batch \in SUBSET (Work \X Nat),
             sending' = [sending EXCEPT ![p].pc = "batch", ![p].todo = batch]
      PROVE  SenderBecomes(p, "batch", sending[p].item, batch, sending[p].next,
                           sending[p].answer)
  BY <1>3
<1>4. ASSUME NEW answer \in Answers,
             sending' = [sending EXCEPT ![p].pc = "answered", ![p].answer = answer]
      PROVE  SenderBecomes(p, "answered", sending[p].item, sending[p].todo,
                           sending[p].next, answer)
  BY <1>4
<1>5. ASSUME sending' = [sending EXCEPT ![p].pc = "recorded"]
      PROVE  SenderBecomes(p, "recorded", sending[p].item, sending[p].todo,
                           sending[p].next, sending[p].answer)
  BY <1>5
<1>6. ASSUME sending' = [sending EXCEPT ![p] = Idle]
      PROVE  SenderBecomes(p, "idle", None, {}, 0, None)
  BY <1>6 DEF Idle
<1>7. ASSUME sending' = [sending EXCEPT ![p] = Done(@)]
      PROVE  SenderBecomes(p, "batch", None, sending[p].todo, 0, None)
  BY <1>7 DEF Done
<1>8. QED
  BY <1>1, <1>2, <1>3, <1>4, <1>5, <1>6, <1>7

LEMMA OutboxRowChanges ==
  ASSUME NEW row \in OutboxRows
  PROVE  /\ row.status \in {"pending", "processing", "published", "unsupported"}
         /\ row.owner \in Processes \cup {None} /\ row.lapsed \in BOOLEAN
         /\ LET new == [row EXCEPT !.lapsed = TRUE]
            IN  /\ new \in OutboxRows
                /\ new.status = row.status /\ new.owner = row.owner /\ new.lapsed
  BY DEF OutboxRows

LEMMA DeliveryRowChanges ==
  ASSUME NEW row \in DeliveryRows
  PROVE  /\ row.status \in Waiting \cup {"processing", "delivered", "failed_terminal"}
         /\ row.owner \in Processes \cup {None} /\ row.lapsed \in BOOLEAN
         /\ row.due \in BOOLEAN /\ row.count \in Nat
         /\ LET new == [row EXCEPT !.due = TRUE]
            IN  /\ new \in DeliveryRows
                /\ new.status = row.status /\ new.owner = row.owner
                /\ new.lapsed = row.lapsed /\ new.count = row.count
         /\ LET new == [row EXCEPT !.lapsed = TRUE]
            IN  /\ new \in DeliveryRows
                /\ new.status = row.status /\ new.owner = row.owner
                /\ new.lapsed /\ new.count = row.count
  BY DEF DeliveryRows, Waiting

(* How a step changes one row. *)
OutboxBecomes(e, status, owner, lapsed) ==
    /\ outbox' \in [Events -> OutboxRows \cup {None}]
    /\ \A f \in Events : f # e => outbox'[f] = outbox[f]
    /\ outbox'[e] # None
    /\ outbox'[e].status = status /\ outbox'[e].owner = owner /\ outbox'[e].lapsed = lapsed

DeliveryBecomes(w, status, owner, lapsed, count) ==
    /\ delivery' \in [Work -> DeliveryRows \cup {None}]
    /\ \A v \in Work : v # w => delivery'[v] = delivery[v]
    /\ delivery'[w] # None
    /\ delivery'[w].status = status /\ delivery'[w].owner = owner
    /\ delivery'[w].lapsed = lapsed /\ delivery'[w].count = count

LEMMA OutboxForms ==
  ASSUME Types, NEW e \in Events
  PROVE  /\ outbox' = [outbox EXCEPT
                ![e] = [status |-> "pending", owner |-> None, lapsed |-> FALSE]]
            => OutboxBecomes(e, "pending", None, FALSE)
         /\ \A status \in {"published", "unsupported", "pending"} :
                outbox[e] # None /\ outbox' = [outbox EXCEPT ![e] = Unleased(@, status)]
                => OutboxBecomes(e, status, None, FALSE)
         /\ outbox[e] # None /\ outbox' = [outbox EXCEPT ![e].lapsed = TRUE]
            => OutboxBecomes(e, outbox[e].status, outbox[e].owner, TRUE)
<1>1. ASSUME NEW row \in OutboxRows, outbox' = [outbox EXCEPT ![e] = row]
      PROVE  OutboxBecomes(e, row.status, row.owner, row.lapsed)
  BY <1>1, Names DEF Types, OutboxBecomes
<1>2. ASSUME outbox' = [outbox EXCEPT
                 ![e] = [status |-> "pending", owner |-> None, lapsed |-> FALSE]]
      PROVE  OutboxBecomes(e, "pending", None, FALSE)
  <2> DEFINE new == [status |-> "pending", owner |-> None, lapsed |-> FALSE]
  <2>1. new \in OutboxRows
    BY DEF OutboxRows
  <2>2. QED
    BY <1>1, <1>2, <2>1
<1>3. ASSUME outbox[e] # None
      PROVE  outbox[e] \in OutboxRows
  BY <1>3 DEF Types
<1>4. ASSUME NEW status \in {"published", "unsupported", "pending"},
             outbox[e] # None, outbox' = [outbox EXCEPT ![e] = Unleased(@, status)]
      PROVE  OutboxBecomes(e, status, None, FALSE)
  <2> DEFINE new == Unleased(outbox[e], status)
  <2>1. new \in OutboxRows /\ new.status = status /\ new.owner = None /\ ~new.lapsed
    BY <1>3, <1>4 DEF OutboxRows, Unleased
  <2>2. outbox' = [outbox EXCEPT ![e] = new]
    BY <1>4
  <2> HIDE DEF new
  <2>3. new.lapsed = FALSE
    BY <2>1, OutboxRowChanges
  <2>4. QED
    BY <1>1, <2>1, <2>2, <2>3
<1>5. ASSUME outbox[e] # None, outbox' = [outbox EXCEPT ![e].lapsed = TRUE]
      PROVE  OutboxBecomes(e, outbox[e].status, outbox[e].owner, TRUE)
  <2> DEFINE new == [outbox[e] EXCEPT !.lapsed = TRUE]
  <2>1. /\ new \in OutboxRows
        /\ new.status = outbox[e].status /\ new.owner = outbox[e].owner /\ new.lapsed
    BY <1>3, <1>5, OutboxRowChanges
  <2>2. outbox' = [outbox EXCEPT ![e] = new]
    BY <1>5
  <2> HIDE DEF new
  <2>3. new.lapsed = TRUE
    BY <2>1, OutboxRowChanges
  <2>4. QED
    BY <1>1, <2>1, <2>2, <2>3
<1>6. QED
  BY <1>2, <1>4, <1>5

LEMMA DeliveryForms ==
  ASSUME Types, NEW w \in Work, delivery[w] # None
  PROVE  /\ \A status \in {"retrying", "delivered", "failed_terminal"}, due \in BOOLEAN :
                delivery' = [delivery EXCEPT ![w] = [Unleased(@, status) EXCEPT !.due = due]]
                => DeliveryBecomes(w, status, None, FALSE, delivery[w].count)
         /\ \A count \in Nat :
                delivery' = [delivery EXCEPT ![w].count = count]
                => DeliveryBecomes(w, delivery[w].status, delivery[w].owner, delivery[w].lapsed,
                                   count)
         /\ delivery' = [delivery EXCEPT ![w].due = TRUE]
            => DeliveryBecomes(w, delivery[w].status, delivery[w].owner, delivery[w].lapsed,
                               delivery[w].count)
         /\ delivery' = [delivery EXCEPT ![w].lapsed = TRUE]
            => DeliveryBecomes(w, delivery[w].status, delivery[w].owner, TRUE,
                               delivery[w].count)
<1>1. delivery[w] \in DeliveryRows
  BY DEF Types
<1>2. ASSUME NEW row \in DeliveryRows, delivery' = [delivery EXCEPT ![w] = row]
      PROVE  DeliveryBecomes(w, row.status, row.owner, row.lapsed, row.count)
  BY <1>2, Names DEF Types, DeliveryBecomes
<1>3. ASSUME NEW status \in {"retrying", "delivered", "failed_terminal"}, NEW due \in BOOLEAN,
             delivery' = [delivery EXCEPT ![w] = [Unleased(@, status) EXCEPT !.due = due]]
      PROVE  DeliveryBecomes(w, status, None, FALSE, delivery[w].count)
  <2> DEFINE new == [Unleased(delivery[w], status) EXCEPT !.due = due]
  <2>1. /\ new \in DeliveryRows /\ new.status = status /\ new.owner = None /\ ~new.lapsed
        /\ new.count = delivery[w].count
    BY <1>1 DEF DeliveryRows, Waiting, Unleased
  <2>2. delivery' = [delivery EXCEPT ![w] = new]
    BY <1>3
  <2> HIDE DEF new
  <2>3. new.lapsed = FALSE
    BY <2>1, DeliveryRowChanges
  <2>4. QED
    BY <1>2, <2>1, <2>2, <2>3
<1>4. ASSUME NEW count \in Nat, delivery' = [delivery EXCEPT ![w].count = count]
      PROVE  DeliveryBecomes(w, delivery[w].status, delivery[w].owner, delivery[w].lapsed,
                             count)
  <2> DEFINE new == [delivery[w] EXCEPT !.count = count]
  <2>1. /\ new \in DeliveryRows
        /\ new.status = delivery[w].status /\ new.owner = delivery[w].owner
        /\ new.lapsed = delivery[w].lapsed /\ new.count = count
    BY <1>1 DEF DeliveryRows, Waiting
  <2>2. delivery' = [delivery EXCEPT ![w] = new]
    BY <1>4
  <2> HIDE DEF new
  <2>3. QED
    BY <1>2, <2>1, <2>2
<1>5. ASSUME delivery' = [delivery EXCEPT ![w].due = TRUE]
      PROVE  DeliveryBecomes(w, delivery[w].status, delivery[w].owner, delivery[w].lapsed,
                             delivery[w].count)
  <2> DEFINE new == [delivery[w] EXCEPT !.due = TRUE]
  <2>1. /\ new \in DeliveryRows
        /\ new.status = delivery[w].status /\ new.owner = delivery[w].owner
        /\ new.lapsed = delivery[w].lapsed /\ new.count = delivery[w].count
    BY <1>1, DeliveryRowChanges
  <2>2. delivery' = [delivery EXCEPT ![w] = new]
    BY <1>5
  <2> HIDE DEF new
  <2>3. QED
    BY <1>2, <2>1, <2>2
<1>6. ASSUME delivery' = [delivery EXCEPT ![w].lapsed = TRUE]
      PROVE  DeliveryBecomes(w, delivery[w].status, delivery[w].owner, TRUE,
                             delivery[w].count)
  <2> DEFINE new == [delivery[w] EXCEPT !.lapsed = TRUE]
  <2>1. /\ new \in DeliveryRows
        /\ new.status = delivery[w].status /\ new.owner = delivery[w].owner
        /\ new.lapsed /\ new.count = delivery[w].count
    BY <1>1, DeliveryRowChanges
  <2>2. delivery' = [delivery EXCEPT ![w] = new]
    BY <1>6
  <2> HIDE DEF new
  <2>3. new.lapsed = TRUE
    BY <2>1, DeliveryRowChanges
  <2>4. QED
    BY <1>2, <2>1, <2>2, <2>3
<1>7. QED
  BY <1>3, <1>4, <1>5, <1>6

-----------------------------------------------------------------------------
(* What the claims and the materialisation do to the rows and the workers. *)

LEMMA ClaimEventsEffect ==
  ASSUME Types, NEW p \in Processes, ClaimEvents(p)
  PROVE  \E batch \in SUBSET Events :
             /\ \A e \in batch : Claimable(outbox[e])
             /\ outbox' \in [Events -> OutboxRows \cup {None}]
             /\ \A e \in batch :
                    /\ outbox'[e] = Leased(outbox[e], p)
                    /\ outbox'[e] # None /\ outbox'[e].status = "processing"
                    /\ outbox'[e].owner = p /\ ~outbox'[e].lapsed
             /\ \A e \in Events \ batch : outbox'[e] = outbox[e]
             /\ TellerBecomes(p, "batch", telling[p].item, batch)
<1>1. PICK batch \in SUBSET {e \in Events : Claimable(outbox[e])} :
          /\ outbox' = [e \in Events |-> IF e \in batch THEN Leased(outbox[e], p) ELSE outbox[e]]
          /\ telling' = [telling EXCEPT ![p].pc = "batch", ![p].todo = batch]
  BY DEF ClaimEvents, Batches
<1>2. batch \in SUBSET Events /\ \A e \in batch : Claimable(outbox[e])
  OBVIOUS
<1>3. \A e \in batch : outbox[e] \in OutboxRows
  BY <1>2 DEF Claimable, Types
<1>4. /\ \A e \in batch : outbox'[e] = Leased(outbox[e], p)
      /\ \A e \in Events \ batch : outbox'[e] = outbox[e]
  BY <1>1, <1>2
<1>5. \A e \in batch :
          /\ outbox'[e] \in OutboxRows /\ outbox'[e].status = "processing"
          /\ outbox'[e].owner = p /\ ~outbox'[e].lapsed
  <2>1. ASSUME NEW e \in batch
        PROVE  LET new == Leased(outbox[e], p)
               IN  /\ new \in OutboxRows
                   /\ new.status = "processing" /\ new.owner = p /\ ~new.lapsed
    BY <1>3 DEF OutboxRows, Leased
  <2>2. QED
    BY <1>4, <2>1
<1>6. \A e \in Events : outbox'[e] \in OutboxRows \cup {None}
  BY <1>4, <1>5 DEF Types
<1>7. outbox' \in [Events -> OutboxRows \cup {None}]
  BY <1>1, <1>6
<1>8. TellerBecomes(p, "batch", telling[p].item, batch)
  BY <1>1, <1>2, TellerForms
<1>9. QED
  BY <1>2, <1>4, <1>5, <1>7, <1>8, Names

LEMMA MaterializeEffect ==
  ASSUME Types, NEW p \in Processes, NEW e \in Events, Materialize(p, e)
  PROVE  /\ fact' \in [Events -> FactRows \cup {None}]
         /\ fact' = [fact EXCEPT ![e] = CreateFact(e)]
         /\ CreateFact(e) \in FactRows
         /\ delivery' \in [Work -> DeliveryRows \cup {None}]
         /\ \A w \in Work :
                IF w[1] = e /\ fact[e] = None /\ w[2] \in CreateFact(e).destinations
                THEN /\ delivery'[w] # None /\ delivery'[w].status = "pending"
                     /\ delivery'[w].owner = None /\ ~delivery'[w].lapsed
                     /\ delivery'[w].count = 0
                ELSE delivery'[w] = delivery[w]
         /\ TellerBecomes(p, "publish", e, telling[p].todo \ {e})
<1> DEFINE New == [status |-> "pending", owner |-> None, lapsed |-> FALSE, due |-> TRUE,
                   count |-> 0]
           Owed(w) == w[1] = e /\ fact[e] = None /\ w[2] \in CreateFact(e).destinations
<1>1. CreateFact(e) \in FactRows
  BY DEF CreateFact, FactRows, Types
<1>2. fact' = [fact EXCEPT ![e] = CreateFact(e)] /\ delivery' = CreateDeliveries(e)
  BY DEF Materialize
<1>3. fact' \in [Events -> FactRows \cup {None}]
  BY <1>1, <1>2 DEF Types
<1>4. delivery' = [w \in Work |-> IF Owed(w) THEN New ELSE delivery[w]]
  BY <1>2 DEF CreateDeliveries
<1>5. New \in DeliveryRows
  BY DEF DeliveryRows, Waiting
<1>6. delivery' \in [Work -> DeliveryRows \cup {None}]
  BY <1>4, <1>5 DEF Types
<1>7. \A w \in Work :
          IF Owed(w)
          THEN /\ delivery'[w] # None /\ delivery'[w].status = "pending"
               /\ delivery'[w].owner = None /\ ~delivery'[w].lapsed
               /\ delivery'[w].count = 0
          ELSE delivery'[w] = delivery[w]
  BY <1>4, <1>5, Names
<1>8. TellerBecomes(p, "publish", e, telling[p].todo \ {e})
  BY TellerForms DEF Materialize
<1>9. QED
  BY <1>1, <1>2, <1>3, <1>6, <1>7, <1>8

LEMMA ClaimDeliveriesEffect ==
  ASSUME Types, NEW p \in Processes, ClaimDeliveries(p)
  PROVE  \E batch \in SUBSET Work :
             /\ \A w \in batch : Claimable(delivery[w])
             /\ delivery' \in [Work -> DeliveryRows \cup {None}]
             /\ \A w \in batch :
                    /\ delivery'[w] = Leased(delivery[w], p)
                    /\ delivery'[w] # None /\ delivery'[w].status = "processing"
                    /\ delivery'[w].owner = p /\ ~delivery'[w].lapsed
                    /\ delivery'[w].count = delivery[w].count
             /\ \A w \in Work \ batch : delivery'[w] = delivery[w]
             /\ SenderBecomes(p, "batch", sending[p].item,
                              {<<w, delivery[w].count>> : w \in batch},
                              sending[p].next, sending[p].answer)
<1>1. PICK batch \in SUBSET DueDeliveries :
          /\ delivery' = [w \in Work |->
                 IF w \in batch THEN Leased(delivery[w], p) ELSE delivery[w]]
          /\ sending' = [sending EXCEPT ![p].pc = "batch",
                 ![p].todo = {<<w, delivery[w].count>> : w \in batch}]
  BY DEF ClaimDeliveries, Batches
<1>2. batch \in SUBSET Work /\ \A w \in batch : Claimable(delivery[w])
  BY DEF DueDeliveries
<1>3. \A w \in batch : delivery[w] \in DeliveryRows
  BY <1>2 DEF Claimable, Types
<1>4. /\ \A w \in batch : delivery'[w] = Leased(delivery[w], p)
      /\ \A w \in Work \ batch : delivery'[w] = delivery[w]
  BY <1>1, <1>2
<1>5. \A w \in batch :
          /\ delivery'[w] \in DeliveryRows /\ delivery'[w].status = "processing"
          /\ delivery'[w].owner = p /\ ~delivery'[w].lapsed
          /\ delivery'[w].count = delivery[w].count /\ delivery[w].count \in Nat
  <2>1. ASSUME NEW w \in batch
        PROVE  LET new == Leased(delivery[w], p)
               IN  /\ new \in DeliveryRows
                   /\ new.status = "processing" /\ new.owner = p /\ ~new.lapsed
                   /\ new.count = delivery[w].count /\ delivery[w].count \in Nat
    BY <1>3 DEF DeliveryRows, Waiting, Leased
  <2>2. QED
    BY <1>4, <2>1
<1>6. \A w \in Work : delivery'[w] \in DeliveryRows \cup {None}
  BY <1>4, <1>5 DEF Types
<1>7. delivery' \in [Work -> DeliveryRows \cup {None}]
  BY <1>1, <1>6
<1>8. {<<w, delivery[w].count>> : w \in batch} \in SUBSET (Work \X Nat)
  BY <1>2, <1>5
<1>9. SenderBecomes(p, "batch", sending[p].item, {<<w, delivery[w].count>> : w \in batch},
                    sending[p].next, sending[p].answer)
  BY <1>1, <1>8, SenderForms
<1>10. QED
  BY <1>2, <1>4, <1>5, <1>7, <1>9, Names

-----------------------------------------------------------------------------
(* Types are kept.                                                         *)

LEMMA SenderAtWork ==
  ASSUME Types, SendersAreTidy, NEW p \in Processes, sending[p].pc \notin {"idle", "batch"}
  PROVE  /\ sending[p].item \in Work /\ sending[p].next \in Nat
         /\ sending[p].pc \in {"answered", "recorded"} => sending[p].answer \in Answers
<1>1. sending[p] \in Senders
  BY DEF Types
<1>2. QED
  BY <1>1 DEF SendersAreTidy, Senders

LEMMA ClaimedPairs ==
  ASSUME Types, NEW p \in Processes, NEW claimed \in sending[p].todo
  PROVE  /\ claimed \in Work \X Nat /\ claimed = <<claimed[1], claimed[2]>>
         /\ claimed[1] \in Work /\ claimed[2] \in Nat
<1>1. sending[p] \in Senders
  BY DEF Types
<1>2. QED
  BY <1>1 DEF Senders

LEMMA LoadEffect ==
  ASSUME Types, NEW p \in Processes, LoadDestination(p)
  PROVE  \E w \in Work, n \in Nat, pc \in {"request", "disabled"} :
             /\ <<w, n>> \in sending[p].todo
             /\ SenderBecomes(p, pc, w, sending[p].todo \ {<<w, n>>}, n + 1, sending[p].answer)
<1>1. PICK claimed \in sending[p].todo :
          sending' = [sending EXCEPT
              ![p].pc = IF claimed[1][2] \in enabled THEN "request" ELSE "disabled",
              ![p].item = claimed[1], ![p].next = claimed[2] + 1, ![p].todo = @ \ {claimed}]
  BY DEF LoadDestination
<1>2. PICK pc \in {"request", "disabled"} :
          sending' = [sending EXCEPT ![p].pc = pc, ![p].item = claimed[1],
                                     ![p].next = claimed[2] + 1, ![p].todo = @ \ {claimed}]
  <2>1. CASE claimed[1][2] \in enabled
    BY <1>1, <2>1, Zenon
  <2>2. CASE claimed[1][2] \notin enabled
    BY <1>1, <2>2, Zenon
  <2>3. QED
    BY <2>1, <2>2
<1>3. /\ claimed \in Work \X Nat /\ claimed = <<claimed[1], claimed[2]>>
      /\ claimed[1] \in Work /\ claimed[2] \in Nat /\ claimed[2] + 1 \in Nat
  BY ClaimedPairs
<1>4. SenderBecomes(p, pc, claimed[1], sending[p].todo \ {claimed}, claimed[2] + 1,
                    sending[p].answer)
  BY <1>2, <1>3, SenderForms
<1>5. QED
  BY <1>3, <1>4

LEMMA LoadFailsEffect ==
  ASSUME Types, NEW p \in Processes, LoadDestinationFails(p)
  PROVE  \E w \in Work, n \in Nat :
             /\ <<w, n>> \in sending[p].todo
             /\ SenderBecomes(p, "unloaded", w, sending[p].todo \ {<<w, n>>}, sending[p].next,
                              sending[p].answer)
<1>1. PICK claimed \in sending[p].todo :
          sending' = [sending EXCEPT ![p].pc = "unloaded", ![p].item = claimed[1],
                                     ![p].todo = @ \ {claimed}]
  BY DEF LoadDestinationFails
<1>2. /\ claimed \in Work \X Nat /\ claimed = <<claimed[1], claimed[2]>>
      /\ claimed[1] \in Work /\ claimed[2] \in Nat
  BY ClaimedPairs
<1>3. SenderBecomes(p, "unloaded", claimed[1], sending[p].todo \ {claimed}, sending[p].next,
                    sending[p].answer)
  BY <1>1, <1>2, SenderForms
<1>4. QED
  BY <1>2, <1>3

LEMMA TellerTypes ==
  ASSUME Types, NEW p \in Processes,
         OutboxWorker(p) \/ \E e \in Events : MaterializeFails(p, e)
  PROVE  Types'
<1>1. ASSUME ClaimEvents(p)
      PROVE  Types'
  BY <1>1, ClaimEventsEffect DEF ClaimEvents, Types, TellerBecomes, settings
<1>2. ASSUME SettleEvent(p)
      PROVE  Types'
  <2>1. telling[p] \in Tellers
    BY DEF Types
  <2>2. telling[p].pc \in DOMAIN StatusAfter /\ telling[p].item \in Events \cup {None}
    BY <1>2, <2>1 DEF SettleEvent, Tellers
  <2>3. StatusAfter[telling[p].pc] \in {"published", "unsupported", "pending"}
    BY <2>2 DEF StatusAfter
  <2>4. outbox' \in [Events -> OutboxRows \cup {None}]
    <3>1. ASSUME telling[p].item \in Events, Owns(outbox[telling[p].item], p),
                 outbox' = [outbox EXCEPT
                     ![telling[p].item] = Unleased(@, StatusAfter[telling[p].pc])]
          PROVE  outbox' \in [Events -> OutboxRows \cup {None}]
      BY <2>3, <3>1, OutboxForms DEF Owns, OutboxBecomes
    <3>2. ASSUME telling[p].item \notin Events,
                 outbox' = [outbox EXCEPT
                     ![telling[p].item] = Unleased(@, StatusAfter[telling[p].pc])]
          PROVE  outbox' \in [Events -> OutboxRows \cup {None}]
      BY <3>2 DEF Types
    <3>3. QED
      BY <1>2, <3>1, <3>2 DEF SettleEvent, Types
  <2>5. telling' \in [Processes -> Tellers]
    BY <1>2, TellerForms DEF SettleEvent, TellerBecomes
  <2>6. QED
    BY <1>2, <2>4, <2>5 DEF SettleEvent, Types, settings
<1>3. ASSUME EndEvents(p)
      PROVE  Types'
  <2>1. telling' \in [Processes -> Tellers]
    BY <1>3, TellerForms DEF EndEvents, TellerBecomes
  <2>2. QED
    BY <1>3, <2>1 DEF EndEvents, Types, settings, tables
<1>4. ASSUME NEW f \in Events, Materialize(p, f)
      PROVE  Types'
  BY <1>4, MaterializeEffect DEF Materialize, Types, settings, TellerBecomes
<1>5. ASSUME NEW f \in Events, RejectEnvelope(p, f)
      PROVE  Types'
  <2>1. telling' \in [Processes -> Tellers]
    BY <1>5, TellerForms DEF RejectEnvelope, TellerBecomes
  <2>2. QED
    BY <1>5, <2>1 DEF RejectEnvelope, Types, settings, tables
<1>6. ASSUME NEW f \in Events, MaterializeFails(p, f)
      PROVE  Types'
  <2>1. telling' \in [Processes -> Tellers]
    BY <1>6, TellerForms DEF MaterializeFails, TellerBecomes
  <2>2. /\ Fault
        /\ UNCHANGED << settings, tables, up, sending, changes, accepted >>
    BY <1>6 DEF MaterializeFails
  <2>3. QED
    BY <2>1, <2>2, Bounds DEF Fault, Types, settings, tables
<1>7. QED
  BY <1>1, <1>2, <1>3, <1>4, <1>5, <1>6 DEF OutboxWorker

LEMMA SenderTypes ==
  ASSUME Types, SendersAreTidy, NEW p \in Processes,
         DeliveryWorker(p) \/ LoadDestinationFails(p)
  PROVE  Types'
<1>1. ASSUME ClaimDeliveries(p)
      PROVE  Types'
  BY <1>1, ClaimDeliveriesEffect DEF ClaimDeliveries, Types, SenderBecomes, settings
<1>2. ASSUME LoadDestination(p)
      PROVE  Types'
  <2>1. sending' \in [Processes -> Senders]
    BY <1>2, LoadEffect DEF SenderBecomes
  <2>2. QED
    BY <1>2, <2>1 DEF LoadDestination, Types, settings, tables
<1>3. ASSUME LoadDestinationFails(p)
      PROVE  Types'
  <2>1. sending' \in [Processes -> Senders]
    BY <1>3, LoadFailsEffect DEF SenderBecomes
  <2>2. /\ Fault
        /\ UNCHANGED << settings, tables, up, telling, changes, accepted >>
    BY <1>3 DEF LoadDestinationFails
  <2>3. QED
    BY <2>1, <2>2, Bounds DEF Fault, Types, settings, tables
<1>4. ASSUME CallProvider(p)
      PROVE  Types'
  <2>1. sending[p].item \in Work
    BY <1>4, SenderAtWork DEF CallProvider
  <2>2. sending' \in [Processes -> Senders]
    BY <1>4, SenderForms DEF CallProvider, SenderBecomes, Answers
  <2>3. accepted' \in [Work -> Nat] /\ faults' \in Nat /\ faults' + changes <= MaxFaults
    BY <1>4, <2>1, Bounds DEF CallProvider, Types, Fault
  <2>4. QED
    BY <1>4, <2>2, <2>3 DEF CallProvider, Types, settings, tables
<1>5. ASSUME RecordAttempt(p)
      PROVE  Types'
  <2>1. sending[p].item \in Work /\ sending[p].next \in Nat
    BY <1>5, SenderAtWork DEF RecordAttempt
  <2> DEFINE w == sending[p].item
             number == sending[p].next
  <2>2. sending' \in [Processes -> Senders]
    BY <1>5, SenderForms DEF RecordAttempt, SenderBecomes
  <2>3. ASSUME Owns(delivery[w], p),
               delivery' = [delivery EXCEPT ![w].count = IF number <= @ THEN @ ELSE number],
               attempts' = [attempts EXCEPT ![w] = @ \cup {number}]
        PROVE  delivery' \in [Work -> DeliveryRows \cup {None}]
               /\ attempts' \in [Work -> SUBSET Nat]
    <3>1. delivery[w] \in DeliveryRows
      BY <2>1, <2>3 DEF Types, Owns
    <3>2. PICK count \in Nat : count = IF number <= delivery[w].count THEN delivery[w].count
                                       ELSE number
      BY <2>1, <3>1, DeliveryRowChanges
    <3>3. delivery' = [delivery EXCEPT ![w].count = count]
      BY <2>3, <3>2
    <3>4. delivery' \in [Work -> DeliveryRows \cup {None}]
      BY <2>1, <2>3, <3>3, DeliveryForms DEF Owns, DeliveryBecomes
    <3>5. attempts' \in [Work -> SUBSET Nat]
      BY <2>1, <2>3 DEF Types
    <3>6. QED
      BY <3>4, <3>5
  <2>4. QED
    BY <1>5, <2>2, <2>3 DEF RecordAttempt, Types, settings
<1>6. ASSUME SettleDelivery(p)
      PROVE  Types'
  <2>1. sending[p].item \in Work
    BY <1>6, SenderAtWork DEF SettleDelivery
  <2> DEFINE w == sending[p].item
  <2>2. sending' \in [Processes -> Senders]
    BY <1>6, SenderForms DEF SettleDelivery, SenderBecomes
  <2>3. ASSUME NEW status \in Outcomes(sending[p]), Owns(delivery[w], p),
               delivery' = [delivery EXCEPT ![w] =
                   [Unleased(@, status) EXCEPT !.due = sending[p].pc = "unloaded"]]
        PROVE  delivery' \in [Work -> DeliveryRows \cup {None}]
    <3>1. status \in {"retrying", "delivered", "failed_terminal"}
      BY <2>3 DEF Outcomes
    <3>2. PICK due \in BOOLEAN : due = (sending[p].pc = "unloaded")
      OBVIOUS
    <3>3. delivery' = [delivery EXCEPT ![w] = [Unleased(@, status) EXCEPT !.due = due]]
      BY <2>3, <3>2, Zenon
    <3>4. QED
      BY <2>1, <2>3, <3>1, <3>3, DeliveryForms DEF Owns, DeliveryBecomes
  <2>4. QED
    BY <1>6, <2>2, <2>3 DEF SettleDelivery, Types, settings
<1>7. ASSUME EndDeliveries(p)
      PROVE  Types'
  <2>1. sending' \in [Processes -> Senders]
    BY <1>7, SenderForms DEF EndDeliveries, SenderBecomes
  <2>2. QED
    BY <1>7, <2>1 DEF EndDeliveries, Types, settings, tables
<1>8. QED
  BY <1>1, <1>2, <1>3, <1>4, <1>5, <1>6, <1>7 DEF DeliveryWorker

LEMMA OtherTypes ==
  ASSUME Types,
         \/ \E e \in Events : CreateOccurrence(e) \/ EventLeaseLapses(e) \/ DeletePublished(e)
         \/ \E u \in Users : SetActive(u)
         \/ \E d \in Destinations : UpdateDestination(d)
         \/ \E p \in Processes : WriteFails(p) \/ Start(p) \/ Crash(p)
         \/ \E w \in Work : BackoffPasses(w) \/ DeliveryLeaseLapses(w) \/ DeleteTerminal(w)
         \/ UNCHANGED vars
  PROVE  Types'
<1>1. ASSUME NEW e \in Events, CreateOccurrence(e)
      PROVE  Types'
  <2>1. outbox' \in [Events -> OutboxRows \cup {None}]
    BY <1>1, OutboxForms DEF CreateOccurrence, OutboxBecomes
  <2>2. changes' \in Nat /\ faults + changes' <= MaxFaults
    BY <1>1, Bounds DEF CreateOccurrence, Change, Types
  <2>3. QED
    BY <1>1, <2>1, <2>2 DEF CreateOccurrence, Types, settings, workers
<1>2. ASSUME NEW e \in Events, EventLeaseLapses(e)
      PROVE  Types'
  <2>1. outbox' \in [Events -> OutboxRows \cup {None}]
    BY <1>2, OutboxForms DEF EventLeaseLapses, Processing, OutboxBecomes
  <2>2. faults' \in Nat /\ faults' + changes' <= MaxFaults /\ changes' = changes
    BY <1>2, Bounds DEF EventLeaseLapses, Fault, Types
  <2>3. QED
    BY <1>2, <2>1, <2>2 DEF EventLeaseLapses, Types, settings, workers
<1>3. ASSUME NEW e \in Events, DeletePublished(e)
      PROVE  Types'
  BY <1>3 DEF DeletePublished, Types, settings, workers
<1>4. ASSUME NEW u \in Users, SetActive(u)
      PROVE  Types'
  BY <1>4, Bounds DEF SetActive, Change, Types, tables, workers
<1>5. ASSUME NEW d \in Destinations, UpdateDestination(d)
      PROVE  Types'
  BY <1>5, Bounds DEF UpdateDestination, Change, Types, tables, workers
<1>6. ASSUME NEW p \in Processes, WriteFails(p)
      PROVE  Types'
  <2>1. telling' \in [Processes -> Tellers] /\ sending' \in [Processes -> Senders]
    BY <1>6, TellerForms, SenderForms
    DEF WriteFails, TellerBecomes, SenderBecomes, Types
  <2>2. QED
    BY <1>6, <2>1, Bounds DEF WriteFails, Fault, Types, settings, tables
<1>7. ASSUME NEW p \in Processes, Start(p)
      PROVE  Types'
  BY <1>7 DEF Start, Types, settings, tables
<1>8. ASSUME NEW p \in Processes, Crash(p)
      PROVE  Types'
  <2>1. telling' \in [Processes -> Tellers] /\ sending' \in [Processes -> Senders]
    BY <1>8, TellerForms, SenderForms DEF Crash, TellerBecomes, SenderBecomes
  <2>2. up' \in [Processes -> {"new", "up", "down"}]
    BY <1>8 DEF Crash, Types
  <2>3. QED
    BY <1>8, <2>1, <2>2, Bounds DEF Crash, Fault, Types, settings, tables
<1>9. ASSUME NEW w \in Work, BackoffPasses(w)
      PROVE  Types'
  <2>1. delivery' \in [Work -> DeliveryRows \cup {None}]
    BY <1>9, DeliveryForms DEF BackoffPasses, DeliveryBecomes
  <2>2. QED
    BY <1>9, <2>1 DEF BackoffPasses, Types, settings, workers
<1>10. ASSUME NEW w \in Work, DeliveryLeaseLapses(w)
       PROVE  Types'
  <2>1. delivery' \in [Work -> DeliveryRows \cup {None}]
    BY <1>10, DeliveryForms DEF DeliveryLeaseLapses, Processing, DeliveryBecomes
  <2>2. faults' \in Nat /\ faults' + changes' <= MaxFaults /\ changes' = changes
    BY <1>10, Bounds DEF DeliveryLeaseLapses, Fault, Types
  <2>3. QED
    BY <1>10, <2>1, <2>2 DEF DeliveryLeaseLapses, Types, settings, workers
<1>11. ASSUME NEW w \in Work, DeleteTerminal(w)
       PROVE  Types'
  BY <1>11 DEF DeleteTerminal, Types, settings, workers
<1>12. ASSUME UNCHANGED vars
       PROVE  Types'
  BY <1>12 DEF vars, Types, settings, tables, workers
<1>13. QED
  BY <1>1, <1>2, <1>3, <1>4, <1>5, <1>6, <1>7, <1>8, <1>9, <1>10, <1>11, <1>12

LEMMA TypeStep ==
  ASSUME Types, SendersAreTidy, [Next]_vars
  PROVE  Types'
<1>1. ASSUME NEW p \in Processes, OutboxWorker(p) \/ \E e \in Events : MaterializeFails(p, e)
      PROVE  Types'
  BY <1>1, TellerTypes
<1>2. ASSUME NEW p \in Processes, DeliveryWorker(p) \/ LoadDestinationFails(p)
      PROVE  Types'
  BY <1>2, SenderTypes
<1>3. QED
  BY <1>1, <1>2, OtherTypes DEF Next

-----------------------------------------------------------------------------
(* Events, their rows and the outbox workers.                              *)

EventIInv == EventLeases /\ TellersFollowEvents /\ EventsEndRight

LEMMA TellerFields ==
  ASSUME Types, NEW p \in Processes
  PROVE  /\ telling[p].todo \subseteq Events /\ telling[p].item \in Events \cup {None}
         /\ telling[p].pc \in {"idle", "batch", "publish", "refuse", "release"}
<1>1. telling[p] \in Tellers
  BY DEF Types
<1>2. QED
  BY <1>1 DEF Tellers, StatusAfter

(* A worker may only drop what it claimed, a row may only stay or go once its
   event has a fact. *)
LEMMA TellersKept ==
  ASSUME Types, TellersFollowEvents, EventsEndRight, NEW p \in Processes,
         \A q \in Processes : q # p => telling'[q] = telling[q],
         telling'[p].todo \subseteq telling[p].todo,
         telling'[p].item = None <=> telling'[p].pc \in {"idle", "batch"},
         telling'[p].item \in telling[p].todo \cup {None},
         telling'[p].pc = "publish" => fact'[telling'[p].item] # None,
         telling'[p].pc = "refuse" => telling'[p].item \notin Supported,
         \A e \in Events : fact[e] # None => fact'[e] # None,
         \A e \in Events : outbox[e] # None => outbox'[e] # None \/ fact[e] # None
  PROVE  TellersFollowEvents'
  BY TellerFields, Names DEF TellersFollowEvents

LEMMA EventsSettle ==
  ASSUME Types, EventIInv, NEW p \in Processes, SettleEvent(p)
  PROVE  EventIInv'
<1> DEFINE e == telling[p].item
           status == StatusAfter[telling[p].pc]
<1>1. /\ telling[p].pc \in {"publish", "refuse", "release"} /\ e \in Events
      /\ status = CASE telling[p].pc = "publish" -> "published"
                    [] telling[p].pc = "refuse" -> "unsupported"
                    [] telling[p].pc = "release" -> "pending"
  <2>1. telling[p].pc \in {"publish", "refuse", "release"}
    BY DEF SettleEvent, StatusAfter
  <2>2. QED
    BY <2>1, TellerFields DEF EventIInv, TellersFollowEvents, StatusAfter
<1>2. UNCHANGED << fact, delivery >>
  BY DEF SettleEvent
<1>3. CASE /\ outbox[e] # None /\ OutboxBecomes(e, status, None, FALSE)
           /\ TellerBecomes(p, "batch", None, telling[p].todo)
  <2>1. TellersFollowEvents'
    BY <1>2, <1>3, TellersKept DEF TellerBecomes, OutboxBecomes, EventIInv
  <2>2. EventsEndRight'
    BY <1>1, <1>2, <1>3 DEF OutboxBecomes, EventIInv, EventsEndRight, TellersFollowEvents
  <2>3. EventLeases'
    BY <1>1, <1>3 DEF OutboxBecomes, EventIInv, EventLeases, LeaseOK
  <2>4. QED
    BY <2>1, <2>2, <2>3 DEF EventIInv
<1>4. CASE UNCHANGED outbox /\ TellerBecomes(p, "idle", None, {})
  <2>1. TellersFollowEvents'
    BY <1>2, <1>4, TellersKept DEF TellerBecomes, EventIInv
  <2>2. EventsEndRight' /\ EventLeases'
    BY <1>2, <1>4 DEF EventIInv, EventsEndRight, EventLeases
  <2>3. QED
    BY <2>1, <2>2 DEF EventIInv
<1>5. ASSUME Owns(outbox[e], p), outbox' = [outbox EXCEPT ![e] = Unleased(@, status)]
      PROVE  outbox[e] # None /\ OutboxBecomes(e, status, None, FALSE)
  BY <1>1, <1>5, OutboxForms DEF Owns
<1>6. QED
  BY <1>3, <1>4, <1>5, TellerForms DEF SettleEvent

LEMMA EventsClaimed ==
  ASSUME Types, EventIInv, NEW p \in Processes, ClaimEvents(p)
  PROVE  EventIInv'
<1>1. PICK batch \in SUBSET Events :
          /\ \A e \in batch : Claimable(outbox[e])
          /\ outbox' \in [Events -> OutboxRows \cup {None}]
          /\ \A e \in batch :
                 /\ outbox'[e] # None /\ outbox'[e].status = "processing"
                 /\ outbox'[e].owner = p /\ ~outbox'[e].lapsed
          /\ \A e \in Events \ batch : outbox'[e] = outbox[e]
          /\ TellerBecomes(p, "batch", telling[p].item, batch)
  BY ClaimEventsEffect
<1>2. telling[p].pc = "idle" /\ UNCHANGED fact
  BY DEF ClaimEvents
<1>3. telling[p].item = None
  BY <1>2 DEF EventIInv, TellersFollowEvents
<1>4. \A e \in Events : outbox[e] # None => outbox'[e] # None
  BY <1>1
<1>5. TellersFollowEvents'
  BY <1>1, <1>2, <1>3, <1>4, Names DEF TellerBecomes, EventIInv, TellersFollowEvents
<1>6. EventsEndRight'
  BY <1>1, <1>2 DEF EventIInv, EventsEndRight
<1>7. EventLeases'
  BY <1>1, Names DEF EventIInv, EventLeases, LeaseOK
<1>8. QED
  BY <1>5, <1>6, <1>7 DEF EventIInv

LEMMA EventsHandled ==
  ASSUME Types, EventIInv, NEW p \in Processes, NEW e \in Events,
         Materialize(p, e) \/ RejectEnvelope(p, e) \/ MaterializeFails(p, e)
  PROVE  EventIInv'
<1>1. ASSUME Materialize(p, e)
      PROVE  EventIInv'
  <2>1. /\ fact' = [fact EXCEPT ![e] = CreateFact(e)] /\ CreateFact(e) # None
        /\ TellerBecomes(p, "publish", e, telling[p].todo \ {e})
        /\ e \in telling[p].todo /\ e \in Supported /\ UNCHANGED outbox
    BY <1>1, MaterializeEffect, Names DEF Materialize
  <2>2. /\ fact'[e] # None
        /\ \A f \in Events : f # e => fact'[f] = fact[f]
    BY <2>1 DEF Types
  <2>3. TellersFollowEvents'
    BY <2>1, <2>2, TellersKept, Names DEF TellerBecomes, EventIInv
  <2>4. EventsEndRight' /\ EventLeases'
    BY <2>1, <2>2 DEF EventIInv, EventsEndRight, EventLeases
  <2>5. QED
    BY <2>3, <2>4 DEF EventIInv
<1>2. ASSUME RejectEnvelope(p, e) \/ MaterializeFails(p, e)
      PROVE  EventIInv'
  <2>1. /\ UNCHANGED << fact, outbox >>
        /\ e \in telling[p].todo
        /\ \/ TellerBecomes(p, "refuse", e, telling[p].todo \ {e}) /\ e \notin Supported
           \/ TellerBecomes(p, "release", e, telling[p].todo \ {e})
    BY <1>2, TellerForms DEF RejectEnvelope, MaterializeFails, tables
  <2>2. TellersFollowEvents'
    BY <2>1, TellersKept, Names DEF TellerBecomes, EventIInv
  <2>3. EventsEndRight' /\ EventLeases'
    BY <2>1 DEF EventIInv, EventsEndRight, EventLeases
  <2>4. QED
    BY <2>2, <2>3 DEF EventIInv
<1>3. QED
  BY <1>1, <1>2

LEMMA EventRowsStep ==
  ASSUME Types, EventIInv, NEW e \in Events,
         CreateOccurrence(e) \/ EventLeaseLapses(e) \/ DeletePublished(e)
  PROVE  EventIInv'
<1>1. UNCHANGED << telling, fact >>
  BY DEF CreateOccurrence, EventLeaseLapses, DeletePublished, workers
<1>2. CASE CreateOccurrence(e)
  <2>1. OutboxBecomes(e, "pending", None, FALSE)
    BY <1>2, OutboxForms DEF CreateOccurrence
  <2>2. QED
    BY <1>1, <2>1
    DEF OutboxBecomes, EventIInv, TellersFollowEvents, EventsEndRight, EventLeases, LeaseOK
<1>3. CASE EventLeaseLapses(e)
  <2>1. /\ outbox[e] # None /\ outbox[e].status = "processing"
        /\ OutboxBecomes(e, outbox[e].status, outbox[e].owner, TRUE)
    BY <1>3, OutboxForms DEF EventLeaseLapses, Processing
  <2>2. QED
    BY <1>1, <2>1
    DEF OutboxBecomes, EventIInv, TellersFollowEvents, EventsEndRight, EventLeases, LeaseOK
<1>4. CASE DeletePublished(e)
  <2>1. /\ outbox[e] # None /\ outbox[e].status = "published"
        /\ outbox' = [outbox EXCEPT ![e] = None]
    BY <1>4 DEF DeletePublished
  <2>2. fact[e] # None
    BY <2>1 DEF EventIInv, EventsEndRight
  <2>3. \A f \in Events : outbox'[f] = IF f = e THEN None ELSE outbox[f]
    BY <2>1 DEF Types
  <2>4. QED
    BY <1>1, <2>2, <2>3
    DEF EventIInv, TellersFollowEvents, EventsEndRight, EventLeases
<1>5. QED
  BY <1>2, <1>3, <1>4

LEMMA TellersStop ==
  ASSUME Types, EventIInv, UNCHANGED << outbox, fact >>, NEW p \in Processes,
         UNCHANGED telling \/ TellerBecomes(p, "idle", None, {})
  PROVE  EventIInv'
<1>1. CASE UNCHANGED telling
  BY <1>1 DEF EventIInv, TellersFollowEvents, EventsEndRight, EventLeases
<1>2. CASE TellerBecomes(p, "idle", None, {})
  <2>1. TellersFollowEvents'
    BY <1>2, TellersKept DEF TellerBecomes, EventIInv
  <2>2. QED
    BY <2>1 DEF EventIInv, EventsEndRight, EventLeases
<1>3. QED
  BY <1>1, <1>2

LEMMA EventStep ==
  ASSUME Types, EventIInv, [Next]_vars
  PROVE  EventIInv'
<1>1. ASSUME NEW p \in Processes, EndEvents(p) \/ WriteFails(p) \/ Crash(p)
      PROVE  EventIInv'
  <2>1. UNCHANGED << outbox, fact >>
    BY <1>1 DEF EndEvents, WriteFails, Crash, tables
  <2>2. UNCHANGED telling \/ TellerBecomes(p, "idle", None, {})
    BY <1>1, TellerForms DEF EndEvents, WriteFails, Crash
  <2>3. QED
    BY <2>1, <2>2, TellersStop
<1>2. ASSUME UNCHANGED << outbox, fact, telling >>
      PROVE  EventIInv'
  BY <1>2 DEF EventIInv, TellersFollowEvents, EventsEndRight, EventLeases
<1>3. ASSUME NEW p \in Processes, OutboxWorker(p) \/ \E e \in Events : MaterializeFails(p, e)
      PROVE  EventIInv'
  BY <1>1, <1>3, EventsClaimed, EventsSettle, EventsHandled DEF OutboxWorker
<1>4. ASSUME NEW p \in Processes,
             DeliveryWorker(p) \/ LoadDestinationFails(p) \/ Start(p)
      PROVE  UNCHANGED << outbox, fact, telling >>
  BY <1>4 DEF DeliveryWorker, LoadDestinationFails, Start, ClaimDeliveries, LoadDestination,
              CallProvider, RecordAttempt, SettleDelivery, EndDeliveries, tables
<1>5. ASSUME NEW u \in Users, SetActive(u)
      PROVE  UNCHANGED << outbox, fact, telling >>
  BY <1>5 DEF SetActive, tables, workers
<1>6. ASSUME NEW d \in Destinations, UpdateDestination(d)
      PROVE  UNCHANGED << outbox, fact, telling >>
  BY <1>6 DEF UpdateDestination, tables, workers
<1>7. ASSUME NEW w \in Work, BackoffPasses(w) \/ DeliveryLeaseLapses(w) \/ DeleteTerminal(w)
      PROVE  UNCHANGED << outbox, fact, telling >>
  BY <1>7 DEF BackoffPasses, DeliveryLeaseLapses, DeleteTerminal, workers
<1>8. ASSUME UNCHANGED vars
      PROVE  UNCHANGED << outbox, fact, telling >>
  BY <1>8 DEF vars, tables, workers
<1>9. QED
  BY <1>1, <1>2, <1>3, <1>4, <1>5, <1>6, <1>7, <1>8, EventRowsStep DEF Next

-----------------------------------------------------------------------------
(* Deliveries belong to facts.                                             *)

LEMMA OwedKept ==
  ASSUME DeliveriesAreOwed, UNCHANGED fact,
         \A w \in Work : delivery'[w] # None => delivery[w] # None,
         \A w \in Work : accepted'[w] # accepted[w] => \E p \in Processes : Has(p, w),
         \A w \in Work, p \in Processes : Has(p, w)' => Has(p, w) \/ delivery[w] # None
  PROVE  DeliveriesAreOwed'
<1>1. ASSUME NEW w \in Work
      PROVE  /\ delivery'[w] # None => fact'[w[1]] # None /\ w[2] \in fact'[w[1]].destinations
             /\ fact'[w[1]] = None =>
                    accepted'[w] = 0 /\ \A p \in Processes : ~Has(p, w)'
  <2>1. delivery'[w] # None => fact'[w[1]] # None /\ w[2] \in fact'[w[1]].destinations
    BY DEF DeliveriesAreOwed
  <2>2. ASSUME fact'[w[1]] = None
        PROVE  accepted'[w] = 0 /\ \A p \in Processes : ~Has(p, w)'
    <3>1. /\ delivery[w] = None /\ accepted[w] = 0
          /\ \A p \in Processes : ~Has(p, w)
      BY <2>2 DEF DeliveriesAreOwed
    <3>2. QED
      BY <3>1
  <2>3. QED
    BY <2>1, <2>2
<1>2. QED
  BY <1>1 DEF DeliveriesAreOwed

(* A step of one worker that adds nothing to what the worker has. *)
LEMMA HasLess ==
  ASSUME NEW p \in Processes, NEW pc, NEW item, NEW todo, NEW next, NEW answer,
         SenderBecomes(p, pc, item, todo, next, answer),
         todo \subseteq sending[p].todo,
         item = sending[p].item \/ item = None \/ \E n \in Nat : <<item, n>> \in sending[p].todo
  PROVE  \A w \in Work, q \in Processes : Has(q, w)' => Has(q, w)
<1>1. ASSUME NEW w \in Work, NEW q \in Processes, q # p
      PROVE  Has(q, w)' => Has(q, w)
  BY <1>1 DEF SenderBecomes, Has
<1>2. ASSUME NEW w \in Work, Has(p, w)'
      PROVE  Has(p, w)
  BY <1>2, Names DEF SenderBecomes, Has
<1>3. QED
  BY <1>1, <1>2

LEMMA OwedMaterialized ==
  ASSUME Types, DeliveriesAreOwed, NEW p \in Processes, NEW e \in Events, Materialize(p, e)
  PROVE  DeliveriesAreOwed'
<1>1. /\ UNCHANGED << sending, accepted >>
      /\ fact' = [fact EXCEPT ![e] = CreateFact(e)] /\ CreateFact(e) # None
      /\ fact[e] # None => CreateFact(e) = fact[e]
  BY MaterializeEffect, Names DEF Materialize, CreateFact
<1>2. \A w \in Work :
          \/ w[1] = e /\ w[2] \in CreateFact(e).destinations
          \/ delivery'[w] = delivery[w]
  BY MaterializeEffect
<1>3. /\ fact'[e] = CreateFact(e)
      /\ \A f \in Events : f # e => fact'[f] = fact[f]
  BY <1>1 DEF Types
<1>4. \A w \in Work : w[1] \in Events
  BY DEF Work
<1>5. ASSUME NEW w \in Work
      PROVE  /\ delivery'[w] # None => fact'[w[1]] # None /\ w[2] \in fact'[w[1]].destinations
             /\ fact'[w[1]] = None =>
                    accepted'[w] = 0 /\ \A q \in Processes : ~Has(q, w)'
  <2>1. CASE w[1] = e
    BY <1>1, <1>2, <1>3, <2>1 DEF DeliveriesAreOwed
  <2>2. CASE w[1] # e
    <3>1. fact'[w[1]] = fact[w[1]] /\ delivery'[w] = delivery[w]
      BY <1>2, <1>3, <1>4, <2>2
    <3>2. \A q \in Processes : Has(q, w)' <=> Has(q, w)
      BY <1>1 DEF Has
    <3>3. QED
      BY <1>1, <3>1, <3>2 DEF DeliveriesAreOwed
  <2>3. QED
    BY <2>1, <2>2
<1>6. QED
  BY <1>5 DEF DeliveriesAreOwed

LEMMA OwedClaimed ==
  ASSUME Types, DeliveriesAreOwed, NEW p \in Processes, ClaimDeliveries(p)
  PROVE  DeliveriesAreOwed'
<1>1. PICK batch \in SUBSET Work :
          /\ \A w \in batch : Claimable(delivery[w])
          /\ \A w \in Work \ batch : delivery'[w] = delivery[w]
          /\ SenderBecomes(p, "batch", sending[p].item,
                           {<<w, delivery[w].count>> : w \in batch},
                           sending[p].next, sending[p].answer)
  BY ClaimDeliveriesEffect
<1>2. UNCHANGED << fact, accepted >>
  BY DEF ClaimDeliveries
<1>3. \A w \in Work : delivery'[w] # None => delivery[w] # None
  BY <1>1 DEF Claimable
<1>4. ASSUME NEW w \in Work, NEW q \in Processes, Has(q, w)'
      PROVE  Has(q, w) \/ delivery[w] # None
  <2>1. CASE q = p
    BY <1>1, <1>4, <2>1 DEF SenderBecomes, Has, Claimable
  <2>2. CASE q # p
    BY <1>1, <1>4, <2>2 DEF SenderBecomes, Has
  <2>3. QED
    BY <2>1, <2>2
<1>5. QED
  BY <1>2, <1>3, <1>4, OwedKept

(* How the workers' other steps and the faults change what a worker has. *)
LEMMA SenderDrops ==
  ASSUME Types, SendersAreTidy, NEW p \in Processes,
         \/ LoadDestination(p) \/ LoadDestinationFails(p) \/ CallProvider(p)
         \/ RecordAttempt(p) \/ SettleDelivery(p) \/ EndDeliveries(p)
         \/ WriteFails(p) \/ Crash(p)
  PROVE  \A w \in Work, q \in Processes : Has(q, w)' => Has(q, w)
<1> DEFINE Goal == \A w \in Work, q \in Processes : Has(q, w)' => Has(q, w)
<1>1. ASSUME UNCHANGED sending
      PROVE  Goal
  BY <1>1 DEF Has
<1>2. ASSUME SenderBecomes(p, "idle", None, {}, 0, None)
      PROVE  Goal
  BY <1>2, HasLess
<1>3. ASSUME SenderBecomes(p, "batch", None, sending[p].todo, 0, None)
      PROVE  Goal
  BY <1>3, HasLess
<1>4. ASSUME NEW pc, NEW answer,
             SenderBecomes(p, pc, sending[p].item, sending[p].todo, sending[p].next, answer)
      PROVE  Goal
  BY <1>4, HasLess
<1>5. ASSUME LoadDestination(p)
      PROVE  Goal
  <2>1. PICK w \in Work, n \in Nat, pc \in {"request", "disabled"} :
            /\ <<w, n>> \in sending[p].todo
            /\ SenderBecomes(p, pc, w, sending[p].todo \ {<<w, n>>}, n + 1, sending[p].answer)
    BY <1>5, LoadEffect
  <2>2. QED
    BY <2>1, HasLess
<1>6. ASSUME LoadDestinationFails(p)
      PROVE  Goal
  <2>1. PICK w \in Work, n \in Nat :
            /\ <<w, n>> \in sending[p].todo
            /\ SenderBecomes(p, "unloaded", w, sending[p].todo \ {<<w, n>>}, sending[p].next,
                             sending[p].answer)
    BY <1>6, LoadFailsEffect
  <2>2. QED
    BY <2>1, HasLess
<1>7. ASSUME CallProvider(p)
      PROVE  Goal
  <2>1. \E answer \in Answers :
            SenderBecomes(p, "answered", sending[p].item, sending[p].todo, sending[p].next,
                          answer)
    BY <1>7, SenderForms DEF CallProvider, Answers
  <2>2. QED
    BY <1>4, <2>1
<1>8. ASSUME RecordAttempt(p) \/ SettleDelivery(p) \/ EndDeliveries(p)
      PROVE  Goal
  <2>1. \/ SenderBecomes(p, "recorded", sending[p].item, sending[p].todo, sending[p].next,
                         sending[p].answer)
        \/ SenderBecomes(p, "idle", None, {}, 0, None)
        \/ SenderBecomes(p, "batch", None, sending[p].todo, 0, None)
    BY <1>8, SenderForms DEF RecordAttempt, SettleDelivery, EndDeliveries
  <2>2. QED
    BY <1>2, <1>3, <1>4, <2>1
<1>9. ASSUME WriteFails(p) \/ Crash(p)
      PROVE  Goal
  <2>1. UNCHANGED sending \/ SenderBecomes(p, "idle", None, {}, 0, None)
    BY <1>9, SenderForms DEF WriteFails, Crash
  <2>2. QED
    BY <1>1, <1>2, <2>1
<1>10. QED
  BY <1>5, <1>6, <1>7, <1>8, <1>9

(* Delivery rows come only with a fact. *)
LEMMA RowsStay ==
  ASSUME Types, SendersAreTidy,
         \/ \E p \in Processes : DeliveryWorker(p) \/ LoadDestinationFails(p)
         \/ \E w \in Work : BackoffPasses(w) \/ DeliveryLeaseLapses(w) \/ DeleteTerminal(w)
  PROVE  \A w \in Work : delivery'[w] # None => delivery[w] # None
<1> DEFINE Goal == \A w \in Work : delivery'[w] # None => delivery[w] # None
<1>1. ASSUME NEW p \in Processes, ClaimDeliveries(p)
      PROVE  Goal
  BY <1>1, ClaimDeliveriesEffect DEF Claimable
<1>2. ASSUME NEW p \in Processes, RecordAttempt(p) \/ SettleDelivery(p)
      PROVE  Goal
  <2>1. \/ UNCHANGED delivery
        \/ /\ Owns(delivery[sending[p].item], p)
           /\ \E row : delivery' = [delivery EXCEPT ![sending[p].item] = row]
    BY <1>2 DEF RecordAttempt, SettleDelivery
  <2>2. QED
    BY <2>1 DEF Owns, Types
<1>3. ASSUME NEW v \in Work, BackoffPasses(v) \/ DeliveryLeaseLapses(v)
      PROVE  Goal
  BY <1>3, DeliveryForms
  DEF BackoffPasses, DeliveryLeaseLapses, Processing, DeliveryBecomes
<1>4. ASSUME NEW v \in Work, DeleteTerminal(v)
      PROVE  Goal
  BY <1>4 DEF DeleteTerminal, Types
<1>5. ASSUME NEW p \in Processes,
             LoadDestination(p) \/ LoadDestinationFails(p) \/ CallProvider(p) \/ EndDeliveries(p)
      PROVE  Goal
  BY <1>5 DEF LoadDestination, LoadDestinationFails, CallProvider, EndDeliveries, tables
<1>6. QED
  BY <1>1, <1>2, <1>3, <1>4, <1>5 DEF DeliveryWorker

LEMMA OwedStep ==
  ASSUME Types, SendersAreTidy, DeliveriesAreOwed, [Next]_vars
  PROVE  DeliveriesAreOwed'
<1>1. ASSUME UNCHANGED << fact, delivery, accepted, sending >>
      PROVE  DeliveriesAreOwed'
  BY <1>1 DEF DeliveriesAreOwed, Has
<1>2. ASSUME NEW p \in Processes, OutboxWorker(p) \/ \E e \in Events : MaterializeFails(p, e)
      PROVE  DeliveriesAreOwed'
  <2>1. ASSUME NEW e \in Events, RejectEnvelope(p, e) \/ MaterializeFails(p, e)
        PROVE  UNCHANGED << fact, delivery, accepted, sending >>
    BY <2>1 DEF RejectEnvelope, MaterializeFails, tables
  <2>2. ASSUME ClaimEvents(p) \/ SettleEvent(p) \/ EndEvents(p)
        PROVE  UNCHANGED << fact, delivery, accepted, sending >>
    BY <2>2 DEF ClaimEvents, SettleEvent, EndEvents, tables
  <2>3. QED
    BY <1>1, <1>2, <2>1, <2>2, OwedMaterialized DEF OutboxWorker
<1>3. ASSUME NEW p \in Processes, DeliveryWorker(p) \/ LoadDestinationFails(p)
      PROVE  DeliveriesAreOwed'
  <2>1. CASE ClaimDeliveries(p)
    BY <2>1, OwedClaimed
  <2>2. ASSUME ~ClaimDeliveries(p)
        PROVE  DeliveriesAreOwed'
    <3>1. UNCHANGED fact
      BY <1>3, <2>2 DEF DeliveryWorker, LoadDestination, LoadDestinationFails, CallProvider,
                        RecordAttempt, SettleDelivery, EndDeliveries, tables
    <3>2. \A w \in Work : accepted'[w] # accepted[w] => Has(p, w)
      <4>1. CASE CallProvider(p)
        <5>1. sending[p].item \in Work
          BY <4>1, SenderAtWork DEF CallProvider
        <5>2. \A w \in Work : w # sending[p].item => accepted'[w] = accepted[w]
          BY <4>1 DEF CallProvider, Types
        <5>3. QED
          BY <5>2 DEF Has
      <4>2. CASE ~CallProvider(p)
        BY <1>3, <2>2, <4>2 DEF DeliveryWorker, LoadDestination, LoadDestinationFails,
                                RecordAttempt, SettleDelivery, EndDeliveries
      <4>3. QED
        BY <4>1, <4>2
    <3>3. \A w \in Work, q \in Processes : Has(q, w)' => Has(q, w)
      BY <1>3, <2>2, SenderDrops DEF DeliveryWorker
    <3>4. \A w \in Work : delivery'[w] # None => delivery[w] # None
      BY <1>3, RowsStay
    <3>5. QED
      BY <3>1, <3>2, <3>3, <3>4, OwedKept
  <2>3. QED
    BY <2>1, <2>2
<1>4. ASSUME NEW p \in Processes, WriteFails(p) \/ Crash(p)
      PROVE  DeliveriesAreOwed'
  <2>1. UNCHANGED << fact, delivery, accepted >>
    BY <1>4 DEF WriteFails, Crash, tables
  <2>2. QED
    BY <1>4, <2>1, SenderDrops, OwedKept
<1>5. ASSUME NEW w \in Work, BackoffPasses(w) \/ DeliveryLeaseLapses(w) \/ DeleteTerminal(w)
      PROVE  DeliveriesAreOwed'
  <2>1. UNCHANGED << fact, accepted, sending >>
    BY <1>5 DEF BackoffPasses, DeliveryLeaseLapses, DeleteTerminal, workers
  <2>2. \A v \in Work, q \in Processes : Has(q, v)' => Has(q, v)
    BY <2>1 DEF Has
  <2>3. QED
    BY <1>5, <2>1, <2>2, RowsStay, OwedKept
<1>6. ASSUME NEW e \in Events, CreateOccurrence(e) \/ EventLeaseLapses(e) \/ DeletePublished(e)
      PROVE  UNCHANGED << fact, delivery, accepted, sending >>
  BY <1>6 DEF CreateOccurrence, EventLeaseLapses, DeletePublished, workers
<1>7. ASSUME NEW u \in Users, SetActive(u)
      PROVE  UNCHANGED << fact, delivery, accepted, sending >>
  BY <1>7 DEF SetActive, tables, workers
<1>8. ASSUME NEW d \in Destinations, UpdateDestination(d)
      PROVE  UNCHANGED << fact, delivery, accepted, sending >>
  BY <1>8 DEF UpdateDestination, tables, workers
<1>9. ASSUME NEW p \in Processes, Start(p)
      PROVE  UNCHANGED << fact, delivery, accepted, sending >>
  BY <1>9 DEF Start, tables
<1>10. ASSUME UNCHANGED vars
       PROVE  UNCHANGED << fact, delivery, accepted, sending >>
  BY <1>10 DEF vars, tables, workers
<1>11. QED
  BY <1>1, <1>2, <1>3, <1>4, <1>5, <1>6, <1>7, <1>8, <1>9, <1>10 DEF Next

-----------------------------------------------------------------------------
(* The delivery workers keep track.                                        *)

LEMMA TidyKept ==
  ASSUME SendersAreTidy, NEW p \in Processes, NEW pc, NEW item, NEW todo, NEW next, NEW answer,
         SenderBecomes(p, pc, item, todo, next, answer),
         item = None <=> pc \in {"idle", "batch"},
         pc = "idle" => todo = {},
         answer = None <=> pc \notin {"answered", "recorded"},
         \A w \in Work, m, n \in Nat :
             <<w, n>> \in todo =>
                 /\ w # item
                 /\ n <= MaxAttempts + MaxFaults
                 /\ <<w, m>> \in todo => m = n
  PROVE  SendersAreTidy'
<1>1. ASSUME NEW q \in Processes
      PROVE  /\ sending'[q].item = None <=> sending'[q].pc \in {"idle", "batch"}
             /\ sending'[q].pc = "idle" => sending'[q].todo = {}
             /\ sending'[q].answer = None <=> sending'[q].pc \notin {"answered", "recorded"}
             /\ \A w \in Work, m, n \in Nat :
                    <<w, n>> \in sending'[q].todo =>
                        /\ w # sending'[q].item
                        /\ n <= MaxAttempts + MaxFaults
                        /\ <<w, m>> \in sending'[q].todo => m = n
  <2>1. CASE q = p
    BY <2>1 DEF SenderBecomes
  <2>2. CASE q # p
    <3>1. sending'[q] = sending[q]
      BY <2>2 DEF SenderBecomes
    <3>2. QED
      BY <3>1 DEF SendersAreTidy
  <2>3. QED
    BY <2>1, <2>2
<1>2. QED
  BY <1>1 DEF SendersAreTidy

LEMMA TidyWorker ==
  ASSUME SendersAreTidy, NEW p \in Processes
  PROVE  /\ sending[p].item = None <=> sending[p].pc \in {"idle", "batch"}
         /\ sending[p].pc = "idle" => sending[p].todo = {}
         /\ sending[p].answer = None <=> sending[p].pc \notin {"answered", "recorded"}
         /\ \A w \in Work, m, n \in Nat :
                <<w, n>> \in sending[p].todo =>
                    /\ w # sending[p].item
                    /\ n <= MaxAttempts + MaxFaults
                    /\ <<w, m>> \in sending[p].todo => m = n
  BY DEF SendersAreTidy

LEMMA TidyWork ==
  ASSUME Types, SendersAreTidy, CountsOK, NEW p \in Processes,
         DeliveryWorker(p) \/ LoadDestinationFails(p)
  PROVE  SendersAreTidy'
<1>1. ASSUME ClaimDeliveries(p)
      PROVE  SendersAreTidy'
  <2>1. PICK batch \in SUBSET Work :
            /\ \A w \in batch : Claimable(delivery[w])
            /\ SenderBecomes(p, "batch", sending[p].item,
                             {<<w, delivery[w].count>> : w \in batch},
                             sending[p].next, sending[p].answer)
    BY <1>1, ClaimDeliveriesEffect
  <2>2. sending[p].pc = "idle" /\ sending[p].item = None /\ sending[p].answer = None
    BY <1>1, TidyWorker DEF ClaimDeliveries
  <2>3. \A w \in batch : delivery[w].count <= MaxAttempts + MaxFaults
    <3>1. ASSUME NEW w \in batch
          PROVE  delivery[w].count <= MaxAttempts + MaxFaults
      <4>1. delivery[w] # None /\ delivery[w] \in DeliveryRows
        BY <2>1 DEF Claimable, Types
      <4>2. delivery[w].count <= MaxAttempts + faults /\ delivery[w].count \in Nat
        BY <4>1, DeliveryRowChanges DEF CountsOK
      <4>3. faults <= MaxFaults /\ faults \in Nat
        BY Bounds DEF Types
      <4>4. QED
        BY <4>2, <4>3, Bounds
    <3>2. QED
      BY <3>1
  <2>4. QED
    BY <2>1, <2>2, <2>3, TidyKept, Names
<1>2. ASSUME LoadDestination(p)
      PROVE  SendersAreTidy'
  <2>1. PICK w \in Work, n \in Nat, pc \in {"request", "disabled"} :
            /\ <<w, n>> \in sending[p].todo
            /\ SenderBecomes(p, pc, w, sending[p].todo \ {<<w, n>>}, n + 1, sending[p].answer)
    BY <1>2, LoadEffect
  <2>2. sending[p].answer = None
    BY <1>2, TidyWorker DEF LoadDestination
  <2>3. \A v \in Work, m, k \in Nat :
            <<v, k>> \in sending[p].todo \ {<<w, n>>} =>
                /\ v # w
                /\ k <= MaxAttempts + MaxFaults
                /\ <<v, m>> \in sending[p].todo \ {<<w, n>>} => m = k
    BY <2>1, TidyWorker
  <2>4. QED
    BY <2>1, <2>2, <2>3, TidyKept, Names
<1>3. ASSUME LoadDestinationFails(p)
      PROVE  SendersAreTidy'
  <2>1. PICK w \in Work, n \in Nat :
            /\ <<w, n>> \in sending[p].todo
            /\ SenderBecomes(p, "unloaded", w, sending[p].todo \ {<<w, n>>}, sending[p].next,
                             sending[p].answer)
    BY <1>3, LoadFailsEffect
  <2>2. sending[p].answer = None
    BY <1>3, TidyWorker DEF LoadDestinationFails
  <2>3. \A v \in Work, m, k \in Nat :
            <<v, k>> \in sending[p].todo \ {<<w, n>>} =>
                /\ v # w
                /\ k <= MaxAttempts + MaxFaults
                /\ <<v, m>> \in sending[p].todo \ {<<w, n>>} => m = k
    BY <2>1, TidyWorker
  <2>4. QED
    BY <2>1, <2>2, <2>3, TidyKept, Names
<1>4. ASSUME CallProvider(p)
      PROVE  SendersAreTidy'
  <2>1. PICK answer \in Answers :
            SenderBecomes(p, "answered", sending[p].item, sending[p].todo, sending[p].next,
                          answer)
    BY <1>4, SenderForms DEF CallProvider, Answers
  <2>2. sending[p].item # None
    BY <1>4, TidyWorker DEF CallProvider
  <2>3. QED
    BY <2>1, <2>2, TidyWorker, TidyKept, Names
<1>5. ASSUME RecordAttempt(p) \/ SettleDelivery(p) \/ EndDeliveries(p)
      PROVE  SendersAreTidy'
  <2>1. CASE SenderBecomes(p, "idle", None, {}, 0, None)
    BY <2>1, TidyKept
  <2>2. CASE SenderBecomes(p, "batch", None, sending[p].todo, 0, None)
    BY <2>2, TidyWorker, TidyKept, Names
  <2>3. ASSUME RecordAttempt(p),
               SenderBecomes(p, "recorded", sending[p].item, sending[p].todo, sending[p].next,
                             sending[p].answer)
        PROVE  SendersAreTidy'
    <3>1. sending[p].item # None /\ sending[p].answer # None
      BY <2>3, TidyWorker DEF RecordAttempt
    <3>2. QED
      BY <2>3, <3>1, TidyWorker, TidyKept
  <2>4. QED
    BY <1>5, <2>1, <2>2, <2>3, SenderForms DEF RecordAttempt, SettleDelivery, EndDeliveries
<1>6. QED
  BY <1>1, <1>2, <1>3, <1>4, <1>5 DEF DeliveryWorker

LEMMA TidyStep ==
  ASSUME Types, SendersAreTidy, CountsOK, [Next]_vars
  PROVE  SendersAreTidy'
<1>1. ASSUME UNCHANGED sending
      PROVE  SendersAreTidy'
  BY <1>1 DEF SendersAreTidy
<1>2. ASSUME NEW p \in Processes, DeliveryWorker(p) \/ LoadDestinationFails(p)
      PROVE  SendersAreTidy'
  BY <1>2, TidyWork
<1>3. ASSUME NEW p \in Processes, WriteFails(p) \/ Crash(p)
      PROVE  SendersAreTidy'
  <2>1. UNCHANGED sending \/ SenderBecomes(p, "idle", None, {}, 0, None)
    BY <1>3, SenderForms DEF WriteFails, Crash
  <2>2. QED
    BY <1>1, <2>1, TidyKept
<1>4. ASSUME NEW p \in Processes,
             OutboxWorker(p) \/ Start(p) \/ \E e \in Events : MaterializeFails(p, e)
      PROVE  UNCHANGED sending
  BY <1>4 DEF OutboxWorker, Start, MaterializeFails, ClaimEvents, SettleEvent, EndEvents,
              Materialize, RejectEnvelope
<1>5. ASSUME \/ \E e \in Events :
                    CreateOccurrence(e) \/ EventLeaseLapses(e) \/ DeletePublished(e)
             \/ \E u \in Users : SetActive(u)
             \/ \E d \in Destinations : UpdateDestination(d)
             \/ \E w \in Work : BackoffPasses(w) \/ DeliveryLeaseLapses(w) \/ DeleteTerminal(w)
             \/ UNCHANGED vars
      PROVE  UNCHANGED sending
  BY <1>5 DEF CreateOccurrence, EventLeaseLapses, DeletePublished, SetActive,
              UpdateDestination, BackoffPasses, DeliveryLeaseLapses, DeleteTerminal,
              workers, vars
<1>6. QED
  BY <1>1, <1>2, <1>3, <1>4, <1>5 DEF Next

-----------------------------------------------------------------------------
(* The books of one delivery: its lease, its attempts, its budget and what its *)
(* provider took.                                                          *)

Ended(w) == delivery[w].status \in {"delivered", "failed_terminal"}

Tabled(w) ==
    delivery[w] # None =>
        /\ LeaseOK(delivery[w])
        /\ delivery[w].count <= MaxAttempts + faults
        /\ attempts[w] = 1 .. delivery[w].count
        /\ \/ Ended(w)
           \/ \E p \in Processes : Settling(p, w)
           \/ /\ delivery[w].count < MaxAttempts + faults
              /\ \A p \in Processes :
                     Late(p, w) => delivery[w].count + 1 < MaxAttempts + faults

Accounted(w) ==
    delivery[w] # None => accepted[w] + Cardinality(Callers(w)) <= faults + Credit(w)

Books == \A w \in Work : Tabled(w) /\ Accounted(w)

LEMMA BooksParts ==
  Books <=> DeliveryLeases /\ CountsOK /\ BudgetIsKept /\ CallsAreAccounted
  BY Zenon
  DEF Books, Tabled, Accounted, DeliveryLeases, CountsOK, BudgetIsKept, CallsAreAccounted, Ended

LEMMA CallersAreFinite ==
  ASSUME NEW w
  PROVE  /\ IsFiniteSet(Callers(w)) /\ Cardinality(Callers(w)) \in Nat
         /\ (\A p \in Processes : ~Calls(p, w)) => Cardinality(Callers(w)) = 0
         /\ (\E p \in Processes : Calls(p, w)) => Cardinality(Callers(w)) > 0
<1>1. IsFiniteSet(Callers(w))
  BY Bounds, FS_Subset DEF Callers
<1>2. Cardinality(Callers(w)) \in Nat
  BY <1>1, FS_CardinalityType
<1>3. Cardinality(Callers(w)) = 0 <=> Callers(w) = {}
  BY <1>1, FS_EmptySet
<1>4. QED
  BY <1>1, <1>2, <1>3 DEF Callers

LEMMA CallersChange ==
  ASSUME NEW p \in Processes, NEW w,
         \A q \in Processes : q # p => (Calls(q, w)' <=> Calls(q, w))
  PROVE  /\ Cardinality(Callers(w)) \in Nat /\ Cardinality(Callers(w)') \in Nat
         /\ (Calls(p, w)' <=> Calls(p, w))
            => Cardinality(Callers(w)') = Cardinality(Callers(w))
         /\ Calls(p, w) /\ ~Calls(p, w)'
            => Cardinality(Callers(w)') = Cardinality(Callers(w)) - 1
         /\ ~Calls(p, w) /\ Calls(p, w)'
            => Cardinality(Callers(w)') = Cardinality(Callers(w)) + 1
<1>1. IsFiniteSet(Callers(w)) /\ Cardinality(Callers(w)) \in Nat
  BY CallersAreFinite
<1>2. ASSUME Calls(p, w)' <=> Calls(p, w)
      PROVE  Callers(w)' = Callers(w)
  BY <1>2 DEF Callers
<1>3. ASSUME Calls(p, w), ~Calls(p, w)'
      PROVE  Callers(w)' = Callers(w) \ {p} /\ p \in Callers(w)
  BY <1>3 DEF Callers
<1>4. ASSUME ~Calls(p, w), Calls(p, w)'
      PROVE  Callers(w)' = Callers(w) \cup {p} /\ p \notin Callers(w)
  BY <1>4 DEF Callers
<1>5. ASSUME Calls(p, w), ~Calls(p, w)'
      PROVE  Cardinality(Callers(w)') = Cardinality(Callers(w)) - 1
             /\ Cardinality(Callers(w)') \in Nat
  <2>1. IsFiniteSet(Callers(w) \ {p})
        /\ Cardinality(Callers(w) \ {p}) = Cardinality(Callers(w)) - 1
    BY <1>1, <1>3, <1>5, FS_RemoveElement
  <2>2. Cardinality(Callers(w) \ {p}) \in Nat
    BY <2>1, FS_CardinalityType
  <2>3. QED
    BY <1>3, <1>5, <2>1, <2>2
<1>6. ASSUME ~Calls(p, w), Calls(p, w)'
      PROVE  Cardinality(Callers(w)') = Cardinality(Callers(w)) + 1
  BY <1>1, <1>4, <1>6, FS_AddElement
<1>7. QED
  BY <1>1, <1>2, <1>5, <1>6

LEMMA CreditIs ==
  ASSUME NEW w
  PROVE  /\ Credit(w) \in {0, 1}
         /\ delivery[w].status = "delivered" => Credit(w) = 1
         /\ \A p \in Processes : Holds(p, w) => Credit(w) = 1
         /\ delivery[w].status # "delivered" /\ (\A p \in Processes : ~Holds(p, w))
            => Credit(w) = 0
  BY DEF Credit

LEMMA BalanceKept ==
  ASSUME NEW a \in Nat, NEW c \in Nat, NEW k \in Nat, NEW f \in Nat, NEW g \in Nat,
         NEW r \in {0, 1}, NEW t \in {0, 1},
         a + c <= f + r, k = c \/ k = c - 1, g >= f,
         r = 1 => g > f \/ t = 1 \/ k = c - 1
  PROVE  a + k <= g + t
  OBVIOUS

LEMMA RowNumbers ==
  ASSUME Types, NEW w \in Work, delivery[w] # None
  PROVE  /\ delivery[w] \in DeliveryRows
         /\ delivery[w].count \in Nat /\ delivery[w].lapsed \in BOOLEAN
         /\ delivery[w].status \in Waiting \cup {"processing", "delivered", "failed_terminal"}
         /\ faults \in Nat /\ accepted[w] \in Nat /\ MaxAttempts \in Nat
<1>1. delivery[w] \in DeliveryRows
  BY DEF Types
<1>2. QED
  BY <1>1, Bounds, DeliveryRowChanges DEF Types

(* What a step may do to a delivery it does not touch: one worker may stop
   trying it, if that is a fault or it had nothing to settle. *)
LEMMA TabledStays ==
  ASSUME Types, Types', NEW w \in Work, NEW p \in Processes, Tabled(w),
         delivery'[w] = delivery[w], attempts'[w] = attempts[w], faults' >= faults,
         \A q \in Processes : q # p => sending'[q] = sending[q],
         Trying(p, w)' => Trying(p, w),
         faults' > faults \/ (Settling(p, w) => Settling(p, w)')
  PROVE  Tabled(w)'
<1> SUFFICES ASSUME delivery[w] # None
             PROVE  Tabled(w)'
  BY DEF Tabled
<1>1. /\ faults \in Nat /\ faults' \in Nat /\ delivery[w].count \in Nat /\ MaxAttempts \in Nat
  BY RowNumbers DEF Types
<1>2. \A q \in Processes : q # p =>
          /\ Settling(q, w)' <=> Settling(q, w)
          /\ Late(q, w)' <=> Late(q, w)
  BY DEF Calls, Settling, Late, Trying, Leasing, Owns
<1>3. \/ Ended(w)
      \/ \E q \in Processes : Settling(q, w)'
      \/ /\ delivery[w].count < MaxAttempts + faults'
         /\ \A q \in Processes : Late(q, w)' => delivery[w].count + 1 < MaxAttempts + faults'
  <2>1. \A q \in Processes : Late(q, w)' => Late(q, w)
    BY <1>2 DEF Late, Owns
  <2>2. CASE Ended(w)
    BY <2>2
  <2>3. ASSUME NEW q \in Processes, Settling(q, w)
        PROVE  Settling(q, w)' \/ (faults' > faults /\ ~\E r \in Processes : Late(r, w)')
    BY <1>2, <2>1, <2>3 DEF Settling, Late, Leasing
  <2>4. CASE \E q \in Processes : Settling(q, w)
    BY <1>1, <2>3, <2>4 DEF Tabled
  <2>5. CASE /\ delivery[w].count < MaxAttempts + faults
             /\ \A q \in Processes : Late(q, w) => delivery[w].count + 1 < MaxAttempts + faults
    BY <1>1, <2>1, <2>5
  <2>6. QED
    BY <2>2, <2>4, <2>5 DEF Tabled
<1>4. LeaseOK(delivery[w]) /\ delivery[w].count <= MaxAttempts + faults'
      /\ attempts[w] = 1 .. delivery[w].count
  BY <1>1 DEF Tabled
<1>5. QED
  BY <1>3, <1>4 DEF Tabled, Ended, LeaseOK

(* And it may stop calling the provider, if that is a fault or gives a claim to
   credit up. *)
LEMMA AccountStays ==
  ASSUME Types, Types', NEW w \in Work, NEW p \in Processes, Accounted(w),
         delivery[w] # None, accepted'[w] = accepted[w], faults' >= faults,
         \A q \in Processes : q # p => (Calls(q, w)' <=> Calls(q, w)),
         Calls(p, w)' => Calls(p, w),
         \/ faults' > faults
         \/ delivery'[w].status = "delivered"
         \/ /\ delivery[w].status # "delivered"
            /\ \A q \in Processes : q # p => (Holds(q, w) => Holds(q, w)')
            /\ Holds(p, w) => Holds(p, w)' \/ (Calls(p, w) /\ ~Calls(p, w)')
  PROVE  Accounted(w)'
<1> DEFINE a == accepted[w]
           c == Cardinality(Callers(w))
           k == Cardinality(Callers(w)')
           r == Credit(w)
           t == Credit(w)'
<1>1. faults \in Nat /\ faults' \in Nat /\ a \in Nat
  BY RowNumbers DEF Types
<1>2. c \in Nat /\ k \in Nat /\ (k = c \/ (Calls(p, w) /\ ~Calls(p, w)' /\ k = c - 1))
  BY CallersChange
<1>3. r \in {0, 1} /\ t \in {0, 1}
  BY CreditIs DEF Credit
<1>4. a + c <= faults + r
  BY DEF Accounted
<1>5. ASSUME r = 1, ~(faults' > faults), ~(Calls(p, w) /\ ~Calls(p, w)')
      PROVE  t = 1
  <2>1. delivery[w].status = "delivered" \/ \E q \in Processes : Holds(q, w)
    BY <1>5 DEF Credit
  <2>2. delivery'[w].status = "delivered" \/ \E q \in Processes : Holds(q, w)'
    BY <1>5, <2>1
  <2>3. QED
    BY <2>2 DEF Credit
<1>6. Calls(p, w) /\ ~Calls(p, w)' => k = c - 1
  BY CallersChange
<1> HIDE DEF c, k, r, t, a
<1>7. r = 1 => faults' > faults \/ t = 1 \/ k = c - 1
  BY <1>5, <1>6
<1>8. a + k <= faults' + t
  BY <1>1, <1>2, <1>3, <1>4, <1>7, BalanceKept
<1>9. QED
  BY <1>8 DEF Accounted, a, k, t

(* A delivery that only one worker's step or a fault could concern. *)
LEMMA BooksStay ==
  ASSUME Types, Types', NEW w \in Work, NEW p \in Processes, Tabled(w), Accounted(w),
         delivery'[w] = delivery[w], attempts'[w] = attempts[w], accepted'[w] = accepted[w],
         faults' >= faults,
         \A q \in Processes : q # p => sending'[q] = sending[q],
         Calls(p, w)' => Calls(p, w),
         Trying(p, w)' => Trying(p, w),
         \/ faults' > faults
         \/ /\ Settling(p, w) => Settling(p, w)'
            /\ Holds(p, w) => Holds(p, w)' \/ (Calls(p, w) /\ ~Calls(p, w)')
  PROVE  Tabled(w)' /\ Accounted(w)'
<1>1. Tabled(w)'
  BY TabledStays
<1>2. CASE delivery[w] = None
  BY <1>1, <1>2 DEF Accounted
<1>3. CASE delivery[w] # None
  <2>1. \A q \in Processes : q # p =>
            (Calls(q, w)' <=> Calls(q, w)) /\ (Holds(q, w)' <=> Holds(q, w))
    BY DEF Calls, Holds, Leasing, Owns
  <2>2. Accounted(w)'
    BY <1>3, <2>1, AccountStays
  <2>3. QED
    BY <1>1, <2>2
<1>4. QED
  BY <1>2, <1>3

-----------------------------------------------------------------------------
(* Step by step: a worker stops, loads, calls.                             *)

LEMMA BooksOnStop ==
  ASSUME Types, Types', Books, NEW p \in Processes,
         SenderBecomes(p, "idle", None, {}, 0, None),
         UNCHANGED << delivery, attempts, accepted >>, faults' >= faults,
         \/ faults' > faults
         \/ \A w \in Work : sending[p].item = w => ~Owns(delivery[w], p)
  PROVE  Books'
<1>1. ASSUME NEW w \in Work
      PROVE  Tabled(w)' /\ Accounted(w)'
  <2>1. /\ ~Calls(p, w)' /\ ~Trying(p, w)'
        /\ \A q \in Processes : q # p => sending'[q] = sending[q]
    BY DEF SenderBecomes, Calls, Trying
  <2>2. \/ faults' > faults
        \/ ~Settling(p, w) /\ (Holds(p, w) => Calls(p, w))
    BY DEF Settling, Holds, Leasing
  <2>3. QED
    BY <2>1, <2>2, BooksStay DEF Books
<1>2. QED
  BY <1>1 DEF Books

LEMMA BooksOnLoad ==
  ASSUME Types, Types', Books, SendersAreTidy, NEW p \in Processes,
         LoadDestination(p) \/ LoadDestinationFails(p)
  PROVE  Books'
<1>1. PICK v \in Work, m \in Nat, pc \in {"request", "disabled", "unloaded"}, next \in Nat :
          /\ <<v, m>> \in sending[p].todo
          /\ SenderBecomes(p, pc, v, sending[p].todo \ {<<v, m>>}, next, sending[p].answer)
  <2>1. CASE LoadDestination(p)
    <3>1. PICK v \in Work, n \in Nat, pc \in {"request", "disabled"} :
              /\ <<v, n>> \in sending[p].todo
              /\ SenderBecomes(p, pc, v, sending[p].todo \ {<<v, n>>}, n + 1, sending[p].answer)
      BY <2>1, LoadEffect
    <3>2. n + 1 \in Nat
      OBVIOUS
    <3>3. QED
      BY <3>1, <3>2
  <2>2. CASE LoadDestinationFails(p)
    <3>1. sending[p].next \in Nat
      BY DEF Types, Senders
    <3>2. QED
      BY <2>2, <3>1, LoadFailsEffect
  <2>3. QED
    BY <2>1, <2>2
<1>2. /\ UNCHANGED << delivery, attempts, accepted >> /\ faults' >= faults
      /\ sending[p].pc = "batch" /\ sending[p].item = None /\ sending[p].answer = None
  <2>1. /\ UNCHANGED << delivery, attempts, accepted >> /\ sending[p].pc = "batch"
        /\ faults' = faults \/ faults' = faults + 1
    BY DEF LoadDestination, LoadDestinationFails, tables, Fault
  <2>2. faults \in Nat
    BY DEF Types
  <2>3. QED
    BY <2>1, <2>2, TidyWorker
<1>3. ASSUME NEW w \in Work
      PROVE  Tabled(w)' /\ Accounted(w)'
  <2>1. Calls(p, w)' => Calls(p, w)
    BY <1>1 DEF SenderBecomes, Calls
  <2>2. Trying(p, w)' => Trying(p, w)
    BY <1>1, <2>1 DEF SenderBecomes, Trying
  <2>3. ~Settling(p, w) /\ (Holds(p, w) => Calls(p, w))
    BY <1>2, Names DEF Settling, Holds
  <2>4. Holds(p, w) => Holds(p, w)' \/ (Calls(p, w) /\ ~Calls(p, w)')
    BY <1>2, <2>3 DEF Holds, Leasing
  <2>5. \A q \in Processes : q # p => sending'[q] = sending[q]
    BY <1>1 DEF SenderBecomes
  <2>6. QED
    BY <1>2, <2>1, <2>2, <2>3, <2>4, <2>5, BooksStay DEF Books
<1>4. QED
  BY <1>3 DEF Books

LEMMA BooksOnCall ==
  ASSUME Types, Types', Books, SendersAreTidy, NEW p \in Processes, CallProvider(p)
  PROVE  Books'
<1>0. PICK v \in Work : v = sending[p].item
  BY SenderAtWork DEF CallProvider
<1>1. sending[p].item = v /\ sending[p].pc = "request" /\ UNCHANGED << delivery, attempts >>
  BY <1>0 DEF CallProvider, tables
<1>2. PICK answer \in Answers :
          /\ SenderBecomes(p, "answered", v, sending[p].todo, sending[p].next, answer)
          /\ \/ /\ accepted' = [accepted EXCEPT ![v] = @ + 1] /\ answer = "accepted"
                /\ faults' = faults
             \/ /\ accepted' = [accepted EXCEPT ![v] = @ + 1] /\ faults' = faults + 1
             \/ UNCHANGED << accepted, faults >>
  BY <1>0, SenderForms DEF CallProvider, Fault, Answers
<1>3. \A q \in Processes : q # p => sending'[q] = sending[q]
  BY <1>2 DEF SenderBecomes
<1>4. ASSUME NEW w \in Work
      PROVE  /\ Calls(p, w)' => Calls(p, w)
             /\ Trying(p, w)' => Trying(p, w)
             /\ ~Settling(p, w)
             /\ w # v => (Calls(p, w) => Calls(p, w)')
  BY <1>1, <1>2 DEF SenderBecomes, Calls, Trying, Settling
<1>5. Calls(p, v) /\ ~Calls(p, v)'
  <2>1. Calls(p, v)
    BY <1>1 DEF Calls
  <2>2. \A n \in Nat : <<v, n>> \notin sending[p].todo
    BY <1>1, TidyWorker
  <2>3. QED
    BY <1>2, <2>1, <2>2 DEF SenderBecomes, Calls
<1>6. faults' >= faults /\ faults \in Nat
  BY <1>2 DEF Types
<1>7. ASSUME NEW w \in Work, accepted'[w] = accepted[w]
      PROVE  Tabled(w)' /\ Accounted(w)'
  <2>1. Holds(p, w) => Holds(p, w)' \/ (Calls(p, w) /\ ~Calls(p, w)')
    <3>1. CASE w = v
      BY <1>5, <3>1
    <3>2. CASE w # v
      BY <1>1, <1>4, <3>2 DEF Holds, Leasing
    <3>3. QED
      BY <3>1, <3>2
  <2>2. QED
    BY <1>1, <1>3, <1>4, <1>6, <1>7, <2>1, BooksStay DEF Books
<1>8. ASSUME accepted' = [accepted EXCEPT ![v] = @ + 1],
             (answer = "accepted" /\ faults' = faults) \/ faults' = faults + 1,
             delivery[v] # None
      PROVE  Accounted(v)'
  <2> DEFINE c == Cardinality(Callers(v))
             k == Cardinality(Callers(v)')
             r == Credit(v)
             t == Credit(v)'
  <2>1. \A q \in Processes : q # p =>
            (Calls(q, v)' <=> Calls(q, v)) /\ (Holds(q, v)' <=> Holds(q, v))
    BY <1>1, <1>3 DEF Calls, Holds, Leasing, Owns
  <2>2. c \in Nat /\ k = c - 1
    BY <1>5, <2>1, CallersChange
  <2>3. r \in {0, 1} /\ t \in {0, 1}
    BY CreditIs DEF Credit
  <2>4. accepted[v] + c <= faults + r /\ accepted[v] \in Nat
    BY <1>1, <1>8, RowNumbers DEF Books, Accounted
  <2>5. accepted'[v] = accepted[v] + 1
    BY <1>1, <1>8 DEF Types
  <2>6. ASSUME r = 1, answer = "accepted"
        PROVE  t = 1
    <3>1. delivery[v].status = "delivered" \/ \E q \in Processes : Holds(q, v)
      BY <2>6 DEF Credit
    <3>2. Holds(p, v) => Holds(p, v)'
      BY <1>1, <1>2, <2>6 DEF SenderBecomes, Holds, Leasing
    <3>3. delivery'[v].status = "delivered" \/ \E q \in Processes : Holds(q, v)'
      BY <1>1, <2>1, <3>1, <3>2
    <3>4. QED
      BY <3>3 DEF Credit
  <2> HIDE DEF c, k, r, t
  <2>7. accepted'[v] + k <= faults' + t
    BY <1>6, <1>8, <2>2, <2>3, <2>4, <2>5, <2>6
  <2>8. QED
    BY <2>7 DEF Accounted, k, t
<1>9. Tabled(v)'
  BY <1>1, <1>3, <1>4, <1>6, TabledStays DEF Books
<1>10. Tabled(v)' /\ Accounted(v)'
  <2>1. CASE accepted'[v] = accepted[v]
    BY <1>1, <1>7, <2>1
  <2>2. CASE delivery[v] = None
    BY <1>1, <1>9, <2>2 DEF Accounted
  <2>3. QED
    BY <1>2, <1>8, <1>9, <2>1, <2>2
<1>11. \A w \in Work : w # v => accepted'[w] = accepted[w]
  BY <1>2 DEF Types
<1>12. QED
  BY <1>7, <1>10, <1>11 DEF Books

(* What the workers write into a delivery keeps the books of the others. *)
LEMMA BooksElsewhere ==
  ASSUME Types, Types', Books, NEW p \in Processes, NEW v \in Work, NEW w \in Work, w # v,
         \A u \in Work : u # v => delivery'[u] = delivery[u] /\ attempts'[u] = attempts[u],
         UNCHANGED << accepted, faults >>,
         \A q \in Processes : q # p => sending'[q] = sending[q],
         sending'[p].todo = sending[p].todo, sending'[p].pc # "request",
         sending[p].item = v, sending[p].pc # "request", sending'[p].pc # "answered"
  PROVE  Tabled(w)' /\ Accounted(w)'
<1>1. delivery'[w] = delivery[w] /\ attempts'[w] = attempts[w] /\ accepted'[w] = accepted[w]
  OBVIOUS
<1>2. (Calls(p, w)' <=> Calls(p, w)) /\ (Trying(p, w)' => Trying(p, w))
  BY DEF Calls, Trying
<1>3. ~Settling(p, w) /\ (Holds(p, w) => Holds(p, w)')
  BY <1>1, <1>2 DEF Settling, Holds, Leasing
<1>4. faults' >= faults
  BY DEF Types
<1>5. QED
  BY <1>1, <1>2, <1>3, <1>4, BooksStay DEF Books

(* What a worker that holds the lease writes. *)
LEMMA RecordEffect ==
  ASSUME Types, SendersAreTidy, CountsAreFresh, NEW p \in Processes, RecordAttempt(p),
         NEW v \in Work, sending[p].item = v, Owns(delivery[v], p)
  PROVE  /\ delivery[v].count \in Nat /\ sending[p].next = delivery[v].count + 1
         /\ DeliveryBecomes(v, delivery[v].status, delivery[v].owner, delivery[v].lapsed,
                            sending[p].next)
         /\ attempts' = [attempts EXCEPT ![v] = @ \cup {sending[p].next}]
         /\ SenderBecomes(p, "recorded", v, sending[p].todo, sending[p].next, sending[p].answer)
<1> DEFINE n == sending[p].next
           new == IF n <= delivery[v].count THEN delivery[v].count ELSE n
<1>1. sending[p].pc = "answered"
  BY DEF RecordAttempt
<1>2. delivery[v] # None /\ delivery[v].count \in Nat /\ n = delivery[v].count + 1
  BY <1>1, RowNumbers DEF CountsAreFresh, Fresh, Owns
<1>3. /\ attempts' = [attempts EXCEPT ![v] = @ \cup {n}]
      /\ delivery' = [delivery EXCEPT ![v].count = new]
      /\ sending' = [sending EXCEPT ![p].pc = "recorded"]
  <2>1. n <= delivery[v].count + 1
    BY <1>2
  <2>2. QED
    BY <2>1, Zenon DEF RecordAttempt
<1>4. new = n /\ n \in Nat
  BY <1>2
<1> HIDE DEF new
<1>5. DeliveryBecomes(v, delivery[v].status, delivery[v].owner, delivery[v].lapsed, new)
  BY <1>2, <1>3, <1>4, DeliveryForms
<1>6. DeliveryBecomes(v, delivery[v].status, delivery[v].owner, delivery[v].lapsed, n)
  BY <1>4, <1>5
<1>7. SenderBecomes(p, "recorded", v, sending[p].todo, n, sending[p].answer)
  BY <1>3, SenderForms
<1>8. QED
  BY <1>2, <1>3, <1>6, <1>7

LEMMA OutcomesAre ==
  ASSUME SendersAreTidy, NEW p \in Processes,
         sending[p].pc \in {"unloaded", "disabled", "recorded"},
         NEW status \in Outcomes(sending[p])
  PROVE  /\ status \in {"retrying", "delivered", "failed_terminal"}
         /\ status = "retrying" =>
                \/ sending[p].pc = "unloaded"
                \/ sending[p].pc = "recorded" /\ sending[p].next < MaxAttempts
         /\ sending[p].pc = "recorded" /\ sending[p].answer = "accepted" => status = "delivered"
<1>1. sending[p].pc # "recorded" =>
          sending[p].answer # "accepted" /\ sending[p].answer # "retryable"
  BY TidyWorker, Names DEF Answers
<1>2. CASE sending[p].pc = "unloaded"
  BY <1>1, <1>2 DEF Outcomes
<1>3. CASE sending[p].pc = "disabled"
  BY <1>1, <1>3 DEF Outcomes
<1>4. CASE sending[p].pc = "recorded" /\ sending[p].answer = "accepted"
  BY <1>4 DEF Outcomes
<1>5. CASE /\ sending[p].pc = "recorded" /\ sending[p].answer = "retryable"
           /\ sending[p].next < MaxAttempts
  BY <1>5 DEF Outcomes
<1>6. CASE /\ sending[p].pc = "recorded" /\ sending[p].answer # "accepted"
           /\ ~(sending[p].answer = "retryable" /\ sending[p].next < MaxAttempts)
  BY <1>6 DEF Outcomes
<1>7. QED
  BY <1>2, <1>3, <1>4, <1>5, <1>6

LEMMA SettleEffect ==
  ASSUME Types, SendersAreTidy, NEW p \in Processes, SettleDelivery(p),
         NEW v \in Work, sending[p].item = v, Owns(delivery[v], p)
  PROVE  /\ \E status \in Outcomes(sending[p]) :
                /\ status \in {"retrying", "delivered", "failed_terminal"}
                /\ DeliveryBecomes(v, status, None, FALSE, delivery[v].count)
         /\ SenderBecomes(p, "batch", None, sending[p].todo, 0, None)
<1>1. PICK status \in Outcomes(sending[p]) :
          delivery' = [delivery EXCEPT ![v] =
              [Unleased(@, status) EXCEPT !.due = sending[p].pc = "unloaded"]]
  BY DEF SettleDelivery
<1>2. status \in {"retrying", "delivered", "failed_terminal"}
  BY <1>1, OutcomesAre DEF SettleDelivery
<1>3. delivery[v] # None
  BY DEF Owns
<1>4. (sending[p].pc = "unloaded") \in BOOLEAN
  OBVIOUS
<1>5. DeliveryBecomes(v, status, None, FALSE, delivery[v].count)
  BY <1>1, <1>2, <1>3, <1>4, DeliveryForms
<1>6. SenderBecomes(p, "batch", None, sending[p].todo, 0, None)
  BY SenderForms DEF SettleDelivery
<1>7. QED
  BY <1>2, <1>5, <1>6

LEMMA BooksOnRecord ==
  ASSUME Types, Types', Books, SendersAreTidy, CountsAreFresh, NEW p \in Processes,
         RecordAttempt(p)
  PROVE  Books'
<1>0. PICK v \in Work : v = sending[p].item
  BY SenderAtWork DEF RecordAttempt
<1>1. sending[p].item = v /\ sending[p].pc = "answered" /\ UNCHANGED << accepted, faults >>
  BY <1>0 DEF RecordAttempt
<1>2. ASSUME ~Owns(delivery[v], p)
      PROVE  Books'
  <2>1. UNCHANGED << delivery, attempts >> /\ sending' = [sending EXCEPT ![p] = Idle]
    BY <1>0, <1>2 DEF RecordAttempt
  <2>2. SenderBecomes(p, "idle", None, {}, 0, None)
    BY <2>1, SenderForms
  <2>3. faults' >= faults
    BY <1>1 DEF Types
  <2>4. QED
    BY <1>1, <1>2, <2>1, <2>2, <2>3, BooksOnStop
<1>3. ASSUME Owns(delivery[v], p)
      PROVE  Books'
  <2> DEFINE n == delivery[v].count
  <2>1. delivery[v] # None /\ n \in Nat /\ sending[p].next = n + 1
    BY <1>1, <1>3, RecordEffect DEF Owns
  <2>2. attempts' = [attempts EXCEPT ![v] = @ \cup {n + 1}]
    BY <1>1, <1>3, <2>1, RecordEffect
  <2>3. DeliveryBecomes(v, delivery[v].status, delivery[v].owner, delivery[v].lapsed, n + 1)
    BY <1>1, <1>3, <2>1, RecordEffect
  <2>4. SenderBecomes(p, "recorded", v, sending[p].todo, sending[p].next, sending[p].answer)
    BY <1>1, <1>3, RecordEffect
  <2>5. ASSUME NEW u \in Work, u # v
        PROVE  delivery'[u] = delivery[u] /\ attempts'[u] = attempts[u]
    BY <2>2, <2>3, <2>5 DEF DeliveryBecomes, Types
  <2>6. \A q \in Processes : q # p => sending'[q] = sending[q] /\ ~Owns(delivery[v], q)
    BY <1>3, <2>4 DEF SenderBecomes, Owns
  <2>7. \A m \in Nat : <<v, m>> \notin sending[p].todo
    BY <1>1, TidyWorker
  <2>8. ~Calls(p, v)' /\ ~Calls(p, v) /\ ~Trying(p, v)' /\ Trying(p, v)
    BY <1>1, <2>4, <2>7 DEF SenderBecomes, Calls, Trying
  <2>9. \A q \in Processes : Owns(delivery[v], q)' <=> Owns(delivery[v], q)
    BY <2>1, <2>3 DEF DeliveryBecomes, Owns
  <2>10. Tabled(v)'
    <3>1. \A q \in Processes : ~Settling(q, v)
      BY <1>1, <2>6 DEF Settling, Leasing
    <3>2. /\ LeaseOK(delivery[v]) /\ attempts[v] = 1 .. n /\ n < MaxAttempts + faults
          /\ Late(p, v) => n + 1 < MaxAttempts + faults
      BY <1>3, <2>1, <3>1 DEF Books, Tabled, Ended, Owns
    <3>3. LeaseOK(delivery'[v]) /\ delivery'[v].count = n + 1
      BY <2>3, <3>2 DEF DeliveryBecomes, LeaseOK
    <3>4. attempts'[v] = 1 .. (n + 1)
      <4>1. attempts'[v] = attempts[v] \cup {n + 1}
        BY <2>1, <2>2 DEF Types
      <4>2. QED
        BY <2>1, <3>2, <4>1
    <3>5. \A q \in Processes : ~Late(q, v)'
      BY <2>6, <2>8, <2>9 DEF Late
    <3>6. Settling(p, v)' \/ n + 1 < MaxAttempts + faults
      <4>1. CASE delivery[v].lapsed
        BY <1>3, <2>8, <3>2, <4>1 DEF Late
      <4>2. CASE ~delivery[v].lapsed
        <5>1. Leasing(p, v)'
          BY <1>3, <2>3, <2>9, <4>2 DEF DeliveryBecomes, Leasing
        <5>2. QED
          BY <2>4, <5>1 DEF SenderBecomes, Settling
      <4>3. QED
        BY <4>1, <4>2
    <3>7. /\ n + 1 <= MaxAttempts + faults /\ faults' = faults
      BY <1>1, <2>1, <3>2, Bounds DEF Types
    <3>8. QED
      BY <3>3, <3>4, <3>5, <3>6, <3>7 DEF Tabled
  <2>11. Accounted(v)'
    <3>1. \A q \in Processes : q # p => (Calls(q, v)' <=> Calls(q, v))
      BY <2>6 DEF Calls
    <3>2. \A q \in Processes : q # p => ~Holds(q, v)
      BY <2>6 DEF Holds, Leasing
    <3>3. Holds(p, v) => Holds(p, v)'
      BY <1>1, <2>3, <2>4, <2>8, <2>9
      DEF Holds, Leasing, SenderBecomes, DeliveryBecomes
    <3>4. delivery[v].status # "delivered" /\ faults' >= faults
      BY <1>1, <1>3 DEF Owns, Types
    <3>5. accepted'[v] = accepted[v]
      BY <1>1
    <3>6. QED
      BY <2>1, <2>8, <3>1, <3>2, <3>3, <3>4, <3>5, AccountStays DEF Books
  <2>12. ASSUME NEW w \in Work, w # v
         PROVE  Tabled(w)' /\ Accounted(w)'
    <3>1. /\ sending'[p].todo = sending[p].todo /\ sending'[p].pc = "recorded"
          /\ \A q \in Processes : q # p => sending'[q] = sending[q]
      BY <2>4 DEF SenderBecomes
    <3>2. QED
      BY <1>1, <2>5, <2>12, <3>1, BooksElsewhere
  <2>13. QED
    BY <2>10, <2>11, <2>12 DEF Books
<1>4. QED
  BY <1>2, <1>3

LEMMA BooksOnSettle ==
  ASSUME Types, Types', Books, SendersAreTidy, CountsAreFresh, NEW p \in Processes,
         SettleDelivery(p)
  PROVE  Books'
<1>0. PICK v \in Work : v = sending[p].item
  BY SenderAtWork DEF SettleDelivery
<1>1. /\ sending[p].item = v /\ sending[p].pc \in {"unloaded", "disabled", "recorded"}
      /\ UNCHANGED << attempts, accepted, faults >>
  BY <1>0 DEF SettleDelivery
<1>2. ASSUME ~Owns(delivery[v], p)
      PROVE  Books'
  <2>1. UNCHANGED delivery /\ sending' = [sending EXCEPT ![p] = Idle]
    BY <1>0, <1>2 DEF SettleDelivery
  <2>2. SenderBecomes(p, "idle", None, {}, 0, None)
    BY <2>1, SenderForms
  <2>3. faults' >= faults
    BY <1>1 DEF Types
  <2>4. QED
    BY <1>1, <1>2, <2>1, <2>2, <2>3, BooksOnStop
<1>3. ASSUME Owns(delivery[v], p)
      PROVE  Books'
  <2>1. PICK status \in Outcomes(sending[p]) :
            DeliveryBecomes(v, status, None, FALSE, delivery[v].count)
    BY <1>1, <1>3, SettleEffect
  <2>2. /\ status \in {"retrying", "delivered", "failed_terminal"}
        /\ status = "retrying" =>
               sending[p].pc = "unloaded" \/ (sending[p].pc = "recorded" /\ sending[p].next < MaxAttempts)
        /\ sending[p].pc = "recorded" /\ sending[p].answer = "accepted" => status = "delivered"
    BY <1>1, OutcomesAre
  <2>3. delivery[v] # None /\ delivery[v].count \in Nat
    BY <1>3, RowNumbers DEF Owns
  <2>4. DeliveryBecomes(v, status, None, FALSE, delivery[v].count)
    BY <2>1
  <2>5. SenderBecomes(p, "batch", None, sending[p].todo, 0, None)
    BY <1>1, <1>3, SettleEffect
  <2>6. \A q \in Processes : q # p => sending'[q] = sending[q] /\ ~Owns(delivery[v], q)
    BY <1>3, <2>5 DEF SenderBecomes, Owns
  <2>7. ~Calls(p, v)' /\ ~Calls(p, v)
    <3>1. \A m \in Nat : <<v, m>> \notin sending[p].todo
      BY <1>1, TidyWorker
    <3>2. QED
      BY <1>1, <2>5, <3>1 DEF SenderBecomes, Calls
  <2>8. \A q \in Processes : ~Owns(delivery[v], q)'
    BY <2>2, <2>4 DEF DeliveryBecomes, Owns
  <2>9. Tabled(v)'
    <3>1. LeaseOK(delivery'[v])
      BY <2>2, <2>4 DEF DeliveryBecomes, LeaseOK
    <3>2. /\ delivery'[v].count = delivery[v].count
          /\ delivery[v].count <= MaxAttempts + faults
          /\ attempts[v] = 1 .. delivery[v].count
      BY <2>3, <2>4 DEF DeliveryBecomes, Books, Tabled
    <3>3. ASSUME status = "retrying"
          PROVE  delivery[v].count < MaxAttempts + faults
      <4>1. CASE sending[p].pc = "unloaded"
        <5>1. \A q \in Processes : ~Settling(q, v)
          BY <2>6, <4>1 DEF Settling, Leasing
        <5>2. delivery[v].status = "processing"
          BY <1>3 DEF Owns
        <5>3. QED
          BY <2>3, <5>1, <5>2 DEF Books, Tabled, Ended
      <4>2. CASE sending[p].pc = "recorded" /\ sending[p].next < MaxAttempts
        <5>1. sending[p].next = delivery[v].count
          BY <1>1, <1>3, <4>2 DEF CountsAreFresh, Fresh
        <5>2. QED
          BY <2>3, <4>2, <5>1, Bounds DEF Types
      <4>3. QED
        BY <2>2, <3>3, <4>1, <4>2
    <3>4. \A q \in Processes : ~Late(q, v)'
      BY <2>8 DEF Late
    <3>5. status # "retrying" => delivery'[v].status \in {"delivered", "failed_terminal"}
      BY <2>2, <2>4 DEF DeliveryBecomes
    <3>6. QED
      BY <1>1, <3>1, <3>2, <3>3, <3>4, <3>5 DEF Tabled, Ended
  <2>10. Accounted(v)'
    <3>1. \A q \in Processes : q # p => (Calls(q, v)' <=> Calls(q, v)) /\ ~Holds(q, v)
      BY <2>6 DEF Calls, Holds, Leasing
    <3>2. Holds(p, v) => delivery'[v].status = "delivered"
      <4>1. ASSUME Holds(p, v)
            PROVE  sending[p].pc = "recorded" /\ sending[p].answer = "accepted"
        <5>1. sending[p].answer = "accepted"
          BY <2>7, <4>1 DEF Holds
        <5>2. "accepted" # None
          BY Names DEF Answers
        <5>3. QED
          BY <1>1, <5>1, <5>2, TidyWorker
      <4>2. QED
        BY <2>2, <2>4, <4>1 DEF DeliveryBecomes
    <3>3. delivery[v].status # "delivered" /\ faults' >= faults
      BY <1>1, <1>3 DEF Owns, Types
    <3>4. accepted'[v] = accepted[v]
      BY <1>1
    <3>5. QED
      BY <2>3, <2>7, <3>1, <3>2, <3>3, <3>4, AccountStays DEF Books
  <2>11. ASSUME NEW w \in Work, w # v
         PROVE  Tabled(w)' /\ Accounted(w)'
    <3>1. /\ sending'[p].todo = sending[p].todo /\ sending'[p].pc = "batch"
          /\ \A q \in Processes : q # p => sending'[q] = sending[q]
      BY <2>5 DEF SenderBecomes
    <3>2. \A u \in Work : u # v => delivery'[u] = delivery[u] /\ attempts'[u] = attempts[u]
      BY <1>1, <2>4 DEF DeliveryBecomes
    <3>3. QED
      BY <1>1, <2>11, <3>1, <3>2, BooksElsewhere
  <2>12. QED
    BY <2>9, <2>10, <2>11 DEF Books
<1>4. QED
  BY <1>2, <1>3

LEMMA BooksOnClaim ==
  ASSUME Types, Types', Books, SendersAreTidy, NEW p \in Processes, ClaimDeliveries(p)
  PROVE  Books'
<1>1. PICK batch \in SUBSET Work :
          /\ \A w \in batch : Claimable(delivery[w])
          /\ \A w \in batch :
                 /\ delivery'[w] # None /\ delivery'[w].status = "processing"
                 /\ delivery'[w].owner = p /\ ~delivery'[w].lapsed
                 /\ delivery'[w].count = delivery[w].count
          /\ \A w \in Work \ batch : delivery'[w] = delivery[w]
          /\ SenderBecomes(p, "batch", sending[p].item,
                           {<<w, delivery[w].count>> : w \in batch},
                           sending[p].next, sending[p].answer)
  BY ClaimDeliveriesEffect
<1>2. /\ sending[p].pc = "idle" /\ sending[p].todo = {} /\ sending[p].item = None
      /\ UNCHANGED << attempts, accepted, faults >>
  BY TidyWorker DEF ClaimDeliveries
<1>3. \A w : ~Calls(p, w)
  BY <1>2 DEF Calls
<1>4. \A q \in Processes : q # p => sending'[q] = sending[q]
  BY <1>1 DEF SenderBecomes
<1>5. faults' >= faults
  BY <1>2 DEF Types
<1>6. ASSUME NEW w \in Work, w \notin batch
      PROVE  Tabled(w)' /\ Accounted(w)'
  <2>1. ~Calls(p, w)' /\ ~Trying(p, w)'
    BY <1>1, <1>6 DEF SenderBecomes, Calls, Trying
  <2>2. ~Settling(p, w) /\ ~Holds(p, w)
    BY <1>2, <1>3, Names DEF Settling, Holds
  <2>3. QED
    BY <1>1, <1>2, <1>4, <1>5, <1>6, <2>1, <2>2, BooksStay DEF Books
<1>7. ASSUME NEW w \in batch
      PROVE  Tabled(w)' /\ Accounted(w)'
  <2>1. /\ delivery[w] # None /\ ~Ended(w) /\ delivery[w].status # "delivered"
        /\ \A q \in Processes : ~Leasing(q, w)
    BY <1>1, <1>7 DEF Claimable, Ended, Leasing, Owns, Waiting
  <2>2. \A q \in Processes : ~Settling(q, w) /\ ~Holds(q, w)
    BY <2>1 DEF Settling, Holds
  <2>3. Tabled(w)'
    <3>1. LeaseOK(delivery'[w])
      BY <1>1, Names DEF LeaseOK
    <3>2. \A q \in Processes : ~Late(q, w)'
      BY <1>1 DEF Late
    <3>3. /\ delivery[w].count < MaxAttempts + faults
          /\ delivery[w].count <= MaxAttempts + faults
          /\ attempts[w] = 1 .. delivery[w].count
      BY <2>1, <2>2 DEF Books, Tabled
    <3>4. QED
      BY <1>1, <1>2, <3>1, <3>2, <3>3 DEF Tabled
  <2>4. Accounted(w)'
    <3> DEFINE c == Cardinality(Callers(w))
               k == Cardinality(Callers(w)')
    <3>1. Calls(p, w)'
      <4>1. delivery[w].count \in Nat
        BY <2>1, RowNumbers
      <4>2. <<w, delivery[w].count>> \in sending'[p].todo
        BY <1>1 DEF SenderBecomes
      <4>3. QED
        BY <4>1, <4>2 DEF Calls
    <3>2. \A q \in Processes : q # p => (Calls(q, w)' <=> Calls(q, w))
      BY <1>4 DEF Calls
    <3>3. c \in Nat /\ k = c + 1
      BY <1>3, <3>1, <3>2, CallersChange
    <3>4. Credit(w) = 0
      BY <2>1, <2>2, CreditIs
    <3>5. Credit(w)' = 1
      <4>1. Holds(p, w)'
        BY <1>1, <3>1 DEF Holds, Leasing, Owns
      <4>2. QED
        BY <4>1 DEF Credit
    <3>6. accepted[w] + c <= faults + Credit(w) /\ accepted[w] \in Nat /\ faults \in Nat
      BY <2>1, RowNumbers DEF Books, Accounted
    <3> HIDE DEF c, k
    <3>7. accepted'[w] + k <= faults' + Credit(w)'
      BY <1>2, <3>3, <3>4, <3>5, <3>6
    <3>8. QED
      BY <3>7 DEF Accounted, k
  <2>5. QED
    BY <2>3, <2>4
<1>8. QED
  BY <1>6, <1>7 DEF Books

-----------------------------------------------------------------------------
(* And the steps that are no step of a delivery worker. *)

LEMMA BooksRest ==
  ASSUME Types, Types', NEW w \in Work, Tabled(w), Accounted(w),
         delivery'[w] = delivery[w], attempts'[w] = attempts[w], accepted'[w] = accepted[w],
         UNCHANGED sending, faults' >= faults
  PROVE  Tabled(w)' /\ Accounted(w)'
<1> SUFFICES ASSUME delivery[w] # None
             PROVE  Tabled(w)' /\ Accounted(w)'
  BY DEF Tabled, Accounted
<1>1. /\ faults \in Nat /\ faults' \in Nat /\ delivery[w].count \in Nat /\ MaxAttempts \in Nat
      /\ accepted[w] \in Nat
  BY RowNumbers DEF Types
<1>2. \A q \in Processes :
          /\ Settling(q, w)' <=> Settling(q, w)
          /\ Late(q, w)' <=> Late(q, w)
          /\ Holds(q, w)' <=> Holds(q, w)
  BY DEF Calls, Settling, Late, Trying, Holds, Leasing, Owns
<1>3. Tabled(w)'
  <2>1. LeaseOK(delivery'[w]) /\ attempts'[w] = 1 .. delivery'[w].count
    BY DEF Tabled
  <2>2. delivery[w].count <= MaxAttempts + faults'
    BY <1>1 DEF Tabled
  <2>3. \/ Ended(w)
        \/ \E q \in Processes : Settling(q, w)'
        \/ /\ delivery[w].count < MaxAttempts + faults'
           /\ \A q \in Processes : Late(q, w)' => delivery[w].count + 1 < MaxAttempts + faults'
    BY <1>1, <1>2 DEF Tabled
  <2>4. QED
    BY <2>1, <2>2, <2>3 DEF Tabled, Ended
<1>4. Accounted(w)'
  <2> DEFINE c == Cardinality(Callers(w))
  <2>1. Callers(w)' = Callers(w) /\ c \in Nat
    BY CallersAreFinite DEF Callers, Calls
  <2>2. Credit(w)' = Credit(w) /\ Credit(w) \in {0, 1}
    BY <1>2, CreditIs DEF Credit
  <2>3. accepted[w] + c <= faults + Credit(w)
    BY DEF Accounted
  <2> HIDE DEF c
  <2>4. accepted'[w] + c <= faults' + Credit(w)'
    BY <1>1, <2>1, <2>2, <2>3
  <2>5. QED
    BY <2>1, <2>4 DEF Accounted, c
<1>5. QED
  BY <1>3, <1>4

LEMMA BooksOnMaterialize ==
  ASSUME Types, Types', Books, DeliveriesAreOwed, AttemptsAreOwned, NEW p \in Processes,
         NEW e \in Events, Materialize(p, e)
  PROVE  Books'
<1>1. \A w \in Work :
          IF w[1] = e /\ fact[e] = None /\ w[2] \in CreateFact(e).destinations
          THEN /\ delivery'[w] # None /\ delivery'[w].status = "pending"
               /\ delivery'[w].owner = None /\ ~delivery'[w].lapsed
               /\ delivery'[w].count = 0
          ELSE delivery'[w] = delivery[w]
  BY MaterializeEffect
<1>2. UNCHANGED << attempts, sending, accepted, faults >>
  BY DEF Materialize
<1>3. faults \in Nat /\ faults' >= faults
  BY <1>2 DEF Types
<1>4. ASSUME NEW w \in Work, w[1] = e, fact[e] = None, w[2] \in CreateFact(e).destinations
      PROVE  Tabled(w)' /\ Accounted(w)'
  <2>1. /\ delivery[w] = None /\ attempts[w] = {}
        /\ accepted[w] = 0 /\ \A q \in Processes : ~Has(q, w)
    BY <1>4 DEF DeliveriesAreOwed, AttemptsAreOwned
  <2>2. \A q \in Processes : ~Calls(q, w)' /\ ~Late(q, w)'
    BY <1>1, <1>2, <1>4, <2>1 DEF Has, Calls, Late, Owns
  <2>3. Tabled(w)'
    <3>1. LeaseOK(delivery'[w])
      BY <1>1, <1>4 DEF LeaseOK
    <3>2. attempts'[w] = 1 .. delivery'[w].count
      BY <1>1, <1>2, <1>4, <2>1
    <3>3. delivery'[w].count = 0
      BY <1>1, <1>4
    <3>4. 0 <= MaxAttempts + faults' /\ 0 < MaxAttempts + faults'
      BY <1>2, <1>3, Bounds
    <3>5. QED
      BY <2>2, <3>1, <3>2, <3>3, <3>4 DEF Tabled, Late
  <2>4. Accounted(w)'
    <3> DEFINE k == Cardinality(Callers(w)')
               t == Credit(w)'
    <3>1. \A q \in Processes : ~Calls(q, w)
      BY <2>1 DEF Has, Calls
    <3>2. Callers(w)' = Callers(w)
      BY <1>2 DEF Callers, Calls
    <3>3. k = 0
      BY <3>1, <3>2, CallersAreFinite
    <3>4. t \in {0, 1}
      BY DEF Credit
    <3> HIDE DEF k, t
    <3>5. accepted'[w] + k <= faults' + t
      BY <1>2, <1>3, <2>1, <3>3, <3>4
    <3>6. QED
      BY <3>5 DEF Accounted, k, t
  <2>5. QED
    BY <2>3, <2>4
<1>5. ASSUME NEW w \in Work,
             ~(w[1] = e /\ fact[e] = None /\ w[2] \in CreateFact(e).destinations)
      PROVE  Tabled(w)' /\ Accounted(w)'
  <2>1. delivery'[w] = delivery[w]
    BY <1>1, <1>5
  <2>2. QED
    BY <1>2, <1>3, <2>1, BooksRest DEF Books
<1>6. QED
  BY <1>4, <1>5 DEF Books

LEMMA BooksOnBackoff ==
  ASSUME Types, Types', Books, NEW v \in Work, BackoffPasses(v)
  PROVE  Books'
<1>1. /\ delivery[v] # None /\ delivery[v].status = "retrying"
      /\ DeliveryBecomes(v, delivery[v].status, delivery[v].owner, delivery[v].lapsed,
                         delivery[v].count)
      /\ UNCHANGED << attempts, sending, accepted, faults >>
  BY DeliveryForms DEF BackoffPasses, workers
<1>2. faults \in Nat /\ faults' >= faults
  BY <1>1 DEF Types
<1>3. \A q \in Processes : ~Owns(delivery[v], q) /\ ~Owns(delivery[v], q)'
  BY <1>1 DEF DeliveryBecomes, Owns
<1>4. Tabled(v)'
  <2>1. \A q \in Processes : ~Settling(q, v) /\ ~Late(q, v)'
    BY <1>3 DEF Settling, Leasing, Late
  <2>2. /\ LeaseOK(delivery[v]) /\ delivery[v].count <= MaxAttempts + faults
        /\ attempts[v] = 1 .. delivery[v].count
        /\ delivery[v].count < MaxAttempts + faults
    BY <1>1, <2>1 DEF Books, Tabled, Ended
  <2>3. LeaseOK(delivery'[v]) /\ delivery'[v].count = delivery[v].count
    BY <1>1, <2>2 DEF DeliveryBecomes, LeaseOK
  <2>4. QED
    BY <1>1, <2>1, <2>2, <2>3 DEF Tabled
<1>5. Accounted(v)'
  <2>1. Callers(v)' = Callers(v)
    BY <1>1 DEF Callers, Calls
  <2>2. Credit(v)' = Credit(v)
    BY <1>1, <1>3 DEF Credit, Holds, Leasing, DeliveryBecomes
  <2>3. QED
    BY <1>1, <2>1, <2>2 DEF Books, Accounted
<1>6. ASSUME NEW w \in Work, w # v
      PROVE  Tabled(w)' /\ Accounted(w)'
  <2>1. delivery'[w] = delivery[w]
    BY <1>1, <1>6 DEF DeliveryBecomes
  <2>2. QED
    BY <1>1, <1>2, <2>1, BooksRest DEF Books
<1>7. QED
  BY <1>4, <1>5, <1>6 DEF Books

LEMMA BooksOnLapse ==
  ASSUME Types, Types', Books, SendersAreTidy, NEW v \in Work, DeliveryLeaseLapses(v)
  PROVE  Books'
<1>1. delivery[v] # None /\ delivery[v].status = "processing"
  BY DEF DeliveryLeaseLapses, Processing
<1>2. PICK o \in Processes : o = delivery[v].owner
  <2>1. delivery[v].owner # None
    BY <1>1 DEF Books, Tabled, LeaseOK
  <2>2. delivery[v] \in DeliveryRows
    BY <1>1, RowNumbers
  <2>3. QED
    BY <2>1, <2>2, DeliveryRowChanges
<1> DEFINE Handled == Handles(sending, {v} \cup ({v} \X (0 .. MaxAttempts + MaxFaults)), o)
<1>3. /\ delivery[v] # None /\ delivery[v].status = "processing" /\ ~delivery[v].lapsed
      /\ DeliveryBecomes(v, delivery[v].status, delivery[v].owner, TRUE, delivery[v].count)
      /\ UNCHANGED << attempts, sending, accepted >>
      /\ IF Handled THEN Fault ELSE UNCHANGED faults
  BY <1>2, DeliveryForms DEF DeliveryLeaseLapses, Processing, workers
<1>4. /\ faults \in Nat /\ delivery[v].count \in Nat /\ MaxAttempts \in Nat
      /\ (Handled /\ faults' = faults + 1) \/ (~Handled /\ faults' = faults)
  BY <1>3, RowNumbers DEF Fault
<1>5. ASSUME Trying(o, v) \/ sending[o].item = v
      PROVE  Handled
  <2>1. CASE sending[o].item = v
    <3>1. sending[o].pc # "idle"
      BY <1>2, <2>1, TidyWorker, Names
    <3>2. QED
      BY <2>1, <3>1 DEF Handles
  <2>2. ASSUME NEW n \in Nat, <<v, n>> \in sending[o].todo
        PROVE  Handled
    <3>1. sending[o].pc # "idle" /\ n <= MaxAttempts + MaxFaults
      BY <1>2, <2>2, TidyWorker
    <3>2. n \in 0 .. MaxAttempts + MaxFaults
      BY <3>1, Bounds
    <3>3. <<v, n>> \in {v} \X (0 .. MaxAttempts + MaxFaults)
      BY <3>2
    <3>4. QED
      BY <2>2, <3>1, <3>3, Zenon DEF Handles
  <2>3. QED
    BY <1>5, <2>1, <2>2 DEF Trying, Calls
<1> HIDE DEF Handled
<1>6. \A q \in Processes :
          /\ q # o => ~Owns(delivery[v], q) /\ ~Owns(delivery[v], q)'
          /\ ~Leasing(q, v)'
  BY <1>3, <1>2 DEF DeliveryBecomes, Owns, Leasing
<1>7. \A q \in Processes : (Calls(q, v)' <=> Calls(q, v)) /\ (Trying(q, v)' <=> Trying(q, v))
  BY <1>3 DEF Calls, Trying
<1>8. ASSUME Late(o, v)'
      PROVE  Handled /\ \A q \in Processes : ~Settling(q, v)
  <2>1. Trying(o, v)
    BY <1>2, <1>7, <1>8 DEF Late
  <2>2. ~(sending[o].item = v /\ sending[o].pc = "recorded")
    BY <1>2, <2>1, TidyWorker DEF Trying, Calls
  <2>3. QED
    BY <1>5, <1>6, <2>1, <2>2 DEF Settling, Leasing
<1>9. Tabled(v)'
  <2>1. /\ LeaseOK(delivery[v]) /\ attempts[v] = 1 .. delivery[v].count
        /\ delivery[v].count <= MaxAttempts + faults
        /\ \/ \E q \in Processes : Settling(q, v)
           \/ delivery[v].count < MaxAttempts + faults
    BY <1>3 DEF Books, Tabled, Ended
  <2>2. delivery[v].count < MaxAttempts + faults'
    <3>1. CASE Handled
      BY <1>4, <2>1, <3>1
    <3>2. CASE ~Handled
      <4>1. \A q \in Processes : ~Settling(q, v)
        BY <1>5, <1>6, <3>2 DEF Settling, Leasing
      <4>2. QED
        BY <1>4, <2>1, <3>2, <4>1
    <3>3. QED
      BY <3>1, <3>2
  <2>3. ASSUME NEW q \in Processes, Late(q, v)'
        PROVE  delivery[v].count + 1 < MaxAttempts + faults'
    <3>1. q = o
      BY <1>6, <2>3 DEF Late
    <3>2. Handled /\ \A r \in Processes : ~Settling(r, v)
      BY <1>8, <2>3, <3>1
    <3>3. QED
      BY <1>4, <2>1, <3>2
  <2>4. LeaseOK(delivery'[v]) /\ delivery'[v].count = delivery[v].count
    BY <1>3, <2>1 DEF DeliveryBecomes, LeaseOK
  <2>5. delivery[v].count <= MaxAttempts + faults'
    BY <1>4, <2>1
  <2>6. QED
    BY <1>3, <2>1, <2>2, <2>3, <2>4, <2>5 DEF Tabled
<1>10. Accounted(v)'
  <2>1. ASSUME ~Handled
        PROVE  \A q \in Processes : ~Holds(q, v)
    <3>1. ~(Calls(o, v) \/ sending[o].item = v)
      BY <1>5, <2>1 DEF Trying
    <3>2. QED
      BY <1>6, <3>1 DEF Holds, Leasing
  <2>2. faults' >= faults /\ (faults' > faults \/ ~Handled)
    BY <1>4
  <2>3. accepted'[v] = accepted[v] /\ delivery[v].status # "delivered"
    BY <1>3
  <2>4. QED
    BY <1>3, <1>2, <1>7, <2>1, <2>2, <2>3, AccountStays DEF Books
<1>11. ASSUME NEW w \in Work, w # v
       PROVE  Tabled(w)' /\ Accounted(w)'
  <2>1. delivery'[w] = delivery[w]
    BY <1>3, <1>11 DEF DeliveryBecomes
  <2>2. faults' >= faults
    BY <1>4
  <2>3. QED
    BY <1>3, <2>1, <2>2, BooksRest DEF Books
<1>12. QED
  BY <1>9, <1>10, <1>11 DEF Books

LEMMA BooksOnDelete ==
  ASSUME Types, Types', Books, NEW v \in Work, DeleteTerminal(v)
  PROVE  Books'
<1>1. delivery'[v] = None
  BY DEF DeleteTerminal, Types
<1>2. ASSUME NEW w \in Work, w # v
      PROVE  Tabled(w)' /\ Accounted(w)'
  <2>1. /\ delivery'[w] = delivery[w] /\ attempts'[w] = attempts[w]
        /\ UNCHANGED << sending, accepted, faults >>
    BY <1>2 DEF DeleteTerminal, Types, workers
  <2>2. faults' >= faults
    BY <2>1 DEF Types
  <2>3. QED
    BY <2>1, <2>2, BooksRest DEF Books
<1>3. QED
  BY <1>1, <1>2 DEF Books, Tabled, Accounted

-----------------------------------------------------------------------------
(* The counts the workers read.                                            *)

LEMMA FreshRows ==
  ASSUME CountsAreFresh, UNCHANGED sending,
         \A w \in Work, p \in Processes :
             Owns(delivery[w], p)' =>
                 Owns(delivery[w], p) /\ delivery'[w].count = delivery[w].count
  PROVE  CountsAreFresh'
<1>1. ASSUME NEW p \in Processes, NEW w \in Work
      PROVE  Fresh(p, w)'
  BY <1>1 DEF CountsAreFresh, Fresh
<1>2. QED
  BY <1>1 DEF CountsAreFresh

LEMMA FreshWorker ==
  ASSUME CountsAreFresh, NEW p \in Processes, UNCHANGED delivery,
         \A q \in Processes : q # p => sending'[q] = sending[q],
         \A w \in Work : Fresh(p, w)'
  PROVE  CountsAreFresh'
<1>1. ASSUME NEW q \in Processes, NEW w \in Work
      PROVE  Fresh(q, w)'
  <2>1. CASE q = p
    BY <2>1
  <2>2. CASE q # p
    BY <2>2 DEF CountsAreFresh, Fresh
  <2>3. QED
    BY <2>1, <2>2
<1>2. QED
  BY <1>1 DEF CountsAreFresh

LEMMA FreshStop ==
  ASSUME CountsAreFresh, NEW p \in Processes, UNCHANGED delivery,
         SenderBecomes(p, "idle", None, {}, 0, None)
  PROVE  CountsAreFresh'
<1>1. \A w \in Work : Fresh(p, w)'
  BY DEF SenderBecomes, Fresh
<1>2. QED
  BY <1>1, FreshWorker DEF SenderBecomes

LEMMA FreshWork ==
  ASSUME Types, SendersAreTidy, CountsAreFresh, NEW p \in Processes,
         DeliveryWorker(p) \/ LoadDestinationFails(p)
  PROVE  CountsAreFresh'
<1>1. ASSUME ClaimDeliveries(p)
      PROVE  CountsAreFresh'
  <2>1. PICK batch \in SUBSET Work :
            /\ \A w \in batch :
                   /\ delivery'[w] # None /\ delivery'[w].owner = p
                   /\ delivery'[w].count = delivery[w].count
            /\ \A w \in Work \ batch : delivery'[w] = delivery[w]
            /\ SenderBecomes(p, "batch", sending[p].item,
                             {<<w, delivery[w].count>> : w \in batch},
                             sending[p].next, sending[p].answer)
    BY <1>1, ClaimDeliveriesEffect
  <2>2. ASSUME NEW w \in Work
        PROVE  Fresh(p, w)'
    <3>1. \A n \in Nat : <<w, n>> \in sending'[p].todo => n = delivery'[w].count
      BY <2>1 DEF SenderBecomes
    <3>2. sending'[p].pc = "batch"
      BY <2>1 DEF SenderBecomes
    <3>3. QED
      BY <3>1, <3>2 DEF Fresh
  <2>3. ASSUME NEW q \in Processes, NEW w \in Work, q # p
        PROVE  Fresh(q, w)'
    <3>1. sending'[q] = sending[q]
      BY <2>1, <2>3 DEF SenderBecomes
    <3>2. w \in batch => ~Owns(delivery[w], q)'
      BY <2>1, <2>3 DEF Owns
    <3>3. w \notin batch => delivery'[w] = delivery[w]
      BY <2>1
    <3>4. Fresh(q, w)
      BY DEF CountsAreFresh
    <3>5. QED
      BY <3>1, <3>2, <3>3, <3>4 DEF Fresh
  <2>4. QED
    BY <2>2, <2>3 DEF CountsAreFresh
<1>2. ASSUME LoadDestination(p)
      PROVE  CountsAreFresh'
  <2>1. PICK v \in Work, n \in Nat, pc \in {"request", "disabled"} :
            /\ <<v, n>> \in sending[p].todo
            /\ SenderBecomes(p, pc, v, sending[p].todo \ {<<v, n>>}, n + 1, sending[p].answer)
    BY <1>2, LoadEffect
  <2>2. UNCHANGED delivery
    BY <1>2 DEF LoadDestination, tables
  <2>3. ASSUME NEW w \in Work
        PROVE  Fresh(p, w)'
    BY <2>1, <2>2 DEF SenderBecomes, CountsAreFresh, Fresh
  <2>4. QED
    BY <2>1, <2>2, <2>3, FreshWorker DEF SenderBecomes
<1>3. ASSUME LoadDestinationFails(p)
      PROVE  CountsAreFresh'
  <2>1. PICK v \in Work, n \in Nat :
            SenderBecomes(p, "unloaded", v, sending[p].todo \ {<<v, n>>}, sending[p].next,
                          sending[p].answer)
    BY <1>3, LoadFailsEffect
  <2>2. UNCHANGED delivery
    BY <1>3 DEF LoadDestinationFails, tables
  <2>3. ASSUME NEW w \in Work
        PROVE  Fresh(p, w)'
    BY <2>1, <2>2 DEF SenderBecomes, CountsAreFresh, Fresh
  <2>4. QED
    BY <2>1, <2>2, <2>3, FreshWorker DEF SenderBecomes
<1>4. ASSUME CallProvider(p)
      PROVE  CountsAreFresh'
  <2>1. PICK answer \in Answers :
            SenderBecomes(p, "answered", sending[p].item, sending[p].todo, sending[p].next,
                          answer)
    BY <1>4, SenderForms DEF CallProvider, Answers
  <2>2. UNCHANGED delivery /\ sending[p].pc = "request"
    BY <1>4 DEF CallProvider, tables
  <2>3. ASSUME NEW w \in Work
        PROVE  Fresh(p, w)'
    BY <2>1, <2>2 DEF SenderBecomes, CountsAreFresh, Fresh
  <2>4. QED
    BY <2>1, <2>2, <2>3, FreshWorker DEF SenderBecomes
<1>5. ASSUME UNCHANGED delivery, sending' = [sending EXCEPT ![p] = Idle]
      PROVE  CountsAreFresh'
  BY <1>5, SenderForms, FreshStop
<1>6. ASSUME NEW v \in Work, NEW pc, NEW item, NEW next, NEW answer,
             sending[p].item = v, Owns(delivery[v], p),
             SenderBecomes(p, pc, item, sending[p].todo, next, answer),
             \A u \in Work : u # v => delivery'[u] = delivery[u],
             Owns(delivery[v], p)' =>
                 pc = "recorded" /\ item = v /\ next = delivery'[v].count,
             pc = "recorded" => item = v, pc \in {"batch", "recorded"},
             \A q \in Processes : q # p => ~Owns(delivery[v], q)'
      PROVE  CountsAreFresh'
  <2>1. \A n \in Nat : <<v, n>> \notin sending[p].todo
    BY <1>6, TidyWorker
  <2>2. Fresh(p, v)'
    BY <1>6, <2>1 DEF SenderBecomes, Fresh
  <2>3. ASSUME NEW w \in Work, w # v
        PROVE  Fresh(p, w)'
    <3>1. Fresh(p, w) /\ delivery'[w] = delivery[w]
      BY <1>6, <2>3 DEF CountsAreFresh
    <3>2. sending'[p].todo = sending[p].todo /\ ~(sending'[p].item = w /\ sending'[p].pc = "recorded")
          /\ sending'[p].pc \in {"batch", "recorded"}
      BY <1>6, <2>3 DEF SenderBecomes
    <3>3. QED
      BY <3>1, <3>2 DEF Fresh
  <2>4. ASSUME NEW q \in Processes, NEW w \in Work, q # p
        PROVE  Fresh(q, w)'
    <3>1. Fresh(q, w) /\ sending'[q] = sending[q]
      BY <1>6, <2>4 DEF CountsAreFresh, SenderBecomes
    <3>2. w # v => delivery'[w] = delivery[w]
      BY <1>6
    <3>3. QED
      BY <1>6, <2>4, <3>1, <3>2 DEF Fresh
  <2>5. QED
    BY <2>2, <2>3, <2>4 DEF CountsAreFresh
<1>7. ASSUME RecordAttempt(p)
      PROVE  CountsAreFresh'
  <2>1. PICK v \in Work : v = sending[p].item
    BY <1>7, SenderAtWork DEF RecordAttempt
  <2>2. CASE ~Owns(delivery[v], p)
    BY <1>5, <1>7, <2>1, <2>2 DEF RecordAttempt
  <2>3. CASE Owns(delivery[v], p)
    <3>1. PICK n \in Nat :
              /\ n = sending[p].next
              /\ DeliveryBecomes(v, delivery[v].status, delivery[v].owner, delivery[v].lapsed, n)
      BY <1>7, <2>1, <2>3, RecordEffect
    <3>2. SenderBecomes(p, "recorded", v, sending[p].todo, n, sending[p].answer)
      BY <1>7, <2>1, <2>3, <3>1, RecordEffect
    <3>3. \A q \in Processes : q # p => ~Owns(delivery[v], q)'
      BY <2>3, <3>1 DEF DeliveryBecomes, Owns
    <3>4. n = delivery'[v].count /\ \A u \in Work : u # v => delivery'[u] = delivery[u]
      BY <3>1 DEF DeliveryBecomes
    <3>5. QED
      BY <1>6, <2>1, <2>3, <3>2, <3>3, <3>4
  <2>4. QED
    BY <2>2, <2>3
<1>8. ASSUME SettleDelivery(p)
      PROVE  CountsAreFresh'
  <2>1. PICK v \in Work : v = sending[p].item
    BY <1>8, SenderAtWork DEF SettleDelivery
  <2>2. CASE ~Owns(delivery[v], p)
    BY <1>5, <1>8, <2>1, <2>2 DEF SettleDelivery
  <2>3. CASE Owns(delivery[v], p)
    <3>1. PICK status \in {"retrying", "delivered", "failed_terminal"} :
              DeliveryBecomes(v, status, None, FALSE, delivery[v].count)
      BY <1>8, <2>1, <2>3, SettleEffect
    <3>2. SenderBecomes(p, "batch", None, sending[p].todo, 0, None)
      BY <1>8, <2>1, <2>3, SettleEffect
    <3>3. \A q \in Processes : ~Owns(delivery[v], q)'
      BY <3>1 DEF DeliveryBecomes, Owns
    <3>4. \A u \in Work : u # v => delivery'[u] = delivery[u]
      BY <3>1 DEF DeliveryBecomes
    <3>5. QED
      BY <1>6, <2>1, <2>3, <3>2, <3>3, <3>4
  <2>4. QED
    BY <2>2, <2>3
<1>9. ASSUME EndDeliveries(p)
      PROVE  CountsAreFresh'
  BY <1>5, <1>9 DEF EndDeliveries, tables
<1>10. QED
  BY <1>1, <1>2, <1>3, <1>4, <1>7, <1>8, <1>9 DEF DeliveryWorker

(* The steps that are no step of a delivery worker, by what they leave alone. *)
LEMMA OtherSteps ==
  ASSUME Types, [Next]_vars
  PROVE  \/ \E p \in Processes : DeliveryWorker(p) \/ LoadDestinationFails(p)
         \/ \E p \in Processes :
                /\ SenderBecomes(p, "idle", None, {}, 0, None) /\ faults' > faults
                /\ UNCHANGED << delivery, attempts, accepted >>
         \/ \E p \in Processes, e \in Events : Materialize(p, e)
         \/ \E w \in Work : BackoffPasses(w) \/ DeliveryLeaseLapses(w) \/ DeleteTerminal(w)
         \/ UNCHANGED << delivery, attempts, accepted, sending >> /\ faults' >= faults
<1> DEFINE Quiet == UNCHANGED << delivery, attempts, accepted, sending >> /\ faults' >= faults
<1>1. faults \in Nat
  BY DEF Types
<1>2. ASSUME NEW e \in Events, CreateOccurrence(e) \/ EventLeaseLapses(e) \/ DeletePublished(e)
      PROVE  Quiet
  <2>1. UNCHANGED << delivery, attempts, accepted, sending >>
        /\ (faults' = faults \/ faults' = faults + 1)
    BY <1>2 DEF CreateOccurrence, EventLeaseLapses, DeletePublished, Fault, workers
  <2>2. QED
    BY <1>1, <2>1
<1>3. ASSUME \/ \E u \in Users : SetActive(u)
             \/ \E d \in Destinations : UpdateDestination(d)
             \/ \E p \in Processes : Start(p)
             \/ UNCHANGED vars
      PROVE  Quiet
  <2>1. UNCHANGED << delivery, attempts, accepted, sending, faults >>
    BY <1>3 DEF SetActive, UpdateDestination, Start, tables, workers, vars
  <2>2. QED
    BY <1>1, <2>1
<1>4. ASSUME NEW p \in Processes, NEW e \in Events, RejectEnvelope(p, e) \/ MaterializeFails(p, e)
      PROVE  Quiet
  <2>1. UNCHANGED << delivery, attempts, accepted, sending >>
        /\ (faults' = faults \/ faults' = faults + 1)
    BY <1>4 DEF RejectEnvelope, MaterializeFails, Fault, tables
  <2>2. QED
    BY <1>1, <2>1
<1>5. ASSUME NEW p \in Processes, ClaimEvents(p) \/ SettleEvent(p) \/ EndEvents(p)
      PROVE  Quiet
  <2>1. UNCHANGED << delivery, attempts, accepted, sending, faults >>
    BY <1>5 DEF ClaimEvents, SettleEvent, EndEvents, tables
  <2>2. QED
    BY <1>1, <2>1
<1>6. ASSUME NEW p \in Processes, WriteFails(p) \/ Crash(p)
      PROVE  \/ Quiet
             \/ /\ SenderBecomes(p, "idle", None, {}, 0, None) /\ faults' > faults
                /\ UNCHANGED << delivery, attempts, accepted >>
  <2>1. /\ UNCHANGED << delivery, attempts, accepted >> /\ faults' = faults + 1
        /\ UNCHANGED sending \/ sending' = [sending EXCEPT ![p] = Idle]
    BY <1>6 DEF WriteFails, Crash, Fault, tables
  <2>2. faults' > faults /\ faults' >= faults
    BY <1>1, <2>1
  <2>3. UNCHANGED sending \/ SenderBecomes(p, "idle", None, {}, 0, None)
    BY <2>1, SenderForms
  <2>4. QED
    BY <2>1, <2>2, <2>3
<1> HIDE DEF Quiet
<1>7. CASE UNCHANGED vars
  BY <1>3, <1>7 DEF Quiet
<1>8. CASE Next
  <2>1. CASE \E p \in Processes : \E e \in Events : MaterializeFails(p, e) \/ RejectEnvelope(p, e)
    BY <1>4, <2>1 DEF Quiet
  <2>2. CASE \E p \in Processes : WriteFails(p) \/ Crash(p)
    BY <1>6, <2>2 DEF Quiet
  <2>3. CASE \E p \in Processes : ClaimEvents(p) \/ SettleEvent(p) \/ EndEvents(p)
    BY <1>5, <2>3 DEF Quiet
  <2>4. QED
    BY <1>2, <1>3, <1>8, <2>1, <2>2, <2>3 DEF Next, OutboxWorker, Quiet
<1>9. QED
  BY <1>7, <1>8

LEMMA FreshStep ==
  ASSUME Types, SendersAreTidy, CountsAreFresh, [Next]_vars
  PROVE  CountsAreFresh'
<1>1. ASSUME NEW p \in Processes, NEW e \in Events, Materialize(p, e)
      PROVE  CountsAreFresh'
  <2>1. UNCHANGED sending
    BY <1>1 DEF Materialize
  <2>2. ASSUME NEW w \in Work, NEW q \in Processes, Owns(delivery[w], q)'
        PROVE  Owns(delivery[w], q) /\ delivery'[w].count = delivery[w].count
    <3>1. delivery'[w].status = "pending" \/ delivery'[w] = delivery[w]
      BY <1>1, MaterializeEffect
    <3>2. QED
      BY <2>2, <3>1 DEF Owns
  <2>3. QED
    BY <2>1, <2>2, FreshRows
<1>2. ASSUME NEW v \in Work, BackoffPasses(v) \/ DeliveryLeaseLapses(v) \/ DeleteTerminal(v)
      PROVE  CountsAreFresh'
  <2>1. UNCHANGED sending
    BY <1>2 DEF BackoffPasses, DeliveryLeaseLapses, DeleteTerminal, workers
  <2>2. \/ delivery' = [delivery EXCEPT ![v] = None]
        \/ /\ delivery[v] # None
           /\ \E lapsed : DeliveryBecomes(v, delivery[v].status, delivery[v].owner, lapsed,
                                          delivery[v].count)
    BY <1>2, DeliveryForms DEF BackoffPasses, DeliveryLeaseLapses, DeleteTerminal, Processing
  <2>3. ASSUME NEW w \in Work, NEW q \in Processes, Owns(delivery[w], q)'
        PROVE  Owns(delivery[w], q) /\ delivery'[w].count = delivery[w].count
    <3>1. CASE delivery' = [delivery EXCEPT ![v] = None]
      BY <2>3, <3>1 DEF Owns, Types
    <3>2. CASE /\ delivery[v] # None
               /\ \E lapsed : DeliveryBecomes(v, delivery[v].status, delivery[v].owner, lapsed,
                                              delivery[v].count)
      BY <2>3, <3>2 DEF Owns, DeliveryBecomes
    <3>3. QED
      BY <2>2, <3>1, <3>2
  <2>4. QED
    BY <2>1, <2>3, FreshRows
<1>3. ASSUME UNCHANGED << delivery, sending >>
      PROVE  CountsAreFresh'
  BY <1>3, FreshRows
<1>4. QED
  BY <1>1, <1>2, <1>3, OtherSteps, FreshWork, FreshStop

LEMMA AttemptsStep ==
  ASSUME Types, SendersAreTidy, CountsAreFresh, AttemptsAreOwned, [Next]_vars
  PROVE  AttemptsAreOwned'
<1>1. ASSUME UNCHANGED attempts, \A w \in Work : delivery'[w] = None => delivery[w] = None
      PROVE  AttemptsAreOwned'
  BY <1>1 DEF AttemptsAreOwned
<1>2. ASSUME NEW p \in Processes, NEW e \in Events, Materialize(p, e)
      PROVE  AttemptsAreOwned'
  <2>1. UNCHANGED attempts
    BY <1>2 DEF Materialize
  <2>2. \A w \in Work : delivery'[w] = None => delivery[w] = None
    BY <1>2, MaterializeEffect
  <2>3. QED
    BY <1>1, <2>1, <2>2
<1>3. ASSUME NEW v \in Work, BackoffPasses(v) \/ DeliveryLeaseLapses(v)
      PROVE  AttemptsAreOwned'
  <2>1. UNCHANGED attempts
    BY <1>3 DEF BackoffPasses, DeliveryLeaseLapses
  <2>2. \A w \in Work : delivery'[w] = None => delivery[w] = None
    BY <1>3, DeliveryForms
    DEF BackoffPasses, DeliveryLeaseLapses, Processing, DeliveryBecomes
  <2>3. QED
    BY <1>1, <2>1, <2>2
<1>4. ASSUME NEW v \in Work, DeleteTerminal(v)
      PROVE  AttemptsAreOwned'
  BY <1>4 DEF DeleteTerminal, AttemptsAreOwned, Types
<1>5. ASSUME NEW p \in Processes, ClaimDeliveries(p)
      PROVE  AttemptsAreOwned'
  <2>1. UNCHANGED attempts
    BY <1>5 DEF ClaimDeliveries
  <2>2. \A w \in Work : delivery'[w] = None => delivery[w] = None
    BY <1>5, ClaimDeliveriesEffect
  <2>3. QED
    BY <1>1, <2>1, <2>2
<1>6. ASSUME NEW p \in Processes, RecordAttempt(p) \/ SettleDelivery(p)
      PROVE  AttemptsAreOwned'
  <2>1. PICK v \in Work : v = sending[p].item
    BY <1>6, SenderAtWork DEF RecordAttempt, SettleDelivery
  <2>2. CASE ~Owns(delivery[v], p)
    BY <1>1, <1>6, <2>1, <2>2 DEF RecordAttempt, SettleDelivery
  <2>3. CASE Owns(delivery[v], p)
    <3>1. /\ delivery'[v] # None
          /\ \A w \in Work : w # v => delivery'[w] = delivery[w]
          /\ \A w \in Work : w # v => attempts'[w] = attempts[w]
      <4>1. CASE RecordAttempt(p)
        BY <2>1, <2>3, <4>1, RecordEffect DEF DeliveryBecomes, Types
      <4>2. CASE SettleDelivery(p)
        <5>1. UNCHANGED attempts
          BY <4>2 DEF SettleDelivery
        <5>2. QED
          BY <2>1, <2>3, <4>2, <5>1, SettleEffect DEF DeliveryBecomes
      <4>3. QED
        BY <1>6, <4>1, <4>2
    <3>2. QED
      BY <3>1 DEF AttemptsAreOwned
  <2>4. QED
    BY <2>2, <2>3
<1>7. ASSUME NEW p \in Processes,
             LoadDestination(p) \/ LoadDestinationFails(p) \/ CallProvider(p) \/ EndDeliveries(p)
      PROVE  UNCHANGED << delivery, attempts >>
  BY <1>7 DEF LoadDestination, LoadDestinationFails, CallProvider, EndDeliveries, tables
<1>8. QED
  BY <1>1, <1>2, <1>3, <1>4, <1>5, <1>6, <1>7, OtherSteps DEF DeliveryWorker

LEMMA BooksStep ==
  ASSUME Types, Types', DeliveriesAreOwed, AttemptsAreOwned, SendersAreTidy, CountsAreFresh,
         Books, [Next]_vars
  PROVE  Books'
<1>1. ASSUME NEW p \in Processes, DeliveryWorker(p) \/ LoadDestinationFails(p)
      PROVE  Books'
  <2>1. ASSUME EndDeliveries(p)
        PROVE  Books'
    <3>1. /\ UNCHANGED << delivery, attempts, accepted, faults >> /\ sending[p].item = None
          /\ SenderBecomes(p, "idle", None, {}, 0, None)
      BY <2>1, SenderForms, TidyWorker DEF EndDeliveries, tables
    <3>2. faults' >= faults
      BY <3>1 DEF Types
    <3>3. QED
      BY <3>1, <3>2, BooksOnStop, Names
  <2>2. QED
    BY <1>1, <2>1, BooksOnClaim, BooksOnLoad, BooksOnCall, BooksOnRecord, BooksOnSettle
    DEF DeliveryWorker
<1>2. ASSUME NEW p \in Processes, SenderBecomes(p, "idle", None, {}, 0, None),
             faults' > faults, UNCHANGED << delivery, attempts, accepted >>
      PROVE  Books'
  <2>1. faults' >= faults
    BY <1>2 DEF Types
  <2>2. QED
    BY <1>2, <2>1, BooksOnStop
<1>3. ASSUME UNCHANGED << delivery, attempts, accepted, sending >>, faults' >= faults
      PROVE  Books'
  BY <1>3, BooksRest DEF Books
<1>4. QED
  BY <1>1, <1>2, <1>3, OtherSteps, BooksOnMaterialize, BooksOnBackoff, BooksOnLapse,
     BooksOnDelete

-----------------------------------------------------------------------------
(* The invariant                                                           *)

IInv ==
    /\ Types /\ EventIInv /\ DeliveriesAreOwed /\ AttemptsAreOwned
    /\ SendersAreTidy /\ CountsAreFresh /\ Books

LEMMA IInvParts == IInv => TypeOK /\ CountsOK
  BY BooksParts, TypeParts DEF IInv, EventIInv

LEMMA IInvInit == Init => IInv
<1> SUFFICES ASSUME Init PROVE IInv
  OBVIOUS
<1>1. Idle \in Tellers /\ Idle \in Senders
  BY DEF Idle, Tellers, Senders
<1>2. Types
  <2>1. faults = 0 /\ changes = 0 /\ MaxFaults \in Nat
    BY Bounds DEF Init
  <2>2. QED
    BY <1>1, <2>1 DEF Init, Types
<1>3. \A p \in Processes :
          /\ telling[p].pc = "idle" /\ telling[p].item = None /\ telling[p].todo = {}
          /\ sending[p].pc = "idle" /\ sending[p].item = None /\ sending[p].todo = {}
          /\ sending[p].answer = None
  BY DEF Init, Idle
<1>4. (\A e \in Events : outbox[e] = None /\ fact[e] = None)
      /\ \A w \in Work : delivery[w] = None /\ attempts[w] = {} /\ accepted[w] = 0
  BY DEF Init
<1>5. EventIInv
  BY <1>3, <1>4, Names
  DEF EventIInv, EventLeases, TellersFollowEvents, EventsEndRight, StatusAfter
<1>6. DeliveriesAreOwed
  BY <1>3, <1>4, Names DEF DeliveriesAreOwed, Has
<1>7. AttemptsAreOwned /\ SendersAreTidy
  BY <1>3, <1>4 DEF AttemptsAreOwned, SendersAreTidy
<1>8. CountsAreFresh /\ Books
  BY <1>4 DEF CountsAreFresh, Fresh, Owns, Books, Tabled, Accounted
<1>9. QED
  BY <1>2, <1>5, <1>6, <1>7, <1>8 DEF IInv

LEMMA IInvStep == IInv /\ [Next]_vars => IInv'
<1> SUFFICES ASSUME IInv, [Next]_vars PROVE IInv'
  OBVIOUS
<1>1. Types /\ EventIInv /\ DeliveriesAreOwed /\ AttemptsAreOwned
      /\ SendersAreTidy /\ CountsAreFresh /\ Books
  BY DEF IInv
<1>2. CountsOK
  BY IInvParts
<1>3. Types'
  BY <1>1, TypeStep
<1>4. EventIInv'
  BY <1>1, EventStep
<1>5. DeliveriesAreOwed'
  BY <1>1, OwedStep
<1>6. AttemptsAreOwned'
  BY <1>1, AttemptsStep
<1>7. SendersAreTidy'
  BY <1>1, <1>2, TidyStep
<1>8. CountsAreFresh'
  BY <1>1, FreshStep
<1>9. Books'
  BY <1>1, <1>3, BooksStep
<1>10. QED
  BY <1>3, <1>4, <1>5, <1>6, <1>7, <1>8, <1>9 DEF IInv

THEOREM IInvHolds == Spec => []IInv
  BY IInvInit, IInvStep, PTL DEF Spec

(* Outbox rows, facts, deliveries, attempts and the locals of both workers hold
   what the code writes into them, leases have their owners, and attempts are
   numbered without gaps and bounded by the budget and the faults. *)
THEOREM TypesHold == Spec => []TypeOK
<1>1. IInv => TypeOK
  BY IInvParts
<1>2. QED
  BY <1>1, IInvHolds, PTL

(* A provider is asked again after it took the message only because of faults:
   it takes a delivery at most once more than there were faults, and no more
   often than there were faults unless the delivery is a delivered one or a
   worker is about to write that it is. *)
THEOREM AcceptanceAccounted == Spec => []AcceptanceIsAccounted
<1>1. IInv => AcceptanceIsAccounted
  <2> SUFFICES ASSUME IInv, NEW w \in Work, delivery[w] # None
               PROVE  accepted[w] <= faults +
                          IF \/ delivery[w] # None /\ delivery[w].status = "delivered"
                             \/ \E p \in Processes :
                                    sending[p].item = w /\ sending[p].answer = "accepted"
                          THEN 1 ELSE 0
    BY DEF AcceptanceIsAccounted
  <2> DEFINE c == Cardinality(Callers(w))
  <2>1. Types /\ accepted[w] + c <= faults + Credit(w)
    BY DEF IInv, Books, Accounted
  <2>2. faults \in Nat /\ accepted[w] \in Nat
    BY <2>1, RowNumbers
  <2>3. c \in Nat /\ ((\E p \in Processes : Calls(p, w)) => c > 0)
    BY CallersAreFinite
  <2>4. Credit(w) \in {0, 1}
        /\ (Credit(w) = 1 => delivery[w].status = "delivered" \/ \E p \in Processes : Holds(p, w))
    BY DEF Credit
  <2>5. CASE \E p \in Processes : sending[p].item = w /\ sending[p].answer = "accepted"
    <3> HIDE DEF c
    <3>1. accepted[w] <= faults + 1
      BY <2>1, <2>2, <2>3, <2>4
    <3>2. QED
      BY <2>5, <3>1
  <2>6. CASE delivery[w].status = "delivered"
    <3> HIDE DEF c
    <3>1. accepted[w] <= faults + 1
      BY <2>1, <2>2, <2>3, <2>4
    <3>2. QED
      BY <2>6, <3>1
  <2>7. CASE /\ delivery[w].status # "delivered"
             /\ ~\E p \in Processes : sending[p].item = w /\ sending[p].answer = "accepted"
    <3>1. Credit(w) = 1 => c > 0
      BY <2>3, <2>4, <2>7 DEF Holds
    <3> HIDE DEF c
    <3>2. accepted[w] <= faults
      BY <2>1, <2>2, <2>3, <2>4, <3>1
    <3>3. accepted[w] <= faults + 0
      BY <2>2, <3>2
    <3>4. QED
      BY <2>7, <3>3
  <2>8. QED
    BY <2>5, <2>6, <2>7
<1>2. QED
  BY <1>1, IInvHolds, PTL

-----------------------------------------------------------------------------
(* Who decides. A row that only got another lease is the row with that lease. *)

LEMMA EqualOutboxRows ==
  ASSUME NEW r \in OutboxRows, NEW s \in OutboxRows,
         r.status = s.status, r.owner = s.owner, r.lapsed = s.lapsed
  PROVE  r = s
  BY DEF OutboxRows

LEMMA EqualDeliveryRows ==
  ASSUME NEW r \in DeliveryRows, NEW s \in DeliveryRows,
         r.status = s.status, r.owner = s.owner, r.lapsed = s.lapsed,
         r.due = s.due, r.count = s.count
  PROVE  r = s
  BY DEF DeliveryRows

LEMMA LeaseOnlyOutbox ==
  ASSUME NEW row \in OutboxRows, NEW new \in OutboxRows, new.status = row.status
  PROVE  new = [row EXCEPT !.owner = new.owner, !.lapsed = new.lapsed]
<1> DEFINE other == [row EXCEPT !.owner = new.owner, !.lapsed = new.lapsed]
<1>1. new.owner \in Processes \cup {None} /\ new.lapsed \in BOOLEAN
  BY DEF OutboxRows
<1>2. /\ other \in OutboxRows /\ other.status = row.status
      /\ other.owner = new.owner /\ other.lapsed = new.lapsed
  BY <1>1 DEF OutboxRows
<1> HIDE DEF other
<1>3. new = other
  BY <1>2, EqualOutboxRows
<1>4. QED
  BY <1>3 DEF other

LEMMA LeaseOnlyDelivery ==
  ASSUME NEW row \in DeliveryRows, NEW new \in DeliveryRows, new.status = row.status,
         new.due = row.due, new.count = row.count
  PROVE  new = [row EXCEPT !.owner = new.owner, !.lapsed = new.lapsed]
<1> DEFINE other == [row EXCEPT !.owner = new.owner, !.lapsed = new.lapsed]
<1>1. new.owner \in Processes \cup {None} /\ new.lapsed \in BOOLEAN
  BY DEF DeliveryRows
<1>2. /\ other \in DeliveryRows /\ other.status = row.status
      /\ other.owner = new.owner /\ other.lapsed = new.lapsed
      /\ other.due = row.due /\ other.count = row.count
  BY <1>1 DEF DeliveryRows, Waiting
<1> HIDE DEF other
<1>3. new = other
  BY <1>2, EqualDeliveryRows
<1>4. QED
  BY <1>3 DEF other

LEMMA OnlyLeased ==
  /\ \A row, new \in OutboxRows : new.status = row.status => ~Changed(row, new)
  /\ \A row, new \in DeliveryRows :
         new.status = row.status /\ new.due = row.due /\ new.count = row.count
         => ~Changed(row, new)
<1>1. ASSUME NEW row \in OutboxRows, NEW new \in OutboxRows, new.status = row.status
      PROVE  ~Changed(row, new)
  <2>1. new = [row EXCEPT !.owner = new.owner, !.lapsed = new.lapsed]
    BY <1>1, LeaseOnlyOutbox
  <2>2. QED
    BY <1>1, <2>1, Zenon DEF Changed
<1>2. ASSUME NEW row \in DeliveryRows, NEW new \in DeliveryRows, new.status = row.status,
             new.due = row.due, new.count = row.count
      PROVE  ~Changed(row, new)
  <2>1. new = [row EXCEPT !.owner = new.owner, !.lapsed = new.lapsed]
    BY <1>2, LeaseOnlyDelivery
  <2>2. QED
    BY <1>2, <2>1, Zenon DEF Changed
<1>3. QED
  BY <1>1, <1>2

LEMMA EventDecided ==
  ASSUME IInv, [Next]_vars, NEW e \in Events, Changed(outbox[e], outbox'[e])
  PROVE  outbox[e] # None /\ outbox'[e] # None
         /\ outbox[e].status = "processing" /\ outbox'[e].status # "processing"
<1>1. outbox[e] # None /\ outbox'[e] # None /\ outbox[e].status = "processing"
  BY DEF Changed
<1>2. Types /\ Types'
  BY TypeStep DEF IInv
<1>3. outbox[e] \in OutboxRows /\ outbox'[e] \in OutboxRows
  BY <1>1, <1>2 DEF Types
<1>4. outbox'[e].status # "processing"
  BY <1>1, <1>3, OnlyLeased
<1>5. QED
  BY <1>1, <1>4

LEMMA EventsByOwner ==
  ASSUME IInv, [Next]_vars, NEW e \in Events, Changed(outbox[e], outbox'[e])
  PROVE  telling'[outbox[e].owner] # telling[outbox[e].owner]
<1>1. /\ outbox[e] # None /\ outbox'[e] # None
      /\ outbox[e].status = "processing" /\ outbox'[e].status # "processing"
  BY EventDecided
<1>2. Types /\ outbox'[e] # outbox[e]
  BY <1>1 DEF IInv
<1>3. ASSUME NEW p \in Processes, SettleEvent(p)
      PROVE  telling'[outbox[e].owner] # telling[outbox[e].owner]
  <2>1. e = telling[p].item /\ Owns(outbox[e], p) /\ telling' = [telling EXCEPT ![p] = Done(@)]
    <3>1. telling[p].item \in Events
      BY <1>2, <1>3, TellerFields
      DEF SettleEvent, StatusAfter, IInv, EventIInv, TellersFollowEvents
    <3>2. outbox' = outbox \/ \E row : outbox' = [outbox EXCEPT ![telling[p].item] = row]
      BY <1>3 DEF SettleEvent
    <3>3. telling[p].item # e => outbox'[e] = outbox[e]
      BY <1>2, <3>1, <3>2 DEF Types
    <3>4. QED
      BY <1>2, <1>3, <3>3 DEF SettleEvent
  <2>2. outbox[e].owner = p
    BY <2>1 DEF Owns
  <2>3. telling'[p].pc = "batch" /\ telling[p].pc # "batch"
    <3>1. TellerBecomes(p, "batch", None, telling[p].todo)
      BY <1>2, <2>1, TellerForms
    <3>2. QED
      BY <1>3, <3>1 DEF TellerBecomes, SettleEvent, StatusAfter
  <2>4. QED
    BY <2>2, <2>3
<1>4. ~\E p \in Processes : ClaimEvents(p)
  BY <1>1, <1>2, ClaimEventsEffect
<1>5. ~\E f \in Events : CreateOccurrence(f) \/ DeletePublished(f)
  BY <1>1, <1>2 DEF CreateOccurrence, DeletePublished, Types
<1>6. ~\E f \in Events : EventLeaseLapses(f)
  <2>1. ASSUME NEW f \in Events, EventLeaseLapses(f)
        PROVE  FALSE
    <3>1. OutboxBecomes(f, outbox[f].status, outbox[f].owner, TRUE)
      BY <1>2, <2>1, OutboxForms DEF EventLeaseLapses, Processing
    <3>2. QED
      BY <1>1, <1>2, <3>1 DEF OutboxBecomes
  <2>2. QED
    BY <2>1
<1>7. ASSUME NEW p \in Processes,
             \/ EndEvents(p) \/ DeliveryWorker(p)
             \/ LoadDestinationFails(p) \/ WriteFails(p) \/ Start(p) \/ Crash(p)
             \/ \E f \in Events :
                    MaterializeFails(p, f) \/ Materialize(p, f) \/ RejectEnvelope(p, f)
      PROVE  UNCHANGED outbox
  BY <1>7 DEF EndEvents, DeliveryWorker, ClaimDeliveries, LoadDestination, CallProvider,
              RecordAttempt, SettleDelivery, EndDeliveries, LoadDestinationFails, WriteFails,
              Start, Crash, MaterializeFails, Materialize, RejectEnvelope, tables
<1>8. ASSUME \/ \E u \in Users : SetActive(u)
             \/ \E d \in Destinations : UpdateDestination(d)
             \/ \E w \in Work : BackoffPasses(w) \/ DeliveryLeaseLapses(w) \/ DeleteTerminal(w)
             \/ UNCHANGED vars
      PROVE  UNCHANGED outbox
  BY <1>8 DEF SetActive, UpdateDestination, BackoffPasses, DeliveryLeaseLapses, DeleteTerminal,
              tables, vars
<1>9. QED
  BY <1>2, <1>3, <1>4, <1>5, <1>6, <1>7, <1>8 DEF Next, OutboxWorker

LEMMA DeliveriesByOwner ==
  ASSUME IInv, [Next]_vars, NEW w \in Work, Changed(delivery[w], delivery'[w])
  PROVE  sending'[delivery[w].owner] # sending[delivery[w].owner]
<1>1. delivery[w] # None /\ delivery'[w] # None /\ delivery[w].status = "processing"
  BY DEF Changed
<1>2. Types /\ Types' /\ SendersAreTidy /\ CountsAreFresh /\ DeliveriesAreOwed
  BY TypeStep DEF IInv
<1>3. delivery[w] \in DeliveryRows /\ delivery'[w] \in DeliveryRows
  BY <1>1, <1>2 DEF Types
<1>4. ASSUME delivery'[w].status = "processing", delivery'[w].due = delivery[w].due,
             delivery'[w].count = delivery[w].count
      PROVE  FALSE
  BY <1>1, <1>3, <1>4, OnlyLeased
<1>5. delivery'[w] # delivery[w]
  BY <1>1, <1>4
<1>6. ASSUME NEW p \in Processes, RecordAttempt(p) \/ SettleDelivery(p)
      PROVE  sending'[delivery[w].owner] # sending[delivery[w].owner]
  <2>1. PICK v \in Work : v = sending[p].item
    BY <1>2, <1>6, SenderAtWork DEF RecordAttempt, SettleDelivery
  <2>2. Owns(delivery[v], p)
    BY <1>5, <1>6, <2>1 DEF RecordAttempt, SettleDelivery
  <2>3. \A u \in Work : u # v => delivery'[u] = delivery[u]
    BY <1>2, <1>6, <2>1, <2>2, RecordEffect, SettleEffect DEF DeliveryBecomes
  <2>4. delivery[w].owner = p
    BY <1>5, <2>2, <2>3 DEF Owns
  <2>5. sending'[p].pc # sending[p].pc
    <3>1. CASE RecordAttempt(p)
      BY <1>2, <2>1, <2>2, <3>1, RecordEffect DEF SenderBecomes, RecordAttempt
    <3>2. CASE SettleDelivery(p)
      BY <1>2, <2>1, <2>2, <3>2, SettleEffect DEF SenderBecomes, SettleDelivery
    <3>3. QED
      BY <1>6, <3>1, <3>2
  <2>6. QED
    BY <2>4, <2>5
<1>7. ASSUME NEW p \in Processes, ClaimDeliveries(p)
      PROVE  FALSE
  <2>1. \A v \in Work :
            delivery'[v] = Leased(delivery[v], p) \/ delivery'[v] = delivery[v]
    BY <1>7 DEF ClaimDeliveries
  <2>2. delivery'[w] = Leased(delivery[w], p)
    BY <1>5, <2>1
  <2>3. LET new == Leased(delivery[w], p)
        IN  /\ new.status = "processing" /\ new.due = delivery[w].due
            /\ new.count = delivery[w].count
    BY <1>3 DEF Leased, DeliveryRows
  <2>4. QED
    BY <1>4, <2>2, <2>3
<1>8. ASSUME NEW p \in Processes, NEW e \in Events, Materialize(p, e)
      PROVE  FALSE
  <2>1. fact[w[1]] # None
    BY <1>1, <1>2 DEF DeliveriesAreOwed
  <2>2. QED
    BY <1>2, <1>5, <1>8, <2>1, MaterializeEffect
<1>9. ASSUME NEW v \in Work, BackoffPasses(v)
      PROVE  FALSE
  <2>1. w # v
    BY <1>1, <1>9 DEF BackoffPasses
  <2>2. QED
    BY <1>2, <1>5, <1>9, <2>1 DEF BackoffPasses, Types
<1>10. ASSUME NEW v \in Work, DeliveryLeaseLapses(v)
       PROVE  FALSE
  <2>1. delivery' = [delivery EXCEPT ![v].lapsed = TRUE]
    BY <1>10 DEF DeliveryLeaseLapses
  <2>2. w = v
    BY <1>2, <1>5, <2>1 DEF Types
  <2>3. delivery'[w] = [delivery[w] EXCEPT !.lapsed = TRUE]
    BY <1>2, <2>1, <2>2 DEF Types
  <2>4. LET new == [delivery[w] EXCEPT !.lapsed = TRUE]
        IN  /\ new.status = delivery[w].status /\ new.due = delivery[w].due
            /\ new.count = delivery[w].count
    BY <1>3 DEF DeliveryRows
  <2>5. QED
    BY <1>1, <1>4, <2>3, <2>4
<1>11. ASSUME NEW v \in Work, DeleteTerminal(v)
       PROVE  FALSE
  BY <1>1, <1>2, <1>5, <1>11 DEF DeleteTerminal, Types
<1>12. ASSUME NEW p \in Processes,
              LoadDestination(p) \/ LoadDestinationFails(p) \/ CallProvider(p) \/ EndDeliveries(p)
       PROVE  UNCHANGED delivery
  BY <1>12 DEF LoadDestination, LoadDestinationFails, CallProvider, EndDeliveries, tables
<1>13. QED
  BY <1>5, <1>6, <1>7, <1>8, <1>9, <1>10, <1>11, <1>12, <1>2, OtherSteps DEF DeliveryWorker

(* A claimed event is settled, and a claimed delivery counted or settled, only
   by a step of the worker that holds the lease: the writes of a worker that
   lost it change nothing, and the writes of others never reach the row. *)
THEOREM OwnerDecides == Spec => OnlyTheOwnerDecides
<1> DEFINE Step ==
        /\ \A e \in Events : Changed(outbox[e], outbox'[e]) =>
               telling'[outbox[e].owner] # telling[outbox[e].owner]
        /\ \A w \in Work : Changed(delivery[w], delivery'[w]) =>
               sending'[delivery[w].owner] # sending[delivery[w].owner]
<1>1. IInv /\ [Next]_vars => [Step]_vars
  BY EventsByOwner, DeliveriesByOwner
<1>2. QED
  BY <1>1, IInvHolds, PTL DEF Spec, OnlyTheOwnerDecides

-----------------------------------------------------------------------------
(* The promise                                                             *)

Standing(w) ==
    IF delivery[w] = None THEN "forgotten"
    ELSE CASE delivery[w].status = "delivered" -> "delivered"
           [] delivery[w].status = "failed_terminal" -> "failed"
           [] OTHER -> "owed"

StateOf(e) ==
    IF fact[e] # None THEN "told"
    ELSE IF outbox[e] = None THEN "unheard"
    ELSE IF outbox[e].status = "unsupported" THEN "refused" ELSE "due"

AudienceOf(e) == IF fact[e] = None THEN {} ELSE fact[e].recipients

ResultOf(e, d) ==
    IF fact[e] = None THEN "none"
    ELSE IF d \notin fact[e].destinations THEN "none"
    ELSE Standing(<<e, d>>)

StateBar == [e \in Events |-> StateOf(e)]
AudienceBar == [e \in Events |-> AudienceOf(e)]
ResultBar == [e \in Events |-> [d \in Destinations |-> ResultOf(e, d)]]

Settled == active' = active /\ (enabled \cap subscribed)' = enabled \cap subscribed

LEMMA PromiseForms ==
  ASSUME NEW e \in Events
  PROVE  /\ /\ StateBar[e] = "unheard" /\ StateBar' = [StateBar EXCEPT ![e] = "due"]
            /\ AudienceBar' = AudienceBar /\ ResultBar' = ResultBar /\ Settled
            => Promise!Hear(e)
         /\ /\ StateBar[e] = "due" /\ e \in Supported
            /\ StateBar' = [StateBar EXCEPT ![e] = "told"]
            /\ AudienceBar' = [AudienceBar EXCEPT ![e] = active]
            /\ ResultBar' = [ResultBar EXCEPT ![e] =
                   [d \in Destinations |->
                       IF d \in enabled \cap subscribed /\ e \notin InboxOnly
                       THEN "owed" ELSE "none"]]
            /\ Settled
            => Promise!Tell(e)
         /\ /\ StateBar[e] = "due" /\ e \notin Supported
            /\ StateBar' = [StateBar EXCEPT ![e] = "refused"]
            /\ AudienceBar' = AudienceBar /\ ResultBar' = ResultBar /\ Settled
            => Promise!Refuse(e)
  BY Zenon DEF Promise!Hear, Promise!Tell, Promise!Refuse, Promise!settings, Settled,
            StateBar, AudienceBar, ResultBar, StateOf, AudienceOf, ResultOf, Standing

LEMMA PromiseEnds ==
  ASSUME NEW e \in Events, NEW d \in Destinations,
         StateBar' = StateBar, AudienceBar' = AudienceBar, Settled
  PROVE  /\ \A r \in {"delivered", "failed"} :
                ResultBar[e][d] = "owed" /\ ResultBar' = [ResultBar EXCEPT ![e][d] = r]
                => Promise!Settle(e, d)
         /\ /\ ResultBar[e][d] \in {"delivered", "failed"}
            /\ ResultBar' = [ResultBar EXCEPT ![e][d] = "forgotten"]
            => Promise!Forget(e, d)
  BY Zenon DEF Promise!Settle, Promise!Forget, Promise!settings, Settled,
            StateBar, AudienceBar, ResultBar, StateOf, AudienceOf, ResultOf, Standing

LEMMA PromiseStays ==
  ASSUME StateBar' = StateBar, AudienceBar' = AudienceBar, ResultBar' = ResultBar
  PROVE  /\ active' \subseteq Users /\ (enabled \cap subscribed)' \subseteq Destinations
            => Promise!Reconfigure
         /\ Settled => UNCHANGED <<Promise!settings, Promise!promise>>
  BY Zenon DEF Promise!Reconfigure, Promise!promise, Promise!settings, Settled,
            StateBar, AudienceBar, ResultBar, StateOf, AudienceOf, ResultOf, Standing

LEMMA Standings ==
  ASSUME NEW w
  PROVE  /\ delivery[w] = None => Standing(w) = "forgotten"
         /\ delivery'[w] = None => Standing(w)' = "forgotten"
         /\ delivery[w] # None /\ delivery[w].status = "delivered" => Standing(w) = "delivered"
         /\ delivery'[w] # None /\ delivery'[w].status = "delivered"
            => Standing(w)' = "delivered"
         /\ delivery[w] # None /\ delivery[w].status = "failed_terminal"
            => Standing(w) = "failed"
         /\ delivery'[w] # None /\ delivery'[w].status = "failed_terminal"
            => Standing(w)' = "failed"
         /\ delivery[w] # None /\ delivery[w].status \notin {"delivered", "failed_terminal"}
            => Standing(w) = "owed"
         /\ delivery'[w] # None /\ delivery'[w].status \notin {"delivered", "failed_terminal"}
            => Standing(w)' = "owed"
  BY DEF Standing

LEMMA SameStates ==
  ASSUME \A e \in Events : StateOf(e)' = StateOf(e)
  PROVE  StateBar' = StateBar
  BY DEF StateBar

LEMMA SameResults ==
  ASSUME UNCHANGED fact, \A w \in Work : Standing(w)' = Standing(w)
  PROVE  AudienceBar' = AudienceBar /\ ResultBar' = ResultBar
<1>1. \A e \in Events : AudienceOf(e)' = AudienceOf(e)
  BY DEF AudienceOf
<1>2. \A e \in Events, d \in Destinations : <<e, d>> \in Work
  BY DEF Work
<1>3. \A e \in Events, d \in Destinations : ResultOf(e, d)' = ResultOf(e, d)
  BY <1>2 DEF ResultOf
<1>4. QED
  BY <1>1, <1>3 DEF AudienceBar, ResultBar

(* One delivery stands otherwise. *)
LEMMA OneResult ==
  ASSUME Types, DeliveriesAreOwed, UNCHANGED fact, NEW v \in Work, delivery[v] # None,
         \A w \in Work : w # v => Standing(w)' = Standing(w)
  PROVE  /\ v[1] \in Events /\ v[2] \in Destinations
         /\ ResultBar[v[1]][v[2]] = Standing(v)
         /\ \A r : Standing(v)' = r => ResultBar' = [ResultBar EXCEPT ![v[1]][v[2]] = r]
         /\ AudienceBar' = AudienceBar
<1>1. /\ v[1] \in Events /\ v[2] \in Destinations /\ v = <<v[1], v[2]>>
      /\ \A e \in Events, d \in Destinations :
             <<e, d>> \in Work /\ (<<e, d>> = v => e = v[1] /\ d = v[2])
  BY DEF Work
<1>2. fact[v[1]] # None /\ v[2] \in fact[v[1]].destinations
  BY DEF DeliveriesAreOwed
<1>3. ResultOf(v[1], v[2]) = Standing(v) /\ ResultOf(v[1], v[2])' = Standing(v)'
  BY <1>1, <1>2, Zenon DEF ResultOf
<1>4. \A e \in Events, d \in Destinations :
          ~(e = v[1] /\ d = v[2]) => ResultOf(e, d)' = ResultOf(e, d)
  BY <1>1 DEF ResultOf
<1>5. \A r : Standing(v)' = r => ResultBar' = [ResultBar EXCEPT ![v[1]][v[2]] = r]
  BY <1>1, <1>3, <1>4 DEF ResultBar
<1>6. AudienceBar' = AudienceBar
  BY DEF AudienceBar, AudienceOf
<1>7. ResultBar[v[1]][v[2]] = Standing(v)
  BY <1>1, <1>3 DEF ResultBar
<1>8. QED
  BY <1>1, <1>5, <1>6, <1>7

Kept == Promise!PromiseNext \/ UNCHANGED <<Promise!settings, Promise!promise>>

LEMMA KeptByOutbox ==
  ASSUME Types, EventIInv, UNCHANGED << settings, fact, delivery >>,
         \/ UNCHANGED outbox
         \/ \E e \in Events : CreateOccurrence(e) \/ EventLeaseLapses(e) \/ DeletePublished(e)
         \/ \E p \in Processes : ClaimEvents(p) \/ SettleEvent(p)
  PROVE  Kept
<1>1. Settled /\ AudienceBar' = AudienceBar /\ ResultBar' = ResultBar
  <2>1. \A w \in Work : Standing(w)' = Standing(w)
    BY DEF Standing
  <2>2. QED
    BY <2>1, SameResults DEF Settled, settings
<1>2. ASSUME \A e \in Events : StateOf(e)' = StateOf(e)
      PROVE  Kept
  BY <1>1, <1>2, SameStates, PromiseStays DEF Kept
<1>3. ASSUME NEW e \in Events, CreateOccurrence(e)
      PROVE  Kept
  <2>1. outbox[e] = None /\ OutboxBecomes(e, "pending", None, FALSE)
    BY <1>3, OutboxForms DEF CreateOccurrence
  <2>2. \A f \in Events : f # e => StateOf(f)' = StateOf(f)
    BY <2>1 DEF StateOf, OutboxBecomes
  <2>3. CASE fact[e] # None
    <3>1. StateOf(e)' = StateOf(e)
      BY <2>3 DEF StateOf
    <3>2. QED
      BY <1>2, <2>2, <3>1
  <2>4. CASE fact[e] = None
    <3>1. StateOf(e) = "unheard" /\ StateOf(e)' = "due"
      BY <2>1, <2>4 DEF StateOf, OutboxBecomes
    <3>2. StateBar[e] = "unheard" /\ StateBar' = [StateBar EXCEPT ![e] = "due"]
      BY <2>2, <3>1 DEF StateBar
    <3>3. Promise!Hear(e)
      BY <1>1, <3>2, PromiseForms
    <3>4. QED
      BY <3>3, Zenon DEF Kept, Promise!PromiseNext
  <2>5. QED
    BY <2>3, <2>4
<1>4. ASSUME NEW e \in Events, EventLeaseLapses(e)
      PROVE  Kept
  <2>1. outbox[e] # None /\ OutboxBecomes(e, outbox[e].status, outbox[e].owner, TRUE)
    BY <1>4, OutboxForms DEF EventLeaseLapses, Processing
  <2>2. \A f \in Events : StateOf(f)' = StateOf(f)
    BY <2>1 DEF StateOf, OutboxBecomes
  <2>3. QED
    BY <1>2, <2>2
<1>5. ASSUME NEW e \in Events, DeletePublished(e)
      PROVE  Kept
  <2>1. fact[e] # None /\ \A f \in Events : f # e => outbox'[f] = outbox[f]
    BY <1>5 DEF DeletePublished, EventIInv, EventsEndRight, Types
  <2>2. \A f \in Events : StateOf(f)' = StateOf(f)
    BY <2>1 DEF StateOf
  <2>3. QED
    BY <1>2, <2>2
<1>6. ASSUME NEW p \in Processes, ClaimEvents(p)
      PROVE  Kept
  <2>1. \A e \in Events :
            \/ outbox'[e] = outbox[e]
            \/ /\ Claimable(outbox[e])
               /\ outbox'[e] # None /\ outbox'[e].status = "processing"
    BY <1>6, ClaimEventsEffect
  <2>2. \A e \in Events : StateOf(e)' = StateOf(e)
    BY <2>1 DEF StateOf, Claimable, Waiting
  <2>3. QED
    BY <1>2, <2>2
<1>7. ASSUME NEW p \in Processes, SettleEvent(p)
      PROVE  Kept
  <2>1. PICK e \in Events : e = telling[p].item
    BY <1>7, TellerFields DEF SettleEvent, StatusAfter, EventIInv, TellersFollowEvents
  <2>2. PICK status : status = StatusAfter[telling[p].pc]
    OBVIOUS
  <2>3. /\ telling[p].pc \in {"publish", "refuse", "release"}
        /\ status \in {"published", "unsupported", "pending"}
        /\ status = "published" => fact[e] # None
        /\ status = "unsupported" => telling[p].pc = "refuse" /\ e \notin Supported
    BY <1>7, <2>1, <2>2 DEF SettleEvent, StatusAfter, EventIInv, TellersFollowEvents
  <2>4. CASE ~Owns(outbox[e], p)
    <3>1. UNCHANGED outbox
      BY <1>7, <2>1, <2>4 DEF SettleEvent
    <3>2. QED
      BY <1>2, <3>1 DEF StateOf
  <2>5. CASE Owns(outbox[e], p)
    <3>1. outbox[e] # None /\ outbox[e].status = "processing"
          /\ OutboxBecomes(e, status, None, FALSE)
      BY <1>7, <2>1, <2>2, <2>3, <2>5, OutboxForms DEF SettleEvent, Owns
    <3>2. \A f \in Events : f # e => StateOf(f)' = StateOf(f)
      BY <3>1 DEF StateOf, OutboxBecomes
    <3>3. CASE status # "unsupported"
      <4>1. StateOf(e)' = StateOf(e)
        BY <2>3, <3>1, <3>3 DEF StateOf, OutboxBecomes
      <4>2. QED
        BY <1>2, <3>2, <4>1
    <3>4. CASE status = "unsupported"
      <4>1. e \notin Supported /\ fact[e] = None
        BY <2>3, <3>4 DEF EventIInv, EventsEndRight
      <4>2. StateOf(e) = "due" /\ StateOf(e)' = "refused"
        BY <3>1, <3>4, <4>1 DEF StateOf, OutboxBecomes
      <4>3. StateBar[e] = "due" /\ StateBar' = [StateBar EXCEPT ![e] = "refused"]
        BY <3>2, <4>2 DEF StateBar
      <4>4. Promise!Refuse(e)
        BY <1>1, <4>1, <4>3, PromiseForms
      <4>5. QED
        BY <4>4, Zenon DEF Kept, Promise!PromiseNext
    <3>5. QED
      BY <3>3, <3>4
  <2>6. QED
    BY <2>4, <2>5
<1>8. QED
  BY <1>2, <1>3, <1>4, <1>5, <1>6, <1>7 DEF StateOf

LEMMA KeptByMaterialize ==
  ASSUME Types, EventIInv, DeliveriesAreOwed, NEW p \in Processes, NEW e \in Events,
         Materialize(p, e)
  PROVE  Kept
<1>1. /\ fact' = [fact EXCEPT ![e] = CreateFact(e)] /\ CreateFact(e) \in FactRows
      /\ \A w \in Work :
             IF w[1] = e /\ fact[e] = None /\ w[2] \in CreateFact(e).destinations
             THEN delivery'[w] # None /\ delivery'[w].status = "pending"
             ELSE delivery'[w] = delivery[w]
  BY MaterializeEffect
<1>2. Settled /\ UNCHANGED outbox /\ e \in Supported /\ e \in telling[p].todo
  BY DEF Materialize, Settled, settings
<1>3. CASE fact[e] # None
  <2>1. UNCHANGED fact
    BY <1>1, <1>3 DEF CreateFact, Types
  <2>2. \A w \in Work : delivery'[w] = delivery[w]
    BY <1>1, <1>3
  <2>3. AudienceBar' = AudienceBar /\ ResultBar' = ResultBar
    <3>1. \A w \in Work : Standing(w)' = Standing(w)
      BY <2>2 DEF Standing
    <3>2. QED
      BY <2>1, <3>1, SameResults
  <2>4. StateBar' = StateBar
    BY <1>2, <2>1, SameStates DEF StateOf
  <2>5. QED
    BY <1>2, <2>3, <2>4, PromiseStays DEF Kept
<1>4. CASE fact[e] = None
  <2>1. /\ outbox[e] # None /\ outbox[e].status # "unsupported"
    BY <1>2, <1>4 DEF EventIInv, TellersFollowEvents, EventsEndRight
  <2>2. /\ fact'[e] = CreateFact(e) /\ fact'[e] # None
        /\ \A f \in Events : f # e => fact'[f] = fact[f]
    BY <1>1, Names DEF Types
  <2>3. /\ CreateFact(e).recipients = active
        /\ CreateFact(e).destinations = IF e \in InboxOnly THEN {} ELSE enabled \cap subscribed
    BY <1>4 DEF CreateFact
  <2>4. StateBar[e] = "due" /\ StateBar' = [StateBar EXCEPT ![e] = "told"]
    <3>1. StateOf(e) = "due" /\ StateOf(e)' = "told"
      BY <1>4, <2>1, <2>2 DEF StateOf
    <3>2. \A f \in Events : f # e => StateOf(f)' = StateOf(f)
      BY <1>2, <2>2 DEF StateOf
    <3>3. QED
      BY <3>1, <3>2 DEF StateBar
  <2>5. AudienceBar' = [AudienceBar EXCEPT ![e] = active]
    <3>1. AudienceOf(e)' = active
      BY <2>2, <2>3 DEF AudienceOf
    <3>2. \A f \in Events : f # e => AudienceOf(f)' = AudienceOf(f)
      BY <2>2 DEF AudienceOf
    <3>3. QED
      BY <3>1, <3>2 DEF AudienceBar
  <2>6. ResultBar' = [ResultBar EXCEPT ![e] =
            [d \in Destinations |->
                IF d \in enabled \cap subscribed /\ e \notin InboxOnly THEN "owed" ELSE "none"]]
    <3>1. \A d \in Destinations :
              ResultOf(e, d)' = IF d \in enabled \cap subscribed /\ e \notin InboxOnly
                                THEN "owed" ELSE "none"
      <4>1. ASSUME NEW d \in Destinations, d \in CreateFact(e).destinations
            PROVE  ResultOf(e, d)' = "owed"
        <5>1. <<e, d>> \in Work /\ <<e, d>>[1] = e /\ <<e, d>>[2] = d
          BY DEF Work
        <5>2. delivery'[<<e, d>>] # None /\ delivery'[<<e, d>>].status = "pending"
          BY <1>1, <1>4, <4>1, <5>1
        <5>3. Standing(<<e, d>>)' = "owed"
          BY <5>2, Standings
        <5>4. QED
          BY <2>2, <4>1, <5>3 DEF ResultOf
      <4>2. ASSUME NEW d \in Destinations, d \notin CreateFact(e).destinations
            PROVE  ResultOf(e, d)' = "none"
        BY <2>2, <4>2 DEF ResultOf
      <4>3. QED
        BY <2>3, <4>1, <4>2
    <3>2. \A f \in Events, d \in Destinations : f # e => ResultOf(f, d)' = ResultOf(f, d)
      <4>1. ASSUME NEW f \in Events, NEW d \in Destinations, f # e
            PROVE  ResultOf(f, d)' = ResultOf(f, d)
        <5>1. <<f, d>> \in Work /\ <<f, d>>[1] # e
          BY <4>1 DEF Work
        <5>2. delivery'[<<f, d>>] = delivery[<<f, d>>]
          BY <1>1, <5>1
        <5>3. Standing(<<f, d>>)' = Standing(<<f, d>>)
          BY <5>2 DEF Standing
        <5>4. QED
          BY <2>2, <4>1, <5>3 DEF ResultOf
      <4>2. QED
        BY <4>1
    <3>3. QED
      BY <3>1, <3>2 DEF ResultBar
  <2>7. Promise!Tell(e)
    BY <1>2, <2>4, <2>5, <2>6, PromiseForms
  <2>8. QED
    BY <2>7, Zenon DEF Kept, Promise!PromiseNext
<1>5. QED
  BY <1>3, <1>4

LEMMA KeptByDeliveries ==
  ASSUME IInv, UNCHANGED << settings, outbox, fact >>,
         \/ UNCHANGED delivery
         \/ \E p \in Processes : ClaimDeliveries(p) \/ RecordAttempt(p) \/ SettleDelivery(p)
         \/ \E w \in Work : BackoffPasses(w) \/ DeliveryLeaseLapses(w) \/ DeleteTerminal(w)
  PROVE  Kept
<1>1. Types /\ DeliveriesAreOwed /\ SendersAreTidy /\ CountsAreFresh
  BY DEF IInv
<1>2. Settled /\ StateBar' = StateBar /\ AudienceBar' = AudienceBar
  BY DEF Settled, settings, StateBar, StateOf, AudienceBar, AudienceOf
<1>3. ASSUME \A w \in Work : Standing(w)' = Standing(w)
      PROVE  Kept
  <2>1. ResultBar' = ResultBar
    BY <1>3, SameResults
  <2>2. QED
    BY <1>2, <2>1, PromiseStays DEF Kept
<1>4. ASSUME NEW v \in Work, delivery[v] # None, \A w \in Work : w # v => delivery'[w] = delivery[w],
             \/ /\ Standing(v) = "owed" /\ Standing(v)' \in {"delivered", "failed"}
             \/ /\ Standing(v) \in {"delivered", "failed"} /\ Standing(v)' = "forgotten"
      PROVE  Kept
  <2>1. \A w \in Work : w # v => Standing(w)' = Standing(w)
    BY <1>4 DEF Standing
  <2>2. /\ v[1] \in Events /\ v[2] \in Destinations
        /\ ResultBar[v[1]][v[2]] = Standing(v)
        /\ ResultBar' = [ResultBar EXCEPT ![v[1]][v[2]] = Standing(v)']
    BY <1>1, <1>4, <2>1, OneResult
  <2>3. Promise!Settle(v[1], v[2]) \/ Promise!Forget(v[1], v[2])
    <3>1. CASE Standing(v) = "owed" /\ Standing(v)' \in {"delivered", "failed"}
      BY <1>2, <2>2, <3>1, PromiseEnds
    <3>2. CASE Standing(v) \in {"delivered", "failed"} /\ Standing(v)' = "forgotten"
      BY <1>2, <2>2, <3>2, PromiseEnds
    <3>3. QED
      BY <1>4, <3>1, <3>2
  <2>4. QED
    BY <2>2, <2>3, Zenon DEF Kept, Promise!PromiseNext
<1>5. ASSUME NEW p \in Processes, ClaimDeliveries(p)
      PROVE  Kept
  <2>1. \A w \in Work :
            \/ delivery'[w] = delivery[w]
            \/ /\ Claimable(delivery[w])
               /\ delivery'[w] # None /\ delivery'[w].status = "processing"
    BY <1>1, <1>5, ClaimDeliveriesEffect
  <2>2. \A w \in Work : Standing(w)' = Standing(w)
    <3>1. ASSUME NEW w \in Work
          PROVE  Standing(w)' = Standing(w)
      <4>1. CASE delivery'[w] = delivery[w]
        BY <4>1 DEF Standing
      <4>2. CASE /\ Claimable(delivery[w])
                 /\ delivery'[w] # None /\ delivery'[w].status = "processing"
        BY <4>2, Standings DEF Claimable, Waiting
      <4>3. QED
        BY <2>1, <4>1, <4>2
    <3>2. QED
      BY <3>1
  <2>3. QED
    BY <1>3, <2>2
<1>6. ASSUME NEW v \in Work, delivery[v] # None, NEW lapsed, NEW owner, NEW count,
             DeliveryBecomes(v, delivery[v].status, owner, lapsed, count)
      PROVE  Kept
  <2>1. ASSUME NEW w \in Work
        PROVE  Standing(w)' = Standing(w)
    <3>1. CASE w = v
      BY <1>6, <3>1, Standings DEF DeliveryBecomes
    <3>2. CASE w # v
      BY <1>6, <3>2 DEF DeliveryBecomes, Standing
    <3>3. QED
      BY <3>1, <3>2
  <2>2. QED
    BY <1>3, <2>1
<1>7. ASSUME NEW p \in Processes, RecordAttempt(p) \/ SettleDelivery(p)
      PROVE  Kept
  <2>1. PICK v \in Work : v = sending[p].item
    BY <1>1, <1>7, SenderAtWork DEF RecordAttempt, SettleDelivery
  <2>2. CASE ~Owns(delivery[v], p)
    <3>1. UNCHANGED delivery
      BY <1>7, <2>1, <2>2 DEF RecordAttempt, SettleDelivery
    <3>2. QED
      BY <1>3, <3>1 DEF Standing
  <2>3. CASE Owns(delivery[v], p) /\ RecordAttempt(p)
    BY <1>1, <1>6, <2>1, <2>3, RecordEffect DEF Owns
  <2>4. CASE Owns(delivery[v], p) /\ SettleDelivery(p)
    <3>1. PICK status \in {"retrying", "delivered", "failed_terminal"} :
              DeliveryBecomes(v, status, None, FALSE, delivery[v].count)
      BY <1>1, <2>1, <2>4, SettleEffect
    <3>2. /\ delivery[v] # None /\ Standing(v) = "owed"
          /\ \A w \in Work : w # v => delivery'[w] = delivery[w]
      BY <2>4, <3>1, Standings DEF Owns, DeliveryBecomes
    <3>3. CASE status = "retrying"
      <4>1. Standing(v)' = "owed"
        BY <3>1, <3>3, Standings DEF DeliveryBecomes
      <4>2. \A w \in Work : Standing(w)' = Standing(w)
        BY <3>2, <4>1 DEF Standing
      <4>3. QED
        BY <1>3, <4>2
    <3>4. CASE status # "retrying"
      <4>1. Standing(v)' \in {"delivered", "failed"}
        BY <3>1, <3>4, Standings DEF DeliveryBecomes
      <4>2. QED
        BY <1>4, <3>2, <4>1
    <3>5. QED
      BY <3>3, <3>4
  <2>5. QED
    BY <1>7, <2>2, <2>3, <2>4
<1>8. ASSUME NEW v \in Work, BackoffPasses(v) \/ DeliveryLeaseLapses(v)
      PROVE  Kept
  <2>1. delivery[v] # None
        /\ \E lapsed : DeliveryBecomes(v, delivery[v].status, delivery[v].owner, lapsed,
                                       delivery[v].count)
    BY <1>1, <1>8, DeliveryForms DEF BackoffPasses, DeliveryLeaseLapses, Processing
  <2>2. QED
    BY <1>6, <2>1
<1>9. ASSUME NEW v \in Work, DeleteTerminal(v)
      PROVE  Kept
  <2>1. /\ delivery[v] # None /\ delivery'[v] = None
        /\ \A w \in Work : w # v => delivery'[w] = delivery[w]
        /\ delivery[v].status \in {"delivered", "failed_terminal"}
    BY <1>1, <1>9 DEF DeleteTerminal, Types
  <2>2. Standing(v) \in {"delivered", "failed"} /\ Standing(v)' = "forgotten"
    BY <2>1, Standings
  <2>3. QED
    BY <1>4, <2>1, <2>2
<1>10. CASE UNCHANGED delivery
  BY <1>3, <1>10 DEF Standing
<1>11. QED
  BY <1>5, <1>7, <1>8, <1>9, <1>10

LEMMA KeptByStep ==
  ASSUME IInv, [Next]_vars
  PROVE  Kept
<1>1. Types /\ Types' /\ EventIInv /\ DeliveriesAreOwed
  BY TypeStep DEF IInv
<1>2. ASSUME UNCHANGED tables, (\E u \in Users : SetActive(u)) \/ \E d \in Destinations : UpdateDestination(d)
      PROVE  Kept
  <2>1. StateBar' = StateBar /\ AudienceBar' = AudienceBar /\ ResultBar' = ResultBar
    BY <1>2 DEF tables, StateBar, StateOf, AudienceBar, AudienceOf, ResultBar, ResultOf, Standing
  <2>2. active' \subseteq Users /\ (enabled \cap subscribed)' \subseteq Destinations
    BY <1>1 DEF Types
  <2>3. Promise!Reconfigure
    BY <2>1, <2>2, PromiseStays
  <2>4. QED
    BY <2>3, Zenon DEF Kept, Promise!PromiseNext
<1>3. ASSUME \/ \E u \in Users : SetActive(u)
             \/ \E d \in Destinations : UpdateDestination(d)
      PROVE  Kept
  BY <1>2, <1>3 DEF SetActive, UpdateDestination
<1>4. ASSUME \/ \E e \in Events :
                    CreateOccurrence(e) \/ EventLeaseLapses(e) \/ DeletePublished(e)
             \/ \E p \in Processes : ClaimEvents(p) \/ SettleEvent(p)
      PROVE  Kept
  <2>1. UNCHANGED << settings, fact, delivery >>
    BY <1>4 DEF CreateOccurrence, EventLeaseLapses, DeletePublished, ClaimEvents, SettleEvent
  <2>2. QED
    BY <1>1, <1>4, <2>1, KeptByOutbox
<1>5. ASSUME \/ \E p \in Processes : ClaimDeliveries(p) \/ RecordAttempt(p) \/ SettleDelivery(p)
             \/ \E w \in Work : BackoffPasses(w) \/ DeliveryLeaseLapses(w) \/ DeleteTerminal(w)
      PROVE  Kept
  <2>1. UNCHANGED << settings, outbox, fact >>
    BY <1>5 DEF ClaimDeliveries, RecordAttempt, SettleDelivery, BackoffPasses,
                DeliveryLeaseLapses, DeleteTerminal
  <2>2. QED
    BY <1>5, <2>1, KeptByDeliveries
<1>6. ASSUME UNCHANGED << settings, outbox, fact, delivery >>
      PROVE  Kept
  BY <1>6, KeptByDeliveries
<1>7. ASSUME NEW p \in Processes,
             \/ EndEvents(p) \/ LoadDestination(p) \/ CallProvider(p) \/ EndDeliveries(p)
             \/ LoadDestinationFails(p) \/ WriteFails(p) \/ Start(p) \/ Crash(p)
             \/ \E e \in Events : MaterializeFails(p, e) \/ RejectEnvelope(p, e)
      PROVE  UNCHANGED << settings, outbox, fact, delivery >>
  BY <1>7 DEF EndEvents, LoadDestination, CallProvider, EndDeliveries, LoadDestinationFails,
              WriteFails, Start, Crash, MaterializeFails, RejectEnvelope, tables
<1>8. CASE UNCHANGED vars
  BY <1>6, <1>8 DEF vars, tables
<1>9. CASE Next
  BY <1>1, <1>3, <1>4, <1>5, <1>6, <1>7, <1>9, KeptByMaterialize
  DEF Next, OutboxWorker, DeliveryWorker
<1>10. QED
  BY <1>8, <1>9

(* Whatever the workers, retries, replays and retention do, an event is heard,
   then told once, to the users active and the destinations open at that moment,
   or refused; each delivery ends once, and only then is forgotten. *)
THEOREM PromiseKept == Spec => KeepsThePromise
<1>1. Init => Promise!PromiseInit
  <2> SUFFICES ASSUME Init PROVE Promise!PromiseInit
    OBVIOUS
  <2>1. /\ StateBar = [e \in Events |-> "unheard"] /\ AudienceBar = [e \in Events |-> {}]
        /\ ResultBar = [e \in Events |-> [d \in Destinations |-> "none"]]
    BY DEF Init, StateBar, StateOf, AudienceBar, AudienceOf, ResultBar, ResultOf
  <2>2. active \subseteq Users /\ enabled \cap subscribed \subseteq Destinations
    BY DEF Init
  <2>3. QED
    BY <2>1, <2>2, Zenon
    DEF Promise!PromiseInit, StateBar, StateOf, AudienceBar, AudienceOf, ResultBar, ResultOf,
        Standing
<1>2. IInv /\ [Next]_vars => [Promise!PromiseNext]_<<Promise!settings, Promise!promise>>
  BY KeptByStep DEF Kept
<1>3. QED
  BY <1>1, <1>2, IInvHolds, PTL DEF Spec, KeepsThePromise, Promise!PromiseSpec
=============================================================================
