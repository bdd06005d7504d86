------------------------- MODULE ScheduledScansProofs -------------------------
(***************************************************************************)
(* Proofs that the scheduler keeps OccurrenceLedger and its aggregates,    *)
(* for any schedules, owners, time rules, retries, commands and faults.    *)
(***************************************************************************)
EXTENDS ScheduledScans, FiniteSetTheorems, WellFoundedInduction, TLAPS

-----------------------------------------------------------------------------
(* The inductive invariant *)

(* Identifiers are given out once, and occurrences belong to a schedule. *)
RowsBelong ==
    \A s \in Schedules :
        /\ s \notin used => schedule[s] = None /\ seen[s] = {}
        /\ schedule[s] = None => \A t \in Times : occurrence[s][t] = None

SeenIsPast == \A s \in Schedules : \A t \in seen[s] : t <= clock

Untouched(s, t) ==
    <<s, t>> \in untold \/ \A x \in Targets : scans[s][t][x] = 0

Reattemptable(o) == o.outcome = "open" /\ (o.attempted = None \/ o.retryAt # None)

(* What may be attempted, again or for the first time, created nothing that
   the scheduler was told of. *)
OccurrencesAreHonest ==
    \A s \in Schedules : \A t \in Times :
        /\ t \notin seen[s] => occurrence[s][t] = None /\ \A x \in Targets : scans[s][t][x] = 0
        /\ occurrence[s][t] # None =>
               /\ occurrence[s][t].attempted = None =>
                      occurrence[s][t].retries = 0 /\ occurrence[s][t].outcome = "open"
               /\ Reattemptable(occurrence[s][t]) => Untouched(s, t)

BeingTried(o) ==
    o # None => o.attempted # None /\ o.retryAt = None /\ o.outcome = "open"

HandingOff == pc \in {"create", "record"}

(* The local variables of a pass fit the row it works on, if that is still there. *)
PassIsFaithful ==
    /\ job.evaluated <= clock
    /\ pc \in {"attempt", "create", "record"} =>
           job.schedule \in Schedules /\ job.time \in seen[job.schedule]
    /\ HandingOff =>
           BeingTried(occurrence[job.schedule][job.time])
    /\ pc = "create" =>
           \/ <<job.schedule, job.time>> \in untold
           \/ \A x \in job.left : scans[job.schedule][job.time][x] = 0
    /\ HandingOff /\ job.created = 0 /\ (pc = "record" => job.error # "deadline") =>
           Untouched(job.schedule, job.time)

Links == RowsBelong /\ SeenIsPast /\ OccurrencesAreHonest /\ PassIsFaithful

IInv ==
    /\ TypeOK
    /\ DisabledScheduleIsQuiet
    /\ CursorIsAhead
    /\ Links

RowsWith(s, S) == {t \in Times : occurrence[s][t] # None /\ occurrence[s][t].outcome \in S}

AttemptsOf(o) ==
    IF o = None \/ o.attempted = None THEN 0
    ELSE o.retries + (IF o.retryAt = None THEN 1 ELSE 0)

Under(s) == HandingOff /\ job.schedule = s

(* The aggregates of a schedule; a run under way has no outcome yet. *)
AggregatesOf(s) ==
    /\ Cardinality(RowsWith(s, {"completed"})) <= schedule[s].succeeded
    /\ Cardinality(RowsWith(s, Outcomes \ {"open", "completed"})) <= schedule[s].failed
    /\ schedule[s].succeeded + schedule[s].failed + (IF Under(s) THEN 1 ELSE 0) <= schedule[s].runs
    /\ \A t \in Times : AttemptsOf(occurrence[s][t]) <= schedule[s].runs

AggregatesIInv == \A s \in Schedules : Exists(s) => AggregatesOf(s)

-----------------------------------------------------------------------------
(* Constants and operators *)

LEMMA Numbers ==
  /\ Schedules \subseteq Nat /\ Targets \subseteq Nat
  /\ MaxTime \in Nat /\ MaxRetries \in Nat /\ MaxFaults \in Nat /\ MaxCommands \in Nat
  BY ScheduleAssumption, Zenon

LEMMA NoneIsApart ==
  None \notin Nat /\ None \notin ScheduleRows /\ None \notin OccurrenceRows
<1>1. None \notin Nat \cup ScheduleRows \cup OccurrenceRows
  BY ScheduleAssumption, Zenon
<1>2. QED
  BY <1>1, Zenon

LEMMA OwnersAndMembers ==
  /\ Members \subseteq Targets
  /\ Owners \subseteq Targets \cup {Organization}
  BY ScheduleAssumption, Zenon

LEMMA InstantsOfRules ==
  ASSUME NEW r \in Rules
  PROVE  Matches[r] \subseteq Nat /\ \E m \in Matches[r] : m > MaxTime
<1>1. Matches \in [Rules -> SUBSET Nat] /\ \A q \in Rules : \E m \in Matches[q] : m > MaxTime
  BY ScheduleAssumption, Zenon
<1>2. QED
  BY <1>1

LEMMA LeastNumber ==
  ASSUME NEW S, S \subseteq Nat, S # {}
  PROVE  \E m \in S : \A n \in S : m <= n
<1>1. PICK m \in S : \A n \in S : <<n, m>> \notin OpToRel(<, Nat)
  BY NatLessThanWellFounded, WFMin, Zenon
<1>2. ASSUME NEW n \in S
      PROVE  m <= n
  <2>1. m \in Nat /\ n \in Nat
    OBVIOUS
  <2>2. ~(n < m)
    BY <1>1, <2>1 DEF OpToRel
  <2>3. QED
    BY <2>1, <2>2
<1>3. QED
  BY <1>2

LEMMA GreatestNumber ==
  ASSUME NEW S, S \subseteq Nat, S # {}, NEW b \in Nat, \A n \in S : n <= b
  PROVE  \E m \in S : \A n \in S : n <= m
<1> DEFINE gaps == {b - n : n \in S}
<1>1. gaps \subseteq Nat /\ gaps # {}
  <2>1. ASSUME NEW n \in S
        PROVE  b - n \in Nat
    <3>1. n \in Nat /\ n <= b
      OBVIOUS
    <3>2. QED
      BY <3>1
  <2>2. QED
    BY <2>1
<1>2. PICK g \in gaps : \A h \in gaps : g <= h
  BY <1>1, LeastNumber
<1>3. PICK m \in S : g = b - m
  OBVIOUS
<1>4. ASSUME NEW n \in S
      PROVE  n <= m
  <2>1. b - n \in gaps /\ m \in Nat /\ n \in Nat
    OBVIOUS
  <2>2. b - m <= b - n
    BY <1>2, <1>3, <2>1
  <2>3. QED
    BY <2>1, <2>2
<1>5. QED
  BY <1>4

(* The next instant of a rule after any time of the run. *)
LEMMA FirstAfterIsLater ==
  ASSUME NEW r \in Rules, NEW t \in 0 .. MaxTime
  PROVE  FirstAfter(r, t) \in Nat \ {0} /\ FirstAfter(r, t) > t
<1> DEFINE later == {m \in Matches[r] : m > t}
<1>1. t \in Nat /\ t <= MaxTime /\ MaxTime \in Nat
  BY Numbers
<1>2. later \subseteq Nat /\ later # {}
  BY <1>1, InstantsOfRules
<1>3. PICK m \in later : \A n \in later : m <= n
  BY <1>2, LeastNumber
<1>4. m \in Matches[r] /\ m > t /\ \A n \in Matches[r] : n > t => m <= n
  BY <1>3
<1>5. FirstAfter(r, t) \in Matches[r] /\ FirstAfter(r, t) > t
  BY <1>4 DEF FirstAfter
<1>6. QED
  BY <1>1, <1>5, InstantsOfRules

(* The instant that is materialised lies between the cursor and the time of
   the pass. *)
LEMMA LatestIsBetween ==
  ASSUME NEW r \in Rules, NEW cursor \in Nat, NEW t \in Nat, cursor <= t
  PROVE  LatestAtOrBefore(r, cursor, t) \in cursor .. t
<1> DEFINE missed == {cursor} \cup {m \in Matches[r] : cursor < m /\ m <= t}
<1>1. missed \subseteq Nat /\ missed # {} /\ \A n \in missed : n <= t
  BY InstantsOfRules
<1>2. PICK m \in missed : \A n \in missed : n <= m
  BY <1>1, GreatestNumber
<1>3. LatestAtOrBefore(r, cursor, t) \in missed
  BY <1>2 DEF LatestAtOrBefore
<1>4. \A n \in missed : cursor <= n
  BY <1>1
<1>5. QED
  BY <1>1, <1>3, <1>4

LEMMA NextDueIsDue ==
  ASSUME job \in Passes, job.due # {}
  PROVE  NextDue \in job.due /\ NextDue.id \in Schedules
<1> DEFINE cursors == {d.cursor : d \in job.due}
<1>1. \A d \in job.due : d.id \in Schedules /\ d.id \in Nat /\ d.cursor \in Nat
  <2>1. job.due \subseteq [id : Schedules, cursor : 0 .. MaxTime]
    BY DEF Passes
  <2>2. 0 .. MaxTime \subseteq Nat
    BY Numbers
  <2>3. QED
    BY <2>1, <2>2, Numbers
<1>2. cursors \subseteq Nat /\ cursors # {}
  BY <1>1
<1>3. PICK c \in cursors : \A n \in cursors : c <= n
  BY <1>2, LeastNumber
<1> DEFINE first == {d.id : d \in {e \in job.due : e.cursor = c}}
<1>4. first \subseteq Nat /\ first # {}
  BY <1>1, <1>3
<1>5. PICK i \in first : \A n \in first : i <= n
  BY <1>4, LeastNumber
<1>6. PICK d \in job.due : d.cursor = c /\ d.id = i
  BY <1>5
<1>7. ASSUME NEW e \in job.due
      PROVE  d.cursor < e.cursor \/ (d.cursor = e.cursor /\ d.id <= e.id)
  <2>1. e.cursor \in Nat /\ c \in Nat /\ c <= e.cursor
    BY <1>1, <1>2, <1>3
  <2>2. CASE c = e.cursor
    BY <1>5, <1>6, <2>2
  <2>3. CASE c # e.cursor
    BY <1>6, <2>1, <2>3
  <2>4. QED
    BY <2>2, <2>3
<1>8. \E b \in job.due : \A e \in job.due :
        b.cursor < e.cursor \/ (b.cursor = e.cursor /\ b.id <= e.id)
  BY <1>7
<1>9. NextDue \in job.due
  BY <1>8, Zenon DEF NextDue
<1>10. QED
  BY <1>1, <1>9

LEMMA NextTargetIsLeft ==
  ASSUME job.left \subseteq Targets, job.left # {}
  PROVE  NextTarget \in job.left
<1>1. job.left \subseteq Nat
  BY Numbers
<1>2. \E x \in job.left : \A y \in job.left : x <= y
  BY <1>1, LeastNumber
<1>3. QED
  BY <1>2, Zenon DEF NextTarget

LEMMA DelayIsANumber ==
  ASSUME NEW n
  PROVE  Delay(n) \in Nat
<1>1. RetryDelay \in [1 .. MaxRetries -> Nat]
  BY ScheduleAssumption, Zenon
<1>2. QED
  BY <1>1 DEF Delay

-----------------------------------------------------------------------------
(* Types *)

(* Changes of the row of a schedule, by what the code changes together. *)
LEMMA ScheduleRowTypes ==
  ASSUME NEW row \in ScheduleRows
  PROVE  /\ row # None
         /\ row.enabled \in BOOLEAN /\ row.owner \in Owners /\ row.rule \in Rules
         /\ row.cursor \in {None} \cup (Nat \ {0})
         /\ row.lastRun \in {None} \cup (0 .. MaxTime)
         /\ row.runs \in Nat /\ row.succeeded \in Nat /\ row.failed \in Nat
  BY NoneIsApart DEF ScheduleRows

LEMMA ScheduleRowChanges ==
  ASSUME NEW row \in ScheduleRows
  PROVE  /\ \A c \in {None} \cup (Nat \ {0}) : [row EXCEPT !.cursor = c] \in ScheduleRows
         /\ \A e \in BOOLEAN, c \in {None} \cup (Nat \ {0}) :
                [row EXCEPT !.enabled = e, !.cursor = c] \in ScheduleRows
         /\ \A i \in 0 .. MaxTime :
                [row EXCEPT !.runs = @ + 1, !.lastRun = i] \in ScheduleRows
         /\ \A outcome : Settled(row, outcome) \in ScheduleRows
<1>1. \A c \in {None} \cup (Nat \ {0}) : [row EXCEPT !.cursor = c] \in ScheduleRows
  BY DEF ScheduleRows
<1>2. \A e \in BOOLEAN, c \in {None} \cup (Nat \ {0}) :
          [row EXCEPT !.enabled = e, !.cursor = c] \in ScheduleRows
  BY DEF ScheduleRows
<1>3. ASSUME NEW i \in 0 .. MaxTime
      PROVE  [row EXCEPT !.runs = @ + 1, !.lastRun = i] \in ScheduleRows
  <2>1. row.runs + 1 \in Nat
    BY ScheduleRowTypes
  <2>2. QED
    BY <2>1 DEF ScheduleRows
<1>4. ASSUME NEW outcome
      PROVE  Settled(row, outcome) \in ScheduleRows
  <2>1. row.succeeded + 1 \in Nat /\ row.failed + 1 \in Nat
    BY ScheduleRowTypes
  <2>2. [row EXCEPT !.succeeded = @ + 1] \in ScheduleRows
    BY <2>1 DEF ScheduleRows
  <2>3. [row EXCEPT !.failed = @ + 1] \in ScheduleRows
    BY <2>1 DEF ScheduleRows
  <2>4. QED
    BY <2>2, <2>3 DEF Settled
<1>5. QED
  BY <1>1, <1>2, <1>3, <1>4

LEMMA OccurrenceRowTypes ==
  ASSUME NEW o \in OccurrenceRows
  PROVE  /\ o # None
         /\ o.attempted \in {None} \cup (0 .. MaxTime) /\ o.retries \in 0 .. MaxRetries
         /\ o.retryAt \in {None} \cup Nat /\ o.outcome \in Outcomes
         /\ \A i \in 0 .. MaxTime :
                [o EXCEPT !.attempted = i, !.retryAt = None] \in OccurrenceRows
         /\ \A i \in Nat : o.retries < MaxRetries =>
                [o EXCEPT !.retries = @ + 1, !.retryAt = i] \in OccurrenceRows
         /\ \A outcome \in Outcomes :
                [o EXCEPT !.outcome = outcome, !.retryAt = None] \in OccurrenceRows
<1>1. o # None
  BY NoneIsApart
<1>2. /\ o.attempted \in {None} \cup (0 .. MaxTime) /\ o.retries \in 0 .. MaxRetries
      /\ o.retryAt \in {None} \cup Nat /\ o.outcome \in Outcomes
  BY DEF OccurrenceRows
<1>3. ASSUME NEW i \in 0 .. MaxTime
      PROVE  [o EXCEPT !.attempted = i, !.retryAt = None] \in OccurrenceRows
  BY DEF OccurrenceRows
<1>4. ASSUME NEW i \in Nat, o.retries < MaxRetries
      PROVE  [o EXCEPT !.retries = @ + 1, !.retryAt = i] \in OccurrenceRows
  <2>1. o.retries + 1 \in 0 .. MaxRetries
    BY <1>2, <1>4, Numbers
  <2>2. QED
    BY <2>1 DEF OccurrenceRows
<1>5. ASSUME NEW outcome \in Outcomes
      PROVE  [o EXCEPT !.outcome = outcome, !.retryAt = None] \in OccurrenceRows
  BY DEF OccurrenceRows
<1>6. QED
  BY <1>1, <1>2, <1>3, <1>4, <1>5

LEMMA FreshRows == NoJob \in Passes /\ NewOccurrence \in OccurrenceRows
  BY Numbers DEF NoJob, Passes, NewOccurrence, OccurrenceRows, Outcomes

(* What a pass changes of its local variables. *)
LEMMA PassTypes ==
  ASSUME NEW j \in Passes
  PROVE  /\ j.evaluated \in 0 .. MaxTime /\ j.left \subseteq Targets
         /\ j.due \subseteq [id : Schedules, cursor : 0 .. MaxTime]
         /\ j.schedule \in {None} \cup Schedules /\ j.time \in {None} \cup Times
         /\ j.attempted \in 0 .. MaxTime /\ j.created \in Nat /\ j.missed \in Nat
         /\ j.error \in {"none", "failed", "deadline"}
  BY DEF Passes

LEMMA PassChanges ==
  ASSUME NEW j \in Passes
  PROVE  /\ \A d : [j EXCEPT !.due = @ \ {d}] \in Passes
         /\ \A i \in 0 .. MaxTime, left \in SUBSET Targets :
                [j EXCEPT !.attempted = i, !.left = left] \in Passes
         /\ \A x : [j EXCEPT !.left = @ \ {x}, !.created = @ + 1] \in Passes
         /\ \A x : [j EXCEPT !.left = @ \ {x}, !.missed = @ + 1] \in Passes
         /\ [j EXCEPT !.left = {}, !.error = "failed"] \in Passes
         /\ [j EXCEPT !.left = {}, !.error = "deadline"] \in Passes
         /\ [j EXCEPT !.error = "failed"] \in Passes
<1>1. ASSUME NEW d
      PROVE  [j EXCEPT !.due = @ \ {d}] \in Passes
  <2>1. j.due \ {d} \in SUBSET [id : Schedules, cursor : 0 .. MaxTime]
    BY PassTypes
  <2>2. QED
    BY <2>1 DEF Passes
<1>2. ASSUME NEW i \in 0 .. MaxTime, NEW left \in SUBSET Targets
      PROVE  [j EXCEPT !.attempted = i, !.left = left] \in Passes
  BY DEF Passes
<1>3. ASSUME NEW x
      PROVE  /\ [j EXCEPT !.left = @ \ {x}, !.created = @ + 1] \in Passes
             /\ [j EXCEPT !.left = @ \ {x}, !.missed = @ + 1] \in Passes
  <2>1. j.left \ {x} \in SUBSET Targets /\ j.created + 1 \in Nat /\ j.missed + 1 \in Nat
    BY PassTypes
  <2>2. [j EXCEPT !.left = @ \ {x}, !.created = @ + 1] \in Passes
    BY <2>1 DEF Passes
  <2>3. [j EXCEPT !.left = @ \ {x}, !.missed = @ + 1] \in Passes
    BY <2>1 DEF Passes
  <2>4. QED
    BY <2>2, <2>3
<1>4. [j EXCEPT !.left = {}, !.error = "failed"] \in Passes
  BY DEF Passes
<1>5. [j EXCEPT !.left = {}, !.error = "deadline"] \in Passes
  BY DEF Passes
<1>6. [j EXCEPT !.error = "failed"] \in Passes
  BY DEF Passes
<1>7. QED
  BY <1>1, <1>2, <1>3, <1>4, <1>5, <1>6

LEMMA PassBeginnings ==
  /\ \A i \in 0 .. MaxTime, due \in SUBSET [id : Schedules, cursor : 0 .. MaxTime] :
         [NoJob EXCEPT !.evaluated = i, !.due = due] \in Passes
  /\ \A s \in Schedules, t \in Times : [NoJob EXCEPT !.schedule = s, !.time = t] \in Passes
  BY FreshRows DEF Passes

(* A row of the tables is there and of its type. *)
LEMMA RowsOfTables ==
  ASSUME TypeOK, NEW s \in Schedules
  PROVE  /\ Exists(s) => schedule[s] \in ScheduleRows
         /\ \A t \in Times : occurrence[s][t] # None => occurrence[s][t] \in OccurrenceRows
  BY DEF TypeOK, Exists

LEMMA CursorAfterIsACursor ==
  ASSUME TypeOK, NEW row \in ScheduleRows, NEW r \in Rules, NEW e \in BOOLEAN
  PROVE  CursorAfter(row, r, e) \in {None} \cup (Nat \ {0})
  BY ScheduleRowTypes, FirstAfterIsLater DEF CursorAfter, TypeOK

LEMMA OccurrencesAfterTypes ==
  ASSUME TypeOK, NEW s \in Schedules, NEW e \in BOOLEAN
  PROVE  OccurrencesAfter(s, e) \in [Times -> {None} \cup OccurrenceRows]
  BY DEF OccurrencesAfter, TypeOK

LEMMA TypeInit == Init => TypeOK
<1> SUFFICES ASSUME Init
             PROVE  TypeOK
  OBVIOUS
<1> USE DEF Init
<1>1. clock \in 0 .. MaxTime /\ faults \in 0 .. MaxFaults /\ commands \in 0 .. MaxCommands
  BY Numbers
<1>2. job \in Passes
  BY FreshRows
<1>3. /\ schedule \in [Schedules -> {None} \cup ScheduleRows]
      /\ occurrence \in [Schedules -> [Times -> {None} \cup OccurrenceRows]]
  OBVIOUS
<1>4. /\ seen \in [Schedules -> SUBSET Times]
      /\ scans \in [Schedules -> [Times -> [Targets -> Nat]]]
  OBVIOUS
<1>5. QED
  BY <1>1, <1>2, <1>3, <1>4 DEF TypeOK

LEMMA PlansAreTyped ==
  ASSUME NEW s \in Schedules, NEW p \in Plans[s] \cup Edits[s]
  PROVE  p.owner \in Owners /\ p.rule \in Rules /\ p.enabled \in BOOLEAN
  BY ScheduleAssumption

LEMMA UpdatedRow ==
  ASSUME TypeOK, NEW s \in Schedules, NEW o \in Owners, NEW r \in Rules, NEW e \in BOOLEAN,
         Update(s, o, r, e), schedule[s] \in ScheduleRows,
         CursorAfter(schedule[s], r, e) \in {None} \cup (Nat \ {0})
  PROVE  /\ schedule' \in [Schedules -> {None} \cup ScheduleRows]
         /\ schedule'[s] \in ScheduleRows /\ schedule'[s].enabled = e
         /\ schedule'[s].cursor = CursorAfter(schedule[s], r, e)
         /\ schedule'[s].runs = schedule[s].runs
         /\ schedule'[s].succeeded = schedule[s].succeeded
         /\ schedule'[s].failed = schedule[s].failed
<1>1. PICK c \in {None} \cup (Nat \ {0}) : c = CursorAfter(schedule[s], r, e)
  OBVIOUS
<1>2. PICK rewritten \in BOOLEAN : schedule' = [schedule EXCEPT
          ![s].owner = o, ![s].rule = r, ![s].enabled = e,
          ![s].readable = rewritten \/ @, ![s].cursor = c]
  BY <1>1 DEF Update
<1>3. PICK readable \in BOOLEAN : readable = (rewritten \/ schedule[s].readable)
  BY DEF ScheduleRows
<1>4. PICK row : row = [schedule[s] EXCEPT
          !.owner = o, !.rule = r, !.enabled = e, !.readable = readable, !.cursor = c]
  OBVIOUS
<1>5. schedule' = [schedule EXCEPT ![s] = row]
  BY <1>2, <1>3, <1>4 DEF TypeOK, ScheduleRows
<1>6. /\ row \in ScheduleRows /\ row.enabled = e /\ row.cursor = c
      /\ row.runs = schedule[s].runs /\ row.succeeded = schedule[s].succeeded
      /\ row.failed = schedule[s].failed
  BY <1>4 DEF ScheduleRows
<1>7. QED
  BY <1>1, <1>5, <1>6 DEF TypeOK

LEMMA GarbledRow ==
  ASSUME TypeOK, NEW s \in Schedules, Garble(s)
  PROVE  /\ schedule' \in [Schedules -> {None} \cup ScheduleRows]
         /\ schedule[s] \in ScheduleRows
         /\ schedule'[s] = [schedule[s] EXCEPT !.readable = FALSE]
         /\ \A r \in Schedules : r # s => schedule'[r] = schedule[r]
<1>1. schedule[s] \in ScheduleRows
  BY RowsOfTables DEF Garble
<1>2. PICK row : row = [schedule[s] EXCEPT !.readable = FALSE]
  OBVIOUS
<1>3. row \in ScheduleRows
  BY <1>1, <1>2 DEF ScheduleRows
<1>4. schedule' = [schedule EXCEPT ![s] = row]
  BY <1>2 DEF Garble, TypeOK
<1>5. QED
  BY <1>1, <1>2, <1>3, <1>4 DEF TypeOK

LEMMA OperatorTypes ==
  ASSUME IInv, Operator
  PROVE  TypeOK'
<1>1. TypeOK
  BY DEF IInv
<1>2. ASSUME NEW event, Command(event)
      PROVE  commands' \in 0 .. MaxCommands
  BY <1>1, <1>2, Numbers DEF Command, TypeOK
<1>3. ASSUME NEW s \in Schedules, NEW o \in Owners, NEW r \in Rules, NEW e \in BOOLEAN,
             Create(s, o, r, e)
      PROVE  TypeOK'
  <2> DEFINE row == [enabled |-> e, owner |-> o, rule |-> r, readable |-> TRUE,
            cursor |-> IF e THEN FirstAfter(r, clock) ELSE None,
            lastRun |-> None, runs |-> 0, succeeded |-> 0, failed |-> 0]
  <2>1. row \in ScheduleRows
    BY <1>1, FirstAfterIsLater DEF ScheduleRows, TypeOK
  <2>2. schedule' = [schedule EXCEPT ![s] = row] /\ used' = used \cup {s}
    BY <1>3 DEF Create
  <2> HIDE DEF row
  <2>3. schedule' \in [Schedules -> {None} \cup ScheduleRows] /\ used' \subseteq Schedules
    BY <1>1, <2>1, <2>2 DEF TypeOK
  <2>4. QED
    BY <1>1, <1>3, <2>3 DEF Create, TypeOK, controller, history
<1>4. ASSUME NEW s \in Schedules, NEW o \in Owners, NEW r \in Rules, NEW e \in BOOLEAN,
             Update(s, o, r, e)
      PROVE  TypeOK'
  <2>1. schedule[s] \in ScheduleRows
    BY <1>1, <1>4, RowsOfTables DEF Update
  <2>2. CursorAfter(schedule[s], r, e) \in {None} \cup (Nat \ {0})
    BY <1>1, <2>1, CursorAfterIsACursor
  <2>3. schedule' \in [Schedules -> {None} \cup ScheduleRows]
    BY <1>1, <1>4, <2>1, <2>2, UpdatedRow
  <2>4. occurrence' \in [Schedules -> [Times -> {None} \cup OccurrenceRows]]
    BY <1>1, <1>4, OccurrencesAfterTypes DEF Update, TypeOK
  <2>5. QED
    BY <1>1, <1>2, <1>4, <2>3, <2>4 DEF Update, TypeOK, controller, history
<1>5. ASSUME NEW S \in SUBSET Schedules, NEW e \in [S -> BOOLEAN], BatchUpdateStatus(S, e)
      PROVE  TypeOK'
  <2>1. ASSUME NEW s \in S
        PROVE  [schedule[s] EXCEPT !.enabled = e[s],
                   !.cursor = CursorAfter(schedule[s], schedule[s].rule, e[s])] \in ScheduleRows
    <3>1. schedule[s] \in ScheduleRows
      BY <1>1, <1>5, RowsOfTables DEF BatchUpdateStatus
    <3>2. schedule[s].rule \in Rules /\ e[s] \in BOOLEAN
      BY <3>1, ScheduleRowTypes
    <3>3. CursorAfter(schedule[s], schedule[s].rule, e[s]) \in {None} \cup (Nat \ {0})
      BY <1>1, <3>1, <3>2, CursorAfterIsACursor
    <3>4. QED
      BY <3>1, <3>2, <3>3, ScheduleRowChanges
  <2>2. schedule' \in [Schedules -> {None} \cup ScheduleRows]
    BY <1>1, <1>5, <2>1 DEF BatchUpdateStatus, TypeOK
  <2>3. occurrence' \in [Schedules -> [Times -> {None} \cup OccurrenceRows]]
    BY <1>1, <1>5, OccurrencesAfterTypes DEF BatchUpdateStatus, TypeOK
  <2>4. QED
    BY <1>1, <1>2, <1>5, <2>2, <2>3 DEF BatchUpdateStatus, TypeOK, controller, history
<1>6. ASSUME NEW s \in Schedules, Delete(s) \/ DeleteForCleanup(s)
      PROVE  TypeOK'
  <2>1. DeleteLocked(s) /\ commands' \in 0 .. MaxCommands
    BY <1>1, <1>2, <1>6 DEF Delete, DeleteForCleanup, TypeOK
  <2>2. QED
    BY <1>1, <2>1 DEF DeleteLocked, TypeOK, controller, history
<1>7. ASSUME NEW x \in Targets, DeleteTarget(x)
      PROVE  TypeOK'
  BY <1>1, <1>2, <1>7 DEF DeleteTarget, TypeOK, controller, history
<1>8. CASE RetireOccurrences
  <2>1. occurrence' \in [Schedules -> [Times -> {None} \cup OccurrenceRows]]
    BY <1>1, <1>8 DEF RetireOccurrences, TypeOK
  <2>2. QED
    BY <1>1, <1>8, <2>1 DEF RetireOccurrences, TypeOK, controller, history
<1>9. CASE Pause
  BY <1>1, <1>2, <1>9 DEF Pause, TypeOK, rows, history
<1>10. CASE Resume
  BY <1>1, <1>10 DEF Resume, TypeOK, rows, history
<1>11. ASSUME NEW s \in Schedules, Garble(s)
       PROVE  TypeOK'
  BY <1>1, <1>2, <1>11, GarbledRow DEF Garble, TypeOK, controller, history
<1>12. QED
  BY <1>3, <1>4, <1>5, <1>6, <1>7, <1>8, <1>9, <1>10, <1>11, PlansAreTyped DEF Operator

(* A row of the table of occurrences is written. *)
LEMMA WriteOccurrence ==
  ASSUME NEW s \in Schedules, NEW t \in Times, NEW new \in {None} \cup OccurrenceRows, TypeOK
  PROVE  /\ [occurrence EXCEPT ![s] = [@ EXCEPT ![t] = new]]
                \in [Schedules -> [Times -> {None} \cup OccurrenceRows]]
         /\ [occurrence EXCEPT ![s] = [@ EXCEPT ![t] = new]][s][t] = new
         /\ \A r \in Schedules, u \in Times : <<r, u>> # <<s, t>> =>
                [occurrence EXCEPT ![s] = [@ EXCEPT ![t] = new]][r][u] = occurrence[r][u]
<1>1. occurrence \in [Schedules -> [Times -> {None} \cup OccurrenceRows]]
  BY DEF TypeOK
<1>2. PICK of : of = [occurrence[s] EXCEPT ![t] = new]
  OBVIOUS
<1>3. of \in [Times -> {None} \cup OccurrenceRows] /\ of[t] = new
  BY <1>1, <1>2
<1>4. \A u \in Times : u # t => of[u] = occurrence[s][u]
  BY <1>1, <1>2
<1>5. [occurrence EXCEPT ![s] = [@ EXCEPT ![t] = new]] = [occurrence EXCEPT ![s] = of]
  BY <1>1, <1>2
<1>6. QED
  BY <1>1, <1>3, <1>4, <1>5

(* What MaterializeDue does with a schedule that is still due. *)
LEMMA MaterializedInstant ==
  ASSUME IInv, NEW s \in Schedules, StillDue(s),
         NEW t, t = LatestAtOrBefore(schedule[s].rule, schedule[s].cursor, job.evaluated)
  PROVE  /\ t \in Times /\ t <= job.evaluated /\ schedule[s].cursor <= t
         /\ schedule[s].cursor \in Nat \ {0} /\ schedule[s] \in ScheduleRows
         /\ NextRunTime(s) \in Nat \ {0} /\ NextRunTime(s) > job.evaluated
<1>1. schedule[s] \in ScheduleRows /\ job.evaluated \in 0 .. MaxTime
  BY RowsOfTables, PassTypes DEF IInv, StillDue, TypeOK
<1>2. schedule[s].rule \in Rules /\ schedule[s].cursor \in Nat \ {0}
  BY <1>1, ScheduleRowTypes DEF IInv, DisabledScheduleIsQuiet, StillDue
<1>3. schedule[s].cursor <= job.evaluated
  BY DEF StillDue
<1>4. t \in schedule[s].cursor .. job.evaluated
  BY <1>1, <1>2, <1>3, LatestIsBetween, Numbers
<1>5. t \in Times /\ t <= job.evaluated /\ schedule[s].cursor <= t
  BY <1>1, <1>2, <1>4, Numbers DEF Times
<1>6. NextRunTime(s) \in Nat \ {0} /\ NextRunTime(s) > job.evaluated
  BY <1>1, <1>2, FirstAfterIsLater DEF NextRunTime
<1>7. QED
  BY <1>1, <1>2, <1>5, <1>6

LEMMA FrozenTargetsAreTargets ==
  ASSUME TypeOK, NEW o \in Owners
  PROVE  FrozenTargets(o) \in SUBSET Targets
  BY OwnersAndMembers DEF FrozenTargets, TypeOK

(* The occurrence that a pass works on. *)
LEMMA WorkOfThePass ==
  ASSUME IInv, pc \in {"attempt", "create", "record"}
  PROVE  /\ job.schedule \in Schedules /\ job.time \in Times
         /\ job.time \in seen[job.schedule]
  BY DEF IInv, Links, PassIsFaithful, TypeOK

LEMMA CreatedScanTypes ==
  ASSUME IInv, pc = "create", NEW x \in Targets, CreateScan(x)
  PROVE  scans' \in [Schedules -> [Times -> [Targets -> Nat]]]
<1>1. job.schedule \in Schedules /\ job.time \in Times
  BY WorkOfThePass
<1>2. scans \in [Schedules -> [Times -> [Targets -> Nat]]]
  BY DEF IInv, TypeOK
<1>3. QED
  BY <1>1, <1>2 DEF CreateScan

LEMMA HandOffTypes ==
  ASSUME IInv, HandOff
  PROVE  TypeOK'
<1>0. faults' \in 0 .. MaxFaults
  <2>1. \/ faults' = faults
        \/ faults < MaxFaults /\ faults' = faults + 1
    BY DEF HandOff, CreatePreparedScan, MissTarget, FailBatch, ExceedDeadline,
           LoseAcknowledgement, FinishBatch, RecordOutcome, Environment
  <2>2. faults \in 0 .. MaxFaults
    BY DEF IInv, TypeOK
  <2>3. QED
    BY <2>1, <2>2, Numbers
<1>1. TypeOK /\ job \in Passes
  BY DEF IInv, TypeOK
<1>2. ASSUME Creating, job.left # {}
      PROVE  NextTarget \in Targets /\ pc = "create"
  BY <1>1, <1>2, NextTargetIsLeft, PassTypes DEF Creating
<1>3. ASSUME Creating, job' \in Passes, pc' \in {"create", "record"},
             scans' \in [Schedules -> [Times -> [Targets -> Nat]]],
             untold' \subseteq Schedules \X Times
      PROVE  TypeOK'
  BY <1>0, <1>1, <1>3 DEF Creating, TypeOK
<1>4. scans \in [Schedules -> [Times -> [Targets -> Nat]]] /\ untold \subseteq Schedules \X Times
  BY <1>1 DEF TypeOK
<1>5. CASE CreatePreparedScan
  BY <1>1, <1>2, <1>3, <1>4, <1>5, PassChanges, CreatedScanTypes DEF CreatePreparedScan, Goto
<1>6. CASE MissTarget
  BY <1>1, <1>3, <1>4, <1>6, PassChanges DEF MissTarget, Goto
<1>7. CASE FailBatch
  BY <1>1, <1>3, <1>4, <1>7, PassChanges DEF FailBatch, Goto
<1>8. CASE ExceedDeadline
  <2>1. job' \in Passes /\ pc' = "record" /\ Creating
    BY <1>1, <1>8, PassChanges DEF ExceedDeadline, Goto
  <2>2. scans' \in [Schedules -> [Times -> [Targets -> Nat]]]
    <3>1. CASE UNCHANGED scans
      BY <1>4, <3>1
    <3>2. CASE CreateScan(NextTarget)
      BY <1>2, <1>8, <3>2, CreatedScanTypes DEF ExceedDeadline
    <3>3. QED
      BY <1>8, <3>1, <3>2 DEF ExceedDeadline
  <2>3. untold' = untold
    BY <1>8 DEF ExceedDeadline
  <2>4. QED
    BY <1>3, <1>4, <2>1, <2>2, <2>3
<1>9. CASE LoseAcknowledgement
  <2>1. untold' \subseteq Schedules \X Times
    <3>1. untold' = untold \cup {<<job.schedule, job.time>>}
      BY <1>9 DEF LoseAcknowledgement
    <3>2. job.schedule \in Schedules /\ job.time \in Times
      BY <1>2, <1>9, WorkOfThePass DEF LoseAcknowledgement
    <3>3. QED
      BY <1>4, <3>1, <3>2
  <2>2. QED
    BY <1>1, <1>2, <1>3, <1>4, <1>9, <2>1, PassChanges, CreatedScanTypes
       DEF LoseAcknowledgement, Goto
<1>10. CASE FinishBatch
  BY <1>1, <1>3, <1>4, <1>10, PassChanges DEF FinishBatch, Goto
<1>11. CASE RecordOutcome
  <2>1. PICK s \in Schedules, t \in Times : s = job.schedule /\ t = job.time
    BY <1>11, WorkOfThePass DEF RecordOutcome
  <2>2. PICK o : o = occurrence[s][t]
    OBVIOUS
  <2>3. /\ schedule' \in [Schedules -> {None} \cup ScheduleRows]
        /\ occurrence' \in [Schedules -> [Times -> {None} \cup OccurrenceRows]]
    <3>1. CASE /\ Unsettled(o) /\ o.retries < MaxRetries
               /\ occurrence' = [occurrence EXCEPT ![s][t].retries = @ + 1,
                         ![s][t].retryAt = clock + Delay(o.retries + 1)]
               /\ UNCHANGED schedule
      <4>1. o \in OccurrenceRows
        BY <1>1, <2>2, <3>1, RowsOfTables DEF Unsettled
      <4>2. PICK i \in Nat : i = clock + Delay(o.retries + 1)
        BY <1>1, DelayIsANumber, Numbers DEF TypeOK
      <4>3. PICK new : new = [o EXCEPT !.retries = @ + 1, !.retryAt = i]
        OBVIOUS
      <4>4. new \in OccurrenceRows
        BY <3>1, <4>1, <4>3, OccurrenceRowTypes
      <4>5. occurrence' = [occurrence EXCEPT ![s] = [@ EXCEPT ![t] = new]]
        BY <1>1, <2>2, <3>1, <4>2, <4>3 DEF TypeOK
      <4>6. QED
        <5>1. [occurrence EXCEPT ![s] = [@ EXCEPT ![t] = new]]
                  \in [Schedules -> [Times -> {None} \cup OccurrenceRows]]
          BY <1>1, <4>4, WriteOccurrence
        <5>2. QED
          BY <1>1, <3>1, <4>5, <5>1 DEF TypeOK
    <3>2. CASE /\ Unsettled(o)
               /\ \E outcome \in Outcomes :
                      /\ occurrence' = [occurrence EXCEPT ![s][t].outcome = outcome,
                                                         ![s][t].retryAt = None]
                      /\ schedule' = [schedule EXCEPT ![s] = Settled(@, outcome)]
      <4>1. PICK outcome \in Outcomes :
                /\ occurrence' = [occurrence EXCEPT ![s][t].outcome = outcome,
                                                   ![s][t].retryAt = None]
                /\ schedule' = [schedule EXCEPT ![s] = Settled(@, outcome)]
        BY <3>2
      <4>2. o \in OccurrenceRows
        BY <1>1, <2>2, <3>2, RowsOfTables DEF Unsettled
      <4>3. PICK new : new = [o EXCEPT !.outcome = outcome, !.retryAt = None]
        OBVIOUS
      <4>4. new \in OccurrenceRows
        BY <4>2, <4>3, OccurrenceRowTypes
      <4>5. occurrence' = [occurrence EXCEPT ![s] = [@ EXCEPT ![t] = new]]
        BY <1>1, <2>2, <4>1, <4>3 DEF TypeOK
      <4>6. schedule[s] # None
        BY <2>2, <3>2 DEF IInv, Links, RowsBelong, Unsettled
      <4>7. schedule[s] \in ScheduleRows
        BY <1>1, <4>6 DEF TypeOK
      <4>8. Settled(schedule[s], outcome) \in ScheduleRows
        BY <4>7, ScheduleRowChanges
      <4>9. QED
        <5>1. [occurrence EXCEPT ![s] = [@ EXCEPT ![t] = new]]
                  \in [Schedules -> [Times -> {None} \cup OccurrenceRows]]
          BY <1>1, <4>4, WriteOccurrence
        <5>2. schedule' \in [Schedules -> {None} \cup ScheduleRows]
          BY <1>1, <4>1, <4>8 DEF TypeOK
        <5>3. QED
          BY <4>5, <5>1, <5>2
    <3>3. CASE UNCHANGED <<schedule, occurrence>>
      BY <1>1, <3>3 DEF TypeOK
    <3>4. ClassifyHandoff \in Outcomes
      BY DEF ClassifyHandoff, Outcomes
    <3>5. QED
      BY <1>11, <2>1, <2>2, <3>1, <3>2, <3>3, <3>4 DEF RecordOutcome, Retryable
  <2>4. QED
    BY <1>1, <1>11, <2>3, FreshRows DEF RecordOutcome, Goto, Environment, history, TypeOK
<1>12. QED
  BY <1>5, <1>6, <1>7, <1>8, <1>9, <1>10, <1>11 DEF HandOff

LEMMA ModelTypes ==
  ASSUME IInv, [Next]_vars
  PROVE  TypeOK'
<1>1. TypeOK /\ job \in Passes
  BY DEF IInv, TypeOK
<1>2. CASE Operator
  BY <1>2, OperatorTypes
<1>3. CASE ListDue
  <2> DEFINE due == {s \in Schedules :
               Exists(s) /\ schedule[s].enabled /\ schedule[s].cursor <= clock
               /\ OwnerActive(schedule[s].owner)}
  <2>1. ASSUME NEW s \in due
        PROVE  schedule[s].cursor \in 0 .. MaxTime
    <3>1. schedule[s].cursor \in Nat /\ schedule[s].cursor <= clock
      BY <1>1, RowsOfTables, ScheduleRowTypes DEF IInv, DisabledScheduleIsQuiet
    <3>2. clock \in Nat /\ clock <= MaxTime
      BY <1>1, Numbers DEF TypeOK
    <3>3. QED
      BY <3>1, <3>2, Numbers
  <2>2. {[id |-> s, cursor |-> schedule[s].cursor] : s \in due}
            \in SUBSET [id : Schedules, cursor : 0 .. MaxTime]
    BY <2>1
  <2>3. job' \in Passes /\ pc' = "materialize"
    BY <1>1, <1>3, <2>2, PassBeginnings DEF ListDue, Goto, TypeOK
  <2>4. QED
    BY <1>1, <1>3, <2>3 DEF ListDue, Environment, history, TypeOK
<1>4. CASE MaterializeDue
  <2>1. PICK s \in Schedules : s = NextDue.id
    BY <1>1, <1>4, NextDueIsDue DEF MaterializeDue
  <2>2. PICK t : t = LatestAtOrBefore(schedule[s].rule, schedule[s].cursor, job.evaluated)
    OBVIOUS
  <2>3. /\ schedule' \in [Schedules -> {None} \cup ScheduleRows]
        /\ occurrence' \in [Schedules -> [Times -> {None} \cup OccurrenceRows]]
        /\ seen' \in [Schedules -> SUBSET Times]
    <3>1. CASE StillDue(s)
      <4>1. t \in Times /\ schedule[s] \in ScheduleRows /\ NextRunTime(s) \in Nat \ {0}
        BY <2>2, <3>1, MaterializedInstant
      <4>2. schedule' = [schedule EXCEPT ![s] = [schedule[s] EXCEPT !.cursor = NextRunTime(s)]]
        BY <1>1, <1>4, <2>1, <3>1 DEF MaterializeDue, TypeOK
      <4>3. schedule' \in [Schedules -> {None} \cup ScheduleRows]
        BY <1>1, <4>1, <4>2, ScheduleRowChanges DEF TypeOK
      <4>4. occurrence' = [occurrence EXCEPT ![s][t] = IF @ = None THEN NewOccurrence ELSE @]
        BY <1>4, <2>1, <2>2, <3>1 DEF MaterializeDue
      <4>5. occurrence' \in [Schedules -> [Times -> {None} \cup OccurrenceRows]]
        <5>1. PICK new : new = IF occurrence[s][t] = None THEN NewOccurrence ELSE occurrence[s][t]
          OBVIOUS
        <5>2. new \in {None} \cup OccurrenceRows
          BY <1>1, <4>1, <5>1, FreshRows, RowsOfTables
        <5>3. occurrence' = [occurrence EXCEPT ![s] = [@ EXCEPT ![t] = new]]
          BY <1>1, <4>1, <4>4, <5>1 DEF TypeOK
        <5>4. QED
          BY <1>1, <4>1, <5>2, <5>3, WriteOccurrence
      <4>6. seen' \in [Schedules -> SUBSET Times]
        <5>1. seen' = [seen EXCEPT ![s] = @ \cup {t}]
          BY <1>4, <2>1, <2>2, <3>1 DEF MaterializeDue
        <5>2. QED
          BY <1>1, <4>1, <5>1 DEF TypeOK
      <4>7. QED
        BY <4>3, <4>5, <4>6
    <3>2. CASE ~StillDue(s)
      BY <1>1, <1>4, <2>1, <3>2 DEF MaterializeDue, TypeOK
    <3>3. QED
      BY <3>1, <3>2
  <2>4. job' \in Passes /\ pc' = "materialize"
    BY <1>1, <1>4, PassChanges DEF MaterializeDue, Goto
  <2>5. QED
    BY <1>1, <1>4, <2>3, <2>4 DEF MaterializeDue, Environment, TypeOK
<1>5. CASE SelectAttemptCandidate
  <2>1. job' \in Passes /\ pc' \in {"idle", "attempt"}
    <3>1. CASE Candidates = {}
      BY <1>5, <3>1, FreshRows DEF SelectAttemptCandidate, Goto
    <3>2. CASE Candidates # {}
      <4>1. PICK s \in Schedules : \E t \in Times :
                Goto("attempt", [NoJob EXCEPT !.schedule = s, !.time = t])
        BY <1>5, <3>2 DEF SelectAttemptCandidate, Candidates, Waiting
      <4>2. PICK t \in Times : Goto("attempt", [NoJob EXCEPT !.schedule = s, !.time = t])
        BY <4>1
      <4>3. QED
        BY <4>2, PassBeginnings DEF Goto
    <3>3. QED
      BY <3>1, <3>2
  <2>2. QED
    BY <1>1, <1>5, <2>1 DEF SelectAttemptCandidate, Environment, history, TypeOK
<1>6. CASE StartAttempt
  <2>1. PICK s \in Schedules, t \in Times : s = job.schedule /\ t = job.time
    BY <1>6, WorkOfThePass DEF StartAttempt
  <2>2. CASE Attemptable(s) /\ Eligible(occurrence[s][t], clock) /\ schedule[s].readable
    <3>1. schedule[s] \in ScheduleRows /\ occurrence[s][t] \in OccurrenceRows
      BY <1>1, <2>2, RowsOfTables DEF Attemptable, Eligible
    <3>2. clock \in 0 .. MaxTime
      BY <1>1 DEF TypeOK
    <3>3. PICK row : row = [schedule[s] EXCEPT !.runs = @ + 1, !.lastRun = clock]
      OBVIOUS
    <3>4. PICK o : o = [occurrence[s][t] EXCEPT !.attempted = clock, !.retryAt = None]
      OBVIOUS
    <3>5. row \in ScheduleRows /\ o \in OccurrenceRows
      BY <3>1, <3>2, <3>3, <3>4, ScheduleRowChanges, OccurrenceRowTypes
    <3>6. schedule' = [schedule EXCEPT ![s] = row]
      BY <1>1, <1>6, <2>1, <2>2, <3>3 DEF StartAttempt, TypeOK
    <3>7. occurrence' = [occurrence EXCEPT ![s] = [@ EXCEPT ![t] = o]]
      <4>1. occurrence' = [occurrence EXCEPT ![s][t].attempted = clock, ![s][t].retryAt = None]
        BY <1>6, <2>1, <2>2 DEF StartAttempt
      <4>2. QED
        BY <1>1, <3>4, <4>1 DEF TypeOK
    <3>8. /\ schedule' \in [Schedules -> {None} \cup ScheduleRows]
          /\ occurrence' \in [Schedules -> [Times -> {None} \cup OccurrenceRows]]
      BY <1>1, <3>5, <3>6, <3>7, WriteOccurrence DEF TypeOK
    <3>9. FrozenTargets(schedule[s].owner) \in SUBSET Targets
      BY <1>1, <3>1, ScheduleRowTypes, FrozenTargetsAreTargets
    <3>10. job' \in Passes /\ pc' = "create"
      <4>1. PICK left \in SUBSET Targets : left = FrozenTargets(schedule[s].owner)
        BY <3>9
      <4>2. job' = [job EXCEPT !.attempted = clock, !.left = left] /\ pc' = "create"
        BY <1>6, <2>1, <2>2, <4>1 DEF StartAttempt, Goto
      <4>3. QED
        BY <1>1, <3>2, <4>2, PassChanges
    <3>11. QED
      BY <1>1, <1>6, <3>8, <3>10 DEF StartAttempt, Environment, history, TypeOK
  <2>3. CASE ~(Attemptable(s) /\ Eligible(occurrence[s][t], clock) /\ schedule[s].readable)
    BY <1>1, <1>6, <2>1, <2>3, FreshRows DEF StartAttempt, Goto, Environment, history, TypeOK
  <2>4. QED
    BY <2>2, <2>3
<1>7. CASE HandOff
  BY <1>7, HandOffTypes
<1>8. ASSUME faults < MaxFaults, faults' = faults + 1
      PROVE  faults' \in 0 .. MaxFaults
  BY <1>1, <1>8, Numbers DEF TypeOK
<1>9. CASE PassFails
  BY <1>1, <1>8, <1>9, FreshRows DEF PassFails, Goto, rows, history, TypeOK
<1>10. CASE Restart
  BY <1>1, <1>8, <1>10, FreshRows DEF Restart, Goto, rows, history, TypeOK
<1>11. CASE Tick
  <2>1. clock' \in 0 .. MaxTime
    BY <1>1, <1>11, Numbers DEF Tick, TypeOK
  <2>2. QED
    BY <1>1, <1>11, <2>1 DEF Tick, rows, controller, history, TypeOK
<1>12. CASE UNCHANGED vars
  BY <1>1, <1>12 DEF vars, rows, controller, history, TypeOK
<1>13. QED
  BY <1>2, <1>3, <1>4, <1>5, <1>6, <1>7, <1>9, <1>10, <1>11, <1>12 DEF Next, Pass

-----------------------------------------------------------------------------
(* Invariance *)

RowIInv == DisabledScheduleIsQuiet /\ CursorIsAhead /\ RowsBelong /\ SeenIsPast

WorkIInv == OccurrencesAreHonest /\ PassIsFaithful

(* Each row of a schedule is gone with its occurrences, or still has its cursor
   ahead and is quiet if it is disabled. *)
LEMMA RowsKept ==
  ASSUME IInv, TypeOK', clock' >= clock, seen' = seen, used \subseteq used',
         \A r \in Schedules :
             \/ schedule'[r] = None /\ \A t \in Times : occurrence'[r][t] = None
             \/ /\ schedule'[r] # None /\ r \in used'
                /\ schedule'[r].enabled <=> schedule'[r].cursor # None
                /\ schedule'[r].enabled => \A t \in seen[r] : t < schedule'[r].cursor
                /\ ~schedule'[r].enabled => \A t \in Times : ~Unsettled(occurrence'[r][t])
  PROVE  RowIInv'
<1>1. DisabledScheduleIsQuiet'
  BY DEF DisabledScheduleIsQuiet, Exists
<1>2. CursorIsAhead'
  BY DEF CursorIsAhead, Exists
<1>3. RowsBelong'
  BY DEF RowsBelong, IInv, Links
<1>4. SeenIsPast'
  <2>1. ASSUME NEW s \in Schedules, NEW t \in seen'[s]
        PROVE  t <= clock'
    <3>1. t \in Times /\ t <= clock
      BY DEF IInv, Links, SeenIsPast, TypeOK
    <3>2. t \in Nat /\ clock \in Nat /\ clock' \in Nat
      BY <3>1, Numbers DEF IInv, TypeOK, Times
    <3>3. QED
      BY <3>1, <3>2
  <2>2. QED
    BY <2>1 DEF SeenIsPast
<1>5. QED
  BY <1>1, <1>2, <1>3, <1>4 DEF RowIInv

LEMMA SameRowsKept ==
  ASSUME IInv, TypeOK', clock' >= clock, UNCHANGED <<schedule, seen, used>>,
         \A r \in Schedules, u \in Times : occurrence'[r][u] \in {None, occurrence[r][u]}
  PROVE  RowIInv'
<1>1. ASSUME NEW r \in Schedules
      PROVE  \/ schedule'[r] = None /\ \A t \in Times : occurrence'[r][t] = None
             \/ /\ schedule'[r] # None /\ r \in used'
                /\ schedule'[r].enabled <=> schedule'[r].cursor # None
                /\ schedule'[r].enabled => \A t \in seen[r] : t < schedule'[r].cursor
                /\ ~schedule'[r].enabled => \A t \in Times : ~Unsettled(occurrence'[r][t])
  <2>1. CASE schedule[r] = None
    BY <2>1 DEF IInv, Links, RowsBelong
  <2>2. CASE schedule[r] # None
    <3>1. r \in used
      BY <2>2 DEF IInv, Links, RowsBelong
    <3>2. \A t \in Times : ~Unsettled(occurrence[r][t]) => ~Unsettled(occurrence'[r][t])
      BY DEF Unsettled
    <3>3. QED
      BY <2>2, <3>1, <3>2 DEF IInv, DisabledScheduleIsQuiet, CursorIsAhead, Exists
  <2>3. QED
    BY <2>1, <2>2
<1>2. QED
  BY <1>1, RowsKept

(* Operators remove occurrences and change nothing else of them. *)
LEMMA OperatorsOnlyRemove ==
  ASSUME IInv, Operator
  PROVE  /\ UNCHANGED <<clock, pc, job, history>>
         /\ used \subseteq used'
         /\ \A r \in Schedules, u \in Times : occurrence'[r][u] \in {None, occurrence[r][u]}
<1>1. TypeOK
  BY DEF IInv
<1>2. ASSUME NEW s \in Schedules, NEW e
      PROVE  \A u \in Times : OccurrencesAfter(s, e)[u] \in {None, occurrence[s][u]}
  BY DEF OccurrencesAfter
<1>3. CASE \E s \in Schedules : \/ \E p \in Plans[s] : Create(s, p.owner, p.rule, p.enabled)
                               \/ Garble(s)
  BY <1>3 DEF Create, Garble, controller
<1>4. CASE \E s \in Schedules : \E p \in Edits[s] : Update(s, p.owner, p.rule, p.enabled)
  <2>1. PICK s \in Schedules, o \in Owners, r \in Rules, e \in BOOLEAN : Update(s, o, r, e)
    BY <1>4, PlansAreTyped
  <2>2. occurrence' = [occurrence EXCEPT ![s] = OccurrencesAfter(s, e)]
    BY <2>1 DEF Update
  <2>3. \A r0 \in Schedules : occurrence'[r0] = occurrence[r0] \/ (r0 = s /\ occurrence'[r0] = OccurrencesAfter(s, e))
    BY <1>1, <2>2 DEF TypeOK
  <2>4. \A r0 \in Schedules, u \in Times : occurrence'[r0][u] \in {None, occurrence[r0][u]}
    BY <1>2, <2>3
  <2>5. QED
    BY <2>1, <2>4 DEF Update, controller
<1>5. CASE \E S \in SUBSET Schedules \ {{}} : \E e \in [S -> BOOLEAN] : BatchUpdateStatus(S, e)
  <2>1. PICK S \in SUBSET Schedules : \E e \in [S -> BOOLEAN] : BatchUpdateStatus(S, e)
    BY <1>5
  <2>2. PICK e \in [S -> BOOLEAN] : BatchUpdateStatus(S, e)
    BY <2>1
  <2>3. ASSUME NEW r \in Schedules, NEW u \in Times
        PROVE  occurrence'[r][u] \in {None, occurrence[r][u]}
    <3>1. occurrence'[r] = IF r \in S THEN OccurrencesAfter(r, e[r]) ELSE occurrence[r]
      BY <2>2 DEF BatchUpdateStatus
    <3>2. QED
      BY <1>2, <3>1
  <2>4. QED
    BY <2>2, <2>3 DEF BatchUpdateStatus, controller
<1>6. CASE \E s \in Schedules : Delete(s) \/ DeleteForCleanup(s)
  <2>1. PICK s \in Schedules : DeleteLocked(s)
    BY <1>6 DEF Delete, DeleteForCleanup
  <2>2. occurrence' = [occurrence EXCEPT ![s] = [t \in Times |-> None]]
    BY <2>1 DEF DeleteLocked
  <2>3. \A r \in Schedules, u \in Times : occurrence'[r][u] \in {None, occurrence[r][u]}
    BY <1>1, <2>2 DEF TypeOK
  <2>4. QED
    BY <2>1, <2>3 DEF DeleteLocked, controller
<1>7. CASE \E x \in Targets : DeleteTarget(x)
  BY <1>7 DEF DeleteTarget, controller
<1>8. CASE RetireOccurrences
  BY <1>8 DEF RetireOccurrences, controller
<1>9. CASE Pause \/ Resume
  BY <1>9 DEF Pause, Resume, rows
<1>10. QED
  BY <1>3, <1>4, <1>5, <1>6, <1>7, <1>8, <1>9 DEF Operator

(* An edit leaves the cursor of an enabled schedule ahead. *)
LEMMA CursorAfterIsAhead ==
  ASSUME IInv, NEW s \in Schedules, Exists(s), NEW r \in Rules, NEW e \in BOOLEAN
  PROVE  /\ e <=> CursorAfter(schedule[s], r, e) # None
         /\ e => \A t \in seen[s] : t < CursorAfter(schedule[s], r, e)
<1>1. schedule[s] \in ScheduleRows /\ clock \in 0 .. MaxTime /\ None \notin Nat
  BY RowsOfTables, NoneIsApart DEF IInv, TypeOK
<1>2. CASE ~e
  BY <1>2 DEF CursorAfter
<1>3. CASE e /\ schedule[s].enabled /\ schedule[s].rule = r
  BY <1>3 DEF CursorAfter, IInv, DisabledScheduleIsQuiet, CursorIsAhead
<1>4. CASE e /\ ~(schedule[s].enabled /\ schedule[s].rule = r)
  <2>1. CursorAfter(schedule[s], r, e) = FirstAfter(r, clock)
    BY <1>4 DEF CursorAfter
  <2>2. FirstAfter(r, clock) \in Nat \ {0} /\ FirstAfter(r, clock) > clock
    BY <1>1, FirstAfterIsLater
  <2>3. ASSUME NEW t \in seen[s]
        PROVE  t < FirstAfter(r, clock)
    <3>1. t \in Times /\ t <= clock
      BY DEF IInv, Links, SeenIsPast, TypeOK
    <3>2. t \in Nat /\ clock \in Nat
      BY <1>1, <3>1, Numbers DEF Times
    <3>3. QED
      BY <2>2, <3>1, <3>2
  <2>4. QED
    BY <1>1, <1>4, <2>1, <2>2, <2>3
<1>5. QED
  BY <1>2, <1>3, <1>4

LEMMA OperatorKeepsRows ==
  ASSUME IInv, Operator
  PROVE  RowIInv'
<1>1. TypeOK /\ TypeOK' /\ clock \in Nat
  BY OperatorTypes, Numbers DEF IInv, TypeOK
<1>2. /\ UNCHANGED <<clock, seen>> /\ used \subseteq used' /\ clock' >= clock
      /\ \A r \in Schedules, u \in Times : occurrence'[r][u] \in {None, occurrence[r][u]}
  BY <1>1, OperatorsOnlyRemove DEF history
<1> DEFINE Gone(r) == schedule'[r] = None /\ \A t \in Times : occurrence'[r][t] = None
           Kept(r) == /\ schedule'[r] # None /\ r \in used'
                      /\ schedule'[r].enabled <=> schedule'[r].cursor # None
                      /\ schedule'[r].enabled => \A t \in seen[r] : t < schedule'[r].cursor
                      /\ ~schedule'[r].enabled => \A t \in Times : ~Unsettled(occurrence'[r][t])
<1>3. ASSUME NEW r \in Schedules, schedule'[r] = schedule[r]
      PROVE  Gone(r) \/ Kept(r)
  <2>1. CASE schedule[r] = None
    BY <1>2, <1>3, <2>1 DEF IInv, Links, RowsBelong
  <2>2. CASE schedule[r] # None
    <3>1. r \in used'
      BY <1>2, <2>2 DEF IInv, Links, RowsBelong
    <3>2. \A t \in Times : ~Unsettled(occurrence[r][t]) => ~Unsettled(occurrence'[r][t])
      BY <1>2 DEF Unsettled
    <3>3. QED
      BY <1>3, <2>2, <3>1, <3>2 DEF IInv, DisabledScheduleIsQuiet, CursorIsAhead, Exists
  <2>3. QED
    BY <2>1, <2>2
<1>4. SUFFICES ASSUME NEW r \in Schedules, schedule'[r] # schedule[r]
               PROVE  Gone(r) \/ Kept(r)
  <2>1. \A r \in Schedules : Gone(r) \/ Kept(r)
    BY <1>3, <1>4
  <2>2. QED
    BY <1>1, <1>2, <2>1, RowsKept
<1> DEFINE Goal == Gone(r) \/ Kept(r)
<1>5. ASSUME NEW s \in Schedules, NEW o \in Owners, NEW rule \in Rules, NEW e \in BOOLEAN,
             Create(s, o, rule, e)
      PROVE  Goal
  <2>1. r = s /\ r \in used' /\ seen[r] = {}
    BY <1>1, <1>4, <1>5 DEF Create, TypeOK, IInv, Links, RowsBelong
  <2>2. schedule'[r] = [enabled |-> e, owner |-> o, rule |-> rule, readable |-> TRUE,
            cursor |-> IF e THEN FirstAfter(rule, clock) ELSE None,
            lastRun |-> None, runs |-> 0, succeeded |-> 0, failed |-> 0]
    BY <1>1, <1>5, <2>1 DEF Create, TypeOK
  <2>3. schedule'[r] \in {None} \cup ScheduleRows /\ FirstAfter(rule, clock) \in Nat
    BY <1>1, FirstAfterIsLater DEF TypeOK
  <2>4. \A t \in Times : occurrence'[r][t] = None
    BY <1>2, <1>5, <2>1 DEF Create, IInv, Links, RowsBelong
  <2>5. schedule'[r].enabled <=> schedule'[r].cursor # None
    BY <2>2, <2>3, NoneIsApart
  <2>6. QED
    BY <2>1, <2>4, <2>5 DEF Unsettled
<1>6. ASSUME Exists(r), NEW rule \in Rules, NEW e \in BOOLEAN,
             schedule'[r] # None, schedule'[r].enabled = e,
             schedule'[r].cursor = CursorAfter(schedule[r], rule, e),
             occurrence'[r] = OccurrencesAfter(r, e)
      PROVE  Goal
  <2>1. r \in used'
    BY <1>2, <1>6 DEF IInv, Links, RowsBelong, Exists
  <2>2. /\ schedule'[r].enabled <=> schedule'[r].cursor # None
        /\ schedule'[r].enabled => \A t \in seen[r] : t < schedule'[r].cursor
    BY <1>6, CursorAfterIsAhead
  <2>3. ~e => \A t \in Times : ~Unsettled(occurrence'[r][t])
    BY <1>6 DEF OccurrencesAfter, Unsettled
  <2>4. QED
    BY <1>6, <2>1, <2>2, <2>3
<1>7. ASSUME NEW s \in Schedules, NEW o \in Owners, NEW rule \in Rules, NEW e \in BOOLEAN,
             Update(s, o, rule, e)
      PROVE  Goal
  <2>1. r = s /\ Exists(r) /\ schedule[r] \in ScheduleRows
    BY <1>1, <1>4, <1>7, RowsOfTables DEF Update, TypeOK
  <2>2. CursorAfter(schedule[r], rule, e) \in {None} \cup (Nat \ {0})
    BY <1>1, <2>1, CursorAfterIsACursor
  <2>3. /\ schedule'[r] \in ScheduleRows /\ schedule'[r].enabled = e
        /\ schedule'[r].cursor = CursorAfter(schedule[r], rule, e)
    BY <1>1, <1>7, <2>1, <2>2, UpdatedRow
  <2>4. occurrence'[r] = OccurrencesAfter(r, e)
    BY <1>1, <1>7, <2>1 DEF Update, TypeOK
  <2>5. QED
    BY <1>6, <2>1, <2>3, <2>4, ScheduleRowTypes
<1>8. ASSUME NEW S \in SUBSET Schedules, NEW e \in [S -> BOOLEAN], BatchUpdateStatus(S, e)
      PROVE  Goal
  <2>1. r \in S /\ Exists(r) /\ schedule[r] \in ScheduleRows
    BY <1>1, <1>4, <1>8, RowsOfTables DEF BatchUpdateStatus
  <2>2. e[r] \in BOOLEAN /\ schedule[r].rule \in Rules
    BY <2>1, ScheduleRowTypes
  <2>3. PICK c \in {None} \cup (Nat \ {0}) : c = CursorAfter(schedule[r], schedule[r].rule, e[r])
    BY <1>1, <2>1, <2>2, CursorAfterIsACursor
  <2>4. schedule'[r] = [schedule[r] EXCEPT !.enabled = e[r], !.cursor = c]
    BY <1>8, <2>1, <2>3 DEF BatchUpdateStatus
  <2>5. schedule'[r] \in ScheduleRows /\ schedule'[r].enabled = e[r] /\ schedule'[r].cursor = c
    <3>1. schedule'[r] \in ScheduleRows
      BY <2>1, <2>2, <2>4 DEF ScheduleRows
    <3>2. schedule'[r].enabled = e[r] /\ schedule'[r].cursor = c
      BY <2>1, <2>4 DEF ScheduleRows
    <3>3. QED
      BY <3>1, <3>2
  <2>6. occurrence'[r] = OccurrencesAfter(r, e[r])
    BY <1>8, <2>1 DEF BatchUpdateStatus
  <2>7. QED
    BY <1>6, <2>1, <2>2, <2>3, <2>5, <2>6, ScheduleRowTypes
<1>9. ASSUME NEW s \in Schedules, Delete(s) \/ DeleteForCleanup(s)
      PROVE  Goal
  BY <1>1, <1>4, <1>9 DEF Delete, DeleteForCleanup, DeleteLocked, TypeOK
<1>10. ASSUME NEW x \in Targets, DeleteTarget(x)
       PROVE  Goal
  BY <1>4, <1>10 DEF DeleteTarget
<1>11. CASE RetireOccurrences \/ Pause \/ Resume
  BY <1>4, <1>11 DEF RetireOccurrences, Pause, Resume, rows
<1>12. ASSUME NEW s \in Schedules, Garble(s)
       PROVE  Goal
  <2>1. /\ r = s /\ Exists(r) /\ schedule[r] \in ScheduleRows
        /\ schedule'[r] = [schedule[r] EXCEPT !.readable = FALSE]
        /\ schedule'[r] \in {None} \cup ScheduleRows
    BY <1>1, <1>4, <1>12, GarbledRow DEF Garble
  <2>2. /\ schedule'[r].enabled = schedule[r].enabled /\ schedule'[r].cursor = schedule[r].cursor
        /\ schedule'[r] # None
    <3>1. schedule'[r].enabled = schedule[r].enabled /\ schedule'[r].cursor = schedule[r].cursor
      BY <2>1 DEF ScheduleRows
    <3>2. schedule'[r] \in ScheduleRows
      BY <2>1 DEF ScheduleRows
    <3>3. QED
      BY <3>1, <3>2, ScheduleRowTypes
  <2>3. r \in used'
    BY <1>2, <2>1 DEF IInv, Links, RowsBelong, Exists
  <2>4. \A t \in Times : ~Unsettled(occurrence[r][t]) => ~Unsettled(occurrence'[r][t])
    BY <1>2 DEF Unsettled
  <2>5. QED
    BY <2>1, <2>2, <2>3, <2>4 DEF IInv, DisabledScheduleIsQuiet, CursorIsAhead
<1>13. QED
  BY <1>5, <1>7, <1>8, <1>9, <1>10, <1>11, <1>12, PlansAreTyped DEF Operator

(* Removing occurrences, and ending a pass, leave the others honest. *)
LEMMA WorkKept ==
  ASSUME IInv, TypeOK', clock' >= clock, UNCHANGED history,
         \A r \in Schedules, u \in Times : occurrence'[r][u] \in {None, occurrence[r][u]},
         \/ UNCHANGED <<pc, job>>
         \/ pc' \in {"idle", "materialize"} /\ job'.evaluated <= clock'
  PROVE  WorkIInv'
<1>1. OccurrencesAreHonest'
  <2>1. ASSUME NEW s \in Schedules, NEW t \in Times
        PROVE  /\ t \notin seen'[s] => occurrence'[s][t] = None /\ \A x \in Targets : scans'[s][t][x] = 0
               /\ occurrence'[s][t] # None =>
                     /\ occurrence'[s][t].attempted = None =>
                            occurrence'[s][t].retries = 0 /\ occurrence'[s][t].outcome = "open"
                     /\ Reattemptable(occurrence'[s][t]) => Untouched(s, t)'
    BY DEF IInv, Links, OccurrencesAreHonest, history, Untouched
  <2>2. QED
    BY <2>1 DEF OccurrencesAreHonest
<1>2. PassIsFaithful'
  <2>1. CASE pc' \in {"idle", "materialize"} /\ job'.evaluated <= clock'
    BY <2>1 DEF PassIsFaithful, HandingOff
  <2>2. CASE UNCHANGED <<pc, job>>
    <3>1. job.evaluated <= clock'
      BY Numbers, PassTypes DEF IInv, Links, PassIsFaithful, TypeOK
    <3>2. HandingOff => BeingTried(occurrence'[job.schedule][job.time])
      <4>1. HandingOff => job.schedule \in Schedules /\ job.time \in Times
        BY WorkOfThePass DEF HandingOff
      <4>2. QED
        BY <4>1 DEF IInv, Links, PassIsFaithful, BeingTried
    <3>3. QED
      BY <2>2, <3>1, <3>2 DEF IInv, Links, PassIsFaithful, HandingOff, history, Untouched
  <2>3. QED
    BY <2>1, <2>2
<1>3. QED
  BY <1>1, <1>2 DEF WorkIInv

LEMMA OperatorKeeps ==
  ASSUME IInv, Operator
  PROVE  RowIInv' /\ WorkIInv'
<1>1. TypeOK' /\ clock' >= clock
  BY OperatorTypes, OperatorsOnlyRemove, Numbers DEF IInv, TypeOK
<1>2. QED
  BY <1>1, OperatorKeepsRows, OperatorsOnlyRemove, WorkKept

(* An instant is materialised once: it is not before the cursor, which is ahead
   of every earlier one. *)
LEMMA NotSeenBefore ==
  ASSUME IInv, NEW s \in Schedules, StillDue(s),
         NEW t, t = LatestAtOrBefore(schedule[s].rule, schedule[s].cursor, job.evaluated)
  PROVE  /\ \A u \in seen[s] : u \in Times /\ u < t
         /\ \A u \in Times : u >= t =>
                occurrence[s][u] = None /\ u \notin seen[s] /\ \A x \in Targets : scans[s][u][x] = 0
<1>1. t \in Times /\ schedule[s].cursor <= t /\ schedule[s].cursor \in Nat
  BY MaterializedInstant
<1>2. ASSUME NEW u \in seen[s]
      PROVE  u \in Times /\ u < t
  <2>1. u < schedule[s].cursor /\ u \in Times
    BY DEF IInv, CursorIsAhead, StillDue, TypeOK
  <2>2. QED
    BY <1>1, <2>1, Numbers DEF Times
<1>3. ASSUME NEW u \in Times, u >= t
      PROVE  occurrence[s][u] = None /\ u \notin seen[s] /\ \A x \in Targets : scans[s][u][x] = 0
  <2>1. u \notin seen[s]
    BY <1>1, <1>2, <1>3, Numbers DEF Times
  <2>2. QED
    BY <2>1 DEF IInv, Links, OccurrencesAreHonest
<1>4. QED
  BY <1>2, <1>3

LEMMA MaterializeKeeps ==
  ASSUME IInv, MaterializeDue
  PROVE  RowIInv' /\ WorkIInv'
<1>1. TypeOK /\ job \in Passes /\ TypeOK' /\ clock' = clock /\ clock \in Nat /\ used' = used
  BY ModelTypes, Numbers DEF IInv, TypeOK, Next, Pass, MaterializeDue, Environment
<1>2. PICK s \in Schedules : s = NextDue.id
  BY <1>1, NextDueIsDue DEF MaterializeDue
<1>3. PICK t : t = LatestAtOrBefore(schedule[s].rule, schedule[s].cursor, job.evaluated)
  OBVIOUS
<1>4. pc' = "materialize" /\ job'.evaluated = job.evaluated /\ job.evaluated <= clock
  BY <1>1 DEF MaterializeDue, Goto, IInv, Links, PassIsFaithful, Passes
<1>5. CASE ~StillDue(s)
  <2>1. UNCHANGED <<schedule, occurrence, seen, scans, untold, clock, used>>
    BY <1>2, <1>5 DEF MaterializeDue, Environment
  <2>2. RowIInv'
    BY <1>1, <2>1, SameRowsKept
  <2>3. WorkIInv'
    BY <1>1, <1>4, <2>1, WorkKept DEF history
  <2>4. QED
    BY <2>2, <2>3
<1>6. CASE StillDue(s)
  <2>1. /\ t \in Times /\ t <= job.evaluated /\ schedule[s] \in ScheduleRows
        /\ NextRunTime(s) \in Nat \ {0} /\ NextRunTime(s) > job.evaluated
    BY <1>3, <1>6, MaterializedInstant
  <2>2. /\ \A u \in seen[s] : u \in Times /\ u < t
        /\ occurrence[s][t] = None /\ t \notin seen[s] /\ \A x \in Targets : scans[s][t][x] = 0
    <3>1. t >= t
      BY <2>1, Numbers DEF Times
    <3>2. QED
      BY <1>3, <1>6, <2>1, <3>1, NotSeenBefore
  <2>3. /\ schedule' = [schedule EXCEPT ![s].cursor = NextRunTime(s)]
        /\ occurrence' = [occurrence EXCEPT ![s][t] = IF @ = None THEN NewOccurrence ELSE @]
        /\ seen' = [seen EXCEPT ![s] = @ \cup {t}]
        /\ UNCHANGED <<scans, untold>>
    BY <1>2, <1>3, <1>6 DEF MaterializeDue
  <2>4. /\ schedule'[s] = [schedule[s] EXCEPT !.cursor = NextRunTime(s)]
        /\ \A r \in Schedules : r # s => schedule'[r] = schedule[r]
    BY <1>1, <2>3 DEF TypeOK
  <2>5. /\ occurrence'[s][t] = NewOccurrence
        /\ \A r \in Schedules, u \in Times : <<r, u>> # <<s, t>> => occurrence'[r][u] = occurrence[r][u]
    BY <1>1, <2>1, <2>2, <2>3 DEF TypeOK
  <2>6. /\ seen'[s] = seen[s] \cup {t}
        /\ \A r \in Schedules : r # s => seen'[r] = seen[r]
    BY <1>1, <2>3 DEF TypeOK
  <2>7. /\ schedule'[s] # None /\ schedule'[s].enabled /\ schedule'[s].cursor = NextRunTime(s)
        /\ schedule[s] # None /\ schedule[s].enabled
    <3>1. [schedule[s] EXCEPT !.cursor = NextRunTime(s)] \in ScheduleRows
      BY <2>1, ScheduleRowChanges
    <3>2. [schedule[s] EXCEPT !.cursor = NextRunTime(s)].enabled = schedule[s].enabled
          /\ [schedule[s] EXCEPT !.cursor = NextRunTime(s)].cursor = NextRunTime(s)
      BY <2>1 DEF ScheduleRows
    <3>3. QED
      BY <1>6, <2>4, <3>1, <3>2, ScheduleRowTypes DEF StillDue, Exists
  <2>8. NextRunTime(s) # None /\ \A u \in seen'[s] : u < NextRunTime(s) /\ u <= clock
    <3>1. job.evaluated \in Nat
      BY <1>1, Numbers, PassTypes
    <3>2. ASSUME NEW u \in seen'[s]
          PROVE  u < NextRunTime(s) /\ u <= clock
      <4>1. u \in Times /\ u <= t
        BY <2>1, <2>2, <2>6, Numbers DEF Times
      <4>2. QED
        BY <1>1, <1>4, <2>1, <3>1, <4>1, Numbers DEF Times
    <3>3. QED
      BY <2>1, <3>2, NoneIsApart
  <2>9. DisabledScheduleIsQuiet'
    BY <2>4, <2>5, <2>7, <2>8 DEF IInv, DisabledScheduleIsQuiet, Exists
  <2>10. CursorIsAhead'
    BY <2>4, <2>6, <2>7, <2>8 DEF IInv, CursorIsAhead, Exists
  <2>11. RowsBelong'
    BY <1>1, <2>4, <2>5, <2>6, <2>7 DEF IInv, Links, RowsBelong
  <2>12. SeenIsPast'
    BY <1>1, <2>6, <2>8 DEF IInv, Links, SeenIsPast
  <2>13. Untouched(s, t)'
    BY <2>2, <2>3 DEF Untouched
  <2>14. OccurrencesAreHonest'
    <3>1. NewOccurrence.attempted = None => NewOccurrence.retries = 0 /\ NewOccurrence.outcome = "open"
      BY DEF NewOccurrence
    <3>2. ASSUME NEW r \in Schedules, NEW u \in Times
          PROVE  /\ u \notin seen'[r] => occurrence'[r][u] = None /\ \A x \in Targets : scans'[r][u][x] = 0
                 /\ occurrence'[r][u] # None =>
                       /\ occurrence'[r][u].attempted = None =>
                              occurrence'[r][u].retries = 0 /\ occurrence'[r][u].outcome = "open"
                       /\ Reattemptable(occurrence'[r][u]) => Untouched(r, u)'
      <4>1. CASE r = s /\ u = t
        BY <2>5, <2>6, <2>13, <3>1, <4>1
      <4>2. CASE <<r, u>> # <<s, t>>
        BY <2>3, <2>5, <2>6, <4>2 DEF IInv, Links, OccurrencesAreHonest, Untouched
      <4>3. QED
        BY <4>1, <4>2
    <3>3. QED
      BY <3>2 DEF OccurrencesAreHonest
  <2>15. PassIsFaithful'
    BY <1>1, <1>4 DEF PassIsFaithful, HandingOff
  <2>16. QED
    BY <2>9, <2>10, <2>11, <2>12, <2>14, <2>15 DEF RowIInv, WorkIInv
<1>7. QED
  BY <1>5, <1>6

LEMMA AttemptEffect ==
  ASSUME IInv, StartAttempt,
         NEW s, s = job.schedule, NEW t, t = job.time,
         Attemptable(s), Eligible(occurrence[s][t], clock), schedule[s].readable
  PROVE  /\ s \in Schedules /\ t \in Times /\ t \in seen[s] /\ clock \in 0 .. MaxTime
         /\ schedule[s] \in ScheduleRows /\ schedule'[s] \in ScheduleRows
         /\ schedule'[s].enabled = schedule[s].enabled /\ schedule'[s].cursor = schedule[s].cursor
         /\ schedule'[s].runs = schedule[s].runs + 1
         /\ schedule'[s].succeeded = schedule[s].succeeded /\ schedule'[s].failed = schedule[s].failed
         /\ \A r \in Schedules : r # s => schedule'[r] = schedule[r]
         /\ occurrence[s][t] \in OccurrenceRows /\ occurrence'[s][t] \in OccurrenceRows
         /\ Reattemptable(occurrence[s][t])
         /\ occurrence'[s][t].attempted = clock /\ occurrence'[s][t].retryAt = None
         /\ occurrence'[s][t].retries = occurrence[s][t].retries /\ occurrence'[s][t].outcome = "open"
         /\ \A r \in Schedules, u \in Times : <<r, u>> # <<s, t>> => occurrence'[r][u] = occurrence[r][u]
         /\ pc' = "create" /\ job'.schedule = s /\ job'.time = t /\ job'.evaluated = job.evaluated
<1>1. s \in Schedules /\ t \in Times /\ t \in seen[s]
  BY WorkOfThePass DEF StartAttempt
<1>2. TypeOK /\ schedule[s] \in ScheduleRows /\ occurrence[s][t] \in OccurrenceRows /\ clock \in 0 .. MaxTime
  BY <1>1, RowsOfTables DEF IInv, TypeOK, Attemptable, Eligible
<1>3. /\ schedule' = [schedule EXCEPT ![s].runs = @ + 1, ![s].lastRun = clock]
      /\ occurrence' = [occurrence EXCEPT ![s][t].attempted = clock, ![s][t].retryAt = None]
      /\ Goto("create", [job EXCEPT !.attempted = clock, !.left = FrozenTargets(schedule[s].owner)])
  BY DEF StartAttempt
<1>4. PICK row : row = [schedule[s] EXCEPT !.runs = @ + 1, !.lastRun = clock]
  OBVIOUS
<1>5. PICK o : o = [occurrence[s][t] EXCEPT !.attempted = clock, !.retryAt = None]
  OBVIOUS
<1>6. row \in ScheduleRows /\ o \in OccurrenceRows
  BY <1>2, <1>4, <1>5, ScheduleRowChanges, OccurrenceRowTypes
<1>7. /\ row.enabled = schedule[s].enabled /\ row.cursor = schedule[s].cursor
      /\ row.runs = schedule[s].runs + 1
      /\ row.succeeded = schedule[s].succeeded /\ row.failed = schedule[s].failed
  BY <1>2, <1>4 DEF ScheduleRows
<1>8. /\ o.attempted = clock /\ o.retryAt = None
      /\ o.retries = occurrence[s][t].retries /\ o.outcome = occurrence[s][t].outcome
  BY <1>2, <1>5 DEF OccurrenceRows
<1>9. Reattemptable(occurrence[s][t]) /\ occurrence[s][t].outcome = "open"
  BY <1>1 DEF IInv, Links, OccurrencesAreHonest, Reattemptable, Eligible
<1>10. schedule' = [schedule EXCEPT ![s] = row]
  BY <1>1, <1>2, <1>3, <1>4 DEF TypeOK
<1>11. schedule'[s] = row /\ \A r \in Schedules : r # s => schedule'[r] = schedule[r]
  BY <1>1, <1>2, <1>10 DEF TypeOK
<1>12. occurrence' = [occurrence EXCEPT ![s] = [@ EXCEPT ![t] = o]]
  BY <1>1, <1>2, <1>3, <1>5 DEF TypeOK
<1>13. /\ occurrence'[s][t] = o
       /\ \A r \in Schedules, u \in Times : <<r, u>> # <<s, t>> => occurrence'[r][u] = occurrence[r][u]
  <2>1. o \in {None} \cup OccurrenceRows
    BY <1>6
  <2>2. /\ [occurrence EXCEPT ![s] = [@ EXCEPT ![t] = o]][s][t] = o
        /\ \A r \in Schedules, u \in Times : <<r, u>> # <<s, t>> =>
                [occurrence EXCEPT ![s] = [@ EXCEPT ![t] = o]][r][u] = occurrence[r][u]
    BY <1>1, <1>2, <2>1, WriteOccurrence
  <2>3. QED
    BY <1>12, <2>2
<1>14. pc' = "create" /\ job'.schedule = s /\ job'.time = t /\ job'.evaluated = job.evaluated
  BY <1>2, <1>3 DEF Goto, TypeOK, Passes
<1>15. QED
  BY <1>1, <1>2, <1>6, <1>7, <1>8, <1>9, <1>11, <1>13, <1>14

LEMMA AttemptKeeps ==
  ASSUME IInv, StartAttempt
  PROVE  RowIInv' /\ WorkIInv'
<1>1. TypeOK' /\ clock' = clock /\ clock \in Nat /\ clock' >= clock /\ used' = used /\ UNCHANGED history
  BY ModelTypes, Numbers DEF IInv, TypeOK, Next, Pass, StartAttempt, Environment
<1>2. PICK s, t : s = job.schedule /\ t = job.time
  OBVIOUS
<1>3. CASE ~(Attemptable(s) /\ Eligible(occurrence[s][t], clock) /\ schedule[s].readable)
  <2>1. /\ UNCHANGED <<schedule, occurrence, seen, used>>
        /\ pc' = "idle" /\ job' = NoJob
    BY <1>1, <1>2, <1>3 DEF StartAttempt, Goto, history
  <2>2. job'.evaluated <= clock'
    BY <1>1, <2>1 DEF NoJob
  <2>3. RowIInv'
    BY <1>1, <2>1, SameRowsKept
  <2>4. WorkIInv'
    BY <1>1, <2>1, <2>2, WorkKept
  <2>5. QED
    BY <2>3, <2>4
<1>4. CASE Attemptable(s) /\ Eligible(occurrence[s][t], clock) /\ schedule[s].readable
  <2>1. /\ s \in Schedules /\ t \in Times /\ t \in seen[s]
        /\ schedule[s] \in ScheduleRows /\ schedule'[s] \in ScheduleRows
        /\ schedule'[s].enabled = schedule[s].enabled /\ schedule'[s].cursor = schedule[s].cursor
        /\ \A r \in Schedules : r # s => schedule'[r] = schedule[r]
        /\ Reattemptable(occurrence[s][t])
        /\ occurrence[s][t] # None /\ occurrence'[s][t] # None
        /\ occurrence'[s][t].attempted = clock /\ occurrence'[s][t].retryAt = None
        /\ occurrence'[s][t].outcome = "open" /\ clock # None
        /\ \A r \in Schedules, u \in Times : <<r, u>> # <<s, t>> => occurrence'[r][u] = occurrence[r][u]
        /\ pc' = "create" /\ job'.schedule = s /\ job'.time = t /\ job'.evaluated = job.evaluated
    BY <1>1, <1>2, <1>4, AttemptEffect, NoneIsApart
  <2>2. Untouched(s, t)
    BY <2>1 DEF IInv, Links, OccurrencesAreHonest
  <2>3. RowIInv'
    <3>1. ASSUME NEW r \in Schedules
          PROVE  \/ schedule'[r] = None /\ \A u \in Times : occurrence'[r][u] = None
                 \/ /\ schedule'[r] # None /\ r \in used'
                    /\ schedule'[r].enabled <=> schedule'[r].cursor # None
                    /\ schedule'[r].enabled => \A u \in seen[r] : u < schedule'[r].cursor
                    /\ ~schedule'[r].enabled => \A u \in Times : ~Unsettled(occurrence'[r][u])
      <4>1. CASE r = s
        <5>1. schedule[s] # None /\ schedule[s].enabled /\ schedule'[s] # None /\ s \in used
          BY <1>4, <2>1, ScheduleRowTypes DEF Attemptable, Exists, IInv, Links, RowsBelong
        <5>2. QED
          BY <1>1, <2>1, <4>1, <5>1 DEF IInv, DisabledScheduleIsQuiet, CursorIsAhead, Exists
      <4>2. CASE r # s
        <5>1. schedule'[r] = schedule[r] /\ \A u \in Times : occurrence'[r][u] = occurrence[r][u]
          BY <2>1, <4>2
        <5>2. CASE schedule[r] = None
          BY <5>1, <5>2 DEF IInv, Links, RowsBelong
        <5>3. CASE schedule[r] # None
          BY <1>1, <5>1, <5>3 DEF IInv, Links, RowsBelong, DisabledScheduleIsQuiet, CursorIsAhead, Exists
        <5>4. QED
          BY <5>2, <5>3
      <4>3. QED
        BY <4>1, <4>2
    <3>2. QED
      BY <1>1, <3>1, RowsKept DEF history
  <2>4. OccurrencesAreHonest'
    <3>1. ASSUME NEW r \in Schedules, NEW u \in Times
          PROVE  /\ u \notin seen'[r] => occurrence'[r][u] = None /\ \A x \in Targets : scans'[r][u][x] = 0
                 /\ occurrence'[r][u] # None =>
                       /\ occurrence'[r][u].attempted = None =>
                              occurrence'[r][u].retries = 0 /\ occurrence'[r][u].outcome = "open"
                       /\ Reattemptable(occurrence'[r][u]) => Untouched(r, u)'
      <4>1. CASE r = s /\ u = t
        BY <1>1, <2>1, <4>1 DEF Reattemptable, history
      <4>2. CASE <<r, u>> # <<s, t>>
        BY <1>1, <2>1, <4>2 DEF IInv, Links, OccurrencesAreHonest, Untouched, history
      <4>3. QED
        BY <4>1, <4>2
    <3>2. QED
      BY <3>1 DEF OccurrencesAreHonest
  <2>5. PassIsFaithful'
    <3>1. Untouched(s, t)'
      BY <1>1, <2>2 DEF Untouched, history
    <3>2. <<s, t>> \in untold' \/ \A x \in job'.left : scans'[s][t][x] = 0
      BY <1>1, <3>1, PassTypes DEF Untouched, TypeOK
    <3>3. job'.evaluated <= clock'
      BY <1>1, <2>1 DEF IInv, Links, PassIsFaithful
    <3>4. BeingTried(occurrence'[s][t])
      BY <2>1 DEF BeingTried
    <3>5. QED
      BY <1>1, <2>1, <3>1, <3>2, <3>3, <3>4 DEF PassIsFaithful, history
  <2>6. QED
    BY <2>3, <2>4, <2>5 DEF WorkIInv
<1>5. QED
  BY <1>3, <1>4

LEMMA RecordEffect ==
  ASSUME IInv, RecordOutcome,
         NEW s, s = job.schedule, NEW t, t = job.time
  PROVE  /\ s \in Schedules /\ t \in Times /\ t \in seen[s]
         /\ pc' = "idle" /\ job' = NoJob /\ UNCHANGED <<clock, active, used, history>>
         /\ \/ occurrence[s][t] = None /\ UNCHANGED <<schedule, occurrence>>
            \/ /\ occurrence[s][t] \in OccurrenceRows /\ occurrence'[s][t] \in OccurrenceRows
               /\ BeingTried(occurrence[s][t])
               /\ occurrence'[s][t].attempted = occurrence[s][t].attempted
               /\ \A r \in Schedules, u \in Times : <<r, u>> # <<s, t>> => occurrence'[r][u] = occurrence[r][u]
               /\ \/ /\ UNCHANGED schedule
                     /\ job.created = 0 /\ job.error # "deadline"
                     /\ occurrence'[s][t].outcome = "open" /\ occurrence'[s][t].retryAt \in Nat
                     /\ occurrence'[s][t].retries = occurrence[s][t].retries + 1
                  \/ /\ occurrence'[s][t].outcome # "open" /\ occurrence'[s][t].retryAt = None
                     /\ occurrence'[s][t].retries = occurrence[s][t].retries
                     /\ schedule[s] \in ScheduleRows
                     /\ schedule'[s] = Settled(schedule[s], occurrence'[s][t].outcome)
                     /\ \A r \in Schedules : r # s => schedule'[r] = schedule[r]
<1>1. s \in Schedules /\ t \in Times /\ t \in seen[s] /\ TypeOK /\ job \in Passes
  BY WorkOfThePass DEF RecordOutcome, IInv, TypeOK
<1>2. pc' = "idle" /\ job' = NoJob /\ UNCHANGED <<clock, active, used, history>>
  BY DEF RecordOutcome, Goto, Environment
<1>3. PICK o : o = occurrence[s][t]
  OBVIOUS
<1>4. BeingTried(o)
  BY <1>3 DEF IInv, Links, PassIsFaithful, HandingOff, RecordOutcome
<1>5. CASE o = None
  BY <1>1, <1>2, <1>3, <1>5 DEF RecordOutcome, Unsettled
<1>6. CASE o # None
  <2>1. o \in OccurrenceRows /\ Unsettled(o) /\ o.attempted # None /\ o.retryAt = None
    BY <1>1, <1>3, <1>4, <1>6, RowsOfTables DEF BeingTried, Unsettled
  <2>2. PICK outcome : outcome = ClassifyHandoff
    OBVIOUS
  <2>3. outcome \in Outcomes \ {"open"}
    BY <2>2 DEF ClassifyHandoff, Outcomes
  <2>4. ASSUME NEW new \in OccurrenceRows, occurrence' = [occurrence EXCEPT ![s] = [@ EXCEPT ![t] = new]]
        PROVE  /\ occurrence'[s][t] = new
               /\ \A r \in Schedules, u \in Times : <<r, u>> # <<s, t>> => occurrence'[r][u] = occurrence[r][u]
    <3>1. new \in {None} \cup OccurrenceRows
      OBVIOUS
    <3>2. /\ [occurrence EXCEPT ![s] = [@ EXCEPT ![t] = new]][s][t] = new
          /\ \A r \in Schedules, u \in Times : <<r, u>> # <<s, t>> =>
                  [occurrence EXCEPT ![s] = [@ EXCEPT ![t] = new]][r][u] = occurrence[r][u]
      BY <1>1, <3>1, WriteOccurrence
    <3>3. QED
      BY <2>4, <3>2
  <2>5. CASE Retryable(outcome, o.retries)
    <3>1. /\ occurrence' = [occurrence EXCEPT ![s][t].retries = @ + 1,
                         ![s][t].retryAt = clock + Delay(o.retries + 1)]
          /\ UNCHANGED schedule
      BY <1>3, <2>1, <2>2, <2>5 DEF RecordOutcome
    <3>2. PICK i \in Nat : i = clock + Delay(o.retries + 1)
      BY <1>1, DelayIsANumber, Numbers DEF TypeOK
    <3>3. PICK new : new = [o EXCEPT !.retries = @ + 1, !.retryAt = i]
      OBVIOUS
    <3>4. new \in OccurrenceRows
      BY <2>1, <2>5, <3>3, OccurrenceRowTypes DEF Retryable
    <3>5. /\ new.retries = o.retries + 1 /\ new.retryAt = i
          /\ new.attempted = o.attempted /\ new.outcome = o.outcome
      BY <2>1, <3>3 DEF OccurrenceRows
    <3>6. occurrence' = [occurrence EXCEPT ![s] = [@ EXCEPT ![t] = new]]
      BY <1>1, <1>3, <3>1, <3>2, <3>3 DEF TypeOK
    <3>7. job.created = 0 /\ job.error # "deadline"
      BY <1>1, <2>2, <2>5, PassTypes DEF Retryable, ClassifyHandoff
    <3>8. QED
      BY <1>1, <1>2, <1>3, <1>4, <2>1, <2>4, <3>1, <3>4, <3>5, <3>6, <3>7 DEF Unsettled
  <2>6. CASE ~Retryable(outcome, o.retries)
    <3>1. /\ occurrence' = [occurrence EXCEPT ![s][t].outcome = outcome, ![s][t].retryAt = None]
          /\ schedule' = [schedule EXCEPT ![s] = Settled(@, outcome)]
      BY <1>3, <2>1, <2>2, <2>6 DEF RecordOutcome
    <3>2. PICK new : new = [o EXCEPT !.outcome = outcome, !.retryAt = None]
      OBVIOUS
    <3>3. new \in OccurrenceRows
      BY <2>1, <2>3, <3>2, OccurrenceRowTypes
    <3>4. /\ new.retries = o.retries /\ new.retryAt = None
          /\ new.attempted = o.attempted /\ new.outcome = outcome
      BY <2>1, <3>2 DEF OccurrenceRows
    <3>5. occurrence' = [occurrence EXCEPT ![s] = [@ EXCEPT ![t] = new]]
      BY <1>1, <1>3, <3>1, <3>2 DEF TypeOK
    <3>6. schedule[s] \in ScheduleRows
      BY <1>1, <1>3, <1>6 DEF TypeOK, IInv, Links, RowsBelong
    <3>7. /\ schedule'[s] = Settled(schedule[s], outcome)
          /\ \A r \in Schedules : r # s => schedule'[r] = schedule[r]
      BY <1>1, <3>1 DEF TypeOK
    <3>8. QED
      BY <1>1, <1>2, <1>3, <1>4, <2>1, <2>3, <2>4, <3>3, <3>4, <3>5, <3>6, <3>7
  <2>7. QED
    BY <2>5, <2>6
<1>7. QED
  BY <1>5, <1>6

LEMMA RecordKeeps ==
  ASSUME IInv, RecordOutcome
  PROVE  RowIInv' /\ WorkIInv'
<1>1. PICK s, t : s = job.schedule /\ t = job.time
  OBVIOUS
<1>2. /\ s \in Schedules /\ t \in Times /\ t \in seen[s]
      /\ pc' = "idle" /\ job' = NoJob /\ UNCHANGED <<clock, active, used, history>>
      /\ \/ occurrence[s][t] = None /\ UNCHANGED <<schedule, occurrence>>
         \/ /\ occurrence[s][t] \in OccurrenceRows /\ occurrence'[s][t] \in OccurrenceRows
            /\ BeingTried(occurrence[s][t])
            /\ occurrence'[s][t].attempted = occurrence[s][t].attempted
            /\ \A r \in Schedules, u \in Times : <<r, u>> # <<s, t>> => occurrence'[r][u] = occurrence[r][u]
            /\ \/ /\ UNCHANGED schedule
                  /\ job.created = 0 /\ job.error # "deadline"
                  /\ occurrence'[s][t].outcome = "open" /\ occurrence'[s][t].retryAt \in Nat
                  /\ occurrence'[s][t].retries = occurrence[s][t].retries + 1
               \/ /\ occurrence'[s][t].outcome # "open" /\ occurrence'[s][t].retryAt = None
                  /\ occurrence'[s][t].retries = occurrence[s][t].retries
                  /\ schedule[s] \in ScheduleRows
                  /\ schedule'[s] = Settled(schedule[s], occurrence'[s][t].outcome)
                  /\ \A r \in Schedules : r # s => schedule'[r] = schedule[r]
  BY <1>1, RecordEffect
<1>3. TypeOK' /\ clock' >= clock /\ clock' \in Nat /\ job'.evaluated <= clock'
  BY <1>2, ModelTypes, Numbers DEF IInv, TypeOK, Next, Pass, HandOff, NoJob
<1>4. CASE occurrence[s][t] = None /\ UNCHANGED <<schedule, occurrence>>
  <2>1. RowIInv'
    BY <1>2, <1>3, <1>4, SameRowsKept DEF history
  <2>2. WorkIInv'
    BY <1>2, <1>3, <1>4, WorkKept
  <2>3. QED
    BY <2>1, <2>2
<1>5. CASE occurrence[s][t] \in OccurrenceRows
  <2>1. /\ occurrence[s][t] # None /\ occurrence[s][t].attempted # None /\ Unsettled(occurrence[s][t])
        /\ \A r \in Schedules, u \in Times : <<r, u>> # <<s, t>> => occurrence'[r][u] = occurrence[r][u]
        /\ occurrence'[s][t].attempted # None
        /\ Reattemptable(occurrence'[s][t]) => job.created = 0 /\ job.error # "deadline"
    BY <1>2, <1>5, OccurrenceRowTypes DEF BeingTried, Unsettled, Reattemptable
  <2>2. s \in used /\ schedule[s] # None /\ schedule[s] \in ScheduleRows /\ schedule[s].enabled
    BY <1>2, <2>1 DEF IInv, Links, RowsBelong, DisabledScheduleIsQuiet, Exists, TypeOK
  <2>3. /\ schedule'[s] # None
        /\ schedule'[s].enabled = schedule[s].enabled /\ schedule'[s].cursor = schedule[s].cursor
        /\ \A r \in Schedules : r # s => schedule'[r] = schedule[r]
    <3>1. \A outcome : Settled(schedule[s], outcome) # None
      BY <2>2, ScheduleRowChanges, NoneIsApart
    <3>2. \A outcome : /\ Settled(schedule[s], outcome).enabled = schedule[s].enabled
                       /\ Settled(schedule[s], outcome).cursor = schedule[s].cursor
      BY <2>2 DEF Settled, ScheduleRows
    <3>3. QED
      BY <1>2, <2>1, <2>2, <3>1, <3>2
  <2>4. RowIInv'
    <3>1. ASSUME NEW r \in Schedules
          PROVE  \/ schedule'[r] = None /\ \A u \in Times : occurrence'[r][u] = None
                 \/ /\ schedule'[r] # None /\ r \in used'
                    /\ schedule'[r].enabled <=> schedule'[r].cursor # None
                    /\ schedule'[r].enabled => \A u \in seen[r] : u < schedule'[r].cursor
                    /\ ~schedule'[r].enabled => \A u \in Times : ~Unsettled(occurrence'[r][u])
      <4>1. CASE r = s
        BY <1>2, <2>2, <2>3, <4>1 DEF IInv, DisabledScheduleIsQuiet, CursorIsAhead, Exists
      <4>2. CASE r # s
        <5>1. schedule'[r] = schedule[r] /\ \A u \in Times : occurrence'[r][u] = occurrence[r][u]
          BY <2>1, <2>3, <4>2
        <5>2. CASE schedule[r] = None
          BY <5>1, <5>2 DEF IInv, Links, RowsBelong
        <5>3. CASE schedule[r] # None
          BY <1>2, <5>1, <5>3 DEF IInv, Links, RowsBelong, DisabledScheduleIsQuiet, CursorIsAhead, Exists
        <5>4. QED
          BY <5>2, <5>3
      <4>3. QED
        BY <4>1, <4>2
    <3>2. QED
      BY <1>2, <1>3, <3>1, RowsKept DEF history
  <2>5. OccurrencesAreHonest'
    <3>1. ASSUME NEW r \in Schedules, NEW u \in Times
          PROVE  /\ u \notin seen'[r] => occurrence'[r][u] = None /\ \A x \in Targets : scans'[r][u][x] = 0
                 /\ occurrence'[r][u] # None =>
                       /\ occurrence'[r][u].attempted = None =>
                              occurrence'[r][u].retries = 0 /\ occurrence'[r][u].outcome = "open"
                       /\ Reattemptable(occurrence'[r][u]) => Untouched(r, u)'
      <4>1. CASE r = s /\ u = t
        <5>1. job.created = 0 /\ job.error # "deadline" => Untouched(s, t)'
          BY <1>1, <1>2 DEF IInv, Links, PassIsFaithful, HandingOff, RecordOutcome, Untouched, history
        <5>2. QED
          BY <1>2, <2>1, <4>1, <5>1 DEF history
      <4>2. CASE <<r, u>> # <<s, t>>
        BY <1>2, <2>1, <4>2 DEF IInv, Links, OccurrencesAreHonest, Untouched, history
      <4>3. QED
        BY <4>1, <4>2
    <3>2. QED
      BY <3>1 DEF OccurrencesAreHonest
  <2>6. PassIsFaithful'
    BY <1>2, <1>3 DEF PassIsFaithful, HandingOff
  <2>7. QED
    BY <2>4, <2>5, <2>6 DEF WorkIInv
<1>6. QED
  BY <1>2, <1>4, <1>5

(* What CreateBatch does: a scan of a target that is left, and the local
   variables that remember it. *)
LEMMA CreatingEffect ==
  ASSUME IInv, Creating, HandOff
  PROVE  /\ UNCHANGED <<clock, active, used, schedule, occurrence, seen>> /\ pc = "create"
         /\ job.schedule \in Schedules /\ job.time \in Times /\ job.time \in seen[job.schedule]
         /\ pc' \in {"create", "record"}
         /\ job'.schedule = job.schedule /\ job'.time = job.time /\ job'.evaluated = job.evaluated
         /\ job'.left \subseteq job.left
         /\ untold' \in {untold, untold \cup {<<job.schedule, job.time>>}}
         /\ \/ UNCHANGED <<scans, untold>>
            \/ \E x \in job.left :
                   /\ scans' = [scans EXCEPT ![job.schedule][job.time][x] = @ + 1]
                   /\ x \notin job'.left
                   /\ \/ job'.created # 0
                      \/ pc' = "record" /\ job'.error = "deadline"
                      \/ <<job.schedule, job.time>> \in untold'
         /\ \/ job'.created = job.created
            \/ job'.created # 0
<1>1. /\ UNCHANGED <<clock, active, used, schedule, occurrence, seen>> /\ pc = "create"
      /\ job.schedule \in Schedules /\ job.time \in Times /\ job.time \in seen[job.schedule]
  BY WorkOfThePass DEF Creating, Environment
<1>2. job \in Passes /\ job.created \in Nat /\ job.left \subseteq Targets
  BY PassTypes DEF IInv, TypeOK
<1>3. job.left # {} => NextTarget \in job.left
  BY <1>2, NextTargetIsLeft
<1>4. CASE CreatePreparedScan
  <2>1. job' = [job EXCEPT !.left = @ \ {NextTarget}, !.created = @ + 1] /\ pc' = "create"
    BY <1>4 DEF CreatePreparedScan, Goto
  <2>2. /\ job'.schedule = job.schedule /\ job'.time = job.time /\ job'.evaluated = job.evaluated
        /\ job'.left = job.left \ {NextTarget} /\ job'.created # 0
    BY <1>2, <2>1 DEF Passes
  <2>3. QED
    BY <1>1, <1>3, <1>4, <2>1, <2>2 DEF CreatePreparedScan, CreateScan
<1>5. CASE MissTarget
  <2>1. job' = [job EXCEPT !.left = @ \ {NextTarget}, !.missed = @ + 1] /\ pc' = "create"
    BY <1>5 DEF MissTarget, Goto
  <2>2. /\ job'.schedule = job.schedule /\ job'.time = job.time /\ job'.evaluated = job.evaluated
        /\ job'.left = job.left \ {NextTarget} /\ job'.created = job.created
    BY <1>2, <2>1 DEF Passes
  <2>3. QED
    BY <1>1, <1>5, <2>1, <2>2 DEF MissTarget
<1>6. CASE FailBatch
  <2>1. job' = [job EXCEPT !.left = {}, !.error = "failed"] /\ pc' = "record"
    BY <1>6 DEF FailBatch, Goto
  <2>2. /\ job'.schedule = job.schedule /\ job'.time = job.time /\ job'.evaluated = job.evaluated
        /\ job'.left = {} /\ job'.created = job.created
    BY <1>2, <2>1 DEF Passes
  <2>3. QED
    BY <1>1, <1>6, <2>1, <2>2 DEF FailBatch
<1>7. CASE ExceedDeadline
  <2>1. job' = [job EXCEPT !.left = {}, !.error = "deadline"] /\ pc' = "record"
    BY <1>7 DEF ExceedDeadline, Goto
  <2>2. /\ job'.schedule = job.schedule /\ job'.time = job.time /\ job'.evaluated = job.evaluated
        /\ job'.left = {} /\ job'.created = job.created /\ job'.error = "deadline"
    BY <1>2, <2>1 DEF Passes
  <2>3. QED
    BY <1>1, <1>3, <1>7, <2>1, <2>2 DEF ExceedDeadline, CreateScan
<1>8. CASE LoseAcknowledgement
  <2>1. job' = [job EXCEPT !.left = {}, !.error = "failed"] /\ pc' = "record"
    BY <1>8 DEF LoseAcknowledgement, Goto
  <2>2. /\ job'.schedule = job.schedule /\ job'.time = job.time /\ job'.evaluated = job.evaluated
        /\ job'.left = {} /\ job'.created = job.created
    BY <1>2, <2>1 DEF Passes
  <2>3. QED
    BY <1>1, <1>3, <1>8, <2>1, <2>2 DEF LoseAcknowledgement, CreateScan
<1>9. CASE FinishBatch
  <2>1. (job' = job \/ job' = [job EXCEPT !.error = "failed"]) /\ pc' = "record"
    BY <1>9 DEF FinishBatch, Goto
  <2>2. /\ job'.schedule = job.schedule /\ job'.time = job.time /\ job'.evaluated = job.evaluated
        /\ job'.left = job.left /\ job'.created = job.created
    BY <1>2, <2>1 DEF Passes
  <2>3. QED
    BY <1>1, <1>9, <2>1, <2>2 DEF FinishBatch
<1>10. ~RecordOutcome
  BY <1>1 DEF RecordOutcome
<1>11. QED
  BY <1>4, <1>5, <1>6, <1>7, <1>8, <1>9, <1>10 DEF HandOff

LEMMA CreatingKeeps ==
  ASSUME IInv, Creating, HandOff
  PROVE  RowIInv' /\ WorkIInv'
<1>1. PICK s \in Schedules, t \in Times : s = job.schedule /\ t = job.time /\ t \in seen[s]
  BY CreatingEffect
<1>2. /\ UNCHANGED <<clock, used, schedule, occurrence, seen>> /\ pc = "create"
      /\ pc' \in {"create", "record"}
      /\ job'.schedule = s /\ job'.time = t /\ job'.evaluated = job.evaluated
      /\ job'.left \subseteq job.left
      /\ untold' \in {untold, untold \cup {<<s, t>>}}
      /\ \/ UNCHANGED <<scans, untold>>
         \/ \E x \in job.left :
                /\ scans' = [scans EXCEPT ![s][t][x] = @ + 1]
                /\ x \notin job'.left
                /\ \/ job'.created # 0
                   \/ pc' = "record" /\ job'.error = "deadline"
                   \/ <<s, t>> \in untold'
      /\ \/ job'.created = job.created
         \/ job'.created # 0
  BY <1>1, CreatingEffect
<1>3. TypeOK /\ TypeOK' /\ clock' >= clock /\ job \in Passes /\ job.left \subseteq Targets
  BY <1>2, HandOffTypes, PassTypes, Numbers DEF IInv, TypeOK
<1>4. RowIInv'
  BY <1>2, <1>3, SameRowsKept
<1>5. \A r \in Schedules, u \in Times : <<r, u>> # <<s, t>> => scans'[r][u] = scans[r][u]
  BY <1>2, <1>3 DEF TypeOK
<1>6. \A r \in Schedules, u \in Times : <<r, u>> # <<s, t>> => (Untouched(r, u) => Untouched(r, u)')
  BY <1>2, <1>5 DEF Untouched
<1>7. OccurrencesAreHonest'
  <2>1. ASSUME NEW r \in Schedules, NEW u \in Times
          PROVE  /\ u \notin seen'[r] => occurrence'[r][u] = None /\ \A x \in Targets : scans'[r][u][x] = 0
                 /\ occurrence'[r][u] # None =>
                       /\ occurrence'[r][u].attempted = None =>
                              occurrence'[r][u].retries = 0 /\ occurrence'[r][u].outcome = "open"
                       /\ Reattemptable(occurrence'[r][u]) => Untouched(r, u)'
    <3>1. CASE r = s /\ u = t
      <4>1. BeingTried(occurrence[s][t])
        BY <1>1, <1>2 DEF IInv, Links, PassIsFaithful, HandingOff
      <4>2. QED
        BY <1>1, <1>2, <3>1, <4>1 DEF BeingTried, Reattemptable
    <3>2. CASE <<r, u>> # <<s, t>>
      BY <1>2, <1>5, <1>6, <3>2 DEF IInv, Links, OccurrencesAreHonest
    <3>3. QED
      BY <3>1, <3>2
  <2>2. QED
    BY <2>1 DEF OccurrencesAreHonest
<1>8. PassIsFaithful'
  <2>1. job'.evaluated <= clock'
    BY <1>2 DEF IInv, Links, PassIsFaithful
  <2>2. BeingTried(occurrence'[s][t])
    BY <1>1, <1>2 DEF IInv, Links, PassIsFaithful, HandingOff
  <2>3. ASSUME NEW x \in job'.left, <<s, t>> \notin untold'
        PROVE  scans'[s][t][x] = 0
    <3>1. scans[s][t][x] = 0 /\ x \in Targets
      BY <1>1, <1>2, <1>3, <2>3 DEF IInv, Links, PassIsFaithful
    <3>2. CASE scans' = scans
      BY <3>1, <3>2
    <3>3. CASE scans' # scans
      <4>1. PICK y \in job.left : scans' = [scans EXCEPT ![s][t][y] = @ + 1] /\ y \notin job'.left
        BY <1>2, <3>3
      <4>2. x # y
        BY <2>3, <4>1
      <4>3. scans'[s][t][x] = scans[s][t][x]
        BY <1>3, <3>1, <4>1, <4>2 DEF TypeOK
      <4>4. QED
        BY <3>1, <4>3
    <3>4. QED
      BY <3>2, <3>3
  <2>4. ASSUME job'.created = 0, pc' = "record" => job'.error # "deadline"
        PROVE  Untouched(s, t)'
    <3>1. Untouched(s, t)
      BY <1>1, <1>2, <2>4 DEF IInv, Links, PassIsFaithful, HandingOff
    <3>2. <<s, t>> \in untold' \/ (scans' = scans /\ <<s, t>> \notin untold)
      BY <1>2, <2>4
    <3>3. QED
      BY <3>1, <3>2 DEF Untouched
  <2>5. QED
    BY <1>1, <1>2, <2>1, <2>2, <2>3, <2>4 DEF PassIsFaithful, HandingOff
<1>9. QED
  BY <1>4, <1>7, <1>8 DEF WorkIInv

LEMMA StepKeeps ==
  ASSUME IInv, [Next]_vars
  PROVE  RowIInv' /\ WorkIInv'
<1>1. TypeOK /\ TypeOK' /\ clock \in Nat
  BY ModelTypes, Numbers DEF IInv, TypeOK
<1>2. ASSUME UNCHANGED <<schedule, occurrence, used, history>>, clock' >= clock,
             \/ UNCHANGED <<pc, job>>
             \/ pc' \in {"idle", "materialize"} /\ job'.evaluated <= clock'
      PROVE  RowIInv' /\ WorkIInv'
  BY <1>1, <1>2, SameRowsKept, WorkKept DEF history
<1>3. clock >= clock /\ clock + 1 >= clock /\ clock <= clock /\ 0 <= clock /\ NoJob.evaluated = 0
  BY <1>1 DEF NoJob
<1>4. CASE Operator
  BY <1>4, OperatorKeeps
<1>5. CASE ListDue
  <2>1. pc' = "materialize" /\ job'.evaluated = clock
    BY <1>5 DEF ListDue, Goto, NoJob
  <2>2. QED
    BY <1>2, <1>3, <1>5, <2>1 DEF ListDue, Environment
<1>6. CASE MaterializeDue
  BY <1>6, MaterializeKeeps
<1>7. CASE SelectAttemptCandidate
  <2>1. CASE Candidates = {}
    BY <1>2, <1>3, <1>7, <2>1 DEF SelectAttemptCandidate, Goto, Environment
  <2>2. CASE Candidates # {}
    <3>1. PICK s \in Schedules : \E t \in Times :
              t \in Waiting(s) /\ Goto("attempt", [NoJob EXCEPT !.schedule = s, !.time = t])
      BY <1>7, <2>2 DEF SelectAttemptCandidate, Candidates, Waiting
    <3>2. PICK t \in Times :
              t \in Waiting(s) /\ Goto("attempt", [NoJob EXCEPT !.schedule = s, !.time = t])
      BY <3>1
    <3>3. occurrence[s][t] # None
      BY <3>2 DEF Waiting, Eligible
    <3>4. t \in seen[s]
      BY <3>3 DEF IInv, Links, OccurrencesAreHonest
    <3>5. pc' = "attempt" /\ job'.schedule = s /\ job'.time = t /\ job'.evaluated = 0
      BY <3>2 DEF Goto, NoJob
    <3>6. UNCHANGED <<clock, used, schedule, occurrence, history>>
      BY <1>7 DEF SelectAttemptCandidate, Environment
    <3>7. RowIInv'
      BY <1>1, <1>3, <3>6, SameRowsKept DEF history
    <3>8. OccurrencesAreHonest'
      BY <3>6 DEF IInv, Links, OccurrencesAreHonest, history, Untouched
    <3>9. PassIsFaithful'
      BY <1>3, <3>4, <3>5, <3>6 DEF PassIsFaithful, HandingOff, history
    <3>10. QED
      BY <3>7, <3>8, <3>9 DEF WorkIInv
  <2>3. QED
    BY <2>1, <2>2
<1>8. CASE StartAttempt
  BY <1>8, AttemptKeeps
<1>9. CASE HandOff
  <2>1. CASE RecordOutcome
    BY <2>1, RecordKeeps
  <2>2. CASE ~RecordOutcome
    <3>1. Creating
      BY <1>9, <2>2 DEF HandOff, CreatePreparedScan, MissTarget, FailBatch, ExceedDeadline,
                        LoseAcknowledgement, FinishBatch
    <3>2. QED
      BY <1>9, <3>1, CreatingKeeps
  <2>3. QED
    BY <2>1, <2>2
<1>10. CASE PassFails
  BY <1>2, <1>3, <1>10 DEF PassFails, Goto, rows
<1>11. CASE Restart
  BY <1>2, <1>3, <1>11 DEF Restart, Goto, rows
<1>12. CASE Tick
  BY <1>2, <1>3, <1>12 DEF Tick, rows, controller
<1>13. CASE UNCHANGED vars
  BY <1>2, <1>3, <1>13 DEF vars, rows, controller
<1>14. QED
  BY <1>4, <1>5, <1>6, <1>7, <1>8, <1>9, <1>10, <1>11, <1>12, <1>13 DEF Next, Pass

LEMMA InvariantInit == Init => IInv
<1> SUFFICES ASSUME Init
             PROVE  IInv
  OBVIOUS
<1>1. TypeOK
  BY TypeInit
<1>2. DisabledScheduleIsQuiet /\ CursorIsAhead
  BY DEF Init, DisabledScheduleIsQuiet, CursorIsAhead, Exists
<1>3. RowsBelong /\ SeenIsPast /\ OccurrencesAreHonest
  BY DEF Init, RowsBelong, SeenIsPast, OccurrencesAreHonest
<1>4. PassIsFaithful
  BY DEF Init, PassIsFaithful, HandingOff, NoJob
<1>5. QED
  BY <1>1, <1>2, <1>3, <1>4 DEF IInv, Links

LEMMA ScheduleInvariance == Spec => []IInv
<1>1. IInv /\ [Next]_vars => IInv'
  BY ModelTypes, StepKeeps DEF IInv, Links, RowIInv, WorkIInv
<1>2. QED
  BY <1>1, InvariantInit, PTL DEF Spec

(* Rows, local variables and history keep their types. *)
THEOREM ScheduleTypeCorrectness == Spec => []TypeOK
<1>1. IInv => TypeOK
  BY DEF IInv
<1>2. QED
  BY <1>1, ScheduleInvariance, PTL

(* The cursor of an enabled schedule is ahead of every instant that ever came
   up: MaterializeDue never materialises an instant twice. *)
THEOREM CursorsRunAhead == Spec => []CursorIsAhead
<1>1. IInv => CursorIsAhead
  BY DEF IInv
<1>2. QED
  BY <1>1, ScheduleInvariance, PTL

(* Disabling leaves nothing to attempt, even under a hand-off in progress. *)
THEOREM DisabledMeansQuiet == Spec => []DisabledScheduleIsQuiet
<1>1. IInv => DisabledScheduleIsQuiet
  BY DEF IInv
<1>2. QED
  BY <1>1, ScheduleInvariance, PTL

-----------------------------------------------------------------------------
(* Aggregates *)

LEMMA TimesAreFinite == IsFiniteSet(Times)
  BY FS_Interval, Numbers DEF Times

LEMMA RowsWithAreFinite ==
  ASSUME NEW s, NEW S
  PROVE  IsFiniteSet(RowsWith(s, S)) /\ Cardinality(RowsWith(s, S)) \in Nat
<1>1. RowsWith(s, S) \in SUBSET Times
  BY DEF RowsWith
<1>2. QED
  BY <1>1, TimesAreFinite, FS_Subset, FS_CardinalityType

LEMMA FewerRows ==
  ASSUME NEW S, NEW T, IsFiniteSet(T), S \subseteq T
  PROVE  Cardinality(S) \in Nat /\ Cardinality(T) \in Nat /\ Cardinality(S) <= Cardinality(T)
  BY FS_Subset, FS_CardinalityType

LEMMA OneMoreRow ==
  ASSUME NEW S, NEW T, NEW x, IsFiniteSet(T), S \subseteq T \cup {x}
  PROVE  Cardinality(S) \in Nat /\ Cardinality(T) \in Nat /\ Cardinality(S) <= Cardinality(T) + 1
<1>1. IsFiniteSet(T \cup {x}) /\ Cardinality(T \cup {x}) <= Cardinality(T) + 1 /\ Cardinality(T) \in Nat
  BY FS_AddElement, FS_CardinalityType
<1>2. Cardinality(S) \in Nat /\ Cardinality(T \cup {x}) \in Nat /\ Cardinality(S) <= Cardinality(T \cup {x})
  BY <1>1, FewerRows
<1>3. QED
  BY <1>1, <1>2

LEMMA AttemptsAreNumbers ==
  ASSUME TypeOK, NEW s \in Schedules, NEW t \in Times
  PROVE  AttemptsOf(occurrence[s][t]) \in Nat
<1>1. CASE occurrence[s][t] = None
  BY <1>1 DEF AttemptsOf
<1>2. CASE occurrence[s][t] # None
  <2>1. occurrence[s][t].retries \in Nat
    <3>1. occurrence[s][t] \in OccurrenceRows
      BY <1>2, RowsOfTables
    <3>2. QED
      BY <3>1, Numbers DEF OccurrenceRows
  <2>2. QED
    BY <2>1 DEF AttemptsOf
<1>3. QED
  BY <1>1, <1>2

(* The aggregates survive a step that leaves the counters, removes occurrences
   and adds fresh ones. *)
LEMMA AggregatesKept ==
  ASSUME TypeOK, TypeOK', NEW s \in Schedules, schedule[s] # None, schedule'[s] # None,
         AggregatesOf(s),
         schedule'[s].runs = schedule[s].runs,
         schedule'[s].succeeded = schedule[s].succeeded, schedule'[s].failed = schedule[s].failed,
         \A u \in Times : occurrence'[s][u] \in {None, NewOccurrence, occurrence[s][u]},
         Under(s)' => Under(s)
  PROVE  AggregatesOf(s)'
<1>1. /\ schedule[s].runs \in Nat /\ schedule[s].succeeded \in Nat /\ schedule[s].failed \in Nat
  BY RowsOfTables, ScheduleRowTypes DEF Exists
<1>2. ASSUME NEW S, "open" \notin S
      PROVE  /\ RowsWith(s, S)' \subseteq RowsWith(s, S)
             /\ Cardinality(RowsWith(s, S)') \in Nat /\ Cardinality(RowsWith(s, S)) \in Nat
             /\ Cardinality(RowsWith(s, S)') <= Cardinality(RowsWith(s, S))
  <2>1. RowsWith(s, S)' \subseteq RowsWith(s, S)
    BY <1>2 DEF RowsWith, NewOccurrence
  <2>2. QED
    BY <2>1, RowsWithAreFinite, FewerRows
<1>3. Cardinality(RowsWith(s, {"completed"}))' <= schedule'[s].succeeded
  <2>1. "open" \notin {"completed"}
    OBVIOUS
  <2>2. QED
    BY <1>1, <1>2, <2>1 DEF AggregatesOf
<1>4. Cardinality(RowsWith(s, Outcomes \ {"open", "completed"}))' <= schedule'[s].failed
  <2>1. "open" \notin Outcomes \ {"open", "completed"}
    OBVIOUS
  <2>2. QED
    BY <1>1, <1>2, <2>1 DEF AggregatesOf
<1>5. schedule'[s].succeeded + schedule'[s].failed + (IF Under(s)' THEN 1 ELSE 0) <= schedule'[s].runs
  BY <1>1 DEF AggregatesOf
<1>6. ASSUME NEW t \in Times
      PROVE  AttemptsOf(occurrence'[s][t]) <= schedule'[s].runs
  <2>1. CASE occurrence'[s][t] = occurrence[s][t]
    BY <2>1 DEF AggregatesOf
  <2>2. CASE occurrence'[s][t] \in {None, NewOccurrence}
    BY <1>1, <2>2 DEF AttemptsOf, NewOccurrence
  <2>3. QED
    BY <2>1, <2>2
<1>7. QED
  BY <1>3, <1>4, <1>5, <1>6 DEF AggregatesOf

(* Operators leave the counters of a schedule that they do not create. *)
LEMMA OperatorsLeaveCounters ==
  ASSUME IInv, Operator, NEW r \in Schedules, schedule'[r] # None
  PROVE  \/ /\ schedule[r] # None /\ schedule'[r].runs = schedule[r].runs
            /\ schedule'[r].succeeded = schedule[r].succeeded /\ schedule'[r].failed = schedule[r].failed
         \/ /\ schedule[r] = None /\ r \notin used /\ schedule'[r].runs = 0
            /\ schedule'[r].succeeded = 0 /\ schedule'[r].failed = 0
<1> DEFINE Goal == \/ /\ schedule[r] # None /\ schedule'[r].runs = schedule[r].runs
                      /\ schedule'[r].succeeded = schedule[r].succeeded /\ schedule'[r].failed = schedule[r].failed
                   \/ /\ schedule[r] = None /\ r \notin used /\ schedule'[r].runs = 0
                      /\ schedule'[r].succeeded = 0 /\ schedule'[r].failed = 0
<1>1. TypeOK
  BY DEF IInv
<1>2. CASE schedule'[r] = schedule[r]
  BY <1>2
<1>3. SUFFICES ASSUME schedule'[r] # schedule[r]
               PROVE  Goal
  BY <1>2
<1>4. ASSUME NEW s \in Schedules, NEW o \in Owners, NEW rule \in Rules, NEW e \in BOOLEAN,
             Create(s, o, rule, e)
      PROVE  Goal
  BY <1>1, <1>3, <1>4 DEF Create, IInv, Links, RowsBelong, TypeOK
<1>5. ASSUME NEW s \in Schedules, NEW o \in Owners, NEW rule \in Rules, NEW e \in BOOLEAN,
             Update(s, o, rule, e)
      PROVE  Goal
  <2>1. r = s /\ schedule[r] # None /\ schedule[r] \in ScheduleRows
    BY <1>1, <1>3, <1>5, RowsOfTables DEF Update, Exists, TypeOK
  <2>2. CursorAfter(schedule[r], rule, e) \in {None} \cup (Nat \ {0})
    BY <1>1, <2>1, CursorAfterIsACursor
  <2>3. QED
    BY <1>1, <1>5, <2>1, <2>2, UpdatedRow
<1>6. ASSUME NEW S \in SUBSET Schedules, NEW e \in [S -> BOOLEAN], BatchUpdateStatus(S, e)
      PROVE  Goal
  <2>1. r \in S /\ schedule[r] # None /\ schedule[r] \in ScheduleRows
    BY <1>1, <1>3, <1>6, RowsOfTables DEF BatchUpdateStatus, Exists
  <2>2. PICK c : c = CursorAfter(schedule[r], schedule[r].rule, e[r])
    OBVIOUS
  <2>3. schedule'[r] = [schedule[r] EXCEPT !.enabled = e[r], !.cursor = c]
    BY <1>6, <2>1, <2>2 DEF BatchUpdateStatus
  <2>4. QED
    BY <2>1, <2>3 DEF ScheduleRows
<1>7. ASSUME NEW s \in Schedules, Delete(s) \/ DeleteForCleanup(s)
      PROVE  Goal
  BY <1>1, <1>3, <1>7 DEF Delete, DeleteForCleanup, DeleteLocked, TypeOK
<1>8. ASSUME NEW x \in Targets, DeleteTarget(x)
      PROVE  Goal
  BY <1>3, <1>8 DEF DeleteTarget
<1>9. CASE RetireOccurrences \/ Pause \/ Resume
  BY <1>3, <1>9 DEF RetireOccurrences, Pause, Resume, rows
<1>10. ASSUME NEW s \in Schedules, Garble(s)
       PROVE  Goal
  <2>1. /\ r = s /\ schedule[r] # None /\ schedule[r] \in ScheduleRows
        /\ schedule'[r] = [schedule[r] EXCEPT !.readable = FALSE]
    BY <1>1, <1>3, <1>10, GarbledRow DEF Garble, Exists
  <2>2. QED
    BY <2>1 DEF ScheduleRows
<1>11. QED
  BY <1>4, <1>5, <1>6, <1>7, <1>8, <1>9, <1>10, PlansAreTyped DEF Operator

LEMMA AttemptKeepsAggregates ==
  ASSUME IInv, AggregatesIInv, StartAttempt,
         NEW s, s = job.schedule, NEW t, t = job.time,
         Attemptable(s), Eligible(occurrence[s][t], clock), schedule[s].readable,
         NEW r \in Schedules, schedule'[r] # None
  PROVE  AggregatesOf(r)'
<1>1. /\ s \in Schedules /\ t \in Times
      /\ schedule[s] \in ScheduleRows
      /\ schedule'[s].runs = schedule[s].runs + 1
      /\ schedule'[s].succeeded = schedule[s].succeeded /\ schedule'[s].failed = schedule[s].failed
      /\ \A q \in Schedules : q # s => schedule'[q] = schedule[q]
      /\ occurrence[s][t] \in OccurrenceRows /\ occurrence'[s][t] \in OccurrenceRows
      /\ Reattemptable(occurrence[s][t])
      /\ occurrence'[s][t].retryAt = None
      /\ occurrence'[s][t].retries = occurrence[s][t].retries /\ occurrence'[s][t].outcome = "open"
      /\ \A q \in Schedules, u \in Times : <<q, u>> # <<s, t>> => occurrence'[q][u] = occurrence[q][u]
      /\ pc' = "create" /\ job'.schedule = s
  BY AttemptEffect
<1>2. TypeOK /\ TypeOK' /\ ~HandingOff
  BY ModelTypes DEF IInv, Next, Pass, StartAttempt, HandingOff
<1>3. CASE r # s
  <2>1. /\ schedule'[r] = schedule[r] /\ \A u \in Times : occurrence'[r][u] = occurrence[r][u]
        /\ ~Under(r)' /\ AggregatesOf(r)
    BY <1>1, <1>3 DEF Under, AggregatesIInv, Exists
  <2>2. QED
    BY <1>2, <2>1, AggregatesKept
<1>4. CASE r = s
  <2>1. /\ schedule[s].runs \in Nat /\ schedule[s].succeeded \in Nat /\ schedule[s].failed \in Nat
        /\ schedule[s] # None
    BY <1>1, ScheduleRowTypes
  <2>2. AggregatesOf(s) /\ ~Under(s)
    BY <1>1, <1>2, <2>1 DEF AggregatesIInv, Exists, Under
  <2>3. ASSUME NEW S, "open" \notin S
        PROVE  RowsWith(s, S)' = RowsWith(s, S)
    BY <1>1, <2>3 DEF RowsWith, Reattemptable
  <2>4. /\ RowsWith(s, {"completed"})' = RowsWith(s, {"completed"})
        /\ RowsWith(s, Outcomes \ {"open", "completed"})' = RowsWith(s, Outcomes \ {"open", "completed"})
    BY <2>3
  <2>5. schedule'[s].succeeded + schedule'[s].failed + 1 <= schedule'[s].runs
    BY <1>1, <2>1, <2>2 DEF AggregatesOf
  <2>6. ASSUME NEW u \in Times
        PROVE  AttemptsOf(occurrence'[s][u]) <= schedule'[s].runs
    <3>1. AttemptsOf(occurrence[s][u]) \in Nat /\ AttemptsOf(occurrence[s][u]) <= schedule[s].runs
      BY <1>1, <1>2, <2>2, AttemptsAreNumbers DEF AggregatesOf
    <3>2. CASE u # t
      BY <1>1, <2>1, <3>1, <3>2
    <3>3. CASE u = t
      <4>1. occurrence[s][t].retries \in Nat /\ occurrence[s][t] # None /\ occurrence'[s][t] # None
        BY <1>1, Numbers, NoneIsApart DEF OccurrenceRows
      <4>2. CASE occurrence[s][t].attempted = None
        <5>1. occurrence[s][t].retries = 0
          BY <1>1, <4>1, <4>2 DEF IInv, Links, OccurrencesAreHonest
        <5>2. AttemptsOf(occurrence'[s][t]) <= 1
          BY <1>1, <4>1, <5>1 DEF AttemptsOf
        <5>3. AttemptsOf(occurrence'[s][t]) \in Nat
          BY <1>1, <1>2, AttemptsAreNumbers DEF AttemptsOf, OccurrenceRows
        <5>4. QED
          BY <1>1, <2>1, <3>3, <5>2, <5>3
      <4>3. CASE occurrence[s][t].attempted # None
        <5>1. AttemptsOf(occurrence[s][t]) = occurrence[s][t].retries
          BY <1>1, <4>1, <4>3 DEF AttemptsOf, Reattemptable
        <5>2. AttemptsOf(occurrence'[s][t]) \in {0, occurrence[s][t].retries + 1}
          BY <1>1, <4>1 DEF AttemptsOf
        <5>3. QED
          BY <1>1, <2>1, <3>1, <3>3, <4>1, <5>1, <5>2
      <4>4. QED
        BY <4>2, <4>3
    <3>4. QED
      BY <3>2, <3>3
  <2>7. Under(s)'
    BY <1>1 DEF Under, HandingOff
  <2>8. QED
    BY <1>1, <1>4, <2>2, <2>4, <2>5, <2>6, <2>7 DEF AggregatesOf
<1>5. QED
  BY <1>3, <1>4

LEMMA RecordKeepsAggregates ==
  ASSUME IInv, AggregatesIInv, RecordOutcome, NEW r \in Schedules, schedule'[r] # None
  PROVE  AggregatesOf(r)'
<1>1. PICK s, t : s = job.schedule /\ t = job.time
  OBVIOUS
<1>2. /\ s \in Schedules /\ t \in Times /\ pc' = "idle"
      /\ \/ occurrence[s][t] = None /\ UNCHANGED <<schedule, occurrence>>
         \/ /\ occurrence[s][t] \in OccurrenceRows /\ occurrence'[s][t] \in OccurrenceRows
            /\ BeingTried(occurrence[s][t])
            /\ occurrence'[s][t].attempted = occurrence[s][t].attempted
            /\ \A q \in Schedules, u \in Times : <<q, u>> # <<s, t>> => occurrence'[q][u] = occurrence[q][u]
            /\ \/ /\ UNCHANGED schedule
                  /\ occurrence'[s][t].outcome = "open" /\ occurrence'[s][t].retryAt \in Nat
                  /\ occurrence'[s][t].retries = occurrence[s][t].retries + 1
               \/ /\ occurrence'[s][t].outcome # "open" /\ occurrence'[s][t].retryAt = None
                  /\ occurrence'[s][t].retries = occurrence[s][t].retries
                  /\ schedule[s] \in ScheduleRows
                  /\ schedule'[s] = Settled(schedule[s], occurrence'[s][t].outcome)
                  /\ \A q \in Schedules : q # s => schedule'[q] = schedule[q]
  BY <1>1, RecordEffect
<1>3. TypeOK /\ TypeOK' /\ Under(s) /\ ~Under(r)'
  BY <1>1, <1>2, ModelTypes DEF IInv, Next, Pass, HandOff, RecordOutcome, Under, HandingOff
<1>4. CASE /\ schedule'[r] = schedule[r]
           /\ \A u \in Times : occurrence'[r][u] = occurrence[r][u]
  <2>1. AggregatesOf(r)
    BY <1>4 DEF AggregatesIInv, Exists
  <2>2. QED
    BY <1>3, <1>4, <2>1, AggregatesKept
<1>5. CASE r # s
  BY <1>2, <1>4, <1>5
<1>6. CASE occurrence[s][t] = None /\ UNCHANGED <<schedule, occurrence>>
  BY <1>4, <1>6
<1>7. CASE /\ r = s /\ occurrence[s][t] \in OccurrenceRows
  <2>1. /\ occurrence[s][t] # None /\ occurrence[s][t].attempted # None
        /\ occurrence[s][t].retryAt = None /\ occurrence[s][t].outcome = "open"
        /\ occurrence'[s][t] \in OccurrenceRows /\ occurrence'[s][t] # None
        /\ occurrence'[s][t].attempted = occurrence[s][t].attempted
        /\ occurrence'[s][t].outcome \in Outcomes
    BY <1>2, <1>7, NoneIsApart DEF BeingTried, OccurrenceRows
  <2>2. schedule[s] # None /\ schedule[s] \in ScheduleRows
    BY <1>2, <1>3, <2>1 DEF IInv, Links, RowsBelong, TypeOK
  <2>3. /\ schedule[s].runs \in Nat /\ schedule[s].succeeded \in Nat /\ schedule[s].failed \in Nat
        /\ AggregatesOf(s)
    BY <1>2, <2>2, ScheduleRowTypes DEF AggregatesIInv, Exists
  <2>4. occurrence[s][t].retries \in Nat /\ AttemptsOf(occurrence[s][t]) = occurrence[s][t].retries + 1
    BY <1>7, <2>1, Numbers DEF OccurrenceRows, AttemptsOf
  <2>5. /\ AttemptsOf(occurrence'[s][t]) = occurrence[s][t].retries + 1
        /\ \A u \in Times : u # t => occurrence'[s][u] = occurrence[s][u]
    BY <1>2, <2>1, <2>4, NoneIsApart DEF AttemptsOf
  <2>6. schedule'[s].runs = schedule[s].runs
    BY <1>2, <2>1, <2>2 DEF Settled, ScheduleRows
  <2>7. \A u \in Times : AttemptsOf(occurrence'[s][u]) <= schedule'[s].runs
    BY <1>2, <2>3, <2>4, <2>5, <2>6 DEF AggregatesOf
  <2>8. CASE occurrence'[s][t].outcome = "open"
    <3>1. UNCHANGED schedule
      BY <1>2, <2>1, <2>8
    <3>2. /\ RowsWith(s, {"completed"})' = RowsWith(s, {"completed"})
          /\ RowsWith(s, Outcomes \ {"open", "completed"})' = RowsWith(s, Outcomes \ {"open", "completed"})
      BY <2>1, <2>5, <2>8 DEF RowsWith
    <3>3. schedule[s].succeeded + schedule[s].failed <= schedule[s].runs
      BY <1>3, <2>3 DEF AggregatesOf
    <3>4. schedule'[s].succeeded + schedule'[s].failed + 0 <= schedule'[s].runs
      BY <2>3, <3>1, <3>3
    <3>5. QED
      BY <1>3, <1>7, <2>3, <2>7, <3>1, <3>2, <3>4 DEF AggregatesOf
  <2>9. CASE occurrence'[s][t].outcome # "open"
    <3>1. schedule'[s] = Settled(schedule[s], occurrence'[s][t].outcome)
      BY <1>2, <2>1, <2>9
    <3>2. \A S : RowsWith(s, S)' \subseteq RowsWith(s, S) \cup {t}
      BY <2>5 DEF RowsWith
    <3>3. \A S : occurrence'[s][t].outcome \notin S => RowsWith(s, S)' \subseteq RowsWith(s, S)
      BY <2>5 DEF RowsWith
    <3> DEFINE Won == RowsWith(s, {"completed"})
               Lost == RowsWith(s, Outcomes \ {"open", "completed"})
    <3>4. /\ Cardinality(Won) \in Nat /\ Cardinality(Lost) \in Nat
          /\ Cardinality(Won') \in Nat /\ Cardinality(Lost') \in Nat
          /\ Cardinality(Won') <= Cardinality(Won) + 1 /\ Cardinality(Lost') <= Cardinality(Lost) + 1
      BY <3>2, RowsWithAreFinite, OneMoreRow
    <3>5. Cardinality(Won) <= schedule[s].succeeded /\ Cardinality(Lost) <= schedule[s].failed
      BY <2>3 DEF AggregatesOf
    <3>6. schedule[s].succeeded + schedule[s].failed + 1 <= schedule[s].runs
      BY <1>3, <2>3 DEF AggregatesOf
    <3>7. CASE occurrence'[s][t].outcome = "completed"
      <4>1. schedule'[s].succeeded = schedule[s].succeeded + 1 /\ schedule'[s].failed = schedule[s].failed
        BY <2>2, <3>1, <3>7 DEF Settled, ScheduleRows
      <4>2. Cardinality(Lost') <= Cardinality(Lost)
        BY <3>3, <3>7, RowsWithAreFinite, FewerRows
      <4>3. /\ Cardinality(Won') <= schedule'[s].succeeded /\ Cardinality(Lost') <= schedule'[s].failed
            /\ schedule'[s].succeeded + schedule'[s].failed + 0 <= schedule'[s].runs
        BY <2>3, <2>6, <3>4, <3>5, <3>6, <4>1, <4>2
      <4>4. QED
        BY <1>3, <1>7, <2>7, <4>3 DEF AggregatesOf
    <3>8. CASE occurrence'[s][t].outcome # "completed"
      <4>1. schedule'[s].succeeded = schedule[s].succeeded /\ schedule'[s].failed = schedule[s].failed + 1
        BY <2>2, <3>1, <3>8 DEF Settled, ScheduleRows
      <4>2. Cardinality(Won') <= Cardinality(Won)
        BY <3>3, <3>8, RowsWithAreFinite, FewerRows
      <4>3. /\ Cardinality(Won') <= schedule'[s].succeeded /\ Cardinality(Lost') <= schedule'[s].failed
            /\ schedule'[s].succeeded + schedule'[s].failed + 0 <= schedule'[s].runs
        BY <2>3, <2>6, <3>4, <3>5, <3>6, <4>1, <4>2
      <4>4. QED
        BY <1>3, <1>7, <2>7, <4>3 DEF AggregatesOf
    <3>9. QED
      BY <3>7, <3>8
  <2>10. QED
    BY <2>8, <2>9
<1>8. QED
  BY <1>2, <1>5, <1>6, <1>7

LEMMA StepKeepsAggregates ==
  ASSUME IInv, AggregatesIInv, [Next]_vars
  PROVE  AggregatesIInv'
<1>1. TypeOK /\ TypeOK' /\ job \in Passes
  BY ModelTypes DEF IInv, TypeOK
<1> SUFFICES ASSUME NEW r \in Schedules, schedule'[r] # None
             PROVE  AggregatesOf(r)'
  BY DEF AggregatesIInv, Exists
<1>2. ASSUME schedule[r] # None,
             schedule'[r].runs = schedule[r].runs,
             schedule'[r].succeeded = schedule[r].succeeded, schedule'[r].failed = schedule[r].failed,
             \A u \in Times : occurrence'[r][u] \in {None, NewOccurrence, occurrence[r][u]},
             Under(r)' => Under(r)
      PROVE  AggregatesOf(r)'
  <2>1. AggregatesOf(r)
    BY <1>2 DEF AggregatesIInv, Exists
  <2>2. QED
    BY <1>1, <1>2, <2>1, AggregatesKept
<1>3. ASSUME UNCHANGED <<schedule, occurrence>>, Under(r)' => Under(r)
      PROVE  AggregatesOf(r)'
  BY <1>2, <1>3
<1>4. CASE Operator
  <2>1. /\ UNCHANGED <<pc, job>>
        /\ \A u \in Times : occurrence'[r][u] \in {None, NewOccurrence, occurrence[r][u]}
        /\ Under(r)' => Under(r)
    BY <1>4, OperatorsOnlyRemove DEF Under, HandingOff
  <2>2. CASE schedule[r] # None
    BY <1>2, <1>4, <2>1, <2>2, OperatorsLeaveCounters
  <2>3. CASE schedule[r] = None
    <3>1. r \notin used /\ schedule'[r].runs = 0 /\ schedule'[r].succeeded = 0 /\ schedule'[r].failed = 0
      BY <1>4, <2>3, OperatorsLeaveCounters
    <3>2. \A u \in Times : occurrence[r][u] = None
      BY <2>3 DEF IInv, Links, RowsBelong
    <3>3. ~Under(r)
      BY <3>1, WorkOfThePass DEF IInv, Links, RowsBelong, Under, HandingOff
    <3>4. \A u \in Times : occurrence'[r][u] = None
      BY <1>4, <3>2, OperatorsOnlyRemove
    <3>5. \A S : RowsWith(r, S)' = {}
      BY <3>4 DEF RowsWith
    <3>6. /\ Cardinality(RowsWith(r, {"completed"})') = 0
          /\ Cardinality(RowsWith(r, Outcomes \ {"open", "completed"})') = 0
      BY <3>5, FS_EmptySet
    <3>7. \A u \in Times : AttemptsOf(occurrence'[r][u]) <= schedule'[r].runs
      BY <3>1, <3>4 DEF AttemptsOf
    <3>8. ~Under(r)'
      BY <2>1, <3>3 DEF Under
    <3>9. QED
      BY <3>1, <3>6, <3>7, <3>8 DEF AggregatesOf
  <2>4. QED
    BY <2>2, <2>3
<1>5. CASE ListDue
  BY <1>3, <1>5 DEF ListDue, Goto, Under, HandingOff
<1>6. CASE MaterializeDue
  <2>1. PICK s \in Schedules : s = NextDue.id
    BY <1>1, <1>6, NextDueIsDue DEF MaterializeDue
  <2>2. PICK t : t = LatestAtOrBefore(schedule[s].rule, schedule[s].cursor, job.evaluated)
    OBVIOUS
  <2>3. ~Under(r)'
    BY <1>6 DEF MaterializeDue, Goto, Under, HandingOff
  <2>4. CASE ~StillDue(s)
    BY <1>3, <1>6, <2>1, <2>3, <2>4 DEF MaterializeDue
  <2>5. CASE StillDue(s)
    <3>1. t \in Times /\ schedule[s] \in ScheduleRows
      BY <2>2, <2>5, MaterializedInstant
    <3>2. /\ schedule' = [schedule EXCEPT ![s].cursor = NextRunTime(s)]
          /\ occurrence' = [occurrence EXCEPT ![s][t] = IF @ = None THEN NewOccurrence ELSE @]
      BY <1>6, <2>1, <2>2, <2>5 DEF MaterializeDue
    <3>3. \A u \in Times : occurrence'[r][u] \in {NewOccurrence, occurrence[r][u]}
      BY <1>1, <3>1, <3>2 DEF TypeOK
    <3>4. CASE r = s
      <4>1. schedule'[s] = [schedule[s] EXCEPT !.cursor = NextRunTime(s)]
        BY <1>1, <3>2 DEF TypeOK
      <4>2. /\ schedule'[s].runs = schedule[s].runs
            /\ schedule'[s].succeeded = schedule[s].succeeded /\ schedule'[s].failed = schedule[s].failed
        BY <3>1, <4>1 DEF ScheduleRows
      <4>3. schedule[s] # None
        BY <3>1, NoneIsApart
      <4>4. QED
        BY <1>2, <2>3, <3>3, <3>4, <4>2, <4>3
    <3>5. CASE r # s
      <4>1. schedule'[r] = schedule[r]
        BY <1>1, <3>2, <3>5 DEF TypeOK
      <4>2. QED
        BY <1>2, <2>3, <3>3, <4>1
    <3>6. QED
      BY <3>4, <3>5
  <2>6. QED
    BY <2>4, <2>5
<1>7. CASE SelectAttemptCandidate
  <2>1. pc' \in {"idle", "attempt"}
    BY <1>7 DEF SelectAttemptCandidate, Goto
  <2>2. QED
    BY <1>3, <1>7, <2>1 DEF SelectAttemptCandidate, Under, HandingOff
<1>8. CASE StartAttempt
  <2>1. PICK s, t : s = job.schedule /\ t = job.time
    OBVIOUS
  <2>2. CASE Attemptable(s) /\ Eligible(occurrence[s][t], clock) /\ schedule[s].readable
    BY <1>8, <2>1, <2>2, AttemptKeepsAggregates
  <2>3. CASE ~(Attemptable(s) /\ Eligible(occurrence[s][t], clock) /\ schedule[s].readable)
    BY <1>3, <1>8, <2>1, <2>3 DEF StartAttempt, Goto, Under, HandingOff
  <2>4. QED
    BY <2>2, <2>3
<1>9. CASE HandOff
  <2>1. CASE RecordOutcome
    BY <2>1, RecordKeepsAggregates
  <2>2. CASE ~RecordOutcome
    <3>1. Creating
      BY <1>9, <2>2 DEF HandOff, CreatePreparedScan, MissTarget, FailBatch, ExceedDeadline,
                        LoseAcknowledgement, FinishBatch
    <3>2. UNCHANGED <<schedule, occurrence>> /\ job'.schedule = job.schedule /\ pc = "create"
      BY <1>9, <3>1, CreatingEffect
    <3>3. QED
      BY <1>3, <3>2 DEF Under, HandingOff
  <2>3. QED
    BY <2>1, <2>2
<1>10. CASE PassFails
  BY <1>3, <1>10 DEF PassFails, Goto, rows, Under, HandingOff
<1>11. CASE Restart
  BY <1>3, <1>11 DEF Restart, Goto, rows, Under, HandingOff
<1>12. CASE Tick
  BY <1>3, <1>12 DEF Tick, rows, controller, Under, HandingOff
<1>13. CASE UNCHANGED vars
  BY <1>3, <1>13 DEF vars, rows, controller, Under, HandingOff
<1>14. QED
  BY <1>4, <1>5, <1>6, <1>7, <1>8, <1>9, <1>10, <1>11, <1>12, <1>13 DEF Next, Pass

(* The aggregates of a schedule account for every occurrence that is left:
   outcomes are counted once, and no run has two of them. *)
THEOREM AggregatesAreSound == Spec => []AggregatesAddUp
<1>1. Init => AggregatesIInv
  BY DEF Init, AggregatesIInv, Exists
<1>2. IInv /\ AggregatesIInv /\ [Next]_vars => AggregatesIInv'
  BY StepKeepsAggregates
<1>3. IInv /\ AggregatesIInv => AggregatesAddUp
  <2> SUFFICES ASSUME IInv, AggregatesIInv
               PROVE  AggregatesAddUp
    OBVIOUS
  <2>1. ASSUME NEW s \in Schedules, Exists(s)
        PROVE  /\ AggregatesOf(s)
               /\ schedule[s].succeeded + schedule[s].failed <= schedule[s].runs
    <3>1. AggregatesOf(s)
      BY <2>1 DEF AggregatesIInv
    <3>2. /\ schedule[s].runs \in Nat /\ schedule[s].succeeded \in Nat /\ schedule[s].failed \in Nat
      BY <2>1, RowsOfTables, ScheduleRowTypes DEF IInv
    <3>3. schedule[s].succeeded + schedule[s].failed <= schedule[s].runs
      BY <3>1, <3>2 DEF AggregatesOf
    <3>4. QED
      BY <3>1, <3>3
  <2>2. QED
    BY <2>1 DEF AggregatesAddUp, AggregatesOf, RowsWith, AttemptsOf
<1>4. QED
  BY <1>1, <1>2, <1>3, ScheduleInvariance, PTL DEF Spec

-----------------------------------------------------------------------------
(* The ledger of occurrences, instant by instant *)

LedgerStates == {"none", "open", "trying", "closed", "lost", "gone"}

LEMMA LedgerStateTypes ==
  ASSUME NEW s, NEW t
  PROVE  LedgerState(s, t) \in LedgerStates
  BY DEF LedgerState, LedgerStates

LEMMA StutterStep ==
  ASSUME UNCHANGED <<scans, untold>>,
         \A s \in Schedules, t \in Times : LedgerState(s, t)' = LedgerState(s, t)
  PROVE  [Ledger!LedgerNext]_(Ledger!ledger)
<1>1. [s \in Schedules |-> [t \in Times |-> LedgerState(s, t)]]' =
          [s \in Schedules |-> [t \in Times |-> LedgerState(s, t)]]
  OBVIOUS
<1>2. QED
  BY <1>1 DEF Ledger!ledger

LEMMA BecomeStep ==
  ASSUME NEW s \in Schedules, NEW t \in Times, NEW from, NEW to,
         LedgerState(s, t) = from, LedgerState(s, t)' = to,
         \A r \in Schedules, u \in Times : <<r, u>> # <<s, t>> => LedgerState(r, u)' = LedgerState(r, u)
  PROVE  Ledger!Become(s, t, from, to)
<1> DEFINE before == [r \in Schedules |-> [u \in Times |-> LedgerState(r, u)]]
<1>1. PICK old \in [Schedules -> [Times -> LedgerStates]] :
          old = before /\ \A r \in Schedules, u \in Times : old[r][u] = LedgerState(r, u)
  <2>1. \A r \in Schedules, u \in Times : LedgerState(r, u) \in LedgerStates
    BY LedgerStateTypes
  <2>2. before \in [Schedules -> [Times -> LedgerStates]]
    BY <2>1
  <2>3. \A r \in Schedules, u \in Times : before[r][u] = LedgerState(r, u)
    OBVIOUS
  <2>4. QED
    BY <2>2, <2>3
<1>2. before' = [r \in Schedules |-> [u \in Times |-> LedgerState(r, u)']]
  OBVIOUS
<1>3. before' = [old EXCEPT ![s] = [@ EXCEPT ![t] = to]]
  <2>1. ASSUME NEW r \in Schedules
        PROVE  [u \in Times |-> LedgerState(r, u)'] = [old EXCEPT ![s] = [@ EXCEPT ![t] = to]][r]
    <3>1. CASE r = s
      <4>1. [u \in Times |-> LedgerState(r, u)'] = [old[s] EXCEPT ![t] = to]
        BY <1>1, <3>1
      <4>2. QED
        BY <1>1, <3>1, <4>1
    <3>2. CASE r # s
      <4>1. [u \in Times |-> LedgerState(r, u)'] = old[r]
        BY <1>1, <3>2
      <4>2. QED
        BY <1>1, <3>2, <4>1
    <3>3. QED
      BY <3>1, <3>2
  <2>2. QED
    BY <1>1, <1>2, <2>1
<1>4. before[s][t] = from /\ before' = [before EXCEPT ![s][t] = to]
  BY <1>1, <1>3
<1>5. QED
  BY <1>4 DEF Ledger!Become

LEMMA DropStep ==
  ASSUME UNCHANGED <<scans, untold>>,
         \A s \in Schedules, t \in Times :
             \/ LedgerState(s, t)' = LedgerState(s, t)
             \/ LedgerState(s, t) \in {"open", "closed", "lost"} /\ LedgerState(s, t)' = "gone"
  PROVE  Ledger!LedgerNext
<1>1. \A s \in Schedules, t \in Times : LedgerState(s, t)' \in LedgerStates
  BY LedgerStateTypes DEF LedgerStates
<1>2. Ledger!Drop
  BY <1>1 DEF Ledger!Drop, LedgerStates
<1>3. QED
  BY <1>2 DEF Ledger!LedgerNext

(* What an occurrence is to the ledger follows from its row and the pass. *)
LEMMA SameState ==
  ASSUME NEW s, NEW t,
         occurrence'[s][t] = occurrence[s][t], t \in seen'[s] <=> t \in seen[s],
         (HandingOff /\ job.schedule = s /\ job.time = t)'
             <=> (HandingOff /\ job.schedule = s /\ job.time = t)
  PROVE  LedgerState(s, t)' = LedgerState(s, t)
  BY DEF LedgerState, HandingOff

LEMMA QuietStep ==
  ASSUME UNCHANGED <<occurrence, history>>,
         \/ UNCHANGED <<pc, job>>
         \/ ~HandingOff /\ ~HandingOff'
  PROVE  [Ledger!LedgerNext]_(Ledger!ledger)
<1>1. ASSUME NEW s \in Schedules, NEW t \in Times
      PROVE  LedgerState(s, t)' = LedgerState(s, t)
  BY SameState DEF history, HandingOff
<1>2. QED
  BY <1>1, StutterStep DEF history

LEMMA OperatorRefines ==
  ASSUME IInv, Operator
  PROVE  Ledger!LedgerNext
<1>1. /\ UNCHANGED <<pc, job, seen, scans, untold>>
      /\ \A r \in Schedules, u \in Times : occurrence'[r][u] \in {None, occurrence[r][u]}
  BY OperatorsOnlyRemove DEF history
<1>2. ASSUME NEW s \in Schedules, NEW t \in Times
      PROVE  \/ LedgerState(s, t)' = LedgerState(s, t)
             \/ LedgerState(s, t) \in {"open", "closed", "lost"} /\ LedgerState(s, t)' = "gone"
  <2>1. CASE occurrence'[s][t] = occurrence[s][t]
    BY <1>1, <2>1, SameState DEF HandingOff
  <2>2. CASE occurrence'[s][t] = None /\ occurrence[s][t] # None
    <3>1. t \in seen[s]
      BY <2>2 DEF IInv, Links, OccurrencesAreHonest
    <3>2. QED
      BY <1>1, <2>2, <3>1 DEF LedgerState
  <2>3. QED
    BY <1>1, <2>1, <2>2
<1>3. QED
  BY <1>1, <1>2, DropStep

LEMMA MaterializeRefines ==
  ASSUME IInv, MaterializeDue
  PROVE  [Ledger!LedgerNext]_(Ledger!ledger)
<1>1. TypeOK /\ job \in Passes
  BY DEF IInv, TypeOK
<1>2. PICK s \in Schedules : s = NextDue.id
  BY <1>1, NextDueIsDue DEF MaterializeDue
<1>3. PICK t : t = LatestAtOrBefore(schedule[s].rule, schedule[s].cursor, job.evaluated)
  OBVIOUS
<1>4. ~HandingOff /\ ~HandingOff' /\ UNCHANGED <<scans, untold>>
  BY DEF MaterializeDue, Goto, HandingOff
<1>5. CASE ~StillDue(s)
  BY <1>2, <1>4, <1>5, QuietStep DEF MaterializeDue, history
<1>6. CASE StillDue(s)
  <2>1. t \in Times
    BY <1>3, <1>6, MaterializedInstant
  <2>2. \A u \in Times : u >= t => occurrence[s][u] = None /\ u \notin seen[s]
    BY <1>3, <1>6, NotSeenBefore
  <2>3. /\ occurrence' = [occurrence EXCEPT ![s][t] = IF @ = None THEN NewOccurrence ELSE @]
        /\ seen' = [seen EXCEPT ![s] = @ \cup {t}]
    BY <1>2, <1>3, <1>6 DEF MaterializeDue
  <2>4. occurrence[s][t] = None /\ t \notin seen[s]
    BY <2>1, <2>2, Numbers DEF Times
  <2>5. /\ occurrence'[s][t] = NewOccurrence
        /\ \A r \in Schedules, u \in Times : <<r, u>> # <<s, t>> =>
                occurrence'[r][u] = occurrence[r][u] /\ (u \in seen'[r] <=> u \in seen[r])
    BY <1>1, <2>1, <2>3, <2>4 DEF TypeOK
  <2>6. LedgerState(s, t) = "none"
    BY <1>4, <2>4 DEF LedgerState, HandingOff
  <2>7. LedgerState(s, t)' = "open"
    <3>1. NewOccurrence # None /\ NewOccurrence.outcome = "open" /\ NewOccurrence.attempted = None
      BY FreshRows, NoneIsApart DEF NewOccurrence
    <3>2. QED
      BY <1>4, <2>5, <3>1 DEF LedgerState, HandingOff
  <2>8. \A r \in Schedules, u \in Times : <<r, u>> # <<s, t>> => LedgerState(r, u)' = LedgerState(r, u)
    BY <1>4, <2>5, SameState
  <2>9. \A u \in Times : u > t => LedgerState(s, u) = "none"
    <3>1. ASSUME NEW u \in Times, u > t
          PROVE  LedgerState(s, u) = "none"
      <4>1. u >= t
        BY <2>1, <3>1, Numbers DEF Times
      <4>2. QED
        BY <1>4, <2>2, <4>1 DEF LedgerState, HandingOff
    <3>2. QED
      BY <3>1
  <2>10. Ledger!Become(s, t, "none", "open")
    BY <2>1, <2>6, <2>7, <2>8, BecomeStep
  <2>11. Ledger!Materialize(s, t)
    BY <1>4, <2>9, <2>10 DEF Ledger!Materialize
  <2>12. QED
    BY <2>1, <2>11 DEF Ledger!LedgerNext
<1>7. QED
  BY <1>5, <1>6

LEMMA AttemptRefines ==
  ASSUME IInv, StartAttempt
  PROVE  [Ledger!LedgerNext]_(Ledger!ledger)
<1>1. PICK s, t : s = job.schedule /\ t = job.time
  OBVIOUS
<1>2. UNCHANGED history /\ ~HandingOff
  BY DEF StartAttempt, HandingOff
<1>3. CASE ~(Attemptable(s) /\ Eligible(occurrence[s][t], clock) /\ schedule[s].readable)
  BY <1>1, <1>2, <1>3, QuietStep DEF StartAttempt, Goto, HandingOff
<1>4. CASE Attemptable(s) /\ Eligible(occurrence[s][t], clock) /\ schedule[s].readable
  <2>1. /\ s \in Schedules /\ t \in Times
        /\ Reattemptable(occurrence[s][t])
        /\ occurrence[s][t] # None
        /\ \A r \in Schedules, u \in Times : <<r, u>> # <<s, t>> => occurrence'[r][u] = occurrence[r][u]
        /\ pc' = "create" /\ job'.schedule = s /\ job'.time = t
    BY <1>1, <1>4, AttemptEffect, NoneIsApart
  <2>2. LedgerState(s, t) = "open"
    BY <1>2, <2>1 DEF LedgerState, Reattemptable, HandingOff
  <2>3. LedgerState(s, t)' = "trying"
    BY <2>1 DEF LedgerState
  <2>4. \A r \in Schedules, u \in Times : <<r, u>> # <<s, t>> => LedgerState(r, u)' = LedgerState(r, u)
    <3>1. ASSUME NEW r \in Schedules, NEW u \in Times, <<r, u>> # <<s, t>>
          PROVE  LedgerState(r, u)' = LedgerState(r, u)
      <4>1. ~(HandingOff /\ job.schedule = r /\ job.time = u)'
        BY <2>1, <3>1
      <4>2. occurrence'[r][u] = occurrence[r][u] /\ (u \in seen'[r] <=> u \in seen[r])
        BY <1>2, <2>1, <3>1 DEF history
      <4>3. QED
        BY <1>2, <4>1, <4>2, SameState
    <3>2. QED
      BY <3>1
  <2>5. \A r \in Schedules : \A u \in Times : LedgerState(r, u) # "trying"
    BY <1>2 DEF LedgerState, HandingOff
  <2>6. Ledger!Become(s, t, "open", "trying")
    BY <2>1, <2>2, <2>3, <2>4, BecomeStep
  <2>7. Ledger!Begin(s, t)
    BY <1>2, <2>5, <2>6 DEF Ledger!Begin, history
  <2>8. QED
    BY <2>1, <2>7 DEF Ledger!LedgerNext
<1>5. QED
  BY <1>3, <1>4

(* The end of a hand-off, by its outcome or by a failure. *)
LEMMA EndOfHandOff ==
  ASSUME IInv, HandingOff, ~HandingOff', UNCHANGED history,
         NEW s, s = job.schedule, NEW t, t = job.time,
         \A r \in Schedules, u \in Times : <<r, u>> # <<s, t>> => occurrence'[r][u] = occurrence[r][u],
         \/ LedgerState(s, t)' \in {"closed", "lost", "gone"}
         \/ LedgerState(s, t)' = "open" /\ Untouched(s, t)
  PROVE  Ledger!LedgerNext
<1>1. s \in Schedules /\ t \in Times
  BY WorkOfThePass DEF HandingOff
<1>2. PICK to : to = LedgerState(s, t)'
  OBVIOUS
<1>3. LedgerState(s, t) = "trying"
  BY DEF LedgerState, HandingOff
<1>4. \A r \in Schedules, u \in Times : <<r, u>> # <<s, t>> => LedgerState(r, u)' = LedgerState(r, u)
  BY SameState DEF history
<1>5. Ledger!Become(s, t, "trying", to)
  BY <1>1, <1>2, <1>3, <1>4, BecomeStep
<1>6. CASE to \in {"closed", "lost", "gone"}
  <2>1. Ledger!Conclude(s, t)
    BY <1>5, <1>6 DEF Ledger!Conclude, history
  <2>2. QED
    BY <1>1, <2>1 DEF Ledger!LedgerNext
<1>7. CASE to = "open" /\ Untouched(s, t)
  <2>1. Ledger!TryAgain(s, t)
    BY <1>5, <1>7 DEF Ledger!TryAgain, Ledger!Untouched, Untouched, history
  <2>2. QED
    BY <1>1, <2>1 DEF Ledger!LedgerNext
<1>8. QED
  BY <1>2, <1>6, <1>7

(* A failure ends the pass: what was tried is lost, or its row is gone. *)
LEMMA FailureRefines ==
  ASSUME IInv, UNCHANGED <<occurrence, history>>, pc' = "idle"
  PROVE  [Ledger!LedgerNext]_(Ledger!ledger)
<1>1. ~HandingOff'
  BY DEF HandingOff
<1>2. CASE ~HandingOff
  BY <1>1, <1>2, QuietStep
<1>3. CASE HandingOff
  <2>1. PICK s, t : s = job.schedule /\ t = job.time
    OBVIOUS
  <2>2. t \in seen[s] /\ BeingTried(occurrence[s][t])
    BY <1>3, <2>1, WorkOfThePass DEF IInv, Links, PassIsFaithful, HandingOff
  <2>3. LedgerState(s, t)' \in {"lost", "gone"}
    BY <1>1, <2>2 DEF LedgerState, BeingTried, HandingOff, history
  <2>4. QED
    BY <1>1, <1>3, <2>1, <2>3, EndOfHandOff
<1>4. QED
  BY <1>2, <1>3

LEMMA RecordRefines ==
  ASSUME IInv, RecordOutcome
  PROVE  Ledger!LedgerNext
<1>1. PICK s, t : s = job.schedule /\ t = job.time
  OBVIOUS
<1>2. /\ s \in Schedules /\ t \in Times /\ t \in seen[s]
      /\ pc' = "idle" /\ UNCHANGED history
      /\ \/ occurrence[s][t] = None /\ UNCHANGED <<schedule, occurrence>>
         \/ /\ occurrence[s][t] \in OccurrenceRows /\ occurrence'[s][t] \in OccurrenceRows
            /\ BeingTried(occurrence[s][t])
            /\ occurrence'[s][t].attempted = occurrence[s][t].attempted
            /\ \A r \in Schedules, u \in Times : <<r, u>> # <<s, t>> => occurrence'[r][u] = occurrence[r][u]
            /\ \/ /\ job.created = 0 /\ job.error # "deadline"
                  /\ occurrence'[s][t].outcome = "open" /\ occurrence'[s][t].retryAt \in Nat
               \/ /\ occurrence'[s][t].outcome # "open" /\ occurrence'[s][t].retryAt = None
  BY <1>1, RecordEffect
<1>3. HandingOff /\ ~HandingOff'
  BY <1>2 DEF RecordOutcome, HandingOff
<1>4. CASE occurrence[s][t] = None /\ UNCHANGED <<schedule, occurrence>>
  <2>1. LedgerState(s, t)' = "gone"
    BY <1>2, <1>3, <1>4 DEF LedgerState, HandingOff, history
  <2>2. QED
    BY <1>1, <1>2, <1>3, <1>4, <2>1, EndOfHandOff
<1>5. CASE /\ occurrence[s][t] \in OccurrenceRows
           /\ job.created = 0 /\ job.error # "deadline"
           /\ occurrence'[s][t].outcome = "open" /\ occurrence'[s][t].retryAt \in Nat
  <2>1. occurrence[s][t] # None /\ occurrence'[s][t] # None /\ occurrence'[s][t].retryAt # None
    BY <1>2, <1>5, NoneIsApart
  <2>2. LedgerState(s, t)' = "open"
    BY <1>2, <1>3, <1>5, <2>1 DEF LedgerState, HandingOff
  <2>3. Untouched(s, t)
    BY <1>1, <1>3, <1>5 DEF IInv, Links, PassIsFaithful
  <2>4. QED
    BY <1>1, <1>2, <1>3, <2>1, <2>2, <2>3, EndOfHandOff
<1>6. CASE /\ occurrence[s][t] \in OccurrenceRows
           /\ occurrence'[s][t].outcome # "open" /\ occurrence'[s][t].retryAt = None
  <2>1. occurrence[s][t] # None /\ occurrence'[s][t] # None
    BY <1>2, <1>6, NoneIsApart
  <2>2. LedgerState(s, t)' = "closed"
    BY <1>2, <1>3, <1>6, <2>1 DEF LedgerState, HandingOff
  <2>3. QED
    BY <1>1, <1>2, <1>3, <2>1, <2>2, EndOfHandOff
<1>7. QED
  BY <1>2, <1>4, <1>5, <1>6

LEMMA CreatingRefines ==
  ASSUME IInv, Creating, HandOff
  PROVE  [Ledger!LedgerNext]_(Ledger!ledger)
<1>1. PICK s \in Schedules, t \in Times : s = job.schedule /\ t = job.time
  BY CreatingEffect
<1>2. /\ UNCHANGED <<occurrence, seen>> /\ pc = "create" /\ pc' \in {"create", "record"}
      /\ job'.schedule = s /\ job'.time = t
      /\ untold' \in {untold, untold \cup {<<s, t>>}}
      /\ \/ UNCHANGED <<scans, untold>>
         \/ \E x \in job.left : scans' = [scans EXCEPT ![s][t][x] = @ + 1]
  BY <1>1, CreatingEffect
<1>3. \A r \in Schedules, u \in Times : LedgerState(r, u)' = LedgerState(r, u)
  BY <1>1, <1>2, SameState DEF HandingOff
<1>4. CASE UNCHANGED <<scans, untold>>
  BY <1>3, <1>4, StutterStep
<1>5. CASE \E x \in job.left : scans' = [scans EXCEPT ![s][t][x] = @ + 1]
  <2>1. PICK x \in job.left : scans' = [scans EXCEPT ![s][t][x] = @ + 1]
    BY <1>5
  <2>2. x \in Targets
    BY PassTypes DEF IInv, TypeOK
  <2>3. scans[s][t][x] = 0 \/ <<s, t>> \in untold
    BY <1>1, <1>2 DEF IInv, Links, PassIsFaithful
  <2>4. [r \in Schedules |-> [u \in Times |-> LedgerState(r, u)]][s][t] = "trying"
    BY <1>1, <1>2 DEF LedgerState
  <2>5. [r \in Schedules |-> [u \in Times |-> LedgerState(r, u)]]' =
            [r \in Schedules |-> [u \in Times |-> LedgerState(r, u)]]
    BY <1>3
  <2>6. Ledger!MakeScan(s, t, x)
    BY <1>2, <2>1, <2>3, <2>4, <2>5 DEF Ledger!MakeScan
  <2>7. QED
    BY <2>2, <2>6 DEF Ledger!LedgerNext
<1>6. QED
  BY <1>2, <1>4, <1>5

LEMMA StepRefines ==
  ASSUME IInv, [Next]_vars
  PROVE  [Ledger!LedgerNext]_(Ledger!ledger)
<1>1. CASE Operator
  BY <1>1, OperatorRefines
<1>2. CASE ListDue \/ SelectAttemptCandidate
  <2>1. UNCHANGED <<occurrence, history>> /\ ~HandingOff /\ ~HandingOff'
    BY <1>2 DEF ListDue, SelectAttemptCandidate, Goto, HandingOff
  <2>2. QED
    BY <2>1, QuietStep
<1>3. CASE MaterializeDue
  BY <1>3, MaterializeRefines
<1>4. CASE StartAttempt
  BY <1>4, AttemptRefines
<1>5. CASE HandOff
  <2>1. CASE RecordOutcome
    BY <2>1, RecordRefines
  <2>2. CASE ~RecordOutcome
    <3>1. Creating
      BY <1>5, <2>2 DEF HandOff, CreatePreparedScan, MissTarget, FailBatch, ExceedDeadline,
                        LoseAcknowledgement, FinishBatch
    <3>2. QED
      BY <1>5, <3>1, CreatingRefines
  <2>3. QED
    BY <2>1, <2>2
<1>6. CASE PassFails \/ Restart
  BY <1>6, FailureRefines DEF PassFails, Restart, Goto, rows
<1>7. CASE Tick \/ UNCHANGED vars
  BY <1>7, QuietStep DEF Tick, vars, rows, controller
<1>8. QED
  BY <1>1, <1>2, <1>3, <1>4, <1>5, <1>6, <1>7 DEF Next, Pass

LEMMA InitRefines == Init => Ledger!LedgerInit
<1>1. Init => \A s \in Schedules, t \in Times : LedgerState(s, t) = "none"
  BY DEF Init, LedgerState
<1>2. QED
  BY <1>1 DEF Init, Ledger!LedgerInit

(* The scheduler keeps the promise of OccurrenceLedger: every instant comes up
   once and in order, is handed off alone, and is tried again only over nothing,
   whatever operators, retention, restarts and failed queries do meanwhile. *)
THEOREM SchedulerKeepsTheLedger == Spec => KeepsTheLedger
<1>1. IInv /\ [Next]_vars => [Ledger!LedgerNext]_(Ledger!ledger)
  BY StepRefines
<1>2. QED
  BY <1>1, InitRefines, ScheduleInvariance, PTL DEF Spec, KeepsTheLedger, Ledger!LedgerSpec
=============================================================================
