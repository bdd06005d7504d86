---------------------------- MODULE ScheduledScans ----------------------------
(***************************************************************************)
(* Scheduled scans (src/server/internal/modules/scheduledscan): the tables *)
(* scheduled_scan and scheduled_scan_occurrence, the one scheduler         *)
(* goroutine that materialises due occurrences, attempts one of them and   *)
(* hands it to normal scan creation, and the operators, the target cleanup *)
(* and the retention job that write the same tables meanwhile.             *)
(*                                                                         *)
(* A step is one database transaction with the local work around it.  Time *)
(* is a counter; a time rule is the set of instants it matches, and every  *)
(* schedule belongs to one target or to the one organization.              *)
(***************************************************************************)
EXTENDS Integers, FiniteSets

CONSTANTS
    Schedules,       \* scheduled scan identifiers, numbers
    Targets,         \* target identifiers, numbers
    Organization,    \* the organization a schedule may belong to
    Members,         \* organization_target: the targets of the organization
    Owners,          \* targets and organization that may own schedules
    Plans,           \* Plans[s]: the inputs of Create for schedule s
    Edits,           \* Edits[s]: the inputs of Update for schedule s
    Rules,           \* time rules: a cron expression with a time zone
    Matches,         \* Matches[r]: the instants rule r matches
    MaxTime,         \* bound on the clock
    MaxRetries,      \* MaxHandoffRetries
    RetryDelay,      \* RetryDelay[n]: HandoffRetryDelay
    HandoffDeadline, \* handoffDeadline
    RetentionAge,    \* occurrenceRetentionAge
    MaxFaults,       \* bound on restarts, failed queries and lost commits
    MaxCommands,     \* bound on edits, deletions, pauses and garbled rows
    Events,          \* operator commands and other events of the instance
    None             \* SQL NULL; no row; no local value

Times == 1 .. MaxTime

Outcomes == {"open", "completed", "partial", "deadline_exceeded", "scan_create_failed"}

ScheduleRows == [
    enabled : BOOLEAN, owner : Owners, rule : Rules, readable : BOOLEAN,
    cursor : {None} \cup (Nat \ {0}), lastRun : {None} \cup (0 .. MaxTime), runs : Nat, succeeded : Nat, failed : Nat]

OccurrenceRows == [
    attempted : {None} \cup (0 .. MaxTime), retries : 0 .. MaxRetries,
    retryAt : {None} \cup Nat, outcome : Outcomes]

ASSUME ScheduleAssumption ==
    /\ Schedules \subseteq Nat
    /\ Targets \subseteq Nat
    /\ Organization \notin Targets
    /\ Members \subseteq Targets
    /\ Plans \in [Schedules -> SUBSET [owner : Owners, rule : Rules, enabled : BOOLEAN]]
    /\ Edits \in [Schedules -> SUBSET [owner : Owners, rule : Rules, enabled : BOOLEAN]]
    /\ Owners \subseteq Targets \cup {Organization}
    /\ None \notin Nat \cup ScheduleRows \cup OccurrenceRows
    /\ MaxTime \in Nat /\ MaxRetries \in Nat /\ MaxFaults \in Nat /\ MaxCommands \in Nat
    /\ HandoffDeadline \in Nat /\ RetentionAge \in Nat
    /\ RetryDelay \in [1 .. MaxRetries -> Nat]
    /\ Matches \in [Rules -> SUBSET Nat]
    /\ \A r \in Rules : \E m \in Matches[r] : m > MaxTime

VARIABLES
    clock,      \* the wall clock
    active,     \* targets without deleted_at
    schedule,   \* schedule[s]: row of scheduled_scan, None when there is none
    occurrence, \* occurrence[s][t]: row of scheduled_scan_occurrence for instant t
    paused,     \* SchedulerController.paused
    pc,         \* where the scheduler goroutine is in RunPass
    job,        \* the local variables of the pass
    faults,     \* faults so far
    commands,   \* edits, deletions, pauses and garbled rows so far
    used,       \* schedule identifiers given out, for the sequence of the table
    \* For checking only:
    seen,       \* seen[s]: instants an occurrence was ever materialised for
    scans,      \* scans[s][t][x]: scans created of target x for that occurrence
    untold      \* occurrences of which a commit went unacknowledged

rows == <<active, schedule, occurrence>>
controller == <<paused, pc, job>>
history == <<seen, scans, untold>>
vars == <<clock, rows, controller, faults, commands, used, history>>

NoJob == [evaluated |-> 0, due |-> {}, schedule |-> None, time |-> None,
          attempted |-> 0, left |-> {}, created |-> 0, missed |-> 0, error |-> "none"]

NewOccurrence == [attempted |-> None, retries |-> 0, retryAt |-> None, outcome |-> "open"]

Init ==
    /\ clock = 0
    /\ active = Targets
    /\ schedule = [s \in Schedules |-> None]
    /\ occurrence = [s \in Schedules |-> [t \in Times |-> None]]
    /\ paused = FALSE
    /\ pc = "idle"
    /\ job = NoJob
    /\ faults = 0
    /\ commands = 0
    /\ used = {}
    /\ seen = [s \in Schedules |-> {}]
    /\ scans = [s \in Schedules |-> [t \in Times |-> [x \in Targets |-> 0]]]
    /\ untold = {}

-----------------------------------------------------------------------------
(* Time rules                                                              *)

FirstAfter(r, t) ==
    CHOOSE m \in Matches[r] : m > t /\ \A n \in Matches[r] : n > t => m <= n

(* Given a persisted cursor that is due at t. *)
LatestAtOrBefore(r, cursor, t) ==
    LET missed == {cursor} \cup {m \in Matches[r] : cursor < m /\ m <= t}
    IN  CHOOSE m \in missed : \A n \in missed : n <= m

-----------------------------------------------------------------------------
(* Management of schedules                                                 *)

Command(event) ==
    /\ event \in Events
    /\ commands < MaxCommands
    /\ commands' = commands + 1

Exists(s) == schedule[s] # None

(* lockActiveScheduledScanTargets: organizations have no tombstone. *)
OwnerActive(o) == o = Organization \/ o \in active

Create(s, owner, rule, enabled) ==
    /\ "create" \in Events
    /\ s \notin used
    /\ \A other \in Schedules \ used : s <= other
    /\ OwnerActive(owner)
    /\ used' = used \cup {s}
    /\ schedule' = [schedule EXCEPT ![s] =
           [enabled |-> enabled, owner |-> owner, rule |-> rule, readable |-> TRUE,
            cursor |-> IF enabled THEN FirstAfter(rule, clock) ELSE None,
            lastRun |-> None, runs |-> 0, succeeded |-> 0, failed |-> 0]]
    /\ UNCHANGED <<clock, active, occurrence, controller, faults, commands, history>>

(* applyScheduledScanStatusTransition, and Update's new cursor for a changed
   time rule. *)
CursorAfter(row, rule, enabled) ==
    IF ~enabled THEN None
    ELSE IF row.enabled /\ row.rule = rule THEN row.cursor
    ELSE FirstAfter(rule, clock)

Unsettled(o) == o # None /\ o.outcome = "open"

(* Mutant: disabling removes only what was never attempted. *)
OccurrencesUnattempted(s, enabled) ==
    LET Fresh(o) == o # None /\ o.attempted = None
    IN  [t \in Times |-> IF ~enabled /\ Fresh(occurrence[s][t]) THEN None ELSE occurrence[s][t]]

OccurrencesAfter(s, enabled) ==
    [t \in Times |-> IF ~enabled /\ Unsettled(occurrence[s][t]) THEN None ELSE occurrence[s][t]]

Update(s, owner, rule, enabled) ==
    /\ Command("update")
    /\ Exists(s)
    /\ OwnerActive(schedule[s].owner) /\ OwnerActive(owner)
    /\ \E rewritten \in BOOLEAN : schedule' = [schedule EXCEPT
           ![s].owner = owner, ![s].rule = rule, ![s].enabled = enabled,
           ![s].readable = rewritten \/ @,
           ![s].cursor = CursorAfter(schedule[s], rule, enabled)]
    /\ occurrence' = [occurrence EXCEPT ![s] = OccurrencesAfter(s, enabled)]
    /\ UNCHANGED <<clock, active, controller, faults, used, history>>

(* External: the configuration or the input source of the row is written by
   hand or by another version, and StartAttempt cannot decode it. *)
Garble(s) ==
    /\ Command("garble")
    /\ Exists(s)
    /\ schedule' = [schedule EXCEPT ![s].readable = FALSE]
    /\ UNCHANGED <<clock, active, occurrence, controller, faults, used, history>>

(* All of them or none. *)
BatchUpdateStatus(S, enabled) ==
    /\ Command("status")
    /\ \A s \in S : Exists(s) /\ OwnerActive(schedule[s].owner)
    /\ schedule' = [s \in Schedules |-> IF s \notin S THEN schedule[s] ELSE
           [schedule[s] EXCEPT !.enabled = enabled[s],
            !.cursor = CursorAfter(schedule[s], schedule[s].rule, enabled[s])]]
    /\ occurrence' = [s \in Schedules |->
           IF s \in S THEN OccurrencesAfter(s, enabled[s]) ELSE occurrence[s]]
    /\ UNCHANGED <<clock, active, controller, faults, used, history>>

DeleteLocked(s) ==
    /\ schedule' = [schedule EXCEPT ![s] = None]
    /\ occurrence' = [occurrence EXCEPT ![s] = [t \in Times |-> None]]
    /\ UNCHANGED <<clock, active, controller, faults, used, history>>

Delete(s) == Command("delete") /\ Exists(s) /\ DeleteLocked(s)

(* DeleteTargetScopedForCleanup, one schedule of a tombstone per transaction. *)
DeleteForCleanup(s) ==
    /\ Exists(s)
    /\ schedule[s].owner \in Targets \ active
    /\ \A other \in Schedules :
           Exists(other) /\ schedule[other].owner = schedule[s].owner => s <= other
    /\ DeleteLocked(s)
    /\ UNCHANGED commands

DeleteTarget(x) ==
    /\ Command("delete target")
    /\ x \in active
    /\ active' = active \ {x}
    /\ UNCHANGED <<clock, schedule, occurrence, controller, faults, used, history>>

(* DeleteOccurrenceBatch *)
RetireOccurrences ==
    LET Retired(o) == o # None /\ o.attempted # None /\ o.attempted + RetentionAge <= clock
    IN  /\ "retention" \in Events
        /\ \E s \in Schedules : \E t \in Times : Retired(occurrence[s][t])
        /\ occurrence' = [s \in Schedules |-> [t \in Times |->
               IF Retired(occurrence[s][t]) THEN None ELSE occurrence[s][t]]]
        /\ UNCHANGED <<clock, active, schedule, controller, faults, commands, used, history>>

-----------------------------------------------------------------------------
(* The scheduler goroutine: RunPass                                        *)

Goto(label, local) == pc' = label /\ job' = local

Environment == <<clock, active, paused, faults, commands, used>>

(* A pass reads paused once, when it begins. *)
ListDue ==
    /\ pc = "idle"
    /\ ~paused
    /\ LET due == {s \in Schedules :
               Exists(s) /\ schedule[s].enabled /\ schedule[s].cursor <= clock
               /\ OwnerActive(schedule[s].owner)}
       IN  Goto("materialize", [NoJob EXCEPT !.evaluated = clock,
               !.due = {[id |-> s, cursor |-> schedule[s].cursor] : s \in due}])
    /\ UNCHANGED <<Environment, schedule, occurrence, history>>

NextDue == CHOOSE d \in job.due : \A e \in job.due :
    d.cursor < e.cursor \/ (d.cursor = e.cursor /\ d.id <= e.id)

(* The schedule is read again, under its lock. *)
StillDue(s) ==
    /\ Exists(s)
    /\ OwnerActive(schedule[s].owner)
    /\ schedule[s].enabled
    /\ schedule[s].cursor <= job.evaluated

(* Mutant: the cursor moves on from itself, so that missed instants are
   caught up one by one. *)
NextRunTimeFromCursor(s) == FirstAfter(schedule[s].rule, schedule[s].cursor)

NextRunTime(s) == FirstAfter(schedule[s].rule, job.evaluated)

MaterializeDue ==
    /\ pc = "materialize"
    /\ job.due # {}
    /\ LET s == NextDue.id
           t == LatestAtOrBefore(schedule[s].rule, schedule[s].cursor, job.evaluated)
       IN  IF StillDue(s)
           THEN /\ occurrence' = [occurrence EXCEPT ![s][t] = IF @ = None THEN NewOccurrence ELSE @]
                /\ schedule' = [schedule EXCEPT ![s].cursor = NextRunTime(s)]
                /\ seen' = [seen EXCEPT ![s] = @ \cup {t}]
           ELSE UNCHANGED <<schedule, occurrence, seen>>
    /\ Goto("materialize", [job EXCEPT !.due = @ \ {NextDue}])
    /\ UNCHANGED <<Environment, scans, untold>>

(* attemptEligibleSQL, at instant t *)
Eligible(o, t) ==
    /\ o # None
    /\ \/ o.attempted = None
       \/ o.retryAt # None /\ o.retryAt <= t /\ o.outcome = "open"

Attemptable(s) ==
    /\ Exists(s)
    /\ schedule[s].enabled
    /\ OwnerActive(schedule[s].owner)

Waiting(s) == {t \in Times : Eligible(occurrence[s][t], clock)}

(* Mutant: selection does not look at the target's tombstone. *)
CandidatesOfDeletedTargets ==
    {s \in Schedules : Exists(s) /\ schedule[s].enabled /\ Waiting(s) # {}}

Candidates == {s \in Schedules : Attemptable(s) /\ Waiting(s) # {}}

(* last_run_time ASC NULLS FIRST, id ASC *)
WaitsLonger(s, other) ==
    LET Since(x) == IF schedule[x].lastRun = None THEN -1 ELSE schedule[x].lastRun
    IN  Since(s) < Since(other) \/ (Since(s) = Since(other) /\ s <= other)

SelectAttemptCandidate ==
    /\ pc = "materialize"
    /\ job.due = {}
    /\ IF Candidates = {} THEN Goto("idle", NoJob)
       ELSE \E s \in Candidates : \E t \in Waiting(s) :
           /\ \A other \in Candidates : WaitsLonger(s, other)
           /\ \A earlier \in Waiting(s) : t <= earlier
           /\ Goto("attempt", [NoJob EXCEPT !.schedule = s, !.time = t])
    /\ UNCHANGED <<Environment, schedule, occurrence, history>>

(* freezeScheduledScanTargetIDs *)
FrozenTargets(owner) == IF owner = Organization THEN Members \cap active ELSE {owner}

StartAttempt ==
    /\ pc = "attempt"
    /\ LET s == job.schedule
           t == job.time
       IN  IF Attemptable(s) /\ Eligible(occurrence[s][t], clock) /\ schedule[s].readable
           THEN /\ occurrence' = [occurrence EXCEPT ![s][t].attempted = clock, ![s][t].retryAt = None]
                /\ schedule' = [schedule EXCEPT ![s].runs = @ + 1, ![s].lastRun = clock]
                /\ Goto("create", [job EXCEPT !.attempted = clock,
                                              !.left = FrozenTargets(schedule[s].owner)])
           ELSE Goto("idle", NoJob) /\ UNCHANGED <<schedule, occurrence>>
    /\ UNCHANGED <<Environment, history>>

-----------------------------------------------------------------------------
(* Dispatch: CreateBatch creates the scans of the frozen targets one by    *)
(* one, each in a transaction of its own.                                  *)

NextTarget == CHOOSE x \in job.left : \A y \in job.left : x <= y

CreateScan(x) ==
    scans' = [scans EXCEPT ![job.schedule][job.time][x] = @ + 1]

Creating ==
    /\ pc = "create"
    /\ UNCHANGED <<clock, active, paused, commands, used, schedule, occurrence, seen>>

CreatePreparedScan ==
    /\ Creating
    /\ job.left # {} /\ NextTarget \in active
    /\ CreateScan(NextTarget)
    /\ Goto("create", [job EXCEPT !.left = @ \ {NextTarget}, !.created = @ + 1])
    /\ UNCHANGED <<faults, untold>>

(* TARGET_NOT_FOUND: the target is gone, or its lookup failed. *)
MissTarget ==
    /\ Creating
    /\ job.left # {}
    /\ Goto("create", [job EXCEPT !.left = @ \ {NextTarget}, !.missed = @ + 1])
    /\ UNCHANGED <<faults, scans, untold>>

(* Any other error ends the batch. *)
FailBatch ==
    /\ Creating
    /\ job.left # {}
    /\ Goto("record", [job EXCEPT !.left = {}, !.error = "failed"])
    /\ UNCHANGED <<faults, scans, untold>>

(* The commit may have come through before the deadline was noticed. *)
ExceedDeadline ==
    /\ Creating
    /\ job.left # {}
    /\ Goto("record", [job EXCEPT !.left = {}, !.error = "deadline"])
    /\ \/ UNCHANGED scans
       \/ NextTarget \in active /\ CreateScan(NextTarget)
    /\ UNCHANGED <<faults, untold>>

(* The connection is lost after the commit and before its acknowledgement. *)
LoseAcknowledgement ==
    /\ Creating
    /\ job.left # {} /\ NextTarget \in active
    /\ faults < MaxFaults
    /\ faults' = faults + 1
    /\ CreateScan(NextTarget)
    /\ untold' = untold \cup {<<job.schedule, job.time>>}
    /\ Goto("record", [job EXCEPT !.left = {}, !.error = "failed"])

(* ErrNoTargetsForScan when nothing was frozen. *)
FinishBatch ==
    /\ Creating
    /\ job.left = {}
    /\ Goto("record", IF job.created + job.missed = 0 THEN [job EXCEPT !.error = "failed"] ELSE job)
    /\ UNCHANGED <<faults, scans, untold>>

-----------------------------------------------------------------------------
(* The outcome of the hand-off                                             *)

(* Mutant: an error hides what was created before it. *)
ClassifyByError ==
    CASE job.error = "failed"   -> "scan_create_failed"
      [] job.error = "deadline" -> "deadline_exceeded"
      [] job.error = "none" /\ job.created = 0 -> "scan_create_failed"
      [] OTHER -> IF job.missed = 0 THEN "completed" ELSE "partial"

ClassifyHandoff ==
    CASE job.created > 0 /\ job.missed = 0 /\ job.error = "none" -> "completed"
      [] job.created > 0 /\ ~(job.missed = 0 /\ job.error = "none") -> "partial"
      [] job.created = 0 /\ job.error = "deadline" -> "deadline_exceeded"
      [] OTHER -> "scan_create_failed"

(* HandoffRetryDelay *)
Delay(n) == IF n \in 1 .. MaxRetries THEN RetryDelay[n] ELSE 0

(* Mutant: one retry too many. *)
RetryableOnceMore(outcome, retries) == outcome = "scan_create_failed" /\ retries <= MaxRetries

(* RetryableAfterFailures *)
Retryable(outcome, retries) == outcome = "scan_create_failed" /\ retries < MaxRetries

(* Mutant: the counter column is never switched. *)
SettledAsFailure(row, outcome) == [row EXCEPT !.failed = @ + 1]

Settled(row, outcome) ==
    IF outcome = "completed" THEN [row EXCEPT !.succeeded = @ + 1]
                             ELSE [row EXCEPT !.failed = @ + 1]

RecordOutcome ==
    /\ pc = "record"
    /\ LET s == job.schedule
           t == job.time
           o == occurrence[s][t]
           outcome == ClassifyHandoff
       IN  CASE Unsettled(o) /\ o.attempted # None /\ o.retryAt = None /\ Retryable(outcome, o.retries) ->
                  /\ occurrence' = [occurrence EXCEPT ![s][t].retries = @ + 1,
                         ![s][t].retryAt = clock + Delay(o.retries + 1)]
                  /\ UNCHANGED schedule
             [] Unsettled(o) /\ o.attempted # None /\ ~Retryable(outcome, o.retries) ->
                  /\ occurrence' = [occurrence EXCEPT ![s][t].outcome = outcome, ![s][t].retryAt = None]
                  /\ schedule' = [schedule EXCEPT ![s] = Settled(@, outcome)]
             [] OTHER -> UNCHANGED <<schedule, occurrence>>
    /\ Goto("idle", NoJob)
    /\ UNCHANGED <<Environment, history>>

-----------------------------------------------------------------------------
(* Pause for maintenance, faults and time                                  *)

Pause ==
    /\ Command("pause")
    /\ ~paused
    /\ paused' = TRUE
    /\ UNCHANGED <<clock, rows, pc, job, faults, used, history>>

Resume ==
    /\ paused
    /\ paused' = FALSE
    /\ UNCHANGED <<clock, rows, pc, job, faults, commands, used, history>>

(* A query fails: its transaction is rolled back and the pass ends. *)
PassFails ==
    /\ pc \in {"materialize", "attempt", "record"}
    /\ faults < MaxFaults
    /\ faults' = faults + 1
    /\ Goto("idle", NoJob)
    /\ UNCHANGED <<clock, rows, paused, commands, used, history>>

(* The server stops, the context of a pass being cancelled, and starts again. *)
Restart ==
    /\ faults < MaxFaults
    /\ faults' = faults + 1
    /\ paused' = FALSE
    /\ Goto("idle", NoJob)
    /\ UNCHANGED <<clock, rows, commands, used, history>>

(* A hand-off does not outlive its deadline. *)
Tick ==
    /\ clock < MaxTime
    /\ pc = "create" => clock < job.attempted + HandoffDeadline
    /\ clock' = clock + 1
    /\ UNCHANGED <<rows, controller, faults, commands, used, history>>

-----------------------------------------------------------------------------

Operator ==
    \/ \E s \in Schedules : \E p \in Plans[s] : Create(s, p.owner, p.rule, p.enabled)
    \/ \E s \in Schedules : \E p \in Edits[s] : Update(s, p.owner, p.rule, p.enabled)
    \/ \E s \in Schedules : Garble(s)
    \/ \E S \in SUBSET Schedules \ {{}} : \E e \in [S -> BOOLEAN] : BatchUpdateStatus(S, e)
    \/ \E s \in Schedules : Delete(s) \/ DeleteForCleanup(s)
    \/ \E x \in Targets : DeleteTarget(x)
    \/ RetireOccurrences
    \/ Pause
    \/ Resume

HandOff ==
    \/ CreatePreparedScan
    \/ MissTarget
    \/ FailBatch
    \/ ExceedDeadline
    \/ LoseAcknowledgement
    \/ FinishBatch
    \/ RecordOutcome

Pass ==
    \/ ListDue
    \/ MaterializeDue
    \/ SelectAttemptCandidate
    \/ StartAttempt
    \/ HandOff

Next == Operator \/ Pass \/ PassFails \/ Restart \/ Tick

Spec == Init /\ [][Next]_vars

(* The scheduler goroutine is scheduled, its calls return, and a pause ends. *)
FairSpec == Spec /\ WF_vars(Pass) /\ WF_vars(Resume)

-----------------------------------------------------------------------------
(* Properties                                                              *)

Passes == [
    evaluated : 0 .. MaxTime, due : SUBSET [id : Schedules, cursor : 0 .. MaxTime],
    schedule : {None} \cup Schedules, time : {None} \cup Times,
    attempted : 0 .. MaxTime, left : SUBSET Targets, created : Nat, missed : Nat,
    error : {"none", "failed", "deadline"}]

(* The rows, the controller and the history are of their types. *)
TypeOK ==
    /\ clock \in 0 .. MaxTime
    /\ active \subseteq Targets
    /\ schedule \in [Schedules -> {None} \cup ScheduleRows]
    /\ occurrence \in [Schedules -> [Times -> {None} \cup OccurrenceRows]]
    /\ paused \in BOOLEAN
    /\ pc \in {"idle", "materialize", "attempt", "create", "record"}
    /\ job \in Passes
    /\ faults \in 0 .. MaxFaults
    /\ commands \in 0 .. MaxCommands
    /\ used \subseteq Schedules
    /\ seen \in [Schedules -> SUBSET Times]
    /\ scans \in [Schedules -> [Times -> [Targets -> Nat]]]
    /\ untold \subseteq Schedules \X Times

(* The cursor of an enabled schedule is later than every occurrence ever
   materialised for it, whatever was edited, disabled, caught up or removed
   meanwhile: no instant can come up twice. *)
CursorIsAhead ==
    \A s \in Schedules : Exists(s) /\ schedule[s].enabled =>
        \A t \in seen[s] : t < schedule[s].cursor

(* A disabled schedule has no cursor and nothing left that could be attempted
   or retried, including what a hand-off in progress leaves behind.  It is what
   scheduledScanUnsettledOccurrences removes: the documents of the module speak
   of unattempted occurrences only (OccurrencesUnattempted). *)
DisabledScheduleIsQuiet ==
    \A s \in Schedules : Exists(s) =>
        /\ schedule[s].enabled <=> schedule[s].cursor # None
        /\ ~schedule[s].enabled => \A t \in Times : ~Unsettled(occurrence[s][t])

(* The aggregates of a schedule account for the occurrences it still has:
   every settled one is counted under its outcome, every attempt as a run,
   and no run has two outcomes. *)
AggregatesAddUp ==
    LET Rows(s, S) == {t \in Times : occurrence[s][t] # None /\ occurrence[s][t].outcome \in S}
        Attempts(s, t) == LET o == occurrence[s][t]
            IN  IF o = None \/ o.attempted = None THEN 0
                ELSE o.retries + (IF o.retryAt = None THEN 1 ELSE 0)
    IN  \A s \in Schedules : Exists(s) =>
            /\ Cardinality(Rows(s, {"completed"})) <= schedule[s].succeeded
            /\ Cardinality(Rows(s, Outcomes \ {"open", "completed"})) <= schedule[s].failed
            /\ schedule[s].succeeded + schedule[s].failed <= schedule[s].runs
            /\ \A t \in Times : Attempts(s, t) <= schedule[s].runs

(* The state of an occurrence as OccurrenceLedger sees it: "trying" from the
   start of an attempt to the end of its pass, whatever becomes of the row. *)
LedgerState(s, t) ==
    LET o == occurrence[s][t]
    IN  IF pc \in {"create", "record"} /\ job.schedule = s /\ job.time = t THEN "trying"
        ELSE IF o = None THEN IF t \in seen[s] THEN "gone" ELSE "none"
        ELSE IF o.outcome # "open" THEN "closed"
        ELSE IF o.attempted = None \/ o.retryAt # None THEN "open"
        ELSE "lost"

Ledger == INSTANCE OccurrenceLedger WITH
    state <- [s \in Schedules |-> [t \in Times |-> LedgerState(s, t)]],
    made   <- scans,
    untold <- untold

(* The scheduler keeps the promise of the ledger: an occurrence comes up once
   and in order, is handed off alone, creates at most one scan per target, is
   retried only if it created nothing that it was told of, and is never
   reopened, through disabling, deletion, retention, restarts and failed queries. *)
KeepsTheLedger == Ledger!LedgerSpec

(* A candidate that cannot be decoded is selected on every pass, as its
   last_run_time is rolled back with the attempt: what has waited less long than
   it is not reached, for as long as the row is left so. *)
HeldBack(s) == \E u \in Candidates : ~schedule[u].readable /\ WaitsLonger(u, s)

(* An occurrence that may be attempted is attempted, or may not be attempted
   any more, whatever the other schedules have waiting, retry or lose and
   whether their targets are gone - except behind a schedule that StartAttempt
   cannot decode. *)
OccurrencesAreTakenUp ==
    \A s \in Schedules : \A t \in Times :
        LET Due == Attemptable(s) /\ Eligible(occurrence[s][t], clock)
        IN  Due ~> (~Due \/ HeldBack(s))
==============================================================================
