---------------------------- MODULE TargetCleanup ----------------------------
(* Deleting a target, and everything that writes on its behalf meanwhile.     *)
(*                                                                            *)
(* DELETE commits a tombstone and a durable cleanup job in one transaction    *)
(* (modules/catalog). The in-process runner of modules/targetcleanup then     *)
(* removes what the target owns, one short transaction at a time, keeping no  *)
(* phase or cursor: after a failure, a deferral or a restart it starts again  *)
(* from the first condition. The writers run all along: schedules,            *)
(* organisation links, scan creation, the claim of a task by the agent, and   *)
(* the result batches of modules/resultingest, whose admission check and      *)
(* whose transaction are two steps with anything between them.                *)
(*                                                                            *)
(* One transaction is one action. The runner's loops are steps of `runner`.   *)
EXTENDS Naturals, Sequences, FiniteSets, SequencesExt

CONSTANTS
    Targets, Schedules, Scans,
    Resources,      \* the asset tables, a sequence in the order they are emptied
    Keys,           \* natural keys of the rows of one table
    BatchSize,      \* TARGET_CLEANUP_BATCH_SIZE
    MaxBatches,     \* TARGET_CLEANUP_MAX_BATCHES_PER_RUN
    MaxEpoch,       \* bound: agent sessions
    MaxFaults,      \* bound: failed transactions and restarts
    MaxInFlight,    \* bound: requests under way
    Writers         \* which writers this instance has

NoTarget == "no target"

ASSUME CleanupAssumption ==
    /\ NoTarget \notin Targets
    /\ Resources \in Seq(Range(Resources))
    /\ Writers \subseteq {"schedule", "link", "scan", "batch", "asset request"}
    /\ BatchSize \in Nat \ {0} /\ MaxBatches \in Nat \ {0} /\ MaxEpoch \in Nat \ {0}
    /\ MaxFaults \in Nat /\ MaxInFlight \in Nat

Assets == Range(Resources) \X Keys
ActiveStatuses == {"pending", "running"}

VARIABLES
    target,     \* the target row: absent, live, or deleted (its tombstone)
    job,        \* target_cleanup_job: none, pending or completed
    due,        \* next_retry_at has passed
    linked,     \* organization_target holds a row for the target
    policy,     \* its blacklist_policy row exists
    schedule,   \* the target a scheduled_scan row is for
    scan,       \* a scan row with its task's lease; how it ended is not kept
    rows,       \* the asset rows of a target
    snapshot,   \* the snapshot rows of a scan
    session,    \* the agent's session epoch persisted in agent_runtime_status
    requests,   \* result batches and asset requests past their admission check
    runner,     \* the runner's place in Reconcile
    faults

vars == <<target, job, due, linked, policy, schedule, scan, rows, snapshot,
          session, requests, runner, faults>>
owners == <<linked, policy, schedule, scan, rows, snapshot, session, requests>>

Idle == [step |-> "idle", target |-> NoTarget, listed |-> {}, left |-> <<>>, batches |-> 0]

Requests ==
    [kind : {"batch"}, scan : Scans, epoch : 1 .. MaxEpoch, asset : Assets]
        \cup [kind : {"asset request"}, target : Targets, asset : Assets]

\* The tables still to be emptied.
TablesLeft == {SubSeq(Resources, i, Len(Resources)) : i \in 1 .. Len(Resources) + 1}

\* The places of the runner, with what it knows there.
Places ==
    [step : {"idle", "next", "confirm", "schedules", "control", "scans", "assets", "complete"},
     target : Targets \cup {NoTarget}, listed : SUBSET Targets,
     left : TablesLeft, batches : 0 .. MaxBatches]

\* The types of the tables, of the requests under way and of the runner.
TypeOK ==
    /\ target \in [Targets -> {"absent", "live", "deleted"}]
    /\ job \in [Targets -> {"none", "pending", "completed"}]
    /\ due \in [Targets -> BOOLEAN]
    /\ linked \in [Targets -> BOOLEAN]
    /\ policy \in [Targets -> BOOLEAN]
    /\ schedule \in [Schedules -> Targets \cup {NoTarget}]
    /\ scan \in [Scans -> [target : Targets \cup {NoTarget},
                           status : ActiveStatuses \cup {"absent", "ended"},
                           lease : 0 .. MaxEpoch]]
    /\ rows \in [Targets -> SUBSET Assets]
    /\ snapshot \in [Scans -> SUBSET Assets]
    /\ session \in 1 .. MaxEpoch
    /\ requests \subseteq Requests
    /\ runner \in Places
    /\ faults \in 0 .. MaxFaults

Init ==
    /\ target = [t \in Targets |-> "absent"]
    /\ job = [t \in Targets |-> "none"]
    /\ due = [t \in Targets |-> FALSE]
    /\ linked = [t \in Targets |-> FALSE]
    /\ policy = [t \in Targets |-> FALSE]
    /\ schedule = [s \in Schedules |-> NoTarget]
    /\ scan = [s \in Scans |-> [target |-> NoTarget, status |-> "absent", lease |-> 0]]
    /\ rows = [t \in Targets |-> {}]
    /\ snapshot = [s \in Scans |-> {}]
    /\ session = 1
    /\ requests = {}
    /\ runner = Idle
    /\ faults = 0

-----------------------------------------------------------------------------
(* The target row.                                                            *)

\* Mutant: the writers look at the target without looking at its tombstone.
ExistsAtAll(t) == target[t] # "absent"

\* The writers' lock: the row, and no tombstone on it.
LockActive(t) == target[t] = "live"

CreateTarget(t) ==
    /\ target[t] = "absent"
    /\ target' = [target EXCEPT ![t] = "live"]
    /\ policy' = [policy EXCEPT ![t] = TRUE]
    /\ UNCHANGED <<job, due, linked, schedule, scan, rows, snapshot, session, requests, runner, faults>>

\* TombstoneAndEnsureCleanup and its batch: all or nothing, and a job that
\* exists already, completed or not, is left as it is.
DeleteTargets(ts) ==
    /\ \A t \in ts : target[t] # "absent"
    /\ target' = [t \in Targets |-> IF t \in ts THEN "deleted" ELSE target[t]]
    /\ job' = [t \in Targets |-> IF t \in ts /\ job[t] = "none" THEN "pending" ELSE job[t]]
    /\ due' = [t \in Targets |-> due[t] \/ (t \in ts /\ job[t] = "none")]
    /\ UNCHANGED <<owners, runner, faults>>

-----------------------------------------------------------------------------
(* The writers that lock the target in their transaction.                     *)

LinkTarget(t) ==
    /\ "link" \in Writers
    /\ LockActive(t)
    /\ linked' = [linked EXCEPT ![t] = TRUE]
    /\ UNCHANGED <<target, job, due, policy, schedule, scan, rows, snapshot, session, requests, runner, faults>>

\* A schedule is created for a target, or edited to another: an edit locks the
\* target it leaves as well.
SaveSchedule(s, t) ==
    /\ "schedule" \in Writers
    /\ schedule[s] # NoTarget => LockActive(schedule[s])
    /\ LockActive(t)
    /\ schedule' = [schedule EXCEPT ![s] = t]
    /\ UNCHANGED <<target, job, due, linked, policy, scan, rows, snapshot, session, requests, runner, faults>>

CreateScan(s, t) ==
    /\ "scan" \in Writers
    /\ scan[s].status = "absent"
    /\ LockActive(t)
    /\ scan' = [scan EXCEPT ![s] = [@ EXCEPT !.target = t, !.status = "pending"]]
    /\ UNCHANGED <<target, job, due, linked, policy, schedule, rows, snapshot, session, requests, runner, faults>>

-----------------------------------------------------------------------------
(* The agent's session and the scan's task. None of these looks at the        *)
(* target: only the scan's status stops them.                                 *)

ClaimTask(s) ==
    /\ scan[s].status = "pending"
    /\ scan' = [scan EXCEPT ![s].status = "running", ![s].lease = session]
    /\ UNCHANGED <<target, job, due, linked, policy, schedule, rows, snapshot, session, requests, runner, faults>>

\* The agent's terminal result, accepted from the session that holds the lease.
EndTask(s) ==
    /\ scan[s].status = "running"
    /\ scan[s].lease = session
    /\ scan' = [scan EXCEPT ![s].status = "ended"]
    /\ UNCHANGED <<target, job, due, linked, policy, schedule, rows, snapshot, session, requests, runner, faults>>

StopScan(s) ==
    /\ scan[s].status \in ActiveStatuses
    /\ scan' = [scan EXCEPT ![s].status = "ended"]
    /\ UNCHANGED <<target, job, due, linked, policy, schedule, rows, snapshot, session, requests, runner, faults>>

RecordConnection ==
    /\ session < MaxEpoch
    /\ session' = session + 1
    /\ UNCHANGED <<target, job, due, linked, policy, schedule, scan, rows, snapshot, requests, runner, faults>>

FenceSupersededSession(s) ==
    /\ scan[s].status = "running"
    /\ scan[s].lease < session
    /\ scan' = [scan EXCEPT ![s].status = "ended"]
    /\ UNCHANGED <<target, job, due, linked, policy, schedule, rows, snapshot, session, requests, runner, faults>>

-----------------------------------------------------------------------------
(* Requests whose check and whose write are two steps.                        *)

\* The data plane admits a batch: the session is the persisted one, and the
\* task is running under it.
AdmitBatch(s, asset) ==
    /\ "batch" \in Writers
    /\ Cardinality(requests) < MaxInFlight
    /\ scan[s].status = "running"
    /\ scan[s].lease = session
    /\ requests' = requests \cup {[kind |-> "batch", scan |-> s, epoch |-> session, asset |-> asset]}
    /\ UNCHANGED <<target, job, due, linked, policy, schedule, scan, rows, snapshot, session, runner, faults>>

\* Mutant: the transaction trusts the session the transport admitted.
AdmittedExecution(b) ==
    /\ LockActive(scan[b.scan].target)
    /\ scan[b.scan].status = "running"
    /\ scan[b.scan].lease = b.epoch

\* The rows lockActiveResultExecution locks again inside the transaction.
LockActiveExecution(b) ==
    /\ LockActive(scan[b.scan].target)
    /\ scan[b.scan].status = "running"
    /\ session = b.epoch
    /\ scan[b.scan].lease = b.epoch

\* The batch lands whole, snapshot and asset rows together, or not at all; the
\* rows are upserts by natural key. The agent may send a batch again (AdmitBatch).
Materialize(b) ==
    /\ b.kind = "batch"
    /\ requests' = requests \ {b}
    /\ IF LockActiveExecution(b)
         THEN /\ rows' = [rows EXCEPT ![scan[b.scan].target] = @ \cup {b.asset}]
              /\ snapshot' = [snapshot EXCEPT ![b.scan] = @ \cup {b.asset}]
         ELSE UNCHANGED <<rows, snapshot>>
    /\ UNCHANGED <<target, job, due, linked, policy, schedule, scan, session, runner, faults>>

\* BatchCreate of the HTTP asset resources reads the target, and holds nothing.
AdmitAssets(t, asset) ==
    /\ "asset request" \in Writers
    /\ Cardinality(requests) < MaxInFlight
    /\ LockActive(t)
    /\ requests' = requests \cup {[kind |-> "asset request", target |-> t, asset |-> asset]}
    /\ UNCHANGED <<target, job, due, linked, policy, schedule, scan, rows, snapshot, session, runner, faults>>

\* Its insert is a statement of its own, which the target's key alone guards.
InsertAssets(r) ==
    /\ r.kind = "asset request"
    /\ requests' = requests \ {r}
    /\ rows' = [rows EXCEPT ![r.target] = @ \cup {r.asset}]
    /\ UNCHANGED <<target, job, due, linked, policy, schedule, scan, snapshot, session, runner, faults>>

-----------------------------------------------------------------------------
(* The runner.                                                                *)

\* One pass lists the due jobs. Their order, next_retry_at then id, is left
\* open; so is the page of a hundred.
ListDue ==
    /\ runner.step = "idle"
    /\ LET listed == {t \in Targets : job[t] = "pending" /\ due[t]} IN
         /\ listed # {}
         /\ runner' = [Idle EXCEPT !.step = "next", !.listed = listed]
    /\ UNCHANGED <<target, job, due, owners, faults>>

\* The next job of the list; when none is left the pass is over.
NextJob ==
    /\ runner.step = "next"
    /\ \/ /\ runner.listed = {}
          /\ runner' = Idle
       \/ \E t \in runner.listed :
            runner' = [Idle EXCEPT !.step = "confirm", !.target = t, !.listed = runner.listed \ {t}]
    /\ UNCHANGED <<target, job, due, owners, faults>>

JobDone == [Idle EXCEPT !.step = "next", !.listed = runner.listed]

ConfirmTombstone ==
    /\ runner.step = "confirm"
    /\ target[runner.target] = "deleted"
    /\ runner' = [runner EXCEPT !.step = "schedules"]
    /\ UNCHANGED <<target, job, due, owners, faults>>

\* The target's own schedules, one transaction each, until none is left.
DeleteSchedule ==
    /\ runner.step = "schedules"
    /\ LET mine == {s \in Schedules : schedule[s] = runner.target} IN
         \/ /\ mine = {}
            /\ runner' = [runner EXCEPT !.step = "control"]
            /\ UNCHANGED schedule
         \/ \E s \in mine :
              /\ schedule' = [schedule EXCEPT ![s] = NoTarget]
              /\ UNCHANGED runner
    /\ UNCHANGED <<target, job, due, linked, policy, scan, rows, snapshot, session, requests, faults>>

DeleteControlPlane ==
    /\ runner.step = "control"
    /\ linked' = [linked EXCEPT ![runner.target] = FALSE]
    /\ policy' = [policy EXCEPT ![runner.target] = FALSE]
    /\ runner' = [runner EXCEPT !.step = "scans"]
    /\ UNCHANGED <<target, job, due, schedule, scan, rows, snapshot, session, requests, faults>>

ActiveScans(t) == {s \in Scans : scan[s].target = t /\ scan[s].status \in ActiveStatuses}

\* Mutant: only the scans no agent has started are cancelled.
Unclaimed(t) == {s \in Scans : scan[s].target = t /\ scan[s].status = "pending"}

\* The scans the cancellation transaction looks for.
Cancellable(t) == {s \in Scans : scan[s].target = t /\ scan[s].status \in ActiveStatuses}

\* One active scan of the target with its unfinished tasks. The task_cancel
\* sent after the commit is a hint the agent may never get.
CancelNextActiveScan ==
    /\ runner.step = "scans"
    /\ \/ /\ Cancellable(runner.target) = {}
          /\ runner' = [runner EXCEPT !.step = "assets", !.left = Resources]
          /\ UNCHANGED scan
       \/ \E s \in Cancellable(runner.target) :
            /\ scan' = [scan EXCEPT ![s].status = "ended"]
            /\ UNCHANGED runner
    /\ UNCHANGED <<target, job, due, linked, policy, schedule, rows, snapshot, session, requests, faults>>

\* The rows of one table of the target, and the batches a pass may take of them.
RowsIn(t, resource) == {a \in rows[t] : a[1] = resource}
Batches(t, resource) ==
    LET all == RowsIn(t, resource) IN
    IF Cardinality(all) <= BatchSize THEN {all} ELSE {b \in SUBSET all : Cardinality(b) = BatchSize}

Defer(t) == due' = [due EXCEPT ![t] = FALSE]

\* Mutant: the budget is checked against one batch too many.
WithinBudgetAndOne == runner.batches <= MaxBatches

WithinBudget == runner.batches < MaxBatches

\* A batch of the current table, if the run's budget still allows one; an empty
\* batch goes on to the next table.
DeleteAssetBatch ==
    /\ runner.step = "assets"
    /\ runner.left # <<>>
    /\ WithinBudget
    /\ IF RowsIn(runner.target, Head(runner.left)) = {}
         THEN /\ runner' = [runner EXCEPT !.left = Tail(@)]
              /\ UNCHANGED rows
         ELSE /\ \E batch \in Batches(runner.target, Head(runner.left)) :
                   rows' = [rows EXCEPT ![runner.target] = @ \ batch]
              /\ runner' = [runner EXCEPT !.batches = @ + 1]
    /\ UNCHANGED <<target, job, due, linked, policy, schedule, scan, snapshot, session, requests, faults>>

ExhaustBudget ==
    /\ runner.step = "assets"
    /\ runner.left # <<>>
    /\ ~WithinBudget
    /\ Defer(runner.target)
    /\ runner' = JobDone
    /\ UNCHANGED <<target, job, owners, faults>>

AssetsDone ==
    /\ runner.step = "assets"
    /\ runner.left = <<>>
    /\ runner' = [runner EXCEPT !.step = "complete"]
    /\ UNCHANGED <<target, job, due, owners, faults>>

\* targetCleanupCompletionConditions, all read under the tombstone's lock.
IsClear(t) ==
    /\ \A s \in Schedules : schedule[s] # t
    /\ ~linked[t] /\ ~policy[t]
    /\ ActiveScans(t) = {}
    /\ rows[t] = {}

MarkCompletedIfClear ==
    /\ runner.step = "complete"
    /\ runner' = JobDone
    /\ IF IsClear(runner.target)
         THEN /\ job' = [job EXCEPT ![runner.target] = "completed"]
              /\ UNCHANGED due
         ELSE /\ Defer(runner.target)
              /\ UNCHANGED job
    /\ UNCHANGED <<target, owners, faults>>

Reconciling == runner.step \notin {"idle", "next"}

\* A transaction of the run fails, or the run's time is up before its next
\* batch: the job is put off, unless that write fails too and it stays due.
RunFails ==
    /\ Reconciling
    /\ faults < MaxFaults
    /\ faults' = faults + 1
    /\ Defer(runner.target) \/ UNCHANGED due
    /\ runner' = JobDone
    /\ UNCHANGED <<target, job, owners>>

\* The server restarts: the runner forgets its place, requests under way die.
Restart ==
    /\ runner # Idle \/ requests # {}
    /\ faults < MaxFaults
    /\ faults' = faults + 1
    /\ runner' = Idle
    /\ requests' = {}
    /\ UNCHANGED <<target, job, due, linked, policy, schedule, scan, rows, snapshot, session>>

\* next_retry_at passes.
RetryFallsDue(t) ==
    /\ job[t] = "pending"
    /\ ~due[t]
    /\ due' = [due EXCEPT ![t] = TRUE]
    /\ UNCHANGED <<target, job, owners, runner, faults>>

RunnerStep ==
    \/ ListDue \/ NextJob \/ ConfirmTombstone \/ DeleteSchedule \/ DeleteControlPlane
    \/ CancelNextActiveScan \/ DeleteAssetBatch \/ ExhaustBudget \/ AssetsDone
    \/ MarkCompletedIfClear

WriterStep ==
    \/ \E t \in Targets : CreateTarget(t) \/ LinkTarget(t)
    \/ \E s \in Schedules, t \in Targets : SaveSchedule(s, t)
    \/ \E s \in Scans, t \in Targets : CreateScan(s, t)
    \/ \E s \in Scans : ClaimTask(s) \/ EndTask(s) \/ StopScan(s) \/ FenceSupersededSession(s)
    \/ RecordConnection
    \/ \E s \in Scans, a \in Assets : AdmitBatch(s, a)
    \/ \E t \in Targets, a \in Assets : AdmitAssets(t, a)
    \/ \E r \in requests : Materialize(r) \/ InsertAssets(r)

Next ==
    \/ WriterStep
    \/ \E ts \in SUBSET Targets \ {{}} : DeleteTargets(ts)
    \/ RunnerStep
    \/ \E t \in Targets : RetryFallsDue(t)
    \/ RunFails
    \/ Restart

Spec == Init /\ [][Next]_vars

\* The runner is a loop of the server, started with it, and its poll needs no
\* wake; next_retry_at is at most an hour away. Nobody else is assumed to act.
FairSpec ==
    /\ Spec
    /\ WF_vars(RunnerStep)
    /\ \A t \in Targets : WF_vars(RetryFallsDue(t))

-----------------------------------------------------------------------------
(* Properties.                                                                *)

Owned(t) ==
    {<<"schedule", s>> : s \in {s \in Schedules : schedule[s] = t}}
        \cup {<<"scan", s>> : s \in ActiveScans(t)}
        \cup {<<"asset", a>> : a \in rows[t]}
        \cup (IF linked[t] THEN {<<"link", t>>} ELSE {})
        \cup (IF policy[t] THEN {<<"policy", t>>} ELSE {})

Late(t) ==
    {<<"asset", r.asset>> : r \in {r \in requests : r.kind = "asset request" /\ r.target = t}}

Lifecycle == INSTANCE TargetLifecycle WITH
    Things <- ({"schedule"} \X Schedules) \cup ({"scan"} \X Scans)
                  \cup ({"asset"} \X Assets) \cup ({"link", "policy"} \X Targets),
    phase <- [t \in Targets |->
                IF job[t] = "completed" THEN "clear" ELSE target[t]],
    owned <- [t \in Targets |-> Owned(t)],
    late <- [t \in Targets |-> Late(t)]

\* From the tombstone on no writer that locks the target, and no agent, adds
\* anything to it, even when its request was admitted before; the job completes
\* only over nothing (lockTargetTombstone and MarkCompletedIfClear against every
\* writer's lock). Only the asset requests, which hold no lock, may still land.
KeepsTheLifecycle == Lifecycle!LifecycleSpec

\* What a scan reports is written by the session that holds its lease, while
\* that is the agent's session and the scan runs: no batch admitted earlier
\* lands after the cancellation, the result, or the newer session.
ResultsBelongToTheLease ==
    [][\A s \in Scans : snapshot'[s] # snapshot[s] =>
         /\ scan[s].status = "running"
         /\ scan[s].lease = session]_vars

\* Every deleted target is cleaned up in the end, whatever it owned and
\* wherever a run was deferred, failed or was cut off by a restart.
CleanupEnds ==
    \A t \in Targets : target[t] = "deleted" ~> job[t] = "completed"
=============================================================================
