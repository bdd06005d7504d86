------------------------------ MODULE UpgradeHost ------------------------------
(***************************************************************************)
(* The host side of a system upgrade                                       *)
(* (src/server/internal/modules/upgrade/upgrader): the daemon that accepts *)
(* requests on the Unix socket, the Compose executor it runs, the journal  *)
(* both write, and the deployment lock shared with the lifecycle scripts.  *)
(*                                                                         *)
(* A step is one durable checkpoint with the command that precedes it.     *)
(* Journal copies (current.json and the copy of the operation) are one     *)
(* value, because the newer copy wins wherever both are read.  A manifest, *)
(* a plan and a digest always match their operation.                       *)
(***************************************************************************)
EXTENDS Naturals, FiniteSets

CONSTANTS
    Ops,         \* operation identifiers
    Plans,       \* assignments of a release to every operation, see Releases
    Nobody,      \* no operation
    Events,      \* what may go wrong in the instance
    MaxFaults,   \* bound on crashes, restarts and lost messages
    MaxRequests  \* bound on stop and retry requests

\* A release as its manifest and the scope plan describe it; mode "v1" is a
\* host without scope planning, which upgrades everything.
Releases == { r \in [mode : {"v1", "full", "frontend_only"}, migrates : BOOLEAN] :
                r.mode = "frontend_only" => ~r.migrates }

ASSUME UpgradeAssumption ==
    /\ Plans \subseteq [Ops -> Releases]
    /\ Nobody \notin Ops
    /\ {"free", "lifecycle"} \cap Ops = {}
    /\ MaxFaults \in Nat /\ MaxRequests \in Nat

VARIABLES
    release,    \* release[o]: manifest and scope plan of o
    journal,    \* journal[o]: last checkpoint of o, stage "none" when there is none
    current,    \* the operation current.json names
    receipts,   \* operations with a completion receipt
    confirmed,  \* operations recorded as confirmed deployment state
    lock,       \* owner of .lunafox-lifecycle.lock: "free", "lifecycle" or an operation
    lifecycle,  \* a lifecycle command runs
    up,         \* the daemon runs
    held,       \* Daemon.deploymentLock
    execution,  \* execution[o]: Daemon.executing and where its goroutine is
    cancelled,  \* Daemon.cancelRequested
    releasing,  \* a confirmation nobody waits for has yet to release the lock
    faults,     \* faults so far
    migrations  \* migrations[o]: times the migration command was started, for checking

hostVars == << release, journal, current, receipts, confirmed, lock, lifecycle, up, held,
               execution, cancelled, releasing, migrations >>

Rank == [ none |-> 0, queued |-> 0, stopping |-> 1, preflight |-> 2, updating |-> 3,
          migrating |-> 4, restarting |-> 5, agent_verifying |-> 6, verifying |-> 7,
          failed |-> 8, succeeded |-> 9, needs_recovery |-> 9, needs_attention |-> 9 ]

Terminal(stage) == stage \in {"succeeded", "failed", "needs_recovery", "needs_attention"}
Open(stage) == stage # "none" /\ ~Terminal(stage)

Frontend(o) == release[o].mode = "frontend_only"
Planned(o) == release[o].mode # "v1"
Migrates(o) == release[o].migrates

-----------------------------------------------------------------------------
(* The journal. *)

\* The earliest stage that is safe to execute again.
RepairStageFor(stage) ==
    IF Rank[stage] >= Rank.migrating THEN "restarting"
    ELSE IF stage = "updating" THEN "updating" ELSE "queued"

At(j, stage) ==
    [j EXCEPT !.stage = stage, !.repair = IF Terminal(stage) THEN RepairStageFor(j.stage) ELSE "queued"]

\* Mutant: only a recorded outcome is evidence.
EvidenceOnRecord(o, j) == j.migration \in {"succeeded", "failed", "unknown"}

\* Whether the migration boundary may have been crossed.
Evidence(o, j) ==
    \/ j.migration # "not_started"
    \/ j.stage = "migrating"
    \/ Rank[j.stage] \in Rank.restarting .. Rank.verifying /\ Migrates(o)

FailureStage(o, j) == IF Evidence(o, j) THEN "needs_recovery" ELSE "failed"
Failed(o, j) == At(j, FailureStage(o, j))
Stopped(o, j) == At(j, IF Evidence(o, j) THEN "needs_recovery" ELSE "needs_attention")

ConfirmationPending(o) == Frontend(o) /\ journal[o].stage = "verifying" /\ o \in receipts

\* Mutant: a host that waits for the confirmation keeps no fence.
FenceForRecovery(o) == journal[o].stage \in {"needs_recovery", "needs_attention"}

FenceRequired(o) ==
    \/ journal[o].stage \in {"needs_recovery", "needs_attention"}
    \/ Planned(o) /\ journal[o].stage = "verifying"

-----------------------------------------------------------------------------
(* The executor.  "waiting" for the deployment lock, "working" in Execute, *)
(* "finishing" between the last checkpoint and the end of the goroutine.   *)

\* Execute returned with journal value j: a requested stop is recorded now.
Conclude(o, j) ==
    /\ journal' = [journal EXCEPT ![o] = IF o \in cancelled /\ Open(j.stage) THEN Stopped(o, j) ELSE j]
    /\ execution' = [execution EXCEPT ![o] = "finishing"]

Work(o, j) ==
    /\ journal' = [journal EXCEPT ![o] = j]
    /\ execution' = [execution EXCEPT ![o] = "working"]

\* Mutant: waiting for the deployment lock is left out.
TakeLockAtOnce(o) == lock' = o /\ held' = o

\* A lock the daemon holds in memory is not acquired again.
TakeLock(o) ==
    IF held = o THEN UNCHANGED << lock, held >>
    ELSE /\ lock \in {"free", o}
         /\ lock' = o
         /\ held' = o

\* holdDeploymentLock, the checks in front of the first command, and what an
\* execution that starts at the migrating checkpoint makes of it.
Begin(o) ==
    LET j == journal[o]
        resumed == [j EXCEPT !.migration = IF @ = "running" THEN "unknown" ELSE @]
    IN  /\ up
        /\ execution[o] = "waiting"
        /\ TakeLock(o)
        /\ \/ (Terminal(j.stage) \/ ConfirmationPending(o)) /\ Conclude(o, j)
           \/ Open(j.stage) /\ ~ConfirmationPending(o) /\ Conclude(o, Failed(o, j))
           \/ /\ Open(j.stage) /\ ~ConfirmationPending(o) /\ j.stage # "migrating"
              /\ Work(o, j)
           \/ /\ j.stage = "migrating" /\ j.migration = "succeeded"
              /\ Work(o, At(j, "restarting"))
           \/ /\ j.stage = "migrating" /\ j.migration # "succeeded"
              /\ Conclude(o, At(resumed, "needs_recovery"))
        /\ UNCHANGED << releasing, lifecycle, release, current, receipts, confirmed, up, cancelled, faults, migrations >>

\* A stop reaches an execution that still waits for the lock.
StopWaiting(o) ==
    /\ up
    /\ execution[o] = "waiting"
    /\ o \in cancelled
    /\ Conclude(o, journal[o])
    /\ UNCHANGED << releasing, lifecycle, release, current, receipts, confirmed, lock, up, held, cancelled, faults, migrations >>

NextStage(o) ==
    CASE journal[o].stage = "queued" -> "preflight"
      [] journal[o].stage = "preflight" -> "updating"
      [] journal[o].stage = "updating" -> IF Migrates(o) THEN "migrating" ELSE "restarting"
      [] journal[o].stage = "migrating" -> "restarting"
      [] journal[o].stage = "restarting" -> IF Frontend(o) THEN "verifying" ELSE "agent_verifying"
      [] journal[o].stage = "agent_verifying" -> "verifying"

Working(o, stages) == up /\ execution[o] = "working" /\ journal[o].stage \in stages

\* The commands of a stage succeed and the next stage is checkpointed.
Proceed(o) ==
    /\ Working(o, {"queued", "preflight", "updating", "migrating", "restarting", "agent_verifying"})
    /\ journal[o].stage = "migrating" => journal[o].migration = "succeeded"
    /\ Work(o, At(journal[o], NextStage(o)))
    /\ UNCHANGED << releasing, lifecycle, release, current, receipts, confirmed, lock, up, held, cancelled, faults, migrations >>

\* A command or a check of a stage fails.
CommandFails(o) ==
    /\ Working(o, {"preflight", "updating", "restarting", "agent_verifying", "verifying"})
    /\ Conclude(o, Failed(o, journal[o]))
    /\ UNCHANGED << releasing, lifecycle, release, current, receipts, confirmed, lock, up, held, cancelled, faults, migrations >>

\* SetMigration(running), then the command starts.
StartMigration(o) ==
    /\ Working(o, {"migrating"})
    /\ journal[o].migration = "not_started"
    /\ Work(o, [journal[o] EXCEPT !.migration = "running"])
    /\ migrations' = [migrations EXCEPT ![o] = @ + 1]
    /\ UNCHANGED << releasing, lifecycle, release, current, receipts, confirmed, lock, up, held, cancelled, faults >>

\* A cancelled command may have committed; one that fails by itself did not.
MigrationReturns(o) ==
    /\ Working(o, {"migrating"})
    /\ journal[o].migration = "running"
    /\ \E outcome \in {"succeeded", IF o \in cancelled THEN "unknown" ELSE "failed"} :
         Work(o, [journal[o] EXCEPT !.migration = outcome])
    /\ UNCHANGED << releasing, lifecycle, release, current, receipts, confirmed, lock, up, held, cancelled, faults, migrations >>

Unproved(o) == Migrates(o) /\ journal[o].migration # "succeeded"

\* Images verified: the receipt is saved.
Complete(o) ==
    /\ Working(o, {"verifying"})
    /\ receipts' = receipts \cup {o}
    /\ IF Unproved(o) THEN Work(o, journal[o]) ELSE Conclude(o, journal[o])
    /\ UNCHANGED << releasing, lifecycle, release, current, confirmed, lock, up, held, cancelled, faults, migrations >>

\* A migration that failed, or that a verified repair cannot prove, is
\* checkpointed as what it is.
KeepUnproved(o) ==
    /\ \/ Working(o, {"migrating"}) /\ journal[o].migration \in {"failed", "unknown"}
       \/ Working(o, {"verifying"}) /\ Unproved(o) /\ o \in receipts
    /\ Conclude(o, At(journal[o], "needs_recovery"))
    /\ UNCHANGED << releasing, lifecycle, release, current, receipts, confirmed, lock, up, held, cancelled, faults, migrations >>

ReleaseLock == held' = Nobody /\ lock' = IF lock = held THEN "free" ELSE lock

\* finishExecution looks at the current journal, then the goroutine ends.
Finish(o) ==
    /\ up
    /\ execution[o] = "finishing"
    /\ IF held = o /\ ~FenceRequired(current) THEN ReleaseLock ELSE UNCHANGED << lock, held >>
    /\ execution' = [execution EXCEPT ![o] = "idle"]
    /\ cancelled' = cancelled \ {o}
    /\ UNCHANGED << releasing, lifecycle, release, journal, current, receipts, confirmed, up, faults, migrations >>

-----------------------------------------------------------------------------
(* Requests.  Each is what Daemon.accept changes when it accepts. *)

Launch(o) ==
    execution' = [execution EXCEPT ![o] = IF @ = "idle" THEN "waiting" ELSE @]

\* Mutant: an operation is over when nothing executes it.
IdleNow == \A o \in Ops : execution[o] = "idle"

Idle == current # Nobody => Terminal(journal[current].stage)

AcceptStart(o) ==
    /\ \/ /\ journal[o].stage = "none"
          /\ Idle
          /\ journal' = [journal EXCEPT ![o].stage = "queued"]
          /\ current' = o
          /\ Launch(o)
       \/ /\ Terminal(journal[o].stage) \/ ConfirmationPending(o)
          /\ UNCHANGED << journal, current, execution >>
       \/ /\ Open(journal[o].stage) /\ ~ConfirmationPending(o)
          /\ Launch(o)
          /\ UNCHANGED << journal, current >>
    /\ UNCHANGED << releasing, lifecycle, release, receipts, confirmed, lock, up, held, cancelled, migrations >>

\* Mutant: a repair starts the operation afresh.
AcceptRepairAfresh(o) ==
    /\ current = o
    /\ journal[o].stage \in {"failed", "needs_recovery", "needs_attention"}
    /\ execution[o] = "idle"
    /\ journal' = [journal EXCEPT ![o].stage = "queued", ![o].migration = "not_started"]
    /\ Launch(o)
    /\ UNCHANGED << releasing, lifecycle, release, current, receipts, confirmed, lock, up, held, cancelled, migrations >>

\* ResetForRepair.
AcceptRepair(o) ==
    /\ current = o
    /\ journal[o].stage \in {"failed", "needs_recovery", "needs_attention"}
    /\ execution[o] = "idle"
    /\ journal' = [journal EXCEPT ![o].stage = journal[o].repair, ![o].repair = "queued"]
    /\ Launch(o)
    /\ UNCHANGED << releasing, lifecycle, release, current, receipts, confirmed, lock, up, held, cancelled, migrations >>

\* A running execution is only cancelled; it records the outcome itself.
AcceptStop(o) ==
    /\ journal[o].stage # "none"
    /\ IF Terminal(journal[o].stage) THEN UNCHANGED << journal, cancelled >>
       ELSE IF execution[o] # "idle"
            THEN cancelled' = cancelled \cup {o} /\ UNCHANGED journal
            ELSE journal' = [journal EXCEPT ![o] = Stopped(o, @)] /\ UNCHANGED cancelled
    /\ UNCHANGED << releasing, lifecycle, release, current, receipts, confirmed, lock, up, held, execution, migrations >>

Confirmable(o) ==
    /\ execution[o] = "idle"
    /\ o \in receipts
    /\ current = o
    /\ journal[o].stage \in {"verifying", "succeeded"}
    /\ \/ journal[o].stage = "succeeded" /\ o \in confirmed
       \/ held = o /\ lock = o

RecordConfirmation(o) ==
    /\ Confirmable(o)
    /\ confirmed' = confirmed \cup {o}
    /\ journal' = [journal EXCEPT ![o] = IF @.stage = "succeeded" THEN @ ELSE At(@, "succeeded")]
    /\ UNCHANGED << lifecycle, release, current, receipts, up, execution, cancelled, migrations >>

\* releaseDeploymentLock: whatever lock the daemon holds by now.
ReleaseHeld == IF held # Nobody THEN ReleaseLock ELSE UNCHANGED << lock, held >>

\* The lock is released under daemon.mu a second time, before the reply.
AcceptConfirm(o) == RecordConfirmation(o) /\ ReleaseHeld /\ UNCHANGED releasing

\* The caller gave up waiting, and others may get daemon.mu first.
AcceptConfirmLate(o) ==
    /\ "late release" \in Events
    /\ RecordConfirmation(o)
    /\ releasing' = TRUE
    /\ UNCHANGED << lock, held >>

ReleaseLate ==
    /\ releasing
    /\ releasing' = FALSE
    /\ ReleaseHeld
    /\ UNCHANGED << lifecycle, release, journal, current, receipts, confirmed, up, execution, cancelled, faults, migrations >>

Accept(o, action) ==
    \/ action = "start" /\ AcceptStart(o)
    \/ action = "repair" /\ AcceptRepair(o)
    \/ action = "stop" /\ AcceptStop(o)

Acceptable(o, action) ==
    \/ action = "start" /\ (journal[o].stage # "none" \/ Idle)
    \/ /\ action = "repair"
       /\ current = o /\ execution[o] = "idle"
       /\ journal[o].stage \in {"failed", "needs_recovery", "needs_attention"}
    \/ action = "stop" /\ journal[o].stage # "none"

-----------------------------------------------------------------------------
(* Faults, and the other owner of the lock. *)

Fault(event) == event \in Events /\ faults < MaxFaults /\ faults' = faults + 1

Dies ==
    /\ up' = FALSE
    /\ held' = Nobody
    /\ execution' = [o \in Ops |-> "idle"]
    /\ cancelled' = {}
    /\ releasing' = FALSE

Crash ==
    /\ Fault("daemon crash")
    /\ up
    /\ Dies
    /\ UNCHANGED << lifecycle, release, journal, current, receipts, confirmed, lock, migrations >>

\* The daemon dies between the two writes of a confirmation, or before it
\* releases the lock.
CrashInConfirm(o) ==
    /\ Fault("daemon crash")
    /\ up
    /\ Confirmable(o) /\ journal[o].stage = "verifying"
    /\ confirmed' = confirmed \cup {o}
    /\ journal' \in {journal, [journal EXCEPT ![o] = At(@, "succeeded")]}
    /\ Dies
    /\ UNCHANGED << lifecycle, release, current, receipts, lock, migrations >>

\* Serve: first the fence, then the execution the journal left open.
Serve ==
    /\ ~up
    /\ up' = TRUE
    /\ IF current # Nobody /\ FenceRequired(current)
       THEN /\ lock \in {"free", current}
            /\ lock' = current
            /\ held' = current
       ELSE UNCHANGED << lock, held >>
    /\ IF current # Nobody /\ Open(journal[current].stage) /\ ~ConfirmationPending(current)
       THEN Launch(current) ELSE UNCHANGED execution
    /\ UNCHANGED << releasing, lifecycle, release, journal, current, receipts, confirmed, cancelled, faults, migrations >>

\* start.sh, stop.sh, restart.sh and the like.
LifecycleStarts ==
    /\ "lifecycle" \in Events
    /\ lock = "free"
    /\ lock' = "lifecycle"
    /\ lifecycle' = TRUE
    /\ UNCHANGED << releasing, release, journal, current, receipts, confirmed, up, held, execution, cancelled, faults, migrations >>

LifecycleEnds ==
    /\ lifecycle
    /\ lifecycle' = FALSE
    /\ lock' = IF lock = "lifecycle" THEN "free" ELSE lock
    /\ UNCHANGED << releasing, release, journal, current, receipts, confirmed, up, held, execution, cancelled, faults, migrations >>

\* The documented recovery of a lock: nothing runs, its directory is removed.
OperatorRemovesLock ==
    /\ Fault("lock removed")
    /\ lock \in Ops
    /\ \A o \in Ops : execution[o] = "idle" /\ ~Open(journal[o].stage)
    /\ lock' = "free"
    /\ UNCHANGED << releasing, lifecycle, release, journal, current, receipts, confirmed, up, held, execution, cancelled, migrations >>

-----------------------------------------------------------------------------

HostInit ==
    /\ release \in Plans
    /\ journal = [o \in Ops |-> [stage |-> "none", migration |-> "not_started", repair |-> "queued"]]
    /\ current = Nobody
    /\ receipts = {}
    /\ confirmed = {}
    /\ lock = "free"
    /\ lifecycle = FALSE
    /\ up = TRUE
    /\ held = Nobody
    /\ execution = [o \in Ops |-> "idle"]
    /\ cancelled = {}
    /\ releasing = FALSE
    /\ faults = 0
    /\ migrations = [o \in Ops |-> 0]

Execution(o) ==
    \/ Begin(o) \/ StopWaiting(o) \/ Proceed(o) \/ CommandFails(o)
    \/ StartMigration(o) \/ MigrationReturns(o) \/ Complete(o) \/ KeepUnproved(o) \/ Finish(o)

HostNext ==
    \/ \E o \in Ops : Execution(o) \/ CrashInConfirm(o)
    \/ Crash \/ Serve \/ LifecycleStarts \/ LifecycleEnds \/ OperatorRemovesLock
    \/ ReleaseLate
=============================================================================
