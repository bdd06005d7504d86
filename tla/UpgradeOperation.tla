---------------------------- MODULE UpgradeOperation ----------------------------
(***************************************************************************)
(* The Server side of a system upgrade                                     *)
(* (src/server/internal/modules/upgrade/application, repository, domain)   *)
(* on top of the host: the Upgrade Operation rows, the administrator       *)
(* requests that run one at a time under Service.mu, the recovery job that *)
(* polls the journal, and the pause of the scheduled scans.                *)
(*                                                                         *)
(* A step is one transaction, one exchange with the host or one read of    *)
(* the journal.  A read of a row and the compare-and-set on its status     *)
(* that follows are one step.  The watchdog has no clock: it may fire for  *)
(* any operation no request is handing over (its window is at least five   *)
(* minutes, a hand-over at most fifteen seconds).                          *)
(***************************************************************************)
EXTENDS UpgradeHost

VARIABLES
    row,      \* row[o]: the operation row, status "none" when there is none
    paused,   \* the scheduler pause of this Server process
    api,      \* the request that holds Service.mu, with its copy of the row
    job,      \* the recovery job, with the event it read
    requests  \* stop and retry requests so far

serverVars == << row, paused, api, job, requests >>
vars == << hostVars, serverVars, faults >>

Retryable == {"failed", "needs_recovery", "needs_attention"}
Active(o) == Open(row[o].status)

NoRequest == [step |-> "idle", op |-> Nobody, action |-> "start", copy |-> [status |-> "none", migration |-> "not_started", observed |-> FALSE]]
NoEvent == [step |-> "idle", op |-> Nobody, stage |-> "none", migration |-> "not_started", observed |-> FALSE]

-----------------------------------------------------------------------------
(* The lifecycle graph (domain) and the writes of the repository. *)

\* ValidateTransition and ValidateExecutionTransition.
Edges ==
    { << "queued", "stopping" >>, << "stopping", "preflight" >>,
      << "preflight", "updating" >>, << "preflight", "failed" >>,
      << "updating", "migrating" >>, << "updating", "restarting" >>, << "updating", "failed" >>,
      << "migrating", "restarting" >>,
      << "restarting", "agent_verifying" >>, << "restarting", "verifying" >>,
      << "agent_verifying", "verifying" >>,
      << "verifying", "succeeded" >>, << "verifying", "failed" >> }

FullOnly == {"stopping", "migrating", "agent_verifying"}

\* Mutant: what an operation ended as is never revised.
AllowedWhileOpen(o, from, to) ==
    /\ Open(from)
    /\ from = to \/ to \in {"needs_recovery", "needs_attention"} \/ << from, to >> \in Edges

Allowed(o, from, to) ==
    IF Frontend(o) /\ from = "queued" /\ to \in {"preflight", "failed"} THEN TRUE
    ELSE /\ Frontend(o) => from \notin FullOnly /\ to \notin FullOnly
         /\ IF Terminal(from) THEN to = "needs_recovery" /\ from # "succeeded"
            ELSE \/ from = to
                 \/ to \in {"needs_recovery", "needs_attention"}
                 \/ << from, to >> \in Edges

\* ValidateJournalRecoveryTransition: a forward replay of skipped stages.
Replayable(o, from, to, migration) ==
    /\ Open(from) /\ Open(to) /\ Rank[to] > Rank[from]
    /\ Frontend(o) => from \notin FullOnly /\ to \notin FullOnly
    /\ Migrates(o) /\ Rank[to] >= Rank.restarting => migration = "succeeded"

\* Mutant: Update does not look at what is stored.
WritableAlways(o, status) == TRUE

\* Update: never out of a terminal status, never backwards.
Writable(o, status) ==
    IF Terminal(row[o].status) THEN status = row[o].status
    ELSE Rank[status] >= Rank[row[o].status]

Update(o, copy) == row' = IF Writable(o, copy.status) THEN [row EXCEPT ![o] = copy] ELSE row

\* A status the row still has is replaced; a terminal outcome of an operation
\* that paused the scheduler resumes it.
Transition(o, expected, new) ==
    IF row[o].status = expected
    THEN /\ row' = [row EXCEPT ![o] = new]
         /\ paused' = (paused /\ ~(Terminal(new.status) /\ ~Frontend(o)))
    ELSE UNCHANGED << row, paused >>

\* A database whose state is not known.
Uncertain(r) == r.migration # "not_started" \/ Rank[r.status] \in Rank.migrating .. Rank.verifying

-----------------------------------------------------------------------------
(* CreateOperation, RetryOperation and StopOperation. *)

Request(step, o, action, copy) == [step |-> step, op |-> o, action |-> action, copy |-> copy]

Create(o) ==
    LET copy == [row[o] EXCEPT !.status = "queued"]
    IN  /\ api = NoRequest
        /\ up
        /\ row[o].status = "none"
        /\ \A p \in Ops : ~Active(p)
        /\ row' = [row EXCEPT ![o] = copy]
        /\ api' = Request(IF Frontend(o) THEN "dispatch" ELSE "stopping", o, "start", copy)
        /\ UNCHANGED << hostVars, faults, paused, job, requests >>

EnterStopping ==
    LET copy == [api.copy EXCEPT !.status = "stopping"]
    IN  /\ api.step = "stopping"
        /\ Update(api.op, copy)
        /\ api' = IF Writable(api.op, "stopping") THEN Request("prepare", api.op, "start", copy) ELSE NoRequest
        /\ UNCHANGED << hostVars, faults, paused, job, requests >>

\* PrepareForUpgrade pauses the scheduler and stops every active scan.
Prepare ==
    /\ api.step = "prepare"
    /\ \/ /\ paused' = TRUE
          /\ api' = [api EXCEPT !.step = "record"]
          /\ UNCHANGED row
       \/ /\ paused' = FALSE
          /\ Update(api.op, [api.copy EXCEPT !.status = "failed"])
          /\ api' = NoRequest
    /\ UNCHANGED << hostVars, faults, job, requests >>

RecordCancellation ==
    /\ api.step = "record"
    /\ Update(api.op, api.copy)
    /\ api' = IF Writable(api.op, api.copy.status) THEN [api EXCEPT !.step = "dispatch"] ELSE NoRequest
    /\ UNCHANGED << hostVars, faults, paused, job, requests >>

RetryStatus(r) ==
    IF r.migration \in {"running", "succeeded", "failed", "unknown"} \/ r.status = "needs_recovery"
    THEN "restarting" ELSE "queued"
RetryMigration(r) == IF r.migration = "failed" THEN "not_started" ELSE r.migration

Retry(o) ==
    LET copy == [row[o] EXCEPT !.status = RetryStatus(row[o]), !.migration = RetryMigration(row[o])]
    IN  /\ api = NoRequest
        /\ requests < MaxRequests
        /\ row[o].status \in Retryable
        /\ \A p \in Ops : ~Active(p)
        /\ row' = [row EXCEPT ![o] = copy]
        /\ api' = Request("dispatch", o, "repair", copy)
        /\ requests' = requests + 1
        /\ UNCHANGED << hostVars, faults, paused, job >>

Stop(o) ==
    /\ api = NoRequest
    /\ requests < MaxRequests
    /\ Active(o)
    /\ api' = Request("dispatch", o, "stop", row[o])
    /\ requests' = requests + 1
    /\ UNCHANGED << hostVars, faults, row, paused, job >>

\* dispatch: the host accepts, refuses, is not reached, or its reply is lost.
Dispatch ==
    /\ api.step = "dispatch"
    /\ \/ up /\ Accept(api.op, api.action) /\ api' = NoRequest /\ UNCHANGED faults
       \/ /\ ~up \/ ~Acceptable(api.op, api.action)
          /\ api' = [api EXCEPT !.step = "unavailable"]
          /\ UNCHANGED << hostVars, faults >>
       \/ /\ Fault("lost request")
          /\ api' = [api EXCEPT !.step = "unavailable"]
          /\ UNCHANGED hostVars
       \/ /\ Fault("lost reply")
          /\ up /\ Accept(api.op, api.action)
          /\ api' = [api EXCEPT !.step = "unavailable"]
    /\ UNCHANGED << row, paused, job, requests >>

\* markHostUnavailable and markStopUnavailable.
MarkUnavailable ==
    LET o == api.op
        outcome == IF ~Frontend(o) /\ Uncertain(api.copy) THEN "needs_recovery"
                   ELSE IF api.action = "stop" THEN "needs_attention" ELSE "failed"
    IN  /\ api.step = "unavailable"
        /\ Update(o, [api.copy EXCEPT !.status = outcome])
        /\ paused' = (paused /\ Frontend(o))
        /\ api' = NoRequest
        /\ UNCHANGED << hostVars, faults, job, requests >>

-----------------------------------------------------------------------------
(* The recovery job. *)

Watch == [NoEvent EXCEPT !.step = "watch"]

JobReads ==
    /\ job.step = "idle"
    /\ job' = IF current = Nobody THEN Watch
              ELSE [step |-> "event", op |-> current, stage |-> journal[current].stage,
                    migration |-> journal[current].migration, observed |-> current \in receipts]
    /\ UNCHANGED << hostVars, faults, row, paused, api, requests >>

\* ReconcileJournalUnavailable: the two copies were read while the host wrote.
JobFindsUnreadable ==
    /\ job.step = "idle"
    /\ Fault("torn read")
    /\ \E o \in Ops : execution[o] # "idle"
    /\ IF \E o \in Ops : Active(o)
       THEN \E o \in { p \in Ops : Active(p) } :
              LET outcome == IF Uncertain(row[o]) THEN "needs_recovery"
                             ELSE IF Allowed(o, row[o].status, "failed") THEN "failed" ELSE "needs_attention"
              IN  Transition(o, row[o].status, [row[o] EXCEPT !.status = outcome])
       ELSE UNCHANGED << row, paused >>
    /\ job' = Watch
    /\ UNCHANGED << hostVars, api, requests >>

MigrationOutcomes == << "not_started", "running", "succeeded", "failed", "unknown" >>
Strength(migration) == CHOOSE i \in 1 .. 5 : MigrationOutcomes[i] = migration
Stronger(a, b) == IF Strength(b) >= Strength(a) THEN b ELSE a

\* The status an event asks for, with the migration evidence merged in.
Requested(o, e) ==
    LET r == row[o]
        migration == Stronger(r.migration, e.migration)
        stage == IF e.stage = "succeeded" THEN "verifying" ELSE e.stage
        fenced == \/ migration \in {"failed", "unknown"}
                  \/ /\ Rank[stage] > Rank[r.status]
                     /\ Migrates(o) /\ Rank[stage] >= Rank.restarting
                     /\ migration # "succeeded"
    IN  IF fenced THEN "needs_recovery"
        ELSE IF Open(r.status) /\ Rank[stage] < Rank[r.status] THEN r.status ELSE stage

\* A terminal result only escalates; queued and stopping end as attention
\* when the host failed before its first checkpoint; "error" ends the pass.
Status(o, e) ==
    LET r == row[o]
        to == Requested(o, e)
        migration == Stronger(r.migration, e.migration)
    IN  IF Terminal(r.status) /\ (to # "needs_recovery" \/ r.status = "succeeded") THEN "ignored"
        ELSE IF Allowed(o, r.status, to) THEN to
        ELSE IF to = "failed" /\ r.status \in {"queued", "stopping"} /\ r.migration = "not_started" /\ ~Migrates(o)
             THEN "needs_attention"
        ELSE IF Replayable(o, r.status, to, migration) THEN to ELSE "error"

JobReconciles ==
    LET o == job.op
        r == row[o]
        to == Status(o, job)
    IN  /\ job.step = "event"
        /\ IF to \in {"ignored", "error"}
           THEN UNCHANGED << row, paused >>
           ELSE Transition(o, r.status,
                    [status |-> to, migration |-> Stronger(r.migration, job.migration),
                     observed |-> r.observed \/ job.observed])
        /\ job' = IF to = "error" THEN NoEvent
                  ELSE IF to = "verifying" \/ (to = "agent_verifying" /\ ~Frontend(o))
                       THEN [job EXCEPT !.step = "verify", !.stage = to]
                       ELSE Watch
        /\ UNCHANGED << hostVars, faults, api, requests >>

\* reconcileAfterHostEvent: Agents, then probes, digests and migration.  The
\* Agents may miss their deadline, the stored manifest may not match any more.
JobVerifies ==
    LET o == job.op
    IN  /\ job.step = "verify"
        /\ \/ job' = Watch /\ UNCHANGED << row, paused >>
           \/ /\ \E outcome \in {"needs_recovery"} \cup IF Frontend(o) THEN {} ELSE {"needs_attention"} :
                   Transition(o, job.stage, [row[o] EXCEPT !.status = outcome])
              /\ job' = Watch
           \/ /\ row[o].observed
              /\ Migrates(o) => row[o].migration = "succeeded"
              /\ IF job.stage = "agent_verifying"
                 THEN Transition(o, job.stage, [row[o] EXCEPT !.status = "verifying"])
                 ELSE UNCHANGED << row, paused >>
              /\ job' = [job EXCEPT !.step = IF Planned(o) THEN "confirm" ELSE "succeed"]
        /\ UNCHANGED << hostVars, faults, api, requests >>

\* Mutant: an operation succeeds although the host did not confirm it.
JobConfirmsLater ==
    /\ job.step = "confirm"
    /\ job' = [job EXCEPT !.step = "succeed"]
    /\ UNCHANGED << hostVars, faults, row, paused, api, requests >>

\* confirmDeployment.
JobConfirms ==
    /\ job.step = "confirm"
    /\ \/ up /\ AcceptConfirm(job.op) /\ job' = [job EXCEPT !.step = "succeed"] /\ UNCHANGED faults
       \/ (~up \/ ~Confirmable(job.op)) /\ job' = Watch /\ UNCHANGED << hostVars, faults >>
       \/ Fault("lost request") /\ job' = Watch /\ UNCHANGED hostVars
       \/ Fault("lost reply") /\ up /\ (AcceptConfirm(job.op) \/ AcceptConfirmLate(job.op)) /\ job' = Watch
    /\ UNCHANGED << row, paused, api, requests >>

JobSucceeds ==
    /\ job.step = "succeed"
    /\ Transition(job.op, "verifying", [row[job.op] EXCEPT !.status = "succeeded"])
    /\ job' = Watch
    /\ UNCHANGED << hostVars, faults, api, requests >>

\* Mutant: the watchdog looks only at operations without a journal.
JobStallsUnstarted ==
    /\ job.step = "watch"
    /\ current = Nobody
    /\ \E o \in Ops :
         /\ Active(o)
         /\ api.op # o
         /\ Transition(o, row[o].status, [row[o] EXCEPT !.status = "needs_attention"])
    /\ job' = NoEvent
    /\ UNCHANGED << hostVars, faults, api, requests >>

\* ReconcileStalledOperation.
JobStalls ==
    /\ job.step = "watch"
    /\ \E o \in Ops :
         /\ Active(o)
         /\ api.op = o => api.action = "stop"
         /\ Transition(o, row[o].status,
                [row[o] EXCEPT !.status = IF ~Frontend(o) /\ Uncertain(row[o])
                                          THEN "needs_recovery" ELSE "needs_attention"])
    /\ job' = NoEvent
    /\ UNCHANGED << hostVars, faults, api, requests >>

JobRests ==
    /\ job.step = "watch"
    /\ job' = NoEvent
    /\ UNCHANGED << hostVars, faults, row, paused, api, requests >>

\* The Server is recreated: by the upgrade itself, or by a crash.
ServerRestarts ==
    /\ Fault("server restart")
    /\ api' = NoRequest
    /\ job' = NoEvent
    /\ paused' = FALSE
    /\ UNCHANGED << hostVars, row, requests >>

-----------------------------------------------------------------------------

Init ==
    /\ HostInit
    /\ row = [o \in Ops |-> [status |-> "none", migration |-> "not_started", observed |-> FALSE]]
    /\ paused = FALSE
    /\ api = NoRequest
    /\ job = NoEvent
    /\ requests = 0

RequestStep == EnterStopping \/ Prepare \/ RecordCancellation \/ Dispatch \/ MarkUnavailable

JobStep ==
    JobReads \/ JobReconciles \/ JobVerifies \/ JobConfirms \/ JobSucceeds \/ JobRests

Next ==
    \/ HostNext /\ UNCHANGED serverVars
    \/ \E o \in Ops : Create(o) \/ Retry(o) \/ Stop(o)
    \/ RequestStep
    \/ JobStep \/ JobFindsUnreadable \/ JobStalls
    \/ ServerRestarts

Spec == Init /\ [][Next]_vars

\* A request runs to its end, the recovery job polls every two seconds for
\* ever, and a stage that stays the same outlasts the watchdog's window.
FairSpec ==
    /\ Spec
    /\ WF_vars(RequestStep)
    /\ WF_vars(JobStep)
    /\ SF_vars(JobStalls)

-----------------------------------------------------------------------------
(* Properties. *)

Migrations == {"not_started", "running", "succeeded", "failed", "unknown"}
Stages == DOMAIN Rank
Journals == [stage : Stages \ {"stopping"}, migration : Migrations, repair : {"queued", "updating", "restarting"}]
Rows == [status : Stages, migration : Migrations, observed : BOOLEAN]
Requests == [step : {"idle", "stopping", "prepare", "record", "dispatch", "unavailable"},
             op : Ops \cup {Nobody}, action : {"start", "repair", "stop"}, copy : Rows]
Passes == [step : {"idle", "event", "verify", "confirm", "succeed", "watch"},
           op : Ops \cup {Nobody}, stage : Stages, migration : Migrations, observed : BOOLEAN]

\* Rows and journals hold what the code writes into them, and current.json
\* names the one operation that is still open on the host, so a restarted
\* daemon resumes that one and no other.
TypeOK ==
    /\ release \in Plans
    /\ journal \in [Ops -> Journals]
    /\ current \in Ops \cup {Nobody}
    /\ \A o \in Ops : Open(journal[o].stage) => current = o
    /\ receipts \subseteq Ops /\ confirmed \subseteq Ops
    /\ lock \in Ops \cup {"free", "lifecycle"}
    /\ lifecycle \in BOOLEAN /\ up \in BOOLEAN /\ held \in Ops \cup {Nobody}
    /\ execution \in [Ops -> {"idle", "waiting", "working", "finishing"}]
    /\ cancelled \subseteq Ops
    /\ releasing \in BOOLEAN
    /\ migrations \in [Ops -> Nat]
    /\ row \in [Ops -> Rows]
    /\ paused \in BOOLEAN
    /\ api \in Requests /\ (api.op = Nobody => api.step = "idle")
    /\ job \in Passes /\ (job.op = Nobody => job.step \in {"idle", "watch"})
    /\ faults \in 0 .. MaxFaults /\ requests \in 0 .. MaxRequests

\* However often an operation is stopped, interrupted, resumed and repaired,
\* its database migration command is started at most once.
MigrationRunsOnce == \A o \in Ops : migrations[o] <= 1

\* An operation the host ends as "failed" never touched the database: that
\* outcome is the one an administrator retries without a recovery decision.
FailureIsClean == \A o \in Ops : journal[o].stage = "failed" => migrations[o] = 0

\* An operation recorded as succeeded has a completion receipt and, if it
\* migrates, a migration the journal proves, and if it was planned, it is the
\* confirmed deployment of the host.
SuccessIsProven ==
    \A o \in Ops : row[o].status = "succeeded" =>
        /\ o \in receipts
        /\ Migrates(o) => journal[o].migration = "succeeded"
        /\ Planned(o) => o \in confirmed

\* While Compose commands of an operation run, neither a lifecycle command nor
\* another operation changes the deployment, across crashes and restarts of the
\* daemon and whoever owned the lock before.
MutationsNeverOverlap ==
    \A o \in Ops : execution[o] = "working" =>
        /\ lock = o /\ ~lifecycle
        /\ \A p \in Ops \ {o} : execution[p] # "working"

\* A host that waits for the confirmation of a planned operation keeps the
\* deployment lock, so that what is confirmed is what was verified.
ConfirmationIsFenced ==
    \A o \in Ops :
        Planned(o) /\ journal[o].stage = "verifying" /\ o \in receipts /\ up /\ execution[o] = "idle"
            => lock = o

\* What an operation ended as changes only by an administrator's retry, or
\* into needs_recovery; a success stays one.
OutcomesAreFinal ==
    [][\A o \in Ops :
        Terminal(row[o].status) /\ row'[o].status # row[o].status =>
            /\ row[o].status # "succeeded"
            /\ row'[o].status = "needs_recovery" \/ (api'.action = "repair" /\ api'.op = o)]_vars

\* The host ended an operation as failed that its row has as restarting: the
\* recovery job refuses that event each time, and never gets to the watchdog.
Stranded(o) ==
    /\ current = o /\ journal[o].stage = "failed"
    /\ row[o].status \in {"restarting", "agent_verifying"}

\* Every operation ends, unless it is stranded.
OperationsEnd == \A o \in Ops : Active(o) ~> (~Active(o) \/ Stranded(o))

\* A host that ended in needs_recovery is reported as such, whatever the
\* Server had recorded before, unless the operation is repaired or replaced.
RecoveryIsReported ==
    \A o \in Ops :
        (current = o /\ journal[o].stage = "needs_recovery")
            ~> (row[o].status = "needs_recovery" \/ current # o \/ journal[o].stage # "needs_recovery")
=============================================================================
